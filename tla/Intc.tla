-------------------------------- MODULE Intc --------------------------------
(***************************************************************************)
(* The interrupt controller (soc_c/src/soc_intc.c).  Three lines with a    *)
(* fixed priority; each of the registers ENABLE, PENDING and ACTIVE is the *)
(* set of the lines whose bit is set.  A peripheral raises a line into     *)
(* PENDING, where raises coalesce.  Reading ACK moves the highest line     *)
(* that is pending and enabled from PENDING to ACTIVE, and writing CLEAR   *)
(* removes a line from ACTIVE.  The count of ACKs is kept by SocBus.       *)
(***************************************************************************)
EXTENDS Integers

VARIABLE intc

UART  == 0
TIMER == 1
DMA   == 2
Lines == {UART, TIMER, DMA}

(* 0xFFFFFFFF, what ACK returns when no line is pending and enabled. *)
IRQ_NONE == -1

IntcType == [enable : SUBSET Lines, pending : SUBSET Lines,
             active : SUBSET Lines]

soc_intc_reset == [enable |-> {}, pending |-> {}, active |-> {}]

soc_intc_raise(ic, line) ==
  IF line \in Lines THEN [ic EXCEPT !.pending = @ \cup {line}] ELSE ic

(* kPriority: the position of each line in the search order of the code. *)
kPriority == [l \in Lines |-> CASE l = TIMER -> 1 [] l = DMA -> 2 [] l = UART -> 3]

Gated(ic) == ic.pending \cap ic.enable

(* Mutant: the search order of the lines reversed. *)
Mutant_highest_reversed(ic) ==
  IF Gated(ic) = {} THEN IRQ_NONE
  ELSE CHOOSE l \in Gated(ic) :
         \A m \in Gated(ic) : kPriority[l] >= kPriority[m]

soc_intc_highest(ic) ==
  IF Gated(ic) = {} THEN IRQ_NONE
  ELSE CHOOSE l \in Gated(ic) :
         \A m \in Gated(ic) : kPriority[l] <= kPriority[m]

(* A read of ACK: the controller after it; the value read is               *)
(* soc_intc_highest of the controller before it.                           *)
soc_intc_ack(ic) ==
  LET line == soc_intc_highest(ic)
  IN  IF line = IRQ_NONE THEN ic
      ELSE [ic EXCEPT !.pending = @ \ {line}, !.active = @ \cup {line}]

soc_intc_write_enable(ic, mask) == [ic EXCEPT !.enable = mask \cap Lines]

(* Mutant: CLEAR also takes back a pending interrupt. *)
Mutant_clear_pending(ic, line) ==
  [ic EXCEPT !.active = @ \ {line}, !.pending = @ \ {line}]

(* A write of CLEAR; a number that is no line removes nothing. *)
soc_intc_write_clear(ic, line) == [ic EXCEPT !.active = @ \ {line}]

=============================================================================
