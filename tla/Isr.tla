-------------------------------- MODULE Isr ---------------------------------
(***************************************************************************)
(* The interrupt dispatcher of the firmware (firmware/isr/isr.c) on top of *)
(* the interrupt controller.  isr_dispatch is split at the one point where *)
(* other code runs in the middle of it: the call of the registered         *)
(* handler.  A handler of the application ("app") is client code and may   *)
(* do whatever client code may do between two calls: raise lines (by       *)
(* starting and stepping a peripheral), program the controller, and even   *)
(* register or configure.  It does not call isr_dispatch itself.           *)
(*                                                                         *)
(* isr.pc is "idle" outside isr_dispatch, "loop" at the head of its loop   *)
(* and "handler" while a handler runs; i, line, h and handled are its      *)
(* local variables.                                                        *)
(***************************************************************************)
EXTENDS Intc, U32

CONSTANTS ISR_MAX_LINES, \* size of the vector table, 8 in the code
          Handlers,      \* what may be registered, "none" (NULL) included
          LineCounts     \* the counts the platform passes to isr_configure

VLAB_IRQ_COUNT == 3

ASSUME IsrAssumption ==
  /\ ISR_MAX_LINES \in Nat
  /\ ISR_MAX_LINES >= VLAB_IRQ_COUNT
  /\ "none" \in Handlers
  /\ LineCounts \subseteq Nat

VARIABLE isr

Vectors == 0 .. ISR_MAX_LINES - 1

NoVectors == [v \in Vectors |-> "none"]

IsrType == [n_lines    : 1 .. ISR_MAX_LINES,
            vector     : [Vectors -> Handlers],
            dispatched : Counter,
            pc         : {"idle", "loop", "handler"},
            i          : 0 .. ISR_MAX_LINES,
            line       : Lines,
            h          : Handlers,
            handled    : 0 .. ISR_MAX_LINES]

IsrInit ==
  isr = [n_lines |-> VLAB_IRQ_COUNT, vector |-> NoVectors, dispatched |-> 0,
         pc |-> "idle", i |-> 0, line |-> UART, h |-> "none", handled |-> 0]

(* Client code is running: the main line, or an application handler. *)
ClientRuns == isr.pc = "idle" \/ (isr.pc = "handler" /\ isr.h = "app")

-----------------------------------------------------------------------------
(* The set-up calls. *)

(* Mutant: a count beyond the vector table is accepted. *)
Mutant_configure_unbounded(n) ==
  /\ ClientRuns
  /\ isr' = IF n # 0 THEN [isr EXCEPT !.n_lines = n, !.vector = NoVectors]
            ELSE isr
  /\ UNCHANGED intc

isr_configure(n) ==
  /\ ClientRuns
  /\ isr' = IF n \in 1 .. ISR_MAX_LINES
            THEN [isr EXCEPT !.n_lines = n, !.vector = NoVectors]
            ELSE isr
  /\ UNCHANGED intc

isr_register(line, h) ==
  /\ ClientRuns
  /\ isr' = IF line < isr.n_lines THEN [isr EXCEPT !.vector[line] = h] ELSE isr
  /\ UNCHANGED intc

-----------------------------------------------------------------------------
(* isr_dispatch.  Leave is the return, Finished the end of an iteration    *)
(* after the handler: CLEAR, the two counts, and i++.                      *)

Leave(s) == [s EXCEPT !.pc = "idle", !.i = 0, !.line = UART, !.h = "none",
                      !.handled = 0]

(* Mutant: an iteration that handled a line does not count. *)
Mutant_finished_uncounted(s) ==
  [s EXCEPT !.pc = "loop", !.dispatched = Bump(@, 1), !.line = UART,
            !.h = "none"]

Finished(s) == [s EXCEPT !.pc = "loop", !.i = @ + 1, !.handled = @ + 1,
                         !.dispatched = Bump(@, 1), !.line = UART,
                         !.h = "none"]

isr_dispatch_call ==
  /\ isr.pc = "idle"
  /\ isr' = [isr EXCEPT !.pc = "loop"]
  /\ UNCHANGED intc

(* Mutant: the loop stops one line early. *)
Mutant_full_early ==
  /\ isr.pc = "loop"
  /\ isr.i + 1 >= isr.n_lines
  /\ isr' = Leave(isr)
  /\ UNCHANGED intc

isr_dispatch_full ==
  /\ isr.pc = "loop"
  /\ isr.i >= isr.n_lines
  /\ isr' = Leave(isr)
  /\ UNCHANGED intc

(* What the ACK read of this iteration returns, and whether the dispatcher *)
(* breaks out of the loop on it.                                           *)
AckLine == soc_intc_highest(intc)

AckBreaks == AckLine = IRQ_NONE \/ AckLine >= isr.n_lines

isr_dispatch_break ==
  /\ isr.pc = "loop"
  /\ isr.i < isr.n_lines
  /\ AckBreaks
  /\ intc' = soc_intc_ack(intc)
  /\ isr' = Leave(isr)

(* Mutants: a line without handler is not cleared, or the loop bound is    *)
(* not tested for it.                                                      *)
Mutant_unhandled_uncleared ==
  /\ isr.pc = "loop"
  /\ isr.i < isr.n_lines
  /\ ~AckBreaks
  /\ isr.vector[AckLine] = "none"
  /\ intc' = soc_intc_ack(intc)
  /\ isr' = Finished(isr)

Mutant_unhandled_unbounded ==
  /\ isr.pc = "loop"
  /\ ~AckBreaks
  /\ isr.vector[AckLine] = "none"
  /\ intc' = soc_intc_write_clear(soc_intc_ack(intc), AckLine)
  /\ isr' = Finished(isr)

isr_dispatch_unhandled ==
  /\ isr.pc = "loop"
  /\ isr.i < isr.n_lines
  /\ ~AckBreaks
  /\ isr.vector[AckLine] = "none"
  /\ intc' = soc_intc_write_clear(soc_intc_ack(intc), AckLine)
  /\ isr' = Finished(isr)

isr_dispatch_enter ==
  /\ isr.pc = "loop"
  /\ isr.i < isr.n_lines
  /\ ~AckBreaks
  /\ isr.vector[AckLine] # "none"
  /\ intc' = soc_intc_ack(intc)
  /\ isr' = [isr EXCEPT !.pc = "handler", !.line = AckLine,
                        !.h = isr.vector[AckLine]]

isr_dispatch_leave_app ==
  /\ isr.pc = "handler"
  /\ isr.h = "app"
  /\ intc' = soc_intc_write_clear(intc, isr.line)
  /\ isr' = Finished(isr)

DispatchStep ==
  \/ isr_dispatch_full
  \/ isr_dispatch_break
  \/ isr_dispatch_unhandled
  \/ isr_dispatch_enter
  \/ isr_dispatch_leave_app

-----------------------------------------------------------------------------
(* What client code does to the controller: a peripheral it steps, or the  *)
(* raise hook, makes a line pending; intc_enable and intc_clear write the  *)
(* registers (firmware/drivers/intc.c).                                    *)

RaiseLine(line) ==
  /\ ClientRuns
  /\ intc' = soc_intc_raise(intc, line)
  /\ UNCHANGED isr

intc_enable(mask) ==
  /\ ClientRuns
  /\ intc' = soc_intc_write_enable(intc, mask)
  /\ UNCHANGED isr

intc_clear(line) ==
  /\ ClientRuns
  /\ intc' = soc_intc_write_clear(intc, line)
  /\ UNCHANGED isr

-----------------------------------------------------------------------------
(* The dispatcher under an arbitrary client.  Only the dispatcher's own    *)
(* steps are fair: a call of isr_dispatch runs to its end and handlers     *)
(* return, but nobody has to raise, enable or configure anything.          *)

isrVars == <<intc, isr>>

IsrInitState == IsrInit /\ intc = soc_intc_reset

IsrNext ==
  \/ isr_dispatch_call
  \/ DispatchStep
  \/ \E l \in Lines : RaiseLine(l)
  \/ \E mask \in SUBSET Lines : intc_enable(mask)
  \/ \E l \in Lines : intc_clear(l)
  \/ \E n \in LineCounts : isr_configure(n)
  \/ \E l \in Lines, h \in Handlers : isr_register(l, h)

IsrSpec == IsrInitState /\ [][IsrNext]_isrVars

DispatchFairness == WF_isrVars(DispatchStep) /\ WF_isrVars(isr_dispatch_call)

-----------------------------------------------------------------------------
(* The types of the controller and of the dispatcher. *)
IsrTypeOK == intc \in IntcType /\ isr \in IsrType

(* Lines that some configured line count leaves to nobody: the dispatcher  *)
(* acknowledges such a line and then neither handles nor clears it.        *)
ForeignLines == {l \in Lines : \E n \in LineCounts \cap (1 .. ISR_MAX_LINES) : l >= n}

(* No line stays ACTIVE behind the dispatcher's back: outside a handler    *)
(* every line that isr_dispatch acknowledged has been cleared again, also  *)
(* when the handler reprograms the controller or reconfigures the vector   *)
(* table under the running loop.  The one exception is the break of        *)
(* isr.c:39, which keeps a line that is no line of the configuration.      *)
ActiveExplained ==
  \A l \in intc.active :
    l \in ForeignLines \/ (isr.pc = "handler" /\ l = isr.line)

(* isr_dispatch is bounded (isr.c:35-37): it returns even if every handler *)
(* re-raises its own line, whatever it does to the vector table.           *)
DispatchReturns == isr.pc # "idle" ~> isr.pc = "idle"

(* No starvation beyond priority: a line of the configured platform that   *)
(* stays enabled is acknowledged in the end, unless lines of higher        *)
(* priority keep being raised for ever.  Several calls of isr_dispatch may *)
(* be needed, as each serves at most n_lines lines.                        *)
HigherRaised(l) ==
  \E m \in Lines : kPriority[m] < kPriority[l] /\ m \in intc'.pending \ intc.pending

NoStarvation ==
  \A l \in Lines :
    <>[][~HigherRaised(l)]_isrVars =>
      ([](l \in intc.pending => <>(l \notin intc.pending \/ l \notin intc.enable)))

(* isr.h:35-36, "Always ACKs and clears each line": after isr_dispatch has *)
(* returned no line it acknowledged is still ACTIVE.                       *)
EveryAckIsCleared == isr.pc = "idle" => intc.active = {}

=============================================================================
