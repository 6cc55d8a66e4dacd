----------------------------- MODULE DmaEngine ------------------------------
(***************************************************************************)
(* The DMA engine (soc_c/src/soc_dma.c) with the memory and the UART       *)
(* streams it moves bytes between (the bridges of soc_c/src/soc.c and      *)
(* soc_c/src/soc_memory.c) and the interrupt line it raises.               *)
(*                                                                         *)
(* The engine validates at START, counts down ticks, and does all of its   *)
(* I/O in the last tick, with the SRC, DST and LEN of that moment.  ctrl   *)
(* is what CTRL reads as, of the bits START and IRQ_ENABLE; the others are *)
(* stored and never used.  The performance counters are kept by SocBus and *)
(* Soc.                                                                    *)
(***************************************************************************)
EXTENDS DmaCaps, Uart

CONSTANTS Platform,        \* the engine's configuration (see DmaCaps)
          LatencyPerWord,  \* as sanitised by soc_dma_init: at least 1
          Burst,           \*   "
          TXDATA, RXDATA,  \* the UART's FIFO register addresses
          MaxAllocFails    \* bound: ticks in which malloc may fail in a row

SramRegion == Platform.map[2]  \* entry 1 of the C table

ASSUME EngineAssumption ==
  /\ Platform.map \in Seq(Regions)
  /\ Len(Platform.map) >= 2
  /\ LatencyPerWord \in Nat \ {0}
  /\ Burst \in Nat \ {0}
  /\ MaxAllocFails \in Nat

VARIABLES dma, sram

NoErr == "NONE"

DmaType == [src : Uint32, dst : Uint32, length : Uint32,
            ctrl : SUBSET {"START", "IRQ_ENABLE"}, busy : BOOLEAN,
            done : BOOLEAN, error : BOOLEAN,
            err_code : ErrCodes \cup {NoErr}, remaining : Int,
            irq_enable_latched : BOOLEAN, fault_stuck_busy : BOOLEAN]

SramType == [0 .. SramRegion.size - 1 -> Bytes]

soc_dma_reset ==
  [src |-> 0, dst |-> 0, length |-> 0, ctrl |-> {}, busy |-> FALSE,
   done |-> FALSE, error |-> FALSE, err_code |-> NoErr, remaining |-> 0,
   irq_enable_latched |-> FALSE, fault_stuck_busy |-> FALSE]

-----------------------------------------------------------------------------
(* Memory and the two bridges. *)

soc_mem_contains(addr, len) == memory_region_contains(SramRegion, addr, len)

soc_mem_read_bytes(m, addr, len) ==
  [k \in 1 .. len |-> m[addr - SramRegion.base + k - 1]]

soc_mem_write_bytes(m, addr, payload) ==
  LET off == addr - SramRegion.base
  IN  [o \in DOMAIN m |-> IF o \in off .. off + Len(payload) - 1
                          THEN payload[o - off + 1] ELSE m[o]]

ReaderOK(d) == d.src = RXDATA \/ soc_mem_contains(d.src, d.length)

(* Mutant: bytes are copied forward in place, without the buffer, so that  *)
(* an overlapping destination is read after it was written.                *)
Mutant_reader_in_place(d, u, m) ==
  IF d.src = RXDATA THEN RxDrained(u, d.length)
  ELSE [k \in 1 .. d.length |->
          LET ahead == d.dst - d.src
          IN  m[d.src - SramRegion.base
                + (IF ahead > 0 THEN (k - 1) % ahead ELSE k - 1)]]

soc_dma_reader_bridge(d, u, m) ==
  IF d.src = RXDATA THEN RxDrained(u, d.length)
  ELSE soc_mem_read_bytes(m, d.src, d.length)

UartAfterRead(d, u) ==
  IF d.src = RXDATA THEN soc_uart_dma_rx_drain(u, d.length) ELSE u

(* Mutant: the transmit FIFO is no destination of the writer. *)
Mutant_writer_memory_only(d) == soc_mem_contains(d.dst, d.length)

WriterOK(d) == d.dst = TXDATA \/ soc_mem_contains(d.dst, d.length)

-----------------------------------------------------------------------------
(* Terminal flags and the interrupt line. *)

(* Mutant: the interrupt is gated by CTRL instead of the latch of START. *)
Mutant_raised_by_ctrl(d, ic) ==
  IF "IRQ_ENABLE" \in d.ctrl THEN soc_intc_raise(ic, DMA) ELSE ic

Raised(d, ic) == IF d.irq_enable_latched THEN soc_intc_raise(ic, DMA) ELSE ic

soc_dma_fail(d, code) ==
  [d EXCEPT !.busy = FALSE, !.done = FALSE, !.error = TRUE, !.err_code = code]

Completed(d) == [d EXCEPT !.busy = FALSE, !.done = TRUE, !.error = FALSE]

Cleared(d) == [d EXCEPT !.done = FALSE, !.error = FALSE, !.err_code = NoErr]

(* Mutants of soc_dma_start: flags of the last transfer stay, a START of a *)
(* busy engine is not ignored, IRQ_ENABLE is not latched.                  *)
Started(d) ==
  [d EXCEPT !.busy = TRUE,
            !.remaining = transfer_ticks(d.length, LatencyPerWord, Burst)]

Mutant_start_uncleared(d, irq) ==
  LET d1   == [d EXCEPT !.irq_enable_latched = irq]
      code == soc_dma_start_code(Platform, d.src, d.dst, d.length)
  IN  IF d.busy THEN d
      ELSE IF code # "OK" THEN soc_dma_fail(d1, code) ELSE Started(d1)

Mutant_start_while_busy(d, irq) ==
  LET d1   == [Cleared(d) EXCEPT !.irq_enable_latched = irq]
      code == soc_dma_start_code(Platform, d.src, d.dst, d.length)
  IN  IF code # "OK" THEN soc_dma_fail(d1, code) ELSE Started(d1)

Mutant_start_unlatched(d, irq) ==
  LET code == soc_dma_start_code(Platform, d.src, d.dst, d.length)
  IN  IF d.busy THEN d
      ELSE IF code # "OK" THEN soc_dma_fail(Cleared(d), code)
      ELSE Started(Cleared(d))

(* soc_dma_start, as a transformer of the engine; StartIntc is the         *)
(* controller after it.                                                    *)
soc_dma_start(d, irq) ==
  LET d1   == [Cleared(d) EXCEPT !.irq_enable_latched = irq]
      code == soc_dma_start_code(Platform, d.src, d.dst, d.length)
  IN  IF d.busy THEN d
      ELSE IF code # "OK" THEN soc_dma_fail(d1, code)
      ELSE [d1 EXCEPT !.busy = TRUE,
                      !.remaining = transfer_ticks(d.length, LatencyPerWord, Burst)]

StartIntc(d, irq, ic) ==
  IF d.busy \/ ~soc_dma_start(d, irq).error THEN ic
  ELSE Raised(soc_dma_start(d, irq), ic)

IrqBit(irq) == IF irq THEN {"IRQ_ENABLE"} ELSE {}

(* Mutant: the value is stored as it was written. *)
Mutant_start_bit_stays(value) == value

(* What a write of CTRL leaves in the register: START clears itself. *)
CtrlStored(value) == value \ {"START"}

(* A write of CTRL with START set; the rest of CTRL is stored even when a  *)
(* busy engine ignores the START.                                          *)
soc_dma_write_start(d, irq) ==
  [soc_dma_start(d, irq) EXCEPT !.ctrl = CtrlStored({"START"} \cup IrqBit(irq))]

-----------------------------------------------------------------------------
(* One tick of the engine, the last peripheral of the tick: u and ic are   *)
(* the UART and the controller as the others leave them.                   *)

(* Mutant: a countdown that has reached zero without ending is over. *)
Mutant_counting_to_zero(d) ==
  d.busy /\ ~d.fault_stuck_busy /\ d.remaining > 0

Counting(d) == d.busy /\ ~d.fault_stuck_busy

LastTick(d) == Counting(d) /\ d.remaining - 1 <= 0

soc_dma_step_idle(u, ic) ==
  /\ ~LastTick(dma)
  /\ dma' = IF Counting(dma) THEN [dma EXCEPT !.remaining = @ - 1] ELSE dma
  /\ uart' = u
  /\ intc' = ic
  /\ UNCHANGED sram

(* malloc failed: the engine stays busy and tries again in the next tick. *)
soc_dma_step_nomem(u, ic) ==
  /\ LastTick(dma)
  /\ dma.remaining > 1 - MaxAllocFails
  /\ dma' = [dma EXCEPT !.remaining = @ - 1]
  /\ uart' = u
  /\ intc' = ic
  /\ UNCHANGED sram

(* Mutant: the result of the reader is not looked at before writing. *)
Mutant_step_fault_unchecked(u, ic) ==
  /\ LastTick(dma)
  /\ ~(ReaderOK(dma) /\ WriterOK(dma))
  /\ dma' = [soc_dma_fail(dma, "ADDR") EXCEPT !.remaining = @ - 1]
  /\ intc' = Raised(dma, ic)
  /\ uart' = IF dma.dst = TXDATA
             THEN soc_uart_dma_tx_append(u, RxDrained(soc_uart_reset, dma.length))
             ELSE u
  /\ UNCHANGED sram

soc_dma_step_fault(u, ic) ==
  /\ LastTick(dma)
  /\ ~(ReaderOK(dma) /\ WriterOK(dma))
  /\ dma' = [soc_dma_fail(dma, "ADDR") EXCEPT !.remaining = @ - 1]
  /\ intc' = Raised(dma, ic)
  /\ uart' = IF ReaderOK(dma) THEN UartAfterRead(dma, u) ELSE u
  /\ UNCHANGED sram

soc_dma_step_done(u, ic) ==
  LET payload == soc_dma_reader_bridge(dma, u, sram)
      drained == UartAfterRead(dma, u)
  IN  /\ LastTick(dma)
      /\ ReaderOK(dma)
      /\ WriterOK(dma)
      /\ dma' = [Completed(dma) EXCEPT !.remaining = @ - 1]
      /\ intc' = Raised(dma, ic)
      /\ uart' = IF dma.dst = TXDATA
                 THEN soc_uart_dma_tx_append(drained, payload) ELSE drained
      /\ sram' = IF dma.dst = TXDATA THEN sram
                 ELSE soc_mem_write_bytes(sram, dma.dst, payload)

soc_dma_step(u, ic) ==
  \/ soc_dma_step_idle(u, ic)
  \/ soc_dma_step_nomem(u, ic)
  \/ soc_dma_step_fault(u, ic)
  \/ soc_dma_step_done(u, ic)

-----------------------------------------------------------------------------
(* Register writes and the other ways in which the rest of the program     *)
(* reaches the engine.                                                     *)

soc_dma_write_src(a) ==
  /\ dma' = [dma EXCEPT !.src = a]
  /\ UNCHANGED <<uart, intc, sram>>

soc_dma_write_dst(a) ==
  /\ dma' = [dma EXCEPT !.dst = a]
  /\ UNCHANGED <<uart, intc, sram>>

soc_dma_write_len(n) ==
  /\ dma' = [dma EXCEPT !.length = n]
  /\ UNCHANGED <<uart, intc, sram>>

soc_dma_write_ctrl(start, irq) ==
  /\ dma' = IF start THEN soc_dma_write_start(dma, irq)
            ELSE [dma EXCEPT !.ctrl = CtrlStored(IrqBit(irq))]
  /\ intc' = IF start THEN StartIntc(dma, irq, intc) ELSE intc
  /\ UNCHANGED <<uart, sram>>

soc_dma_write_irq_clear ==
  /\ dma' = Cleared(dma)
  /\ UNCHANGED <<uart, intc, sram>>

(* The fault-injection latch, and the reset that is its remedy. *)
SetStuck(on) ==
  /\ dma' = [dma EXCEPT !.fault_stuck_busy = on]
  /\ UNCHANGED <<uart, intc, sram>>

soc_reset_peripherals ==
  /\ dma' = soc_dma_reset
  /\ uart' = soc_uart_reset
  /\ intc' = soc_intc_reset
  /\ UNCHANGED sram

(* The test hook that latches an error; it decides on CTRL whether to      *)
(* raise the line.                                                         *)
vlab_test_dma_error(code) ==
  /\ dma' = soc_dma_fail(dma, code)
  /\ intc' = IF "IRQ_ENABLE" \in dma.ctrl
             THEN soc_intc_raise(intc, DMA) ELSE intc
  /\ UNCHANGED <<uart, sram>>

=============================================================================
