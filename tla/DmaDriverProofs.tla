-------------------------- MODULE DmaDriverProofs ---------------------------
(***************************************************************************)
(* Proofs about the DMA driver: the invariants of the disciplined client,  *)
(* the refinement of the lifecycle under that client, what survives under  *)
(* the open client, and the same for the driver on silicon, where the      *)
(* critical sections keep dma_isr out of its calls.                        *)
(***************************************************************************)
EXTENDS DmaPreempt, CommonProofs

-----------------------------------------------------------------------------
(* The pieces of isr_dispatch (firmware/isr/isr.c). *)

(* The end of an iteration of isr_dispatch returns to the loop head and    *)
(* changes no vector.                                                      *)
LEMMA FinishedFacts ==
  ASSUME NEW s \in IsrType, s.i < ISR_MAX_LINES, s.handled = s.i
  PROVE  /\ Finished(s) \in IsrType
         /\ Finished(s).pc = "loop"
         /\ Finished(s).n_lines = s.n_lines
         /\ Finished(s).vector = s.vector
         /\ Finished(s).handled = Finished(s).i
<1>1. Bump(s.dispatched, 1) \in Counter
  BY BumpIsCounter DEF IsrType
<1>2. s.i + 1 \in 0 .. ISR_MAX_LINES /\ s.handled + 1 = s.i + 1
  BY IsrAssumption DEF IsrType
<1>3. UART \in Lines /\ "none" \in Handlers
  BY IsrAssumption DEF Lines
<1> QED BY <1>1, <1>2, <1>3 DEF Finished, IsrType

(* Returning from isr_dispatch changes no vector. *)
LEMMA LeaveFacts ==
  ASSUME NEW s \in IsrType
  PROVE  /\ Leave(s) \in IsrType
         /\ Leave(s).pc = "idle"
         /\ Leave(s).n_lines = s.n_lines
         /\ Leave(s).vector = s.vector
         /\ Leave(s).handled = Leave(s).i
<1>1. 0 \in 0 .. ISR_MAX_LINES /\ UART \in Lines /\ "none" \in Handlers
  BY IsrAssumption DEF Lines
<1> QED BY <1>1 DEF Leave, IsrType

(* Every line has an entry in the vector table. *)
LEMMA LinesAreVectors == Lines \subseteq Vectors
BY IsrAssumption DEF Lines, Vectors, UART, TIMER, DMA, VLAB_IRQ_COUNT

-----------------------------------------------------------------------------
(***************************************************************************)
(* The inductive invariant.  NoLostCompletion alone is not inductive: that *)
(* a completion raises the line needs the latch of a busy engine, that the *)
(* line once acknowledged is handled needs dma_isr in the vector table,    *)
(* and that a new transfer starts clean needs a quiet engine in IDLE.      *)
(***************************************************************************)

(* A busy engine has no terminal flag and will raise the line; the error   *)
(* flag and the error code go together.                                    *)
EngineInv ==
  /\ dma.busy => /\ ~dma.done /\ ~dma.error
                 /\ dma.irq_enable_latched /\ "IRQ_ENABLE" \in dma.ctrl
  /\ ~(dma.done /\ dma.error)
  /\ dma.error <=> dma.err_code # NoErr

(* dma_isr serves the DMA line and no other. *)
DispatchInv ==
  /\ isr.n_lines = VLAB_IRQ_COUNT
  /\ isr.vector[DMA] = "dma_isr"
  /\ isr.vector[UART] # "dma_isr"
  /\ isr.vector[TIMER] # "dma_isr"
  /\ isr.pc = "handler" => /\ isr.h = "dma_isr" <=> isr.line = DMA
                           /\ isr.i < isr.n_lines
  /\ isr.handled = isr.i

IInv ==
  /\ TypeOK
  /\ EngineInv
  /\ DispatchInv
  /\ NoLostCompletion
  /\ QuietUnlessActive
  /\ FlagsMatchState

-----------------------------------------------------------------------------
(* The engine. *)

(* What a write stores in CTRL: the bit IRQ_ENABLE, and never START. *)
LEMMA CtrlFacts ==
  ASSUME NEW irq \in BOOLEAN
  PROVE  /\ CtrlStored({"START"} \cup IrqBit(irq)) = IrqBit(irq)
         /\ CtrlStored(IrqBit(irq)) = IrqBit(irq)
         /\ IrqBit(irq) \in SUBSET {"START", "IRQ_ENABLE"}
         /\ "START" \notin IrqBit(irq)
         /\ "IRQ_ENABLE" \in IrqBit(irq) <=> irq
BY DEF CtrlStored, IrqBit

(* A START of an idle engine with a request it accepts: the engine is      *)
(* busy, without flags, and will raise the line.                           *)
LEMMA AcceptedStart ==
  ASSUME NEW d \in DmaType, ~d.busy, NEW ic,
         soc_dma_start_code(Platform, d.src, d.dst, d.length) = "OK"
  PROVE  LET e == soc_dma_write_start(d, TRUE)
         IN  /\ e \in DmaType
             /\ e.busy /\ ~e.done /\ ~e.error /\ e.err_code = NoErr
             /\ e.irq_enable_latched /\ "IRQ_ENABLE" \in e.ctrl
             /\ StartIntc(d, TRUE, ic) = ic
<1> DEFINE n == transfer_ticks(d.length, LatencyPerWord, Burst)
<1>1. n \in Int
  BY TicksAreInt, EngineAssumption, WidthAssumption DEF DmaType, Uint32
<1>2. soc_dma_start(d, TRUE) =
        [Cleared(d) EXCEPT !.irq_enable_latched = TRUE, !.busy = TRUE,
                           !.remaining = n]
  BY DEF soc_dma_start, Cleared, DmaType
<1> DEFINE bits == CtrlStored({"START"} \cup IrqBit(TRUE))
<1>5. bits \in SUBSET {"START", "IRQ_ENABLE"} /\ "IRQ_ENABLE" \in bits
  BY DEF CtrlStored, IrqBit
<1>6. soc_dma_write_start(d, TRUE) =
        [soc_dma_start(d, TRUE) EXCEPT !.ctrl = bits]
  BY DEF soc_dma_write_start
<1> HIDE DEF n, bits
<1>3. LET e == soc_dma_write_start(d, TRUE)
      IN  /\ e \in DmaType
          /\ e.busy /\ ~e.done /\ ~e.error /\ e.err_code = NoErr
          /\ e.irq_enable_latched /\ "IRQ_ENABLE" \in e.ctrl
  <2> DEFINE e0 == soc_dma_start(d, TRUE)
  <2>1. /\ e0 \in DmaType
        /\ e0.busy /\ ~e0.done /\ ~e0.error /\ e0.err_code = NoErr
        /\ e0.irq_enable_latched
    BY <1>1, <1>2 DEF Cleared, DmaType
  <2>2. soc_dma_write_start(d, TRUE) = [e0 EXCEPT !.ctrl = bits]
    BY <1>6
  <2> HIDE DEF e0
  <2> QED BY <1>5, <2>1, <2>2 DEF DmaType
<1>4. StartIntc(d, TRUE, ic) = ic
  BY <1>2 DEF StartIntc, Cleared, DmaType
<1> QED BY <1>3, <1>4

(* What the driver's validation lets through, the engine accepts: after    *)
(* the register writes of dma_submit it is busy, without flags, and will   *)
(* raise the line.  This is where ValidationAgrees is used.                *)
LEMMA LaunchFacts ==
  ASSUME TypeOK, NEW src \in Uint32, NEW dst \in Uint32, NEW len \in Uint32,
         Valid(src, dst, len), Launch(src, dst, len, TRUE)
  PROVE  /\ ~dma.busy
         /\ dma' \in DmaType
         /\ dma'.busy /\ ~dma'.done /\ ~dma'.error /\ dma'.err_code = NoErr
         /\ dma'.irq_enable_latched /\ "IRQ_ENABLE" \in dma'.ctrl
         /\ intc' = intc
<1> DEFINE d == Programmed(dma, src, dst, len)
<1>1. ~dma.busy
  BY DEF Valid, validate
<1>2. drv.cfg = Platform
  BY DEF TypeOK, DrvType
<1>3. soc_dma_start_code(Platform, src, dst, len) = "OK"
  <2>1. validate(Platform, FALSE, src, dst, len) = "OK"
    BY <1>1, <1>2 DEF Valid, TypeOK, DmaType
  <2> QED BY <2>1, ValidationAgrees, DriverAssumption
<1>4. d \in DmaType /\ d.src = src /\ d.dst = dst /\ d.length = len /\ ~d.busy
  BY <1>1 DEF Programmed, TypeOK, DmaType
<1>5. dma' = soc_dma_write_start(d, TRUE) /\ intc' = StartIntc(d, TRUE, intc)
  BY DEF Launch
<1> HIDE DEF d
<1> QED BY <1>1, <1>3, <1>4, <1>5, AcceptedStart

(* soc_dma_fail ends the transfer with the error flag and its code. *)
LEMMA FailFacts ==
  ASSUME NEW d \in DmaType, NEW code \in ErrCodes
  PROVE  LET e == soc_dma_fail(d, code)
         IN  /\ e \in DmaType
             /\ ~e.busy /\ ~e.done /\ e.error /\ e.err_code = code
             /\ e.irq_enable_latched = d.irq_enable_latched
             /\ e.ctrl = d.ctrl
BY DEF soc_dma_fail, DmaType

(* A completed transfer has DONE set and keeps its latch. *)
LEMMA CompletedFacts ==
  ASSUME NEW d \in DmaType
  PROVE  LET e == Completed(d)
         IN  /\ e \in DmaType
             /\ ~e.busy /\ e.done /\ ~e.error /\ e.err_code = d.err_code
             /\ e.irq_enable_latched = d.irq_enable_latched
             /\ e.ctrl = d.ctrl
BY DEF Completed, DmaType

(* IRQ_CLEAR removes the terminal flags and the error code, and does not   *)
(* end a transfer in progress.                                             *)
LEMMA ClearedFacts ==
  ASSUME NEW d \in DmaType
  PROVE  LET e == Cleared(d)
         IN  /\ e \in DmaType
             /\ ~e.done /\ ~e.error /\ e.err_code = NoErr
             /\ e.busy = d.busy
             /\ e.irq_enable_latched = d.irq_enable_latched
             /\ e.ctrl = d.ctrl
BY DEF Cleared, DmaType

CountedDown(d) == [d EXCEPT !.remaining = @ - 1]

(* Counting changes no flag of the engine. *)
LEMMA CountedDownFacts ==
  ASSUME NEW d \in DmaType
  PROVE  LET e == CountedDown(d)
         IN  /\ e \in DmaType
             /\ e.busy = d.busy /\ e.done = d.done /\ e.error = d.error
             /\ e.err_code = d.err_code
             /\ e.irq_enable_latched = d.irq_enable_latched
             /\ e.ctrl = d.ctrl
BY DEF CountedDown, DmaType

(* One tick of a well-typed engine: it counts, or ends with a terminal     *)
(* flag and raises the line if the latch says so.                          *)
LEMMA StepFacts ==
  ASSUME dma \in DmaType, intc \in IntcType, EngineInv,
         soc_dma_step(uart, intc)
  PROVE  /\ dma' \in DmaType
         /\ intc' \in IntcType
         /\ dma'.irq_enable_latched = dma.irq_enable_latched
         /\ dma'.ctrl = dma.ctrl
         /\ intc.pending \subseteq intc'.pending
         /\ \/ /\ dma'.busy = dma.busy /\ dma'.done = dma.done
               /\ dma'.error = dma.error /\ dma'.err_code = dma.err_code
               /\ intc' = intc /\ (~dma.busy => dma' = dma)
            \/ /\ dma.busy /\ ~dma'.busy /\ DMA \in intc'.pending
               /\ \/ dma'.done /\ ~dma'.error /\ dma'.err_code = NoErr
                  \/ ~dma'.done /\ dma'.error /\ dma'.err_code = "ADDR"
<1> DEFINE raised == soc_intc_raise(intc, DMA)
<1>1. /\ raised \in IntcType
      /\ raised.pending = intc.pending \cup {DMA}
  BY RaiseFacts DEF Lines
<1>2. dma.busy => Raised(dma, intc) = raised
  BY DEF Raised, EngineInv
<1>3. CASE soc_dma_step_idle(uart, intc)
  <2>1. /\ dma' = IF Counting(dma) THEN CountedDown(dma) ELSE dma
        /\ intc' = intc
    BY <1>3 DEF soc_dma_step_idle, CountedDown
  <2>2. CASE Counting(dma)
    BY <2>1, <2>2, CountedDownFacts DEF Counting
  <2>3. CASE ~Counting(dma)
    BY <2>1, <2>3
  <2> QED BY <2>2, <2>3
<1>4. CASE soc_dma_step_nomem(uart, intc)
  <2>1. dma' = CountedDown(dma) /\ intc' = intc /\ dma.busy
    BY <1>4 DEF soc_dma_step_nomem, LastTick, Counting, CountedDown
  <2> QED BY <2>1, CountedDownFacts
<1>5. CASE soc_dma_step_fault(uart, intc)
  <2> HIDE DEF raised
  <2>1. dma.busy /\ intc' = raised
    BY <1>2, <1>5 DEF soc_dma_step_fault, LastTick, Counting
  <2>2. dma' = CountedDown(soc_dma_fail(dma, "ADDR"))
    BY <1>5 DEF soc_dma_step_fault, CountedDown
  <2>3. "ADDR" \in ErrCodes
    BY DEF ErrCodes
  <2>4. LET e == soc_dma_fail(dma, "ADDR")
        IN  /\ e \in DmaType
            /\ ~e.busy /\ ~e.done /\ e.error /\ e.err_code = "ADDR"
            /\ e.irq_enable_latched = dma.irq_enable_latched
            /\ e.ctrl = dma.ctrl
    BY <2>3, FailFacts
  <2> QED BY <1>1, <2>1, <2>2, <2>4, CountedDownFacts
<1>6. CASE soc_dma_step_done(uart, intc)
  <2> HIDE DEF raised
  <2>1. dma.busy /\ intc' = raised
    BY <1>2, <1>6 DEF soc_dma_step_done, LastTick, Counting
  <2>2. dma' = CountedDown(Completed(dma))
    BY <1>6 DEF soc_dma_step_done, CountedDown
  <2>3. dma.err_code = NoErr
    BY <2>1 DEF EngineInv
  <2>4. LET e == Completed(dma)
        IN  /\ e \in DmaType
            /\ ~e.busy /\ e.done /\ ~e.error /\ e.err_code = NoErr
            /\ e.irq_enable_latched = dma.irq_enable_latched
            /\ e.ctrl = dma.ctrl
    BY <2>3, CompletedFacts
  <2> QED BY <1>1, <2>1, <2>2, <2>4, CountedDownFacts
<1> QED BY <1>3, <1>4, <1>5, <1>6 DEF soc_dma_step

-----------------------------------------------------------------------------
(* The dispatcher. *)

(* dma_isr runs; the DMA interrupt is on its way: pending, or dma_isr runs. *)
InDmaIsr == isr.pc = "handler" /\ isr.h = "dma_isr"

Signalled == DMA \in intc.pending \/ InDmaIsr

(* A step of the controller and the dispatcher alone keeps the invariant   *)
(* if it keeps theirs and loses no DMA interrupt.                          *)
LEMMA SignalKept ==
  ASSUME IInv, UNCHANGED <<dma, drv>>, intc' \in IntcType, isr' \in IsrType,
         DispatchInv', Signalled => Signalled'
  PROVE  IInv'
<1>1. TypeOK' /\ EngineInv' /\ QuietUnlessActive' /\ FlagsMatchState'
  BY DEF IInv, TypeOK, EngineInv, QuietUnlessActive, FlagsMatchState
<1>2. NoLostCompletion'
  BY DEF IInv, NoLostCompletion, Signalled, InDmaIsr
<1> QED BY <1>1, <1>2 DEF IInv

(* The steps of isr_dispatch other than dma_isr itself take the DMA line   *)
(* from PENDING only to run dma_isr.                                       *)
LEMMA DispatchFacts ==
  ASSUME intc \in IntcType, isr \in IsrType, DispatchInv, DispatchStep
  PROVE  /\ intc' \in IntcType /\ isr' \in IsrType /\ DispatchInv'
         /\ ~InDmaIsr
         /\ InDmaIsr' => DMA \in intc.pending /\ DMA \notin intc'.pending
         /\ ~InDmaIsr' => (DMA \in intc'.pending <=> DMA \in intc.pending)
<1>2. isr.n_lines = 3 /\ isr.n_lines <= ISR_MAX_LINES
      /\ isr.i \in Int /\ isr.handled = isr.i /\ ISR_MAX_LINES \in Nat
  BY IsrAssumption DEF DispatchInv, VLAB_IRQ_COUNT, IsrType
<1>3. CASE isr_dispatch_full
  <2>1. isr' = Leave(isr) /\ intc' = intc /\ isr.pc = "loop"
    BY <1>3 DEF isr_dispatch_full
  <2> QED BY <2>1, LeaveFacts DEF DispatchInv, InDmaIsr
<1>4. CASE isr_dispatch_break
  <2>1. isr' = Leave(isr) /\ intc' = soc_intc_ack(intc) /\ isr.pc = "loop"
        /\ AckBreaks
    BY <1>4 DEF isr_dispatch_break
  <2>2. soc_intc_highest(intc) = IRQ_NONE
    BY <1>2, <2>1, AckFacts
       DEF AckBreaks, AckLine, Lines, UART, TIMER, DMA
  <2> QED BY <2>1, <2>2, LeaveFacts, AckFacts DEF DispatchInv, InDmaIsr
<1>5. CASE isr_dispatch_unhandled
  <2>1. /\ isr' = Finished(isr) /\ isr.pc = "loop" /\ isr.i < isr.n_lines
        /\ intc' = soc_intc_write_clear(soc_intc_ack(intc), AckLine)
        /\ AckLine # IRQ_NONE /\ isr.vector[AckLine] = "none"
    BY <1>5 DEF isr_dispatch_unhandled, AckBreaks
  <2>2. isr.i < ISR_MAX_LINES
    BY <1>2, <2>1
  <2>3. AckLine # DMA
    BY <2>1 DEF DispatchInv
  <2>4. intc' \in IntcType /\ intc'.pending = intc.pending \ {AckLine}
    BY <2>1, AckFacts, ClearFacts DEF AckLine
  <2> QED BY <1>2, <2>1, <2>2, <2>3, <2>4, FinishedFacts DEF DispatchInv, InDmaIsr
<1>6. CASE isr_dispatch_enter
  <2>1. /\ isr.pc = "loop" /\ isr.i < isr.n_lines /\ AckLine # IRQ_NONE
        /\ isr.vector[AckLine] # "none"
        /\ intc' = soc_intc_ack(intc)
        /\ isr' = [isr EXCEPT !.pc = "handler", !.line = AckLine,
                              !.h = isr.vector[AckLine]]
    BY <1>6 DEF isr_dispatch_enter, AckBreaks
  <2>2. AckLine \in Lines /\ intc' \in IntcType
        /\ intc'.pending = intc.pending \ {AckLine}
    BY <2>1, AckFacts DEF AckLine
  <2>3. isr.vector[AckLine] \in Handlers /\ AckLine \in intc.pending
    BY <2>1, <2>2, LinesAreVectors, HighestIsGated DEF IsrType, AckLine, Gated
  <2>4. isr.vector[AckLine] = "dma_isr" <=> AckLine = DMA
    BY <2>2 DEF DispatchInv, Lines
  <2>5. isr' \in IsrType /\ isr'.pc = "handler" /\ isr'.h = isr.vector[AckLine]
    BY <2>1, <2>2, <2>3 DEF IsrType
  <2>6. DispatchInv'
    BY <2>1, <2>2, <2>4 DEF DispatchInv, IsrType
  <2> QED BY <2>1, <2>2, <2>3, <2>4, <2>5, <2>6 DEF InDmaIsr
<1>7. CASE isr_dispatch_leave_app
  <2>1. /\ isr.pc = "handler" /\ isr.h = "app"
        /\ intc' = soc_intc_write_clear(intc, isr.line)
        /\ isr' = Finished(isr)
    BY <1>7 DEF isr_dispatch_leave_app
  <2>2. isr.i < ISR_MAX_LINES
    BY <1>2, <2>1 DEF DispatchInv
  <2>3. intc' \in IntcType /\ intc'.pending = intc.pending
    BY <2>1, ClearFacts
  <2> QED BY <1>2, <2>1, <2>2, <2>3, FinishedFacts DEF DispatchInv, InDmaIsr
<1> QED BY <1>3, <1>4, <1>5, <1>6, <1>7 DEF DispatchStep

(* They keep the invariant. *)
LEMMA DispatchKeeps ==
  ASSUME IInv, DispatchStep, DriverIdle
  PROVE  IInv'
<1>1. intc \in IntcType /\ isr \in IsrType /\ DispatchInv
  BY DEF IInv, TypeOK
<1>2. /\ intc' \in IntcType /\ isr' \in IsrType /\ DispatchInv'
      /\ Signalled => Signalled'
  BY <1>1, DispatchFacts DEF Signalled
<1> QED BY <1>2, SignalKept DEF DriverIdle

(* A registration for another line leaves dma_isr where it is. *)
LEMMA RegisterFacts ==
  ASSUME isr \in IsrType, DispatchInv, NEW l \in ClientLines \ {DMA},
         NEW h \in Handlers \ {"dma_isr"}, isr_register(l, h)
  PROVE  /\ isr' \in IsrType /\ DispatchInv' /\ intc' = intc
         /\ isr'.pc = isr.pc /\ isr'.h = isr.h
<1>1. /\ isr' = IF l < isr.n_lines THEN [isr EXCEPT !.vector[l] = h] ELSE isr
      /\ intc' = intc
  BY DEF isr_register
<1>2. /\ l \in Vectors /\ UART \in Vectors /\ TIMER \in Vectors
      /\ DMA \in Vectors /\ l # DMA
  BY LinesAreVectors, DriverAssumption DEF Lines
<1> QED BY <1>1, <1>2 DEF IsrType, DispatchInv

-----------------------------------------------------------------------------
(* The steps of the driver and of its client, one lemma each where the     *)
(* engine or the driver moves.                                             *)

(* dma_submit with the interrupt enabled keeps the invariant. *)
LEMMA SubmitKeeps ==
  ASSUME IInv, NEW src \in SubmitAddrs, NEW dst \in SubmitAddrs,
         NEW len \in SubmitLens, dma_submit(src, dst, len, TRUE)
  PROVE  IInv'
<1>1. /\ Valid(src, dst, len) /\ Launch(src, dst, len, TRUE) /\ TypeOK
      /\ src \in Uint32 /\ dst \in Uint32 /\ len \in Uint32
  BY DriverAssumption DEF dma_submit, IInv
<1>2. /\ dma' \in DmaType /\ dma'.busy /\ ~dma'.done /\ ~dma'.error
      /\ dma'.err_code = NoErr /\ dma'.irq_enable_latched /\ "IRQ_ENABLE" \in dma'.ctrl
      /\ intc' = intc
  BY <1>1, LaunchFacts
<1>3. isr' = isr
  BY <1>1 DEF Launch
<1>4. /\ drv' \in DrvType /\ drv'.s_state = "ACTIVE" /\ ~drv'.s_done_flag
      /\ drv'.s_err_latch = NoErr
  BY <1>1 DEF dma_submit, TypeOK, DrvType, DrvStates
<1>5. TypeOK' /\ DispatchInv'
  BY <1>1, <1>2, <1>3, <1>4 DEF IInv, TypeOK, DispatchInv
<1>6. EngineInv' /\ NoLostCompletion'
  BY <1>2 DEF EngineInv, NoLostCompletion
<1>7. QuietUnlessActive' /\ FlagsMatchState'
  BY <1>4 DEF QuietUnlessActive, FlagsMatchState
<1> QED BY <1>5, <1>6, <1>7 DEF IInv

(* dma_recover keeps the invariant: it runs only outside ACTIVE, where no  *)
(* completion is on its way.                                               *)
LEMMA RecoverKeeps ==
  ASSUME IInv, dma_recover
  PROVE  IInv'
<1>1. /\ drv.s_state # "ACTIVE" /\ isr' = isr /\ dma' = Cleared(dma)
      /\ intc' = soc_intc_write_clear(intc, DMA)
  BY DEF dma_recover
<1>2. /\ dma' \in DmaType /\ ~dma'.busy /\ ~dma'.done /\ ~dma'.error
      /\ dma'.err_code = NoErr
  BY <1>1, ClearedFacts DEF IInv, TypeOK, QuietUnlessActive
<1>3. /\ drv' \in DrvType /\ drv'.s_state = "IDLE" /\ ~drv'.s_done_flag
      /\ drv'.s_err_latch = NoErr
  BY DEF dma_recover, IInv, TypeOK, DrvType, DrvStates
<1>4. TypeOK' /\ DispatchInv'
  BY <1>1, <1>2, <1>3, ClearFacts DEF IInv, TypeOK, DispatchInv
<1>5. EngineInv' /\ QuietUnlessActive'
  BY <1>2 DEF EngineInv, QuietUnlessActive
<1>6. NoLostCompletion' /\ FlagsMatchState'
  BY <1>3 DEF NoLostCompletion, FlagsMatchState
<1> QED BY <1>4, <1>5, <1>6 DEF IInv

(* A tick of the SoC keeps the invariant: a transfer that ends leaves a    *)
(* flag and a pending line behind.                                         *)
LEMMA TickKeeps ==
  ASSUME IInv, Tick
  PROVE  IInv'
<1>1. TypeOK /\ EngineInv /\ soc_dma_step(uart, intc) /\ isr' = isr /\ drv' = drv
  BY DEF IInv, Tick
<1>2. /\ dma' \in DmaType /\ intc' \in IntcType
      /\ dma'.irq_enable_latched = dma.irq_enable_latched
      /\ dma'.ctrl = dma.ctrl
      /\ intc.pending \subseteq intc'.pending
      /\ \/ /\ dma'.busy = dma.busy /\ dma'.done = dma.done
            /\ dma'.error = dma.error /\ dma'.err_code = dma.err_code
         \/ /\ dma.busy /\ ~dma'.busy /\ DMA \in intc'.pending
            /\ \/ dma'.done /\ ~dma'.error /\ dma'.err_code = NoErr
               \/ ~dma'.done /\ dma'.error /\ dma'.err_code = "ADDR"
  BY <1>1, StepFacts DEF TypeOK
<1>3. TypeOK' /\ DispatchInv' /\ FlagsMatchState'
  BY <1>1, <1>2 DEF IInv, TypeOK, DispatchInv, FlagsMatchState
<1>4. CASE /\ dma'.busy = dma.busy /\ dma'.done = dma.done
           /\ dma'.error = dma.error /\ dma'.err_code = dma.err_code
  <2>1. EngineInv' /\ QuietUnlessActive'
    BY <1>1, <1>2, <1>4 DEF IInv, EngineInv, QuietUnlessActive
  <2>2. NoLostCompletion'
    BY <1>1, <1>2, <1>4 DEF IInv, NoLostCompletion
  <2> QED BY <1>3, <2>1, <2>2 DEF IInv
<1>5. CASE /\ dma.busy /\ ~dma'.busy /\ DMA \in intc'.pending
           /\ \/ dma'.done /\ ~dma'.error /\ dma'.err_code = NoErr
              \/ ~dma'.done /\ dma'.error /\ dma'.err_code = "ADDR"
  <2>1. drv'.s_state = "ACTIVE"
    BY <1>1, <1>5 DEF IInv, QuietUnlessActive
  <2>2. EngineInv' /\ QuietUnlessActive' /\ NoLostCompletion'
    BY <1>5, <2>1 DEF EngineInv, QuietUnlessActive, NoLostCompletion, NoErr
  <2> QED BY <1>3, <2>2 DEF IInv
<1> QED BY <1>2, <1>4, <1>5

(* A fault of a transfer in progress keeps the invariant: CTRL still holds *)
(* the IRQ_ENABLE of the submission.                                       *)
LEMMA FaultKeeps ==
  ASSUME IInv, NEW code \in HookCodes, EngineFault(code)
  PROVE  IInv'
<1>1. /\ dma.busy /\ dma' = soc_dma_fail(dma, code) /\ isr' = isr /\ drv' = drv
      /\ intc' = IF "IRQ_ENABLE" \in dma.ctrl
                 THEN soc_intc_raise(intc, DMA) ELSE intc
  BY DEF EngineFault, Hook, vlab_test_dma_error
<1>2. code \in ErrCodes /\ code # NoErr
  BY DriverAssumption DEF ErrCodes, NoErr
<1>3. intc' \in IntcType /\ DMA \in intc'.pending
  BY <1>1, RaiseFacts DEF IInv, EngineInv, TypeOK, Lines
<1>4. /\ dma' \in DmaType /\ ~dma'.busy /\ ~dma'.done /\ dma'.error
      /\ dma'.err_code = code
  BY <1>1, <1>2, FailFacts DEF IInv, TypeOK
<1>5. drv.s_state = "ACTIVE"
  BY <1>1 DEF IInv, QuietUnlessActive
<1>6. TypeOK' /\ DispatchInv' /\ FlagsMatchState'
  BY <1>1, <1>3, <1>4 DEF IInv, TypeOK, DispatchInv, FlagsMatchState
<1>7. EngineInv' /\ QuietUnlessActive' /\ NoLostCompletion'
  BY <1>1, <1>2, <1>3, <1>4, <1>5
     DEF EngineInv, QuietUnlessActive, NoLostCompletion
<1> QED BY <1>6, <1>7 DEF IInv

(* A stuck engine, and its release, keep the invariant. *)
LEMMA StickKeeps ==
  ASSUME IInv, NEW on \in BOOLEAN, Stick(on)
  PROVE  IInv'
<1>1. /\ dma' = [dma EXCEPT !.fault_stuck_busy = on]
      /\ UNCHANGED <<intc, isr, drv>>
  BY DEF Stick, SetStuck
<1>2. /\ dma' \in DmaType /\ dma'.busy = dma.busy /\ dma'.done = dma.done
      /\ dma'.error = dma.error /\ dma'.err_code = dma.err_code
      /\ dma'.irq_enable_latched = dma.irq_enable_latched
      /\ dma'.ctrl = dma.ctrl
  BY <1>1 DEF IInv, TypeOK, DmaType
<1>3. TypeOK' /\ DispatchInv' /\ FlagsMatchState'
  BY <1>1, <1>2 DEF IInv, TypeOK, DispatchInv, FlagsMatchState
<1>4. EngineInv' /\ QuietUnlessActive' /\ NoLostCompletion'
  BY <1>1, <1>2 DEF IInv, EngineInv, QuietUnlessActive, NoLostCompletion
<1> QED BY <1>3, <1>4 DEF IInv

(* dma_isr either finds a terminal flag and moves the lifecycle on, or is  *)
(* spurious and leaves it alone.                                           *)
LEMMA IsrKeeps ==
  ASSUME IInv, dma_isr
  PROVE  IInv'
<1>1. /\ isr.pc = "handler" /\ isr.h = "dma_isr" /\ drv' = AfterIsr(drv)
      /\ dma' = Cleared(dma) /\ isr' = Finished(isr)
      /\ intc' = soc_intc_write_clear(soc_intc_write_clear(intc, DMA), isr.line)
  BY DEF dma_isr
<1>2. /\ TypeOK /\ EngineInv /\ DispatchInv /\ dma \in DmaType
      /\ isr \in IsrType /\ drv \in DrvType /\ intc \in IntcType
  BY DEF IInv, TypeOK
<1>3. isr.i < ISR_MAX_LINES /\ isr.handled = isr.i
  BY <1>1, <1>2, IsrAssumption DEF DispatchInv, IsrType
<1>4. DispatchInv' /\ isr' \in IsrType
  BY <1>1, <1>2, <1>3, FinishedFacts DEF DispatchInv
<1>5. intc' \in IntcType
  BY <1>1, <1>2, ClearFacts
<1>6. /\ dma' \in DmaType /\ dma'.busy = dma.busy /\ ~dma'.done /\ ~dma'.error
      /\ dma'.err_code = NoErr /\ dma'.ctrl = dma.ctrl
      /\ dma'.irq_enable_latched = dma.irq_enable_latched
  BY <1>1, <1>2, ClearedFacts
<1>7. EngineInv'
  BY <1>2, <1>6 DEF EngineInv
<1>8. Bump(drv.s_irq_count, 1) \in Counter
  BY <1>2, BumpIsCounter DEF DrvType
<1>9. CASE dma.done
  <2>1. ~dma.busy /\ drv.s_state = "ACTIVE"
    BY <1>2, <1>9 DEF IInv, EngineInv, QuietUnlessActive
  <2>2. /\ drv' \in DrvType /\ drv'.s_state = "COMPLETE" /\ drv'.s_done_flag
        /\ drv'.s_err_latch = drv.s_err_latch
    BY <1>1, <1>2, <1>8, <1>9 DEF AfterIsr, DrvType, DrvStates
  <2>3. FlagsMatchState'
    BY <2>1, <2>2 DEF IInv, FlagsMatchState
  <2>4. NoLostCompletion' /\ QuietUnlessActive'
    BY <1>6, <2>1, <2>2 DEF NoLostCompletion, QuietUnlessActive
  <2> QED BY <1>4, <1>5, <1>6, <1>7, <2>2, <2>3, <2>4 DEF IInv, TypeOK
<1>10. CASE ~dma.done /\ dma.error
  <2>1. ~dma.busy /\ drv.s_state = "ACTIVE" /\ dma.err_code # NoErr
    BY <1>2, <1>10 DEF IInv, EngineInv, QuietUnlessActive
  <2>2. /\ drv' \in DrvType /\ drv'.s_state = "ERROR"
        /\ drv'.s_done_flag = drv.s_done_flag
        /\ drv'.s_err_latch = dma.err_code
    BY <1>1, <1>2, <1>8, <1>10 DEF AfterIsr, DrvType, DrvStates, DmaType
  <2>3. FlagsMatchState'
    BY <2>1, <2>2 DEF IInv, FlagsMatchState
  <2>4. NoLostCompletion' /\ QuietUnlessActive'
    BY <1>6, <2>1, <2>2 DEF NoLostCompletion, QuietUnlessActive
  <2> QED BY <1>4, <1>5, <1>6, <1>7, <2>2, <2>3, <2>4 DEF IInv, TypeOK
<1>11. CASE ~dma.done /\ ~dma.error
  <2>1. /\ drv' \in DrvType /\ drv'.s_state = drv.s_state
        /\ drv'.s_done_flag = drv.s_done_flag
        /\ drv'.s_err_latch = drv.s_err_latch
    BY <1>1, <1>2, <1>8, <1>11 DEF AfterIsr, DrvType
  <2>2. FlagsMatchState'
    BY <2>1 DEF IInv, FlagsMatchState
  <2>3. NoLostCompletion' /\ QuietUnlessActive'
    BY <1>6, <1>11, <2>1 DEF IInv, NoLostCompletion, QuietUnlessActive
  <2> QED BY <1>4, <1>5, <1>6, <1>7, <2>1, <2>2, <2>3 DEF IInv, TypeOK
<1> QED BY <1>9, <1>10, <1>11

(* The client's accesses to the controller and the vector table. *)
LEMMA ClientKeeps ==
  ASSUME IInv,
         \/ Call
         \/ \E l \in ClientLines : Interrupt(l)
         \/ \E mask \in EnableMasks : Enable(mask)
         \/ \E l \in ClientLines : Clear(l)
         \/ \E l \in ClientLines \ {DMA}, h \in Handlers \ {"dma_isr"} : Register(l, h)
  PROVE  IInv'
<1>1. /\ intc \in IntcType /\ isr \in IsrType /\ DispatchInv
  BY DEF IInv, TypeOK
<1>2. CASE Call
  <2>1. /\ isr' = [isr EXCEPT !.pc = "loop"] /\ isr.pc = "idle" /\ intc' = intc
        /\ UNCHANGED <<dma, drv>>
    BY <1>2 DEF Call, isr_dispatch_call, DriverIdle
  <2>2. isr' \in IsrType /\ DispatchInv' /\ (Signalled => Signalled')
    BY <1>1, <2>1 DEF IsrType, DispatchInv, Signalled, InDmaIsr
  <2> QED BY <1>1, <2>1, <2>2, SignalKept
<1>3. ASSUME NEW l \in ClientLines, Interrupt(l) PROVE IInv'
  <2>1. intc' = soc_intc_raise(intc, l) /\ UNCHANGED <<isr, dma, drv>>
    BY <1>3 DEF Interrupt, RaiseLine, DriverIdle
  <2>2. intc' \in IntcType /\ intc.pending \subseteq intc'.pending
    BY <1>1, <2>1, RaiseFacts, DriverAssumption
  <2>3. isr' \in IsrType /\ DispatchInv' /\ (Signalled => Signalled')
    BY <1>1, <2>1, <2>2 DEF DispatchInv, Signalled, InDmaIsr
  <2> QED BY <2>1, <2>2, <2>3, SignalKept
<1>4. ASSUME NEW mask \in EnableMasks, Enable(mask) PROVE IInv'
  <2>1. intc' = soc_intc_write_enable(intc, mask) /\ UNCHANGED <<isr, dma, drv>>
    BY <1>4 DEF Enable, intc_enable, DriverIdle
  <2>2. intc' \in IntcType /\ intc'.pending = intc.pending
    BY <1>1, <2>1, EnableFacts
  <2>3. isr' \in IsrType /\ DispatchInv' /\ (Signalled => Signalled')
    BY <1>1, <2>1, <2>2 DEF DispatchInv, Signalled, InDmaIsr
  <2> QED BY <2>1, <2>2, <2>3, SignalKept
<1>5. ASSUME NEW l \in ClientLines, Clear(l) PROVE IInv'
  <2>1. intc' = soc_intc_write_clear(intc, l) /\ UNCHANGED <<isr, dma, drv>>
    BY <1>5 DEF Clear, intc_clear, DriverIdle
  <2>2. intc' \in IntcType /\ intc'.pending = intc.pending
    BY <1>1, <2>1, ClearFacts
  <2>3. isr' \in IsrType /\ DispatchInv' /\ (Signalled => Signalled')
    BY <1>1, <2>1, <2>2 DEF DispatchInv, Signalled, InDmaIsr
  <2> QED BY <2>1, <2>2, <2>3, SignalKept
<1>6. ASSUME NEW l \in ClientLines \ {DMA}, NEW h \in Handlers \ {"dma_isr"},
             Register(l, h)
      PROVE  IInv'
  <2>1. isr_register(l, h) /\ UNCHANGED <<dma, drv>>
    BY <1>6 DEF Register, DriverIdle
  <2>2. /\ isr' \in IsrType /\ DispatchInv' /\ intc' = intc
        /\ isr'.pc = isr.pc /\ isr'.h = isr.h
    BY <1>1, <2>1, RegisterFacts
  <2> QED BY <1>1, <2>1, <2>2, SignalKept DEF Signalled, InDmaIsr
<1> QED BY <1>2, <1>3, <1>4, <1>5, <1>6

(* The state after bring-up satisfies the invariant. *)
LEMMA InitHolds == Init => IInv
<1> SUFFICES ASSUME Init PROVE IInv
  OBVIOUS
<1>1. dma \in DmaType
  BY WidthAssumption DEF Init, soc_dma_reset, DmaType, Uint32
<1>2. intc \in IntcType
  BY DEF Init, soc_intc_reset, IntcType
<1>3. drv \in DrvType
  BY CounterModAssumption DEF Init, DrvType, DrvStates, Counter
<1>4. NoVectors \in [Vectors -> Handlers] /\ Lines \subseteq Vectors
  BY IsrAssumption, LinesAreVectors DEF NoVectors
<1>5. [NoVectors EXCEPT ![DMA] = "dma_isr"] \in [Vectors -> Handlers]
  BY <1>4, DriverAssumption
<1>6. isr \in IsrType
  BY <1>5, IsrAssumption, CounterModAssumption
     DEF Init, IsrType, Counter, VLAB_IRQ_COUNT, Lines
<1>7. DispatchInv
  BY <1>4 DEF Init, DispatchInv, NoVectors, Lines, UART, TIMER, DMA
<1>8. EngineInv /\ NoLostCompletion /\ QuietUnlessActive /\ FlagsMatchState
  BY DEF Init, soc_dma_reset, EngineInv, NoLostCompletion, QuietUnlessActive,
         FlagsMatchState
<1> QED BY <1>1, <1>2, <1>3, <1>6, <1>7, <1>8 DEF IInv, TypeOK

(* Every step of the disciplined client, of the SoC and of the dispatcher  *)
(* keeps the invariant.                                                    *)
LEMMA StepHolds == IInv /\ [Next]_vars => IInv'
<1> SUFFICES ASSUME IInv, [Next]_vars PROVE IInv'
  OBVIOUS
<1>1. CASE UNCHANGED vars
  BY <1>1 DEF vars, IInv, TypeOK, EngineInv, DispatchInv, NoLostCompletion,
              QuietUnlessActive, FlagsMatchState
<1>2. ASSUME NEW src \in SubmitAddrs, NEW dst \in SubmitAddrs,
             NEW len \in SubmitLens, dma_submit(src, dst, len, TRUE)
      PROVE  IInv'
  BY <1>2, SubmitKeeps
<1>3. CASE dma_recover
  BY <1>3, RecoverKeeps
<1>4. CASE Tick
  BY <1>4, TickKeeps
<1>5. CASE Dispatching
  BY <1>5, DispatchKeeps, IsrKeeps DEF Dispatching
<1>6. ASSUME NEW on \in BOOLEAN, Stick(on) PROVE IInv'
  BY <1>6, StickKeeps
<1>7. ASSUME NEW code \in HookCodes, EngineFault(code) PROVE IInv'
  BY <1>7, FaultKeeps
<1>8. CASE \/ Call
           \/ \E l \in ClientLines : Interrupt(l)
           \/ \E mask \in EnableMasks : Enable(mask)
           \/ \E l \in ClientLines : Clear(l)
           \/ \E l \in ClientLines \ {DMA}, h \in Handlers \ {"dma_isr"} : Register(l, h)
  BY <1>8, ClientKeeps
<1> QED BY <1>1, <1>2, <1>3, <1>4, <1>5, <1>6, <1>7, <1>8 DEF Next

(* IInv is an invariant of the driver under the disciplined client. *)
THEOREM Invariance == Spec => []IInv
BY InitHolds, StepHolds, PTL DEF Spec

(* The types of engine, controller, dispatcher and driver hold for every   *)
(* platform, address space and choice of client calls.                     *)
THEOREM TypeCorrect == Spec => []TypeOK
BY Invariance, PTL DEF IInv

(* No completion is lost between the engine, the interrupt controller, the *)
(* dispatcher and the driver (soc_dma.c:191-230, isr.c:32-48,              *)
(* dma.c:143-206).                                                         *)
THEOREM CompletionNeverLost == Spec => []NoLostCompletion
BY Invariance, PTL DEF IInv

(* Outside ACTIVE the engine is quiet: dma_submit in IDLE is never refused *)
(* as BUSY, and no flag of an old transfer survives into the next          *)
(* (dma.c:143-206).                                                        *)
THEOREM EngineQuietUnlessActive == Spec => []QuietUnlessActive
BY Invariance, PTL DEF IInv

(* The flags the main line polls, dma_is_complete and dma_latched_error,   *)
(* agree with the lifecycle state.                                         *)
THEOREM FlagsAreCoherent == Spec => []FlagsMatchState
BY Invariance, PTL DEF IInv

-----------------------------------------------------------------------------
(***************************************************************************)
(* The driver, on the engine, the interrupt controller and the dispatcher, *)
(* implements the lifecycle it promises (DmaLifecycle).  The steps of the  *)
(* lifecycle are dma_submit (Submit), the tick or the injected fault that  *)
(* ends a transfer (End), a dma_isr that finds a terminal flag (Report)    *)
(* and dma_recover (Recover); every other step, a spurious dma_isr         *)
(* included, is a stutter.                                                 *)
(***************************************************************************)

(* A step that leaves the lifecycle state, the two results of the driver   *)
(* and the terminal flags of the engine alone is a stutter.                *)
LEMMA Stutters ==
  ASSUME drv'.s_state = drv.s_state, drv'.s_done_flag = drv.s_done_flag,
         drv'.s_err_latch = drv.s_err_latch, dma'.done = dma.done,
         dma'.error = dma.error, dma'.err_code = dma.err_code
  PROVE  UNCHANGED Lifecycle!vars
BY DEF Lifecycle!vars, Outcome, Reported

(* What a transfer ends with: a flag of the engine becomes the outcome. *)
LEMMA EndsLifecycle ==
  ASSUME IInv, drv' = drv, dma.busy,
         \/ dma'.done /\ ~dma'.error
         \/ ~dma'.done /\ dma'.error /\ dma'.err_code \in ErrCodes
  PROVE  \E o \in Lifecycle!Outcomes : Lifecycle!End(o)
<1>1. /\ ~dma.done /\ ~dma.error /\ drv.s_state = "ACTIVE"
  BY DEF IInv, EngineInv, QuietUnlessActive
<1>2. Outcome = NoErr /\ Outcome' \in Lifecycle!Outcomes
  BY <1>1 DEF Outcome, Lifecycle!Outcomes
<1>3. Reported' = Reported
  BY DEF Reported
<1> QED BY <1>1, <1>2, <1>3 DEF Lifecycle!End

(* The initial state after bring-up is the initial state of the lifecycle. *)
LEMMA InitRefines == Init => Lifecycle!Init
BY DEF Init, soc_dma_reset, Outcome, Reported, Lifecycle!Init

(* dma_submit is Submit. *)
LEMMA SubmitRefines ==
  ASSUME IInv, NEW src \in SubmitAddrs, NEW dst \in SubmitAddrs,
         NEW len \in SubmitLens, dma_submit(src, dst, len, TRUE)
  PROVE  Lifecycle!Submit
<1>1. /\ Valid(src, dst, len) /\ Launch(src, dst, len, TRUE) /\ TypeOK
      /\ src \in Uint32 /\ dst \in Uint32 /\ len \in Uint32
  BY DriverAssumption DEF dma_submit, IInv
<1>2. ~dma'.done /\ ~dma'.error
  BY <1>1, LaunchFacts
<1>3. /\ drv.s_state = "IDLE" /\ drv'.s_state = "ACTIVE" /\ ~drv'.s_done_flag
      /\ drv'.s_err_latch = NoErr
  BY <1>1 DEF dma_submit, TypeOK, DrvType
<1>4. ~dma.done /\ ~dma.error /\ ~drv.s_done_flag /\ drv.s_err_latch = NoErr
  BY <1>3 DEF IInv, QuietUnlessActive, FlagsMatchState
<1> QED BY <1>2, <1>3, <1>4 DEF Lifecycle!Submit, Outcome, Reported

(* dma_recover is Recover. *)
LEMMA RecoverRefines ==
  ASSUME IInv, dma_recover
  PROVE  Lifecycle!Recover
<1>1. drv.s_state \in {"COMPLETE", "ERROR"} /\ dma' = Cleared(dma)
  BY DEF dma_recover
<1>2. ~dma.done /\ ~dma.error /\ ~dma'.done /\ ~dma'.error
  BY <1>1, ClearedFacts DEF IInv, TypeOK, QuietUnlessActive
<1>3. /\ drv'.s_state = "IDLE" /\ ~drv'.s_done_flag
      /\ drv'.s_err_latch = NoErr
  BY DEF dma_recover, IInv, TypeOK, DrvType
<1> QED BY <1>1, <1>2, <1>3 DEF Lifecycle!Recover, Outcome, Reported

(* A tick ends the transfer or is a stutter. *)
LEMMA TickRefines ==
  ASSUME IInv, Tick
  PROVE  (\E o \in Lifecycle!Outcomes : Lifecycle!End(o))
         \/ UNCHANGED Lifecycle!vars
<1>1. TypeOK /\ EngineInv /\ soc_dma_step(uart, intc) /\ drv' = drv
  BY DEF IInv, Tick
<1>2. \/ /\ dma'.busy = dma.busy /\ dma'.done = dma.done
         /\ dma'.error = dma.error /\ dma'.err_code = dma.err_code
      \/ /\ dma.busy
         /\ \/ dma'.done /\ ~dma'.error
            \/ ~dma'.done /\ dma'.error /\ dma'.err_code \in ErrCodes
  BY <1>1, StepFacts DEF TypeOK, ErrCodes
<1> QED BY <1>1, <1>2, Stutters, EndsLifecycle

(* An injected fault ends the transfer. *)
LEMMA FaultRefines ==
  ASSUME IInv, NEW code \in HookCodes, EngineFault(code)
  PROVE  \E o \in Lifecycle!Outcomes : Lifecycle!End(o)
<1>1. /\ dma.busy /\ dma' = soc_dma_fail(dma, code) /\ drv' = drv
      /\ dma \in DmaType /\ code \in ErrCodes
  BY DriverAssumption DEF EngineFault, Hook, vlab_test_dma_error, IInv, TypeOK
<1>2. ~dma'.done /\ dma'.error /\ dma'.err_code \in ErrCodes
  BY <1>1, FailFacts
<1> QED BY <1>1, <1>2, EndsLifecycle

(* dma_isr reports the outcome; a spurious one is a stutter. *)
LEMMA IsrRefines ==
  ASSUME IInv, dma_isr
  PROVE  Lifecycle!Report \/ UNCHANGED Lifecycle!vars
<1>1. /\ drv' = AfterIsr(drv) /\ dma' = Cleared(dma) /\ dma \in DmaType
      /\ drv \in DrvType /\ EngineInv
  BY DEF dma_isr, IInv, TypeOK
<1>2. ~dma'.done /\ ~dma'.error /\ dma'.err_code = NoErr
  BY <1>1, ClearedFacts
<1>3. CASE dma.done
  <2>1. drv.s_state = "ACTIVE"
    BY <1>3 DEF IInv, QuietUnlessActive
  <2>2. drv'.s_state = "COMPLETE" /\ drv'.s_done_flag
    BY <1>1, <1>3 DEF AfterIsr, DrvType
  <2> QED BY <1>2, <1>3, <2>1, <2>2 DEF Lifecycle!Report, Outcome, Reported, NoErr
<1>4. CASE ~dma.done /\ dma.error
  <2>1. drv.s_state = "ACTIVE" /\ ~drv.s_done_flag
    BY <1>4 DEF IInv, QuietUnlessActive, FlagsMatchState
  <2>2. /\ drv'.s_state = "ERROR" /\ ~drv'.s_done_flag
        /\ drv'.s_err_latch = dma.err_code
    BY <1>1, <1>4, <2>1 DEF AfterIsr, DrvType
  <2>3. dma.err_code # NoErr /\ dma.err_code # "done"
    BY <1>1, <1>4 DEF EngineInv, DmaType, ErrCodes, NoErr
  <2> QED BY <1>2, <1>4, <2>1, <2>2, <2>3 DEF Lifecycle!Report, Outcome, Reported
<1>5. CASE ~dma.done /\ ~dma.error
  <2>1. /\ drv'.s_state = drv.s_state /\ drv'.s_done_flag = drv.s_done_flag
        /\ drv'.s_err_latch = drv.s_err_latch
    BY <1>1, <1>5 DEF AfterIsr, DrvType
  <2>2. UNCHANGED <<Outcome, Reported>>
    BY <1>2, <1>5, <2>1 DEF Outcome, Reported
  <2> QED BY <2>1, <2>2 DEF Lifecycle!vars
<1> QED BY <1>3, <1>4, <1>5

(* Every step of the detailed specification is a step of the lifecycle or  *)
(* a stutter.                                                              *)
LEMMA StepRefines == IInv /\ [Next]_vars => [Lifecycle!Next]_Lifecycle!vars
<1> SUFFICES ASSUME IInv, [Next]_vars
             PROVE  Lifecycle!Next \/ UNCHANGED Lifecycle!vars
  OBVIOUS
<1>1. CASE UNCHANGED vars
  BY <1>1, Stutters DEF vars
<1>2. ASSUME NEW src \in SubmitAddrs, NEW dst \in SubmitAddrs,
             NEW len \in SubmitLens, dma_submit(src, dst, len, TRUE)
      PROVE  Lifecycle!Next
  BY <1>2, SubmitRefines DEF Lifecycle!Next
<1>3. CASE dma_recover
  BY <1>3, RecoverRefines DEF Lifecycle!Next
<1>4. CASE Tick
  BY <1>4, TickRefines DEF Lifecycle!Next
<1>5. CASE dma_isr
  BY <1>5, IsrRefines DEF Lifecycle!Next
<1>6. ASSUME NEW on \in BOOLEAN, Stick(on) PROVE UNCHANGED Lifecycle!vars
  <2>1. dma' = [dma EXCEPT !.fault_stuck_busy = on] /\ drv' = drv /\ dma \in DmaType
    BY <1>6 DEF Stick, SetStuck, IInv, TypeOK
  <2>2. dma'.done = dma.done /\ dma'.error = dma.error
        /\ dma'.err_code = dma.err_code
    BY <2>1 DEF DmaType
  <2> QED BY <2>1, <2>2, Stutters
<1>7. ASSUME NEW code \in HookCodes, EngineFault(code) PROVE Lifecycle!Next
  BY <1>7, FaultRefines DEF Lifecycle!Next
<1>8. CASE DriverIdle
  BY <1>8, Stutters DEF DriverIdle
<1> QED
  BY <1>1, <1>2, <1>3, <1>4, <1>5, <1>6, <1>7, <1>8
     DEF Next, Dispatching, Call, Interrupt, Enable, Clear, Register

(* The driver implements its promise: each accepted transfer has one       *)
(* outcome, which dma_isr reports exactly once and unaltered before        *)
(* dma_recover makes the driver IDLE again (dma.c:143-206), for every      *)
(* platform and whatever interrupts, masks and handlers come in between.   *)
THEOREM DriverImplementsLifecycle == Spec => RefinesLifecycle
BY InitRefines, StepRefines, Invariance, PTL
   DEF Spec, RefinesLifecycle, Lifecycle!Spec

-----------------------------------------------------------------------------
(***************************************************************************)
(* The open client.  OpenFlags needs one fact about the engine, that an    *)
(* ERROR in STATUS comes with a code: dma_isr latches that code when it    *)
(* moves the driver to ERROR.  The configuration is whatever the client    *)
(* has installed, so the driver's record is described by its fields.       *)
(***************************************************************************)
DrvFields ==
  drv = [s_state |-> drv.s_state, s_done_flag |-> drv.s_done_flag,
         s_err_latch |-> drv.s_err_latch, s_irq_count |-> drv.s_irq_count,
         cfg |-> drv.cfg]

ErrorHasCode == dma.error => dma.err_code # NoErr

OpenInv == dma \in DmaType /\ ErrorHasCode /\ DrvFields /\ OpenFlags

(* A START of any well-typed engine: types are kept, and an error has its  *)
(* code.                                                                   *)
LEMMA StartFacts ==
  ASSUME NEW d \in DmaType, d.error => d.err_code # NoErr, NEW irq \in BOOLEAN
  PROVE  LET e == soc_dma_write_start(d, irq)
         IN  e \in DmaType /\ (e.error => e.err_code # NoErr)
<1> DEFINE code == soc_dma_start_code(Platform, d.src, d.dst, d.length)
           n    == transfer_ticks(d.length, LatencyPerWord, Burst)
<1>1. code \in ErrCodes \cup {"OK"} /\ NoErr \notin ErrCodes
  BY StartCodeType DEF ErrCodes, NoErr
<1>2. n \in Int
  BY TicksAreInt, EngineAssumption, WidthAssumption DEF Uint32, DmaType
<1>3. soc_dma_start(d, irq) =
        IF d.busy THEN d
        ELSE IF code # "OK"
        THEN soc_dma_fail([Cleared(d) EXCEPT !.irq_enable_latched = irq], code)
        ELSE [[Cleared(d) EXCEPT !.irq_enable_latched = irq]
                EXCEPT !.busy = TRUE, !.remaining = n]
  BY DEF soc_dma_start
<1> HIDE DEF code, n
<1>4. LET e == soc_dma_start(d, irq)
      IN  e \in DmaType /\ (e.error => e.err_code # NoErr)
  <2> DEFINE c == [Cleared(d) EXCEPT !.irq_enable_latched = irq]
  <2>1. CASE d.busy
    BY <1>3, <2>1
  <2>2. c \in DmaType /\ ~c.error
    BY DEF Cleared, DmaType
  <2> HIDE DEF c
  <2>3. CASE ~d.busy /\ code # "OK"
    <3>1. soc_dma_start(d, irq) = soc_dma_fail(c, code)
      BY <1>3, <2>3 DEF c
    <3>2. code \in ErrCodes
      BY <1>1, <2>3
    <3> QED BY <1>1, <2>2, <3>1, <3>2, FailFacts
  <2>4. CASE ~d.busy /\ code = "OK"
    <3>1. soc_dma_start(d, irq) = [c EXCEPT !.busy = TRUE, !.remaining = n]
      BY <1>3, <2>4 DEF c
    <3> QED BY <1>2, <2>2, <3>1 DEF DmaType
  <2> QED BY <2>1, <2>3, <2>4, <1>3 DEF DmaType
<1> DEFINE bits == CtrlStored({"START"} \cup IrqBit(irq))
<1>5. bits \in SUBSET {"START", "IRQ_ENABLE"}
  BY CtrlFacts
<1>6. soc_dma_write_start(d, irq) = [soc_dma_start(d, irq) EXCEPT !.ctrl = bits]
  BY DEF soc_dma_write_start
<1> HIDE DEF bits
<1> QED BY <1>4, <1>5, <1>6 DEF DmaType

(* A tick of any well-typed engine keeps its type, and a fault has a code. *)
LEMMA OpenTickFacts ==
  ASSUME dma \in DmaType, ErrorHasCode, soc_dma_step(uart, intc)
  PROVE  dma' \in DmaType /\ ErrorHasCode'
<1>1. CASE soc_dma_step_idle(uart, intc) \/ soc_dma_step_nomem(uart, intc)
  BY <1>1 DEF soc_dma_step_idle, soc_dma_step_nomem, DmaType, ErrorHasCode
<1>2. CASE soc_dma_step_fault(uart, intc)
  <2>1. dma' = CountedDown(soc_dma_fail(dma, "ADDR")) /\ "ADDR" \in ErrCodes
    BY <1>2 DEF soc_dma_step_fault, CountedDown, ErrCodes
  <2>2. LET e == soc_dma_fail(dma, "ADDR")
        IN  e \in DmaType /\ e.err_code = "ADDR"
    BY <2>1, FailFacts
  <2> QED BY <2>1, <2>2, CountedDownFacts DEF ErrorHasCode, NoErr
<1>3. CASE soc_dma_step_done(uart, intc)
  <2>1. dma' = CountedDown(Completed(dma))
    BY <1>3 DEF soc_dma_step_done, CountedDown
  <2> QED BY <2>1, CompletedFacts, CountedDownFacts DEF ErrorHasCode
<1> QED BY <1>1, <1>2, <1>3 DEF soc_dma_step

(* A step that leaves the driver alone keeps the invariant if the engine   *)
(* keeps its part.                                                         *)
LEMMA OpenEngineKeeps ==
  ASSUME OpenInv, drv' = drv, dma' \in DmaType, ErrorHasCode'
  PROVE  OpenInv'
BY DEF OpenInv, DrvFields, OpenFlags

(* Programming and starting the engine keeps its part. *)
LEMMA OpenLaunchFacts ==
  ASSUME OpenInv, NEW src \in SubmitAddrs, NEW dst \in SubmitAddrs,
         NEW len \in SubmitLens, NEW irq \in BOOLEAN, Launch(src, dst, len, irq)
  PROVE  dma' \in DmaType /\ ErrorHasCode'
<1> DEFINE d == Programmed(dma, src, dst, len)
<1>1. src \in Uint32 /\ dst \in Uint32 /\ len \in Uint32
  BY DriverAssumption
<1>2. d \in DmaType /\ (d.error => d.err_code # NoErr)
  BY <1>1 DEF Programmed, OpenInv, ErrorHasCode, DmaType
<1>3. dma' = soc_dma_write_start(d, irq)
  BY DEF Launch
<1> HIDE DEF d
<1> QED BY <1>2, <1>3, StartFacts DEF ErrorHasCode

(* dma_isr reports what it finds, whatever the state was before. *)
LEMMA OpenIsrKeeps ==
  ASSUME OpenInv, dma_isr
  PROVE  OpenInv'
<1>1. drv' = AfterIsr(drv) /\ dma' = Cleared(dma)
  BY DEF dma_isr
<1>2. dma' \in DmaType /\ ErrorHasCode'
  BY <1>1, ClearedFacts DEF OpenInv, ErrorHasCode
<1>3. DrvFields' /\ OpenFlags'
  BY <1>1 DEF AfterIsr, OpenInv, DrvFields, OpenFlags, ErrorHasCode
<1> QED BY <1>2, <1>3 DEF OpenInv

(* Every step of the open client keeps the invariant. *)
LEMMA OpenStepHolds == OpenInv /\ [OpenNext]_vars => OpenInv'
<1> SUFFICES ASSUME OpenInv, [OpenNext]_vars PROVE OpenInv'
  OBVIOUS
<1>1. dma \in DmaType /\ ErrorHasCode /\ DrvFields /\ OpenFlags
  BY DEF OpenInv
<1>2. ASSUME UNCHANGED <<dma, drv>> PROVE OpenInv'
  BY <1>2, <1>1, OpenEngineKeeps DEF ErrorHasCode
<1>3. ASSUME NEW src \in SubmitAddrs, NEW dst \in SubmitAddrs,
             NEW len \in SubmitLens, NEW irq \in BOOLEAN,
             dma_submit(src, dst, len, irq)
      PROVE  OpenInv'
  <2>1. dma' \in DmaType /\ ErrorHasCode'
    BY <1>3, OpenLaunchFacts DEF dma_submit
  <2>2. DrvFields' /\ OpenFlags'
    BY <1>1, <1>3 DEF dma_submit, DrvFields, OpenFlags
  <2> QED BY <2>1, <2>2 DEF OpenInv
<1>4. ASSUME NEW src \in SubmitAddrs, NEW dst \in SubmitAddrs,
             NEW len \in SubmitLens, NEW irq \in BOOLEAN,
             dma_start(src, dst, len, irq)
      PROVE  OpenInv'
  BY <1>4, OpenLaunchFacts, OpenEngineKeeps DEF dma_start
<1>5. CASE dma_recover
  <2>1. dma' \in DmaType /\ ErrorHasCode'
    BY <1>1, <1>5, ClearedFacts DEF dma_recover, ErrorHasCode
  <2>2. DrvFields' /\ OpenFlags'
    BY <1>1, <1>5 DEF dma_recover, DrvFields, OpenFlags
  <2> QED BY <2>1, <2>2 DEF OpenInv
<1>6. CASE Tick
  BY <1>1, <1>6, OpenTickFacts, OpenEngineKeeps DEF Tick
<1>7. CASE Dispatching
  BY <1>2, <1>7, OpenIsrKeeps DEF Dispatching, DriverIdle
<1>8. ASSUME NEW on \in BOOLEAN, Stick(on) PROVE OpenInv'
  <2>1. dma' \in DmaType /\ ErrorHasCode' /\ drv' = drv
    BY <1>1, <1>8 DEF Stick, SetStuck, DmaType, ErrorHasCode
  <2> QED BY <2>1, OpenEngineKeeps
<1>9. ASSUME NEW code \in HookCodes, Hook(code) PROVE OpenInv'
  <2>1. dma' = soc_dma_fail(dma, code) /\ drv' = drv /\ code \in ErrCodes
    BY <1>9, DriverAssumption DEF Hook, vlab_test_dma_error
  <2>2. dma' \in DmaType /\ ErrorHasCode'
    BY <1>1, <2>1, FailFacts DEF ErrorHasCode, ErrCodes, NoErr
  <2> QED BY <2>1, <2>2, OpenEngineKeeps
<1>10. CASE dma_clear
  <2>1. dma' = Cleared(dma) /\ drv' = drv
    BY <1>10 DEF dma_clear, soc_dma_write_irq_clear
  <2>2. dma' \in DmaType /\ ErrorHasCode'
    BY <1>1, <2>1, ClearedFacts DEF ErrorHasCode
  <2> QED BY <2>1, <2>2, OpenEngineKeeps
<1>11. CASE Reset
  <2>1. dma' = soc_dma_reset /\ drv' = drv
    BY <1>11 DEF Reset, soc_reset_peripherals
  <2>2. dma' \in DmaType /\ ErrorHasCode'
    BY <2>1, WidthAssumption DEF soc_dma_reset, DmaType, Uint32, ErrorHasCode
  <2> QED BY <2>1, <2>2, OpenEngineKeeps
<1>12. ASSUME dma' = dma, \E cfg : drv' = [drv EXCEPT !.cfg = cfg] PROVE OpenInv'
  BY <1>1, <1>12 DEF OpenInv, ErrorHasCode, DrvFields, OpenFlags
<1>13. CASE dma_init \/ dma_configure_periph_none
            \/ \E given \in SUBSET {"map", "caps"}, map \in ClientMaps,
                  caps \in ClientCaps : dma_configure(given, map, caps)
  <2>1. dma' = dma /\ \E cfg : drv' = [drv EXCEPT !.cfg = cfg]
    BY <1>1, <1>13 DEF dma_init, dma_configure_periph_none, dma_configure
  <2> QED BY <1>12, <2>1
<1>14. CASE UNCHANGED vars
  BY <1>2, <1>14 DEF vars
<1>15. CASE \/ Call \/ intc_ack
            \/ \E l \in ClientLines : Interrupt(l) \/ Clear(l)
            \/ \E mask \in EnableMasks : Enable(mask)
            \/ \E l \in ClientLines, h \in Handlers : Register(l, h)
            \/ \E h \in Handlers : Register(DMA, h)
            \/ \E n \in LineCounts : isr_configure(n) /\ DriverIdle
  BY <1>2, <1>15 DEF Call, intc_ack, Interrupt, Clear, Enable, Register, DriverIdle
<1>16. CASE Next
  BY <1>3, <1>5, <1>6, <1>7, <1>8, <1>9, <1>15, <1>16 DEF Next, EngineFault
<1> QED
  BY <1>3, <1>4, <1>9, <1>10, <1>11, <1>13, <1>14, <1>15, <1>16 DEF OpenNext

(* Even if the client calls the drivers and hooks in any order, the        *)
(* flag that belongs to COMPLETE or ERROR is set and IDLE has none         *)
(* (dma.c:101-206).                                                        *)
THEOREM FlagsUnderOpenClient == OpenSpec => []OpenFlags
<1>1. Init => OpenInv
  BY InitHolds DEF Init, soc_dma_reset, IInv, TypeOK, OpenInv, ErrorHasCode,
                   DrvFields, OpenFlags
<1> QED BY <1>1, OpenStepHolds, PTL DEF OpenSpec, OpenInv

-----------------------------------------------------------------------------
(***************************************************************************)
(* The driver on silicon, where dma_isr preempts the main line.  The       *)
(* inductive invariant: PreemptTypeOK and NoCompletionPreempted need       *)
(* which lifecycle state each step of a call goes with; that client code   *)
(* runs during a call, so that dma_isr does not; that the line is pending, *)
(* or dma_isr about to read STATUS, only with a flag set, so that no       *)
(* dma_isr is spurious and none clears a flag it has not read; and that    *)
(* what was validated is what is programmed and started.                   *)
(***************************************************************************)
Starting == {"submit_validate", "submit_program", "submit_start", "submit_active"}

Recovering == {"recover_clear", "recover_intc", "recover_idle"}

CallInv ==
  /\ s_irq_masked \in BOOLEAN
  /\ main.pc # "client" => ClientRuns
  /\ drv.s_state = "STARTING" <=> main.pc \in Starting
  /\ drv.s_state = "RECOVERY" <=> main.pc \in Recovering
  /\ main.pc \in {"submit_program", "submit_start"} =>
       soc_dma_start_code(Platform, main.src, main.dst, main.len) = "OK"
  /\ main.pc = "submit_start" =>
       dma.src = main.src /\ dma.dst = main.dst /\ dma.length = main.len

(* The DMA interrupt is pending, or dma_isr is about to read STATUS. *)
Announced == DMA \in intc.pending \/ InHandler("status")

SignalInv ==
  /\ isr_at \in {"status", "clear", "intc"}
  /\ isr_at # "status" => InDmaIsr /\ LifecycleState \in {"COMPLETE", "ERROR"}
  /\ Announced => dma.done \/ dma.error
  /\ InDmaIsr => DMA \notin intc.pending

(* Outside ACTIVE the engine is quiet, but for the flag that dma_isr has   *)
(* read and not cleared yet.                                               *)
QuietInv ==
  LifecycleState # "ACTIVE" =>
    /\ ~dma.busy
    /\ isr_at # "clear" => ~dma.done /\ ~dma.error

ResultInv ==
  /\ drv.s_done_flag <=> LifecycleState = "COMPLETE"
  /\ drv.s_err_latch # NoErr <=> LifecycleState = "ERROR"

PreemptInv ==
  /\ PreemptTypeOK
  /\ EngineInv
  /\ DispatchInv
  /\ CallInv
  /\ SignalInv
  /\ NoCompletionPreempted
  /\ QuietInv
  /\ ResultInv

PreemptDrvType ==
  [s_state : DrvStates \cup {"STARTING", "RECOVERY"},
   s_done_flag : BOOLEAN, s_err_latch : ErrCodes \cup {NoErr},
   s_irq_count : Counter, cfg : {Platform}]

MainType == [pc : CallSteps \cup ClientAt, src : Uint32, dst : Uint32,
             len : Uint32, key : BOOLEAN]

(* A step of the split driver is a step of the lifecycle or a stutter. *)
Refines == PreemptLifecycle!Next \/ UNCHANGED PreemptLifecycle!vars

-----------------------------------------------------------------------------
(* The lifecycle state of each state of the driver. *)
LEMMA StateFacts ==
  ASSUME PreemptTypeOK, CallInv
  PROVE  /\ drv.s_state \in DrvStates => LifecycleState = drv.s_state
         /\ drv.s_state = "STARTING" =>
              LifecycleState = IF main.pc = "submit_active" THEN "ACTIVE" ELSE "IDLE"
         /\ drv.s_state = "RECOVERY" =>
              LifecycleState = IF drv.s_done_flag THEN "COMPLETE" ELSE "ERROR"
         /\ LifecycleState \in DrvStates
         /\ LifecycleState = "ACTIVE" <=>
              drv.s_state = "ACTIVE" \/ main.pc = "submit_active"
<1>1. drv.s_state \in DrvStates \cup {"STARTING", "RECOVERY"}
  BY DEF PreemptTypeOK
<1>2. main.pc = "submit_active" => drv.s_state = "STARTING"
  BY DEF CallInv, Starting
<1>3. CASE drv.s_state = "STARTING"
  BY <1>2, <1>3 DEF LifecycleState, DrvStates
<1>4. CASE drv.s_state = "RECOVERY"
  BY <1>2, <1>4 DEF LifecycleState, DrvStates
<1>5. CASE drv.s_state \in DrvStates
  BY <1>2, <1>5 DEF LifecycleState, DrvStates
<1> QED BY <1>1, <1>3, <1>4, <1>5

(* A step that leaves the lifecycle state, the results, the flags of the   *)
(* engine and the announcement of the interrupt alone keeps the invariant  *)
(* and is a stutter.                                                       *)
LEMMA StutterKeeps ==
  ASSUME PreemptInv, PreemptTypeOK', DispatchInv', CallInv', SignalInv',
         LifecycleState' = LifecycleState,
         drv'.s_done_flag = drv.s_done_flag,
         drv'.s_err_latch = drv.s_err_latch,
         dma'.busy = dma.busy, dma'.done = dma.done, dma'.error = dma.error,
         dma'.err_code = dma.err_code, dma'.ctrl = dma.ctrl,
         dma'.irq_enable_latched = dma.irq_enable_latched,
         Announced => Announced', isr_at' = "clear" <=> isr_at = "clear"
  PROVE  PreemptInv' /\ Refines
<1>1. EngineInv'
  BY DEF PreemptInv, EngineInv
<1>2. QuietInv' /\ ResultInv'
  BY DEF PreemptInv, QuietInv, ResultInv
<1>3. NoCompletionPreempted'
  <2>1. /\ LifecycleState = "ACTIVE" <=>
             drv.s_state = "ACTIVE" \/ main.pc = "submit_active"
        /\ (LifecycleState = "ACTIVE" <=>
             drv.s_state = "ACTIVE" \/ main.pc = "submit_active")'
    BY StateFacts, PTL DEF PreemptInv
  <2> QED BY <2>1 DEF PreemptInv, NoCompletionPreempted, Announced
<1>4. InHandler("clear")' <=> InHandler("clear")
  BY DEF PreemptInv, SignalInv, InHandler, InDmaIsr
<1>5. UNCHANGED PreemptLifecycle!vars
  BY <1>4 DEF PreemptLifecycle!vars, Outcome, Reported
<1> QED BY <1>1, <1>2, <1>3, <1>5 DEF PreemptInv, Refines

-----------------------------------------------------------------------------
(* The main line. *)

(* What the invariant says while a call is in progress: dma_isr does not   *)
(* run, and outside ACTIVE the engine is quiet.                            *)
LEMMA InCall ==
  ASSUME PreemptInv, ClientRuns
  PROVE  /\ ~InDmaIsr /\ isr_at = "status"
         /\ LifecycleState # "ACTIVE" =>
              /\ ~dma.busy /\ ~dma.done /\ ~dma.error
              /\ DMA \notin intc.pending
<1>1. ~InDmaIsr
  BY DEF ClientRuns, InDmaIsr
<1>2. isr_at = "status"
  BY <1>1 DEF PreemptInv, SignalInv
<1> QED BY <1>1, <1>2 DEF PreemptInv, QuietInv, SignalInv, Announced

(* A step of the main line that leaves the hardware alone, keeps its own   *)
(* invariant, and changes neither lifecycle state nor results.             *)
LEMMA MainKeeps ==
  ASSUME PreemptInv, UNCHANGED <<dma, intc, isr, isr_at>>,
         drv' \in PreemptDrvType, main' \in MainType,
         s_irq_masked' <=> main'.pc # "client", CallInv',
         LifecycleState' = LifecycleState,
         drv'.s_done_flag = drv.s_done_flag,
         drv'.s_err_latch = drv.s_err_latch
  PROVE  PreemptInv' /\ Refines
<1>1. PreemptTypeOK' /\ DispatchInv'
  BY DEF PreemptInv, PreemptTypeOK, PreemptDrvType, MainType, DispatchInv
<1>2. SignalInv' /\ (Announced => Announced')
  BY DEF PreemptInv, SignalInv, Announced, InHandler, InDmaIsr
<1> QED BY <1>1, <1>2, StutterKeeps

(* The facts that the steps of the main line start from. *)
LEMMA MainFacts ==
  ASSUME PreemptInv
  PROVE  /\ drv \in PreemptDrvType /\ main \in MainType
         /\ dma \in DmaType /\ intc \in IntcType /\ isr \in IsrType
         /\ (s_irq_masked <=> main.pc # "client")
         /\ CallInv /\ PreemptTypeOK
BY DEF PreemptInv, PreemptTypeOK, PreemptDrvType, MainType

(* Entering a call: dma_submit or dma_recover. *)
LEMMA EnterKeeps ==
  ASSUME PreemptInv, NEW pc \in {"submit_check", "recover_check"},
         NEW src \in Uint32, NEW dst \in Uint32, NEW len \in Uint32,
         Enter(pc, src, dst, len)
  PROVE  PreemptInv' /\ Refines
<1>1. /\ main.pc \in ClientAt /\ ClientRuns /\ s_irq_masked' = TRUE
      /\ main' = [pc |-> pc, src |-> src, dst |-> dst, len |-> len,
                  key |-> s_irq_masked]
      /\ UNCHANGED <<drv, dma, intc, isr, isr_at>>
  BY DEF Enter, Outside, Hardware
<1>2. s_irq_masked \in BOOLEAN
  BY MainFacts DEF CallInv
<1>3. main' \in MainType /\ main'.pc = pc
  BY <1>1, <1>2 DEF MainType, CallSteps
<1>4. CallInv' /\ LifecycleState' = LifecycleState
  BY <1>1, <1>3, MainFacts
     DEF CallInv, ClientAt, ClientRuns, LifecycleState, Starting, Recovering
<1> QED BY <1>1, <1>3, <1>4, MainFacts, MainKeeps

(* hal_irq_restore puts back the mask that the call found, open or closed. *)
LEMMA RestoreKeeps ==
  ASSUME PreemptInv, restore
  PROVE  PreemptInv' /\ Refines
<1> DEFINE at == IF main.key THEN "section" ELSE "client"
<1>1. /\ main.pc = "restore" /\ ClientRuns /\ s_irq_masked' = main.key
      /\ main' = [NoCall EXCEPT !.pc = at]
      /\ UNCHANGED <<drv, dma, intc, isr, isr_at>>
  BY DEF restore, At, Returned, Hardware
<1>2. main.key \in BOOLEAN /\ at \in ClientAt /\ (main.key <=> at # "client")
  BY MainFacts DEF MainType, ClientAt
<1> HIDE DEF at
<1>3. main' \in MainType /\ main'.pc = at
  <2>1. 0 \in Uint32
    BY WidthAssumption DEF Uint32
  <2>2. main' = [pc |-> at, src |-> 0, dst |-> 0, len |-> 0, key |-> FALSE]
    BY <1>1 DEF NoCall
  <2> DEFINE closed == FALSE
  <2>3. closed \in BOOLEAN
    OBVIOUS
  <2>4. main' = [pc |-> at, src |-> 0, dst |-> 0, len |-> 0, key |-> closed]
    BY <2>2
  <2> HIDE DEF closed
  <2> QED BY <1>2, <2>1, <2>3, <2>4 DEF MainType
<1>4. CallInv' /\ LifecycleState' = LifecycleState
  BY <1>1, <1>2, <1>3, MainFacts
     DEF CallInv, ClientAt, ClientRuns, LifecycleState, Starting, Recovering
<1> QED BY <1>1, <1>2, <1>3, <1>4, MainFacts, MainKeeps

(* The client masks interrupts and opens the mask again, between calls. *)
LEMMA SectionKeeps ==
  ASSUME PreemptInv, hal_irq_disable \/ hal_irq_restore
  PROVE  PreemptInv' /\ Refines
<1>1. /\ main.pc \in ClientAt /\ ClientRuns
      /\ UNCHANGED <<drv, dma, intc, isr, isr_at>>
  BY DEF hal_irq_disable, hal_irq_restore, At, ClientAt, Hardware
<1>2. PICK at \in ClientAt : Goto(at) /\ (s_irq_masked' <=> at # "client")
                              /\ s_irq_masked' \in BOOLEAN
  BY DEF hal_irq_disable, hal_irq_restore, ClientAt
<1>3. main' \in MainType /\ main'.pc = at
  BY <1>2, MainFacts DEF Goto, MainType
<1>4. CallInv' /\ LifecycleState' = LifecycleState
  BY <1>1, <1>2, <1>3, MainFacts
     DEF CallInv, ClientAt, ClientRuns, LifecycleState, Starting, Recovering
<1> QED BY <1>1, <1>2, <1>3, <1>4, MainFacts, MainKeeps

(* A step to another line of the same call. *)
LEMMA GotoFacts ==
  ASSUME PreemptInv, NEW pc \in CallSteps, Goto(pc)
  PROVE  /\ main' \in MainType /\ main'.pc = pc
         /\ main'.src = main.src /\ main'.dst = main.dst /\ main'.len = main.len
BY MainFacts DEF Goto, MainType, CallInv

(* The check of the state and the claim STARTING (dma.c:147-152). *)
LEMMA SubmitCheckKeeps ==
  ASSUME PreemptInv, submit_check
  PROVE  PreemptInv' /\ Refines
<1>1. /\ main.pc = "submit_check" /\ ClientRuns
      /\ UNCHANGED <<dma, intc, isr, isr_at, s_irq_masked>>
  BY DEF submit_check, At, Hardware
<1>2. CASE drv.s_state # "IDLE"
  <2>1. Goto("restore") /\ drv' = drv
    BY <1>2 DEF submit_check
  <2>2. main' \in MainType /\ main'.pc = "restore"
    BY <2>1, GotoFacts DEF CallSteps
  <2>3. CallInv' /\ LifecycleState' = LifecycleState
    BY <1>1, <2>1, <2>2, MainFacts
       DEF CallInv, ClientRuns, LifecycleState, Starting, Recovering
  <2> QED BY <1>1, <2>1, <2>2, <2>3, MainFacts, MainKeeps
<1>3. CASE drv.s_state = "IDLE"
  <2>1. Goto("submit_validate") /\ drv' = [drv EXCEPT !.s_state = "STARTING"]
    BY <1>3 DEF submit_check, SetState
  <2>2. main' \in MainType /\ main'.pc = "submit_validate"
    BY <2>1, GotoFacts DEF CallSteps
  <2>3. /\ drv' \in PreemptDrvType /\ drv'.s_state = "STARTING"
        /\ drv'.s_done_flag = drv.s_done_flag
        /\ drv'.s_err_latch = drv.s_err_latch
    BY <2>1, MainFacts DEF PreemptDrvType
  <2>4. CallInv' /\ LifecycleState' = LifecycleState
    BY <1>1, <1>3, <2>2, <2>3, MainFacts
       DEF CallInv, ClientRuns, LifecycleState, Starting, Recovering
  <2> QED BY <1>1, <2>2, <2>3, <2>4, MainFacts, MainKeeps
<1> QED BY <1>2, <1>3

(* Validation, with what it means for the engine (dma.c:153-158). *)
LEMMA SubmitValidateKeeps ==
  ASSUME PreemptInv, submit_validate
  PROVE  PreemptInv' /\ Refines
<1>1. /\ main.pc = "submit_validate" /\ ClientRuns /\ drv.s_state = "STARTING"
      /\ UNCHANGED <<dma, intc, isr, isr_at, s_irq_masked>>
  BY MainFacts DEF submit_validate, At, Hardware, CallInv, Starting
<1>2. CASE Valid(main.src, main.dst, main.len)
  <2>1. Goto("submit_program") /\ drv' = drv
    BY <1>2 DEF submit_validate
  <2>2. /\ main' \in MainType /\ main'.pc = "submit_program"
        /\ main'.src = main.src /\ main'.dst = main.dst /\ main'.len = main.len
    BY <2>1, GotoFacts DEF CallSteps
  <2>3. soc_dma_start_code(Platform, main.src, main.dst, main.len) = "OK"
    <3>1. ~dma.busy /\ dma.busy \in BOOLEAN /\ drv.cfg = Platform
      BY <1>2, MainFacts DEF Valid, validate, DmaType, PreemptDrvType
    <3>2. validate(Platform, FALSE, main.src, main.dst, main.len) = "OK"
      BY <1>2, <3>1 DEF Valid
    <3> QED BY <3>2, ValidationAgrees, DriverAssumption
  <2>4. CallInv' /\ LifecycleState' = LifecycleState
    BY <1>1, <2>1, <2>2, <2>3, MainFacts
       DEF CallInv, ClientRuns, LifecycleState, Starting, Recovering
  <2> QED BY <1>1, <2>1, <2>2, <2>4, MainFacts, MainKeeps
<1>3. CASE ~Valid(main.src, main.dst, main.len)
  <2>1. Goto("restore") /\ drv' = [drv EXCEPT !.s_state = "IDLE"]
    BY <1>3 DEF submit_validate, SetState
  <2>2. main' \in MainType /\ main'.pc = "restore"
    BY <2>1, GotoFacts DEF CallSteps
  <2>3. /\ drv' \in PreemptDrvType /\ drv'.s_state = "IDLE"
        /\ drv'.s_done_flag = drv.s_done_flag
        /\ drv'.s_err_latch = drv.s_err_latch
    BY <2>1, MainFacts DEF PreemptDrvType, DrvStates
  <2>4. CallInv' /\ LifecycleState' = LifecycleState
    BY <1>1, <2>2, <2>3, MainFacts
       DEF CallInv, ClientRuns, LifecycleState, Starting, Recovering
  <2> QED BY <1>1, <2>2, <2>3, <2>4, MainFacts, MainKeeps
<1> QED BY <1>2, <1>3

(* SRC, DST and LEN are programmed; the results were clear already         *)
(* (dma.c:159-163).                                                        *)
LEMMA SubmitProgramKeeps ==
  ASSUME PreemptInv, submit_program
  PROVE  PreemptInv' /\ Refines
<1>1. /\ main.pc = "submit_program" /\ ClientRuns /\ Goto("submit_start")
      /\ drv' = [drv EXCEPT !.s_done_flag = FALSE, !.s_err_latch = NoErr]
      /\ dma' = Programmed(dma, main.src, main.dst, main.len)
      /\ UNCHANGED <<intc, isr, isr_at, s_irq_masked>>
  BY DEF submit_program, At
<1>2. drv.s_state = "STARTING" /\ LifecycleState = "IDLE"
  BY <1>1, MainFacts, StateFacts DEF CallInv, Starting
<1>3. drv.s_done_flag = FALSE /\ drv.s_err_latch = NoErr
  BY <1>2, MainFacts DEF PreemptInv, ResultInv, PreemptDrvType
<1>4. /\ main' \in MainType /\ main'.pc = "submit_start"
      /\ main'.src = main.src /\ main'.dst = main.dst /\ main'.len = main.len
  BY <1>1, GotoFacts DEF CallSteps
<1>5. /\ drv' \in PreemptDrvType /\ drv'.s_state = drv.s_state
      /\ drv'.s_done_flag = FALSE /\ drv'.s_err_latch = NoErr
  BY <1>1, MainFacts DEF PreemptDrvType
<1>6. /\ dma' \in DmaType
      /\ dma'.src = main.src /\ dma'.dst = main.dst /\ dma'.length = main.len
      /\ dma'.busy = dma.busy /\ dma'.done = dma.done /\ dma'.error = dma.error
      /\ dma'.err_code = dma.err_code /\ dma'.ctrl = dma.ctrl
      /\ dma'.irq_enable_latched = dma.irq_enable_latched
  BY <1>1, MainFacts DEF Programmed, DmaType, MainType
<1>7. CallInv' /\ LifecycleState' = LifecycleState
  BY <1>1, <1>2, <1>4, <1>5, <1>6, MainFacts
     DEF CallInv, ClientRuns, LifecycleState, Starting, Recovering
<1>8. PreemptTypeOK' /\ DispatchInv'
  BY <1>1, <1>4, <1>5, <1>6, MainFacts
     DEF PreemptInv, PreemptTypeOK, PreemptDrvType, MainType, DispatchInv
<1>9. SignalInv' /\ (Announced => Announced')
  BY <1>1, <1>6, <1>7 DEF PreemptInv, SignalInv, Announced, InHandler, InDmaIsr
<1> QED BY <1>1, <1>3, <1>5, <1>6, <1>7, <1>8, <1>9, StutterKeeps

(* START is the submission: the engine accepts what was validated          *)
(* (dma.c:164-165).                                                        *)
LEMMA SubmitStartKeeps ==
  ASSUME PreemptInv, submit_start
  PROVE  PreemptInv' /\ Refines
<1>1. /\ main.pc = "submit_start" /\ ClientRuns /\ Goto("submit_active")
      /\ dma' = soc_dma_write_start(dma, TRUE)
      /\ intc' = StartIntc(dma, TRUE, intc)
      /\ UNCHANGED <<drv, isr, isr_at, s_irq_masked>>
  BY DEF submit_start, At, soc_dma_write_ctrl
<1>2. drv.s_state = "STARTING" /\ LifecycleState = "IDLE"
  BY <1>1, MainFacts, StateFacts DEF CallInv, Starting
<1>3. /\ ~InDmaIsr /\ isr_at = "status" /\ DMA \notin intc.pending
      /\ ~dma.busy /\ ~dma.done /\ ~dma.error
  BY <1>1, <1>2, InCall
<1>4. soc_dma_start_code(Platform, dma.src, dma.dst, dma.length) = "OK"
  BY <1>1, MainFacts DEF CallInv
<1>5. /\ dma' \in DmaType /\ dma'.busy /\ ~dma'.done /\ ~dma'.error
      /\ dma'.err_code = NoErr /\ dma'.irq_enable_latched /\ "IRQ_ENABLE" \in dma'.ctrl
      /\ intc' = intc
  BY <1>1, <1>3, <1>4, MainFacts, AcceptedStart
<1>6. main' \in MainType /\ main'.pc = "submit_active"
  BY <1>1, GotoFacts DEF CallSteps
<1>7. LifecycleState' = "ACTIVE"
  BY <1>1, <1>2, <1>6 DEF LifecycleState
<1>8. PreemptTypeOK' /\ DispatchInv' /\ EngineInv'
  BY <1>1, <1>5, <1>6, MainFacts
     DEF PreemptInv, PreemptTypeOK, PreemptDrvType, MainType, DispatchInv, EngineInv
<1>9. CallInv'
  BY <1>1, <1>2, <1>6, MainFacts DEF CallInv, ClientRuns, Starting, Recovering
<1>10. SignalInv' /\ QuietInv' /\ NoCompletionPreempted'
  BY <1>1, <1>3, <1>5, <1>7
     DEF SignalInv, Announced, InHandler, InDmaIsr, QuietInv, NoCompletionPreempted
<1>11. ResultInv'
  BY <1>1, <1>2, <1>7 DEF PreemptInv, ResultInv
<1>12. PreemptLifecycle!Submit
  BY <1>1, <1>2, <1>3, <1>5, <1>7
     DEF PreemptLifecycle!Submit, Outcome, Reported, InHandler
<1> QED BY <1>8, <1>9, <1>10, <1>11, <1>12
        DEF PreemptInv, Refines, PreemptLifecycle!Next

(* ACTIVE is set after START, which for the client is the same state       *)
(* (dma.c:166).                                                            *)
LEMMA SubmitActiveKeeps ==
  ASSUME PreemptInv, submit_active
  PROVE  PreemptInv' /\ Refines
<1>1. /\ main.pc = "submit_active" /\ ClientRuns /\ Goto("restore")
      /\ drv' = [drv EXCEPT !.s_state = "ACTIVE"]
      /\ UNCHANGED <<dma, intc, isr, isr_at, s_irq_masked>>
  BY DEF submit_active, At, Hardware, SetState
<1>2. LifecycleState = "ACTIVE"
  BY <1>1, MainFacts, StateFacts
<1>3. main' \in MainType /\ main'.pc = "restore"
  BY <1>1, GotoFacts DEF CallSteps
<1>4. /\ drv' \in PreemptDrvType /\ drv'.s_state = "ACTIVE"
      /\ drv'.s_done_flag = drv.s_done_flag
      /\ drv'.s_err_latch = drv.s_err_latch
  BY <1>1, MainFacts DEF PreemptDrvType, DrvStates
<1>5. CallInv' /\ LifecycleState' = "ACTIVE"
  BY <1>1, <1>3, <1>4, MainFacts
     DEF CallInv, ClientRuns, LifecycleState, Starting, Recovering
<1> QED BY <1>1, <1>2, <1>3, <1>4, <1>5, MainFacts, MainKeeps

(* dma_recover refuses an ACTIVE or IDLE driver, and otherwise claims      *)
(* RECOVERY.                                                               *)
LEMMA RecoverCheckKeeps ==
  ASSUME PreemptInv, recover_check
  PROVE  PreemptInv' /\ Refines
<1>1. /\ main.pc = "recover_check" /\ ClientRuns
      /\ UNCHANGED <<dma, intc, isr, isr_at, s_irq_masked>>
  BY DEF recover_check, At, Hardware
<1>2. CASE drv.s_state \notin {"ERROR", "COMPLETE"}
  <2>1. Goto("restore") /\ drv' = drv
    BY <1>2 DEF recover_check
  <2>2. main' \in MainType /\ main'.pc = "restore"
    BY <2>1, GotoFacts DEF CallSteps
  <2>3. CallInv' /\ LifecycleState' = LifecycleState
    BY <1>1, <2>1, <2>2, MainFacts
       DEF CallInv, ClientRuns, LifecycleState, Starting, Recovering
  <2> QED BY <1>1, <2>1, <2>2, <2>3, MainFacts, MainKeeps
<1>3. CASE drv.s_state \in {"ERROR", "COMPLETE"}
  <2>1. Goto("recover_clear") /\ drv' = [drv EXCEPT !.s_state = "RECOVERY"]
    BY <1>3 DEF recover_check, SetState
  <2>2. main' \in MainType /\ main'.pc = "recover_clear"
    BY <2>1, GotoFacts DEF CallSteps
  <2>3. /\ drv' \in PreemptDrvType /\ drv'.s_state = "RECOVERY"
        /\ drv'.s_done_flag = drv.s_done_flag
        /\ drv'.s_err_latch = drv.s_err_latch
    BY <2>1, MainFacts DEF PreemptDrvType
  <2>4. CallInv'
    BY <1>1, <2>2, <2>3, MainFacts DEF CallInv, ClientRuns, Starting, Recovering
  <2>5. LifecycleState = drv.s_state
    BY <1>3, MainFacts, StateFacts DEF DrvStates
  <2>6. LifecycleState' = LifecycleState
    BY <1>3, <2>3, <2>5 DEF PreemptInv, ResultInv, LifecycleState
  <2> QED BY <1>1, <2>2, <2>3, <2>4, <2>6, MainFacts, MainKeeps
<1> QED BY <1>2, <1>3

(* In RECOVERY the engine is quiet, and stays so. *)
LEMMA RecoverClearKeeps ==
  ASSUME PreemptInv, recover_clear
  PROVE  PreemptInv' /\ Refines
<1>1. /\ main.pc = "recover_clear" /\ ClientRuns /\ Goto("recover_intc")
      /\ dma' = Cleared(dma)
      /\ UNCHANGED <<drv, intc, isr, isr_at, s_irq_masked>>
  BY DEF recover_clear, At, soc_dma_write_irq_clear
<1>2. drv.s_state = "RECOVERY" /\ LifecycleState # "ACTIVE"
  BY <1>1, MainFacts, StateFacts DEF CallInv, Recovering
<1>3. ~dma.busy /\ dma.done = FALSE /\ dma.error = FALSE /\ dma.err_code = NoErr
  BY <1>1, <1>2, InCall, MainFacts DEF PreemptInv, EngineInv, DmaType
<1>5. main' \in MainType /\ main'.pc = "recover_intc"
  BY <1>1, GotoFacts DEF CallSteps
<1>6. /\ dma' \in DmaType
      /\ dma'.busy = dma.busy /\ dma'.done = dma.done /\ dma'.error = dma.error
      /\ dma'.err_code = dma.err_code /\ dma'.ctrl = dma.ctrl
      /\ dma'.irq_enable_latched = dma.irq_enable_latched
  BY <1>1, <1>3, MainFacts DEF Cleared, DmaType
<1>7. CallInv' /\ LifecycleState' = LifecycleState
  BY <1>1, <1>2, <1>5, MainFacts
     DEF CallInv, ClientRuns, LifecycleState, Starting, Recovering
<1>8. PreemptTypeOK' /\ DispatchInv'
  BY <1>1, <1>5, <1>6, MainFacts
     DEF PreemptInv, PreemptTypeOK, PreemptDrvType, MainType, DispatchInv
<1>9. SignalInv' /\ (Announced => Announced')
  BY <1>1, <1>6, <1>7 DEF PreemptInv, SignalInv, Announced, InHandler, InDmaIsr
<1> QED BY <1>1, <1>6, <1>7, <1>8, <1>9, StutterKeeps

(* A step that changes the controller or the dispatcher only. *)
LEMMA InterruptKeeps ==
  ASSUME PreemptInv, UNCHANGED <<dma, drv, isr_at, s_irq_masked>>,
         intc' \in IntcType, isr' \in IsrType, DispatchInv', main' \in MainType,
         CallInv', LifecycleState' = LifecycleState,
         s_irq_masked <=> main'.pc # "client",
         isr_at # "status" => InDmaIsr', Announced <=> Announced',
         InDmaIsr' => DMA \notin intc'.pending
  PROVE  PreemptInv' /\ Refines
<1>1. PreemptTypeOK'
  BY MainFacts DEF PreemptTypeOK, PreemptDrvType, MainType
<1>2. SignalInv'
  BY DEF PreemptInv, SignalInv
<1> QED BY <1>1, <1>2, StutterKeeps

(* CLEAR of the DMA line during dma_recover. *)
LEMMA RecoverIntcKeeps ==
  ASSUME PreemptInv, recover_intc
  PROVE  PreemptInv' /\ Refines
<1>1. /\ main.pc = "recover_intc" /\ ClientRuns /\ Goto("recover_idle")
      /\ intc' = soc_intc_write_clear(intc, DMA)
      /\ UNCHANGED <<dma, drv, isr, isr_at, s_irq_masked>>
  BY DEF recover_intc, At
<1>2. main' \in MainType /\ main'.pc = "recover_idle"
  BY <1>1, GotoFacts DEF CallSteps
<1>3. intc' \in IntcType /\ intc'.pending = intc.pending
  BY <1>1, MainFacts, ClearFacts
<1>4. CallInv' /\ LifecycleState' = LifecycleState
  BY <1>1, <1>2, MainFacts
     DEF CallInv, ClientRuns, LifecycleState, Starting, Recovering
<1>5. /\ Announced <=> Announced'
      /\ isr_at # "status" => InDmaIsr'
      /\ InDmaIsr' => DMA \notin intc'.pending
      /\ DispatchInv'
  BY <1>1, <1>3
     DEF PreemptInv, SignalInv, Announced, InHandler, InDmaIsr, DispatchInv
<1> QED BY <1>1, <1>2, <1>3, <1>4, <1>5, MainFacts, InterruptKeeps

(* The results are cleared and the driver is IDLE again: the recovery.     *)
LEMMA RecoverIdleKeeps ==
  ASSUME PreemptInv, recover_idle
  PROVE  PreemptInv' /\ Refines
<1>1. /\ main.pc = "recover_idle" /\ ClientRuns /\ Goto("restore")
      /\ drv' = [drv EXCEPT !.s_state = "IDLE", !.s_done_flag = FALSE,
                            !.s_err_latch = NoErr]
      /\ UNCHANGED <<dma, intc, isr, isr_at, s_irq_masked>>
  BY DEF recover_idle, At, Hardware
<1>2. drv.s_state = "RECOVERY" /\ LifecycleState \in {"COMPLETE", "ERROR"}
  BY <1>1, MainFacts, StateFacts DEF CallInv, Recovering
<1>3. /\ ~InDmaIsr /\ isr_at = "status" /\ DMA \notin intc.pending
      /\ ~dma.busy /\ ~dma.done /\ ~dma.error
  BY <1>1, <1>2, InCall
<1>4. main' \in MainType /\ main'.pc = "restore"
  BY <1>1, GotoFacts DEF CallSteps
<1>5. /\ drv' \in PreemptDrvType /\ drv'.s_state = "IDLE"
      /\ ~drv'.s_done_flag /\ drv'.s_err_latch = NoErr
  BY <1>1, MainFacts DEF PreemptDrvType, DrvStates
<1>6. LifecycleState' = "IDLE"
  BY <1>5 DEF LifecycleState
<1>7. PreemptTypeOK' /\ DispatchInv' /\ EngineInv'
  BY <1>1, <1>4, <1>5, MainFacts
     DEF PreemptInv, PreemptTypeOK, PreemptDrvType, MainType, DispatchInv, EngineInv
<1>8. CallInv'
  BY <1>1, <1>4, <1>5, MainFacts DEF CallInv, ClientRuns, Starting, Recovering
<1>9. SignalInv' /\ QuietInv'
  BY <1>1, <1>3 DEF SignalInv, Announced, InHandler, InDmaIsr, QuietInv
<1>10. NoCompletionPreempted' /\ ResultInv'
  BY <1>4, <1>5, <1>6 DEF NoCompletionPreempted, ResultInv
<1>11. PreemptLifecycle!Recover
  BY <1>1, <1>2, <1>3, <1>5, <1>6
     DEF PreemptLifecycle!Recover, Outcome, Reported, InHandler
<1> QED BY <1>7, <1>8, <1>9, <1>10, <1>11
        DEF PreemptInv, Refines, PreemptLifecycle!Next

-----------------------------------------------------------------------------
(* The handler. *)

(* While dma_isr runs, no call is in progress. *)
LEMMA InIsr ==
  ASSUME PreemptInv, InDmaIsr
  PROVE  /\ ~ClientRuns /\ main.pc = "client" /\ LifecycleState = drv.s_state
         /\ drv.s_state \in DrvStates
<1>1. ~ClientRuns
  BY DEF InDmaIsr, ClientRuns
<1>2. main.pc = "client"
  BY <1>1, MainFacts DEF CallInv
<1>3. drv.s_state \in DrvStates
  BY <1>2, MainFacts DEF CallInv, Starting, Recovering, PreemptDrvType
<1> QED BY <1>1, <1>2, <1>3, MainFacts, StateFacts

(* dma_isr reads STATUS and finds the outcome (dma.c:181-188). *)
LEMMA IsrStatusKeeps ==
  ASSUME PreemptInv, isr_status
  PROVE  PreemptInv' /\ Refines
<1>1. /\ InDmaIsr /\ isr_at = "status" /\ isr_at' = "clear"
      /\ drv' = [AfterIsr(drv) EXCEPT !.s_irq_count = drv.s_irq_count]
      /\ UNCHANGED <<dma, intc, isr, main, s_irq_masked>>
  BY DEF isr_status, InHandler, InDmaIsr, Hardware, MainIdle
<1>2. /\ main.pc = "client" /\ LifecycleState = drv.s_state
  BY <1>1, InIsr
<1>3. /\ dma.done \/ dma.error
      /\ DMA \notin intc.pending
      /\ ~dma.busy /\ ~(dma.done /\ dma.error)
      /\ dma.error => dma.err_code \in ErrCodes
  BY <1>1, MainFacts
     DEF PreemptInv, SignalInv, Announced, InHandler, InDmaIsr, EngineInv, DmaType
<1>4. LifecycleState = "ACTIVE"
  BY <1>1, <1>3 DEF PreemptInv, QuietInv
<1>5. ~drv.s_done_flag /\ drv.s_err_latch = NoErr
  BY <1>4 DEF PreemptInv, ResultInv
<1>6. /\ drv' \in PreemptDrvType
      /\ dma.done => /\ drv'.s_state = "COMPLETE" /\ drv'.s_done_flag
                     /\ drv'.s_err_latch = NoErr
      /\ dma.error => /\ drv'.s_state = "ERROR" /\ ~drv'.s_done_flag
                      /\ drv'.s_err_latch = dma.err_code
  <2>1. Bump(drv.s_irq_count, 1) \in Counter
    BY MainFacts, BumpIsCounter DEF PreemptDrvType
  <2>2. /\ AfterIsr(drv) \in PreemptDrvType
        /\ dma.done => /\ AfterIsr(drv).s_state = "COMPLETE"
                       /\ AfterIsr(drv).s_done_flag
                       /\ AfterIsr(drv).s_err_latch = NoErr
        /\ dma.error => /\ AfterIsr(drv).s_state = "ERROR"
                        /\ ~AfterIsr(drv).s_done_flag
                        /\ AfterIsr(drv).s_err_latch = dma.err_code
    BY <1>3, <1>5, <2>1, MainFacts DEF AfterIsr, PreemptDrvType, DrvStates
  <2> QED BY <1>1, <2>2, MainFacts DEF PreemptDrvType
<1>7. LifecycleState' = drv'.s_state /\ drv'.s_state \in {"COMPLETE", "ERROR"}
  BY <1>3, <1>6 DEF LifecycleState
<1>8. PreemptTypeOK' /\ DispatchInv' /\ EngineInv'
  BY <1>1, <1>6, MainFacts
     DEF PreemptInv, PreemptTypeOK, PreemptDrvType, MainType, DispatchInv, EngineInv
<1>9. CallInv'
  BY <1>1, <1>2, <1>7, MainFacts DEF CallInv, ClientRuns, Starting, Recovering
<1>10. SignalInv' /\ QuietInv'
  BY <1>1, <1>3, <1>7
     DEF SignalInv, Announced, InHandler, InDmaIsr, QuietInv
<1>11. NoCompletionPreempted' /\ ResultInv'
  BY <1>1, <1>2, <1>3, <1>6, <1>7
     DEF NoCompletionPreempted, ResultInv, ErrCodes, NoErr
<1>12. PreemptLifecycle!Report
  <2>1. InHandler("clear")' /\ ~InHandler("clear")
    BY <1>1 DEF InHandler, InDmaIsr
  <2>2. /\ Outcome # NoErr /\ Reported' = Outcome
        /\ LifecycleState' = IF Outcome = "done" THEN "COMPLETE" ELSE "ERROR"
    BY <1>3, <1>6, <1>7 DEF Outcome, Reported, ErrCodes, NoErr
  <2> QED BY <1>4, <2>1, <2>2 DEF PreemptLifecycle!Report
<1> QED BY <1>8, <1>9, <1>10, <1>11, <1>12
        DEF PreemptInv, Refines, PreemptLifecycle!Next

(* IRQ_CLEAR takes back the flag that was read, and no other (dma.c:190).  *)
LEMMA IsrClearKeeps ==
  ASSUME PreemptInv, isr_clear
  PROVE  PreemptInv' /\ Refines
<1>1. /\ InDmaIsr /\ isr_at = "clear" /\ isr_at' = "intc"
      /\ dma' = Cleared(dma)
      /\ UNCHANGED <<drv, intc, isr, main, s_irq_masked>>
  BY DEF isr_clear, InHandler, InDmaIsr, soc_dma_write_irq_clear, MainIdle
<1>2. main.pc = "client" /\ LifecycleState = drv.s_state
  BY <1>1, InIsr
<1>3. /\ LifecycleState \in {"COMPLETE", "ERROR"} /\ DMA \notin intc.pending
      /\ ~dma.busy
  BY <1>1 DEF PreemptInv, SignalInv, QuietInv
<1>4. LifecycleState' = LifecycleState
  BY <1>1 DEF LifecycleState
<1>5. /\ dma' \in DmaType /\ ~dma'.busy /\ ~dma'.done /\ ~dma'.error
      /\ dma'.err_code = NoErr
  BY <1>1, <1>3, MainFacts, ClearedFacts
<1>6. PreemptTypeOK' /\ DispatchInv' /\ EngineInv'
  BY <1>1, <1>5, MainFacts
     DEF PreemptInv, PreemptTypeOK, PreemptDrvType, MainType, DispatchInv, EngineInv
<1>7. CallInv'
  BY <1>1, <1>2, MainFacts DEF CallInv, ClientRuns
<1>8. SignalInv' /\ QuietInv'
  BY <1>1, <1>3, <1>4, <1>5
     DEF SignalInv, Announced, InHandler, InDmaIsr, QuietInv
<1>9. NoCompletionPreempted' /\ ResultInv'
  BY <1>1, <1>2, <1>3, <1>4 DEF PreemptInv, NoCompletionPreempted, ResultInv
<1>10. UNCHANGED PreemptLifecycle!vars
  BY <1>1, <1>4, <1>5
     DEF PreemptLifecycle!vars, Outcome, Reported, InHandler, InDmaIsr
<1> QED BY <1>6, <1>7, <1>8, <1>9, <1>10 DEF PreemptInv, Refines

(* The line is cleared and the iteration of isr_dispatch ends              *)
(* (dma.c:191-192, isr.c:43-47).                                           *)
LEMMA IsrIntcKeeps ==
  ASSUME PreemptInv, isr_intc
  PROVE  PreemptInv' /\ Refines
<1>1. /\ InDmaIsr /\ isr_at = "intc" /\ isr_at' = "status"
      /\ intc' = soc_intc_write_clear(soc_intc_write_clear(intc, DMA), isr.line)
      /\ drv' = [drv EXCEPT !.s_irq_count = Bump(@, 1)]
      /\ isr' = Finished(isr)
      /\ UNCHANGED <<dma, main, s_irq_masked>>
  BY DEF isr_intc, InHandler, InDmaIsr, MainIdle
<1>2. main.pc = "client" /\ LifecycleState = drv.s_state /\ drv.s_state \in DrvStates
  BY <1>1, InIsr
<1>3. /\ LifecycleState \in {"COMPLETE", "ERROR"} /\ DMA \notin intc.pending
      /\ DispatchInv
  BY <1>1 DEF PreemptInv, SignalInv
<1>4. /\ drv' \in PreemptDrvType /\ drv'.s_state = drv.s_state
      /\ drv'.s_done_flag = drv.s_done_flag
      /\ drv'.s_err_latch = drv.s_err_latch
  BY <1>1, MainFacts, BumpIsCounter DEF PreemptDrvType
<1>5. isr.i < ISR_MAX_LINES /\ isr.handled = isr.i
  BY <1>1, <1>3, MainFacts, IsrAssumption DEF DispatchInv, IsrType, InDmaIsr
<1>6. isr' \in IsrType /\ DispatchInv' /\ ~InDmaIsr'
  BY <1>1, <1>3, <1>5, MainFacts, FinishedFacts DEF DispatchInv, InDmaIsr
<1>7. intc' \in IntcType /\ intc'.pending = intc.pending
  BY <1>1, MainFacts, ClearFacts
<1>8. LifecycleState' = LifecycleState
  BY <1>1, <1>4 DEF LifecycleState
<1>9. PreemptTypeOK' /\ CallInv'
  BY <1>1, <1>2, <1>4, <1>6, <1>7, MainFacts
     DEF PreemptTypeOK, PreemptDrvType, MainType, CallInv, Starting, Recovering
<1>10. SignalInv' /\ ~Announced
  BY <1>1, <1>3, <1>6, <1>7
     DEF SignalInv, Announced, InHandler, InDmaIsr
<1> QED BY <1>1, <1>4, <1>6, <1>8, <1>9, <1>10, StutterKeeps

(* The CPU enters isr_dispatch only with the mask open, outside calls. *)
LEMMA TakeKeeps ==
  ASSUME PreemptInv, TakeInterrupt
  PROVE  PreemptInv' /\ Refines
<1>1. /\ ~s_irq_masked /\ isr.pc = "idle" /\ isr' = [isr EXCEPT !.pc = "loop"]
      /\ UNCHANGED <<dma, intc, drv, isr_at, main, s_irq_masked>>
  BY DEF TakeInterrupt, Call, isr_dispatch_call, DriverIdle, MainIdle
<1>2. main.pc = "client"
  BY <1>1, MainFacts
<1>3. isr' \in IsrType /\ isr'.pc = "loop" /\ DispatchInv'
  BY <1>1, MainFacts DEF PreemptInv, IsrType, DispatchInv
<1>4. CallInv' /\ LifecycleState' = LifecycleState
  BY <1>1, <1>2, MainFacts DEF CallInv, LifecycleState
<1>5. /\ isr_at = "status" /\ ~InDmaIsr /\ ~InDmaIsr'
  BY <1>1, <1>3 DEF PreemptInv, SignalInv, InDmaIsr
<1>6. Announced <=> Announced'
  BY <1>1, <1>5 DEF Announced, InHandler, InDmaIsr
<1> QED BY <1>1, <1>3, <1>4, <1>5, <1>6, MainFacts, InterruptKeeps

(* The steps of isr_dispatch: the line is acknowledged only to run dma_isr *)
(* (isr.c:32-48).                                                          *)
LEMMA PreemptDispatchKeeps ==
  ASSUME PreemptInv, isr.pc = "handler" => main.pc = "client", DispatchStep,
         DriverIdle, MainIdle, UNCHANGED isr_at
  PROVE  PreemptInv' /\ Refines
<1>1. UNCHANGED <<dma, drv, isr_at, main, s_irq_masked>>
  BY DEF DriverIdle, MainIdle
<1>2. /\ intc' \in IntcType /\ isr' \in IsrType /\ DispatchInv'
      /\ ~InDmaIsr
      /\ InDmaIsr' => DMA \in intc.pending /\ DMA \notin intc'.pending
      /\ ~InDmaIsr' => (DMA \in intc'.pending <=> DMA \in intc.pending)
  BY MainFacts, DispatchFacts DEF PreemptInv
<1>3. isr_at = "status"
  BY <1>2 DEF PreemptInv, SignalInv
<1>4. main.pc = "client"
  <2>1. isr.pc = "loop" \/ isr.pc = "handler"
    BY DEF DispatchStep, isr_dispatch_full, isr_dispatch_break,
           isr_dispatch_unhandled, isr_dispatch_enter, isr_dispatch_leave_app
  <2> QED BY <2>1, MainFacts DEF CallInv, ClientRuns
<1>5. CallInv' /\ LifecycleState' = LifecycleState
  BY <1>1, <1>4, MainFacts DEF CallInv, LifecycleState
<1>6. Announced <=> Announced'
  BY <1>1, <1>2, <1>3 DEF Announced, InHandler, InDmaIsr
<1> QED BY <1>1, <1>2, <1>3, <1>5, <1>6, MainFacts, InterruptKeeps

-----------------------------------------------------------------------------
(* The hardware and the client. *)

(* What a transfer ends with: the flag becomes the outcome, and the line   *)
(* is pending.  The mask may be held, dma_isr may not be running.          *)
LEMMA EndKeeps ==
  ASSUME PreemptInv, UNCHANGED <<isr, drv, isr_at, main, s_irq_masked>>,
         dma.busy, dma' \in DmaType, intc' \in IntcType, DMA \in intc'.pending,
         ~dma'.busy,
         \/ dma'.done /\ ~dma'.error /\ dma'.err_code = NoErr
         \/ ~dma'.done /\ dma'.error /\ dma'.err_code \in ErrCodes
  PROVE  PreemptInv' /\ Refines
<1>1. LifecycleState = "ACTIVE"
  BY DEF PreemptInv, QuietInv
<1>2. ~dma.done /\ ~dma.error
  BY DEF PreemptInv, EngineInv
<1>3. isr_at = "status" /\ ~InDmaIsr
  BY <1>1, <1>2 DEF PreemptInv, SignalInv, Announced, InHandler, InDmaIsr
<1>4. LifecycleState' = LifecycleState
  BY DEF LifecycleState
<1>5. NoErr \notin ErrCodes
  BY DEF NoErr, ErrCodes
<1>6. PreemptTypeOK' /\ DispatchInv' /\ EngineInv'
  BY <1>5, MainFacts
     DEF PreemptInv, PreemptTypeOK, PreemptDrvType, MainType, DispatchInv, EngineInv
<1>7. CallInv'
  <2>1. main.pc # "submit_start"
    BY <1>1, MainFacts, StateFacts DEF CallInv, Starting
  <2> QED BY <2>1, MainFacts DEF CallInv, ClientRuns
<1>8. SignalInv' /\ QuietInv'
  BY <1>1, <1>3, <1>4 DEF SignalInv, Announced, InHandler, InDmaIsr, QuietInv
<1>9. NoCompletionPreempted' /\ ResultInv'
  BY <1>4 DEF PreemptInv, NoCompletionPreempted, ResultInv
<1>10. \E o \in PreemptLifecycle!Outcomes : PreemptLifecycle!End(o)
  <2>1. ~InHandler("clear") /\ ~InHandler("clear")'
    BY <1>3 DEF InHandler
  <2>2. Outcome = NoErr /\ Outcome' \in PreemptLifecycle!Outcomes
    BY <1>2 DEF Outcome, PreemptLifecycle!Outcomes
  <2>3. Reported' = Reported
    BY DEF Reported
  <2> QED BY <1>1, <1>4, <2>1, <2>2, <2>3 DEF PreemptLifecycle!End
<1> QED BY <1>6, <1>7, <1>8, <1>9, <1>10
        DEF PreemptInv, Refines, PreemptLifecycle!Next

(* A tick of the engine, at any moment. *)
LEMMA EngineTickKeeps ==
  ASSUME PreemptInv, EngineTick
  PROVE  PreemptInv' /\ Refines
<1>1. soc_dma_step(uart, intc) /\ UNCHANGED <<isr, drv, isr_at, main, s_irq_masked>>
  BY DEF EngineTick, MainIdle
<1>2. /\ dma' \in DmaType /\ intc' \in IntcType
      /\ dma'.irq_enable_latched = dma.irq_enable_latched
      /\ dma'.ctrl = dma.ctrl
      /\ \/ /\ dma'.busy = dma.busy /\ dma'.done = dma.done
            /\ dma'.error = dma.error /\ dma'.err_code = dma.err_code
            /\ intc' = intc /\ (~dma.busy => dma' = dma)
         \/ /\ dma.busy /\ ~dma'.busy /\ DMA \in intc'.pending
            /\ \/ dma'.done /\ ~dma'.error /\ dma'.err_code = NoErr
               \/ ~dma'.done /\ dma'.error /\ dma'.err_code = "ADDR"
  BY <1>1, MainFacts, StepFacts DEF PreemptInv
<1>3. CASE dma.busy /\ ~dma'.busy /\ DMA \in intc'.pending
           /\ \/ dma'.done /\ ~dma'.error /\ dma'.err_code = NoErr
              \/ ~dma'.done /\ dma'.error /\ dma'.err_code = "ADDR"
  <2>1. "ADDR" \in ErrCodes
    BY DEF ErrCodes
  <2> QED BY <1>1, <1>2, <1>3, <2>1, EndKeeps
<1>4. CASE /\ dma'.busy = dma.busy /\ dma'.done = dma.done
           /\ dma'.error = dma.error /\ dma'.err_code = dma.err_code
           /\ intc' = intc /\ (~dma.busy => dma' = dma)
  <2>1. LifecycleState' = LifecycleState
    BY <1>1 DEF LifecycleState
  <2>2. PreemptTypeOK' /\ DispatchInv'
    BY <1>1, <1>2, MainFacts
       DEF PreemptInv, PreemptTypeOK, PreemptDrvType, MainType, DispatchInv
  <2>3. CallInv'
    <3>1. main.pc = "submit_start" => ~dma.busy
      BY MainFacts, StateFacts DEF CallInv, Starting, PreemptInv, QuietInv
    <3> QED BY <1>1, <1>4, <3>1, MainFacts DEF CallInv, ClientRuns
  <2>4. SignalInv' /\ (Announced => Announced')
    BY <1>1, <1>4, <2>1
       DEF PreemptInv, SignalInv, Announced, InHandler, InDmaIsr
  <2> QED BY <1>1, <1>2, <1>4, <2>1, <2>2, <2>3, <2>4, StutterKeeps
<1> QED BY <1>2, <1>3, <1>4

(* The engine gets stuck, or a transfer fails, at any moment. *)
LEMMA EngineFaultsKeeps ==
  ASSUME PreemptInv, EngineFaults
  PROVE  PreemptInv' /\ Refines
<1>1. UNCHANGED <<isr, drv, isr_at, main, s_irq_masked>>
  BY DEF EngineFaults, MainIdle
<1>2. ASSUME NEW on \in BOOLEAN, SetStuck(on) PROVE PreemptInv' /\ Refines
  <2>1. /\ dma' = [dma EXCEPT !.fault_stuck_busy = on] /\ intc' = intc
    BY <1>2 DEF SetStuck
  <2>2. /\ dma' \in DmaType /\ dma'.busy = dma.busy /\ dma'.done = dma.done
        /\ dma'.error = dma.error /\ dma'.err_code = dma.err_code
        /\ dma'.irq_enable_latched = dma.irq_enable_latched
        /\ dma'.ctrl = dma.ctrl
        /\ dma'.src = dma.src /\ dma'.dst = dma.dst /\ dma'.length = dma.length
    BY <2>1, MainFacts DEF DmaType
  <2>3. LifecycleState' = LifecycleState
    BY <1>1 DEF LifecycleState
  <2>4. PreemptTypeOK' /\ DispatchInv'
    BY <1>1, <2>1, <2>2, MainFacts
       DEF PreemptInv, PreemptTypeOK, PreemptDrvType, MainType, DispatchInv
  <2>5. CallInv'
    BY <1>1, <2>2, MainFacts DEF CallInv, ClientRuns
  <2>6. SignalInv' /\ (Announced => Announced')
    BY <1>1, <2>1, <2>2, <2>3
       DEF PreemptInv, SignalInv, Announced, InHandler, InDmaIsr
  <2> QED BY <1>1, <2>2, <2>3, <2>4, <2>5, <2>6, StutterKeeps
<1>3. ASSUME dma.busy, NEW code \in HookCodes, vlab_test_dma_error(code)
      PROVE  PreemptInv' /\ Refines
  <2>1. /\ dma' = soc_dma_fail(dma, code) /\ "IRQ_ENABLE" \in dma.ctrl
        /\ intc' = soc_intc_raise(intc, DMA)
    BY <1>3 DEF vlab_test_dma_error, PreemptInv, EngineInv
  <2>2. intc' \in IntcType /\ DMA \in intc'.pending
    BY <2>1, MainFacts, RaiseFacts DEF Lines
  <2>3. /\ dma' \in DmaType /\ ~dma'.busy /\ ~dma'.done /\ dma'.error
        /\ dma'.err_code \in ErrCodes
    BY <2>1, MainFacts, FailFacts, DriverAssumption
  <2> QED BY <1>1, <1>3, <2>2, <2>3, EndKeeps
<1> QED BY <1>2, <1>3 DEF EngineFaults

(* Another peripheral raises its line. *)
LEMMA OtherRaiseKeeps ==
  ASSUME PreemptInv, NEW l \in ClientLines \ {DMA}, OtherRaise(l)
  PROVE  PreemptInv' /\ Refines
<1>1. /\ intc' = soc_intc_raise(intc, l)
      /\ UNCHANGED <<dma, drv, isr, isr_at, main, s_irq_masked>>
  BY DEF OtherRaise, DriverIdle, MainIdle
<1>2. intc' \in IntcType /\ (DMA \in intc'.pending <=> DMA \in intc.pending)
  BY <1>1, MainFacts, RaiseFacts, DriverAssumption
<1>3. CallInv' /\ LifecycleState' = LifecycleState
  BY <1>1, MainFacts DEF CallInv, ClientRuns, LifecycleState
<1>4. /\ Announced <=> Announced'
      /\ isr_at # "status" => InDmaIsr'
      /\ InDmaIsr' => DMA \notin intc'.pending
      /\ DispatchInv'
  BY <1>1, <1>2
     DEF PreemptInv, SignalInv, Announced, InHandler, InDmaIsr, DispatchInv
<1> QED BY <1>1, <1>2, <1>3, <1>4, MainFacts, InterruptKeeps

(* The client enables lines and registers handlers between its calls. *)
LEMMA ClientStepKeeps ==
  ASSUME PreemptInv, ClientStep
  PROVE  PreemptInv' /\ Refines
<1>1. main.pc \in ClientAt /\ UNCHANGED <<isr_at, main, s_irq_masked>>
  BY DEF ClientStep, MainIdle
<1>2. ASSUME NEW mask \in EnableMasks, Enable(mask) PROVE PreemptInv' /\ Refines
  <2>1. /\ intc' = soc_intc_write_enable(intc, mask)
        /\ UNCHANGED <<dma, drv, isr>>
    BY <1>2 DEF Enable, intc_enable, DriverIdle
  <2>2. intc' \in IntcType /\ intc'.pending = intc.pending
    BY <2>1, MainFacts, EnableFacts
  <2>3. CallInv' /\ LifecycleState' = LifecycleState
    BY <1>1, <2>1, <2>2, MainFacts
       DEF CallInv, ClientAt, ClientRuns, LifecycleState, Starting, Recovering
  <2>4. /\ Announced <=> Announced'
        /\ isr_at # "status" => InDmaIsr'
        /\ InDmaIsr' => DMA \notin intc'.pending
        /\ DispatchInv'
    BY <1>1, <2>1, <2>2
       DEF PreemptInv, SignalInv, Announced, InHandler, InDmaIsr, DispatchInv
  <2> QED BY <1>1, <2>1, <2>2, <2>3, <2>4, MainFacts, InterruptKeeps
<1>3. ASSUME NEW l \in ClientLines \ {DMA}, NEW h \in Handlers \ {"dma_isr"},
             Register(l, h)
      PROVE  PreemptInv' /\ Refines
  <2>1. isr_register(l, h) /\ UNCHANGED <<dma, drv>>
    BY <1>3 DEF Register, DriverIdle
  <2>2. /\ isr' \in IsrType /\ DispatchInv' /\ intc' = intc
        /\ isr'.pc = isr.pc /\ isr'.h = isr.h
    BY <2>1, MainFacts, RegisterFacts DEF PreemptInv
  <2>3. CallInv' /\ LifecycleState' = LifecycleState
    BY <1>1, <2>1, <2>2, MainFacts
       DEF CallInv, ClientAt, ClientRuns, LifecycleState, Starting, Recovering
  <2>4. /\ Announced <=> Announced'
        /\ isr_at # "status" => InDmaIsr'
        /\ InDmaIsr' => DMA \notin intc'.pending
    BY <1>1, <2>1, <2>2
       DEF PreemptInv, SignalInv, Announced, InHandler, InDmaIsr
  <2> QED BY <1>1, <2>1, <2>2, <2>3, <2>4, MainFacts, InterruptKeeps
<1> QED BY <1>2, <1>3 DEF ClientStep

-----------------------------------------------------------------------------
(* After bring-up the invariant and the initial state of the lifecycle     *)
(* hold.                                                                   *)
LEMMA PreemptInitHolds == PreemptInit => PreemptInv /\ PreemptLifecycle!Init
<1> SUFFICES ASSUME PreemptInit PROVE PreemptInv /\ PreemptLifecycle!Init
  OBVIOUS
<1>1. /\ IInv /\ main = NoCall /\ isr_at = "status" /\ s_irq_masked = FALSE
      /\ Init
  BY InitHolds DEF PreemptInit
<1>2. /\ drv.s_state = "IDLE" /\ ~drv.s_done_flag /\ drv.s_err_latch = NoErr
      /\ isr.pc = "idle" /\ intc.pending = {}
      /\ ~dma.busy /\ ~dma.done /\ ~dma.error
  BY <1>1 DEF Init, soc_dma_reset, soc_intc_reset
<1>3. main \in MainType /\ main.pc = "client"
  BY <1>1, WidthAssumption DEF NoCall, MainType, ClientAt, Uint32
<1>4. drv \in PreemptDrvType
  BY <1>1 DEF IInv, TypeOK, DrvType, PreemptDrvType
<1>5. PreemptTypeOK
  BY <1>1, <1>3, <1>4 DEF IInv, TypeOK, PreemptTypeOK, PreemptDrvType, MainType
<1>6. CallInv
  BY <1>1, <1>2, <1>3 DEF CallInv, Starting, Recovering
<1>7. LifecycleState = "IDLE"
  BY <1>2 DEF LifecycleState
<1>8. SignalInv /\ NoCompletionPreempted /\ QuietInv /\ ResultInv
  BY <1>1, <1>2, <1>3, <1>7
     DEF SignalInv, Announced, InHandler, InDmaIsr, NoCompletionPreempted,
         QuietInv, ResultInv
<1>9. PreemptLifecycle!Init
  BY <1>1, <1>2, <1>7
     DEF PreemptLifecycle!Init, Outcome, Reported, InHandler
<1> QED BY <1>1, <1>5, <1>6, <1>8, <1>9 DEF PreemptInv, IInv

(* Every step keeps the invariant and is one of the lifecycle or a         *)
(* stutter.                                                                *)
LEMMA PreemptStepHolds ==
  PreemptInv /\ [PreemptNext]_preemptVars => PreemptInv' /\ Refines
<1> SUFFICES ASSUME PreemptInv, [PreemptNext]_preemptVars
             PROVE  PreemptInv' /\ Refines
  OBVIOUS
<1>1. ASSUME NEW src \in SubmitAddrs, NEW dst \in SubmitAddrs,
             NEW len \in SubmitLens, submit_enter(src, dst, len)
      PROVE  PreemptInv' /\ Refines
  <2>1. src \in Uint32 /\ dst \in Uint32 /\ len \in Uint32
    BY DriverAssumption
  <2> QED BY <1>1, <2>1, EnterKeeps DEF submit_enter
<1>2. CASE recover_enter
  <2>1. 0 \in Uint32
    BY WidthAssumption DEF Uint32
  <2> QED BY <1>2, <2>1, EnterKeeps DEF recover_enter
<1>3. CASE MainStep
  BY <1>3, RestoreKeeps, SubmitCheckKeeps, SubmitValidateKeeps,
     SubmitProgramKeeps, SubmitStartKeeps, SubmitActiveKeeps,
     RecoverCheckKeeps, RecoverClearKeeps, RecoverIntcKeeps, RecoverIdleKeeps
     DEF MainStep
<1>4. CASE TakeInterrupt
  BY <1>4, TakeKeeps
<1>5. CASE HandlerStep
  BY <1>5, IsrStatusKeeps, IsrClearKeeps, IsrIntcKeeps, PreemptDispatchKeeps
     DEF HandlerStep
<1>6. CASE EngineTick
  BY <1>6, EngineTickKeeps
<1>7. CASE EngineFaults
  BY <1>7, EngineFaultsKeeps
<1>8. ASSUME NEW l \in ClientLines \ {DMA}, OtherRaise(l)
      PROVE  PreemptInv' /\ Refines
  BY <1>8, OtherRaiseKeeps
<1>9. CASE ClientStep
  BY <1>9, ClientStepKeeps
<1>10. CASE UNCHANGED preemptVars
  <2>1. UNCHANGED <<dma, intc, isr, drv, main, isr_at, s_irq_masked>>
    BY <1>10 DEF preemptVars
  <2>2. CallInv' /\ LifecycleState' = LifecycleState
    BY <2>1, MainFacts DEF CallInv, ClientRuns, LifecycleState
  <2> QED BY <2>1, <2>2, MainFacts, MainKeeps
<1>11. CASE hal_irq_disable \/ hal_irq_restore
  BY <1>11, SectionKeeps
<1> QED BY <1>1, <1>2, <1>3, <1>4, <1>5, <1>6, <1>7, <1>8, <1>9, <1>10, <1>11
        DEF PreemptNext

(* PreemptInv is an invariant of the split driver. *)
THEOREM PreemptInvariance == PreemptSpec => []PreemptInv
BY PreemptInitHolds, PreemptStepHolds, PTL DEF PreemptSpec

(* The types hold, and the mask is closed exactly in a call and in a       *)
(* critical section of the client: hal_irq_disable and hal_irq_restore     *)
(* pair up on all paths of dma_submit and dma_recover, and a call leaves   *)
(* the mask as it found it (dma.c:143-169 and 195-206).                    *)
THEOREM PreemptTypeCorrect == PreemptSpec => []PreemptTypeOK
BY PreemptInvariance, PTL DEF PreemptInv

(* No completion is lost to preemption, also one that comes between START  *)
(* and the assignment of ACTIVE (dma.c:164-166).                           *)
THEOREM PreemptionLosesNothing == PreemptSpec => []NoCompletionPreempted
BY PreemptInvariance, PTL DEF PreemptInv

(* The split driver implements the lifecycle, with the engine, dma_isr and *)
(* the main line interleaved (dma.c:143-206).                              *)
THEOREM PreemptImplementsLifecycle == PreemptSpec => PreemptRefinesLifecycle
<1>1. PreemptInv /\ [PreemptNext]_preemptVars
        => [PreemptLifecycle!Next]_PreemptLifecycle!vars
  BY PreemptStepHolds DEF Refines
<1> QED BY <1>1, PreemptInitHolds, PreemptInvariance, PTL
        DEF PreemptSpec, PreemptRefinesLifecycle, PreemptLifecycle!Spec

=============================================================================
