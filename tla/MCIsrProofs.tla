---------------------------- MODULE MCIsrProofs -----------------------------
(***************************************************************************)
(* Proofs about the interrupt dispatcher under an arbitrary client.        *)
(***************************************************************************)
EXTENDS MCIsr, CommonProofs

-----------------------------------------------------------------------------
(* The pieces of isr_dispatch (firmware/isr/isr.c). *)

(* The end of an iteration of isr_dispatch returns to the loop head and    *)
(* changes no vector.                                                      *)
LEMMA FinishedFacts ==
  ASSUME NEW s \in IsrType, s.i < ISR_MAX_LINES, s.handled = s.i
  PROVE  /\ Finished(s) \in IsrType
         /\ Finished(s).pc = "loop"
         /\ Finished(s).n_lines = s.n_lines
         /\ Finished(s).vector = s.vector
         /\ Finished(s).handled = Finished(s).i
<1>1. Bump(s.dispatched, 1) \in Counter
  BY BumpIsCounter DEF IsrType
<1>2. s.i + 1 \in 0 .. ISR_MAX_LINES /\ s.handled + 1 = s.i + 1
  BY IsrAssumption DEF IsrType
<1>3. UART \in Lines /\ "none" \in Handlers
  BY IsrAssumption DEF Lines
<1> QED BY <1>1, <1>2, <1>3 DEF Finished, IsrType

(* Returning from isr_dispatch changes no vector. *)
LEMMA LeaveFacts ==
  ASSUME NEW s \in IsrType
  PROVE  /\ Leave(s) \in IsrType
         /\ Leave(s).pc = "idle"
         /\ Leave(s).n_lines = s.n_lines
         /\ Leave(s).vector = s.vector
         /\ Leave(s).handled = Leave(s).i
<1>1. 0 \in 0 .. ISR_MAX_LINES /\ UART \in Lines /\ "none" \in Handlers
  BY IsrAssumption DEF Lines
<1> QED BY <1>1 DEF Leave, IsrType

(* Every line has an entry in the vector table. *)
LEMMA LinesAreVectors == Lines \subseteq Vectors
BY IsrAssumption DEF Lines, Vectors, UART, TIMER, DMA, VLAB_IRQ_COUNT

-----------------------------------------------------------------------------
(***************************************************************************)
(* The inductive invariant.  ActiveExplained needs two facts that it does  *)
(* not state: the line count is the initial one or one a client passed,    *)
(* so that a line the loop breaks on is foreign; and the pass in which a   *)
(* handler runs fits the vector table even if that handler shrinks the     *)
(* line count under the loop, so that the counts stay in their types.      *)
(***************************************************************************)
LoopInv ==
  /\ isr.n_lines \in {VLAB_IRQ_COUNT} \cup LineCounts
  /\ isr.pc = "handler" => isr.i < ISR_MAX_LINES
  /\ isr.handled = isr.i

IsrInv == IsrTypeOK /\ LoopInv /\ ActiveExplained

(* What the client does to the controller outside isr_dispatch or in a     *)
(* handler keeps the invariant if it makes no line active.                 *)
LEMMA ControllerKeeps ==
  ASSUME IsrInv, isr' = isr, intc' \in IntcType, intc'.active \subseteq intc.active
  PROVE  IsrInv'
BY DEF IsrInv, IsrTypeOK, LoopInv, ActiveExplained

(* The steps of isr_dispatch keep the invariant. *)
LEMMA DispatchStepKeeps ==
  ASSUME IsrInv, DispatchStep
  PROVE  IsrInv'
<1>1. /\ intc \in IntcType /\ isr \in IsrType /\ LoopInv /\ ActiveExplained
  BY DEF IsrInv, IsrTypeOK
<1>2. /\ isr.i \in Int /\ isr.n_lines \in Int /\ isr.n_lines <= ISR_MAX_LINES
      /\ ISR_MAX_LINES \in Nat /\ isr.handled = isr.i
  BY <1>1, IsrAssumption DEF LoopInv, IsrType
<1>3. CASE isr_dispatch_full
  <2>1. isr' = Leave(isr) /\ intc' = intc /\ isr.pc = "loop"
    BY <1>3 DEF isr_dispatch_full
  <2>2. IsrTypeOK' /\ LoopInv'
    BY <1>1, <2>1, LeaveFacts DEF IsrTypeOK, LoopInv
  <2>3. ActiveExplained'
    BY <1>1, <2>1 DEF ActiveExplained
  <2> QED BY <2>2, <2>3 DEF IsrInv
<1>4. CASE isr_dispatch_break
  <2>1. isr' = Leave(isr) /\ intc' = soc_intc_ack(intc) /\ isr.pc = "loop"
        /\ AckBreaks
    BY <1>4 DEF isr_dispatch_break
  <2>2. IsrTypeOK' /\ LoopInv'
    BY <1>1, <2>1, LeaveFacts, AckFacts DEF IsrTypeOK, LoopInv
  <2>3. ActiveExplained'
    <3>1. CASE AckLine = IRQ_NONE
      BY <1>1, <2>1, <3>1, AckFacts DEF ActiveExplained, AckLine
    <3>2. CASE AckLine # IRQ_NONE
      <4>1. /\ AckLine \in Lines /\ AckLine >= isr.n_lines
            /\ intc'.active = intc.active \cup {AckLine}
        BY <1>1, <2>1, <3>2, AckFacts DEF AckBreaks, AckLine
      <4>2. isr.n_lines \in LineCounts \cap (1 .. ISR_MAX_LINES)
        BY <1>1, <4>1
           DEF LoopInv, IsrType, Lines, UART, TIMER, DMA, VLAB_IRQ_COUNT
      <4>3. AckLine \in ForeignLines
        BY <4>1, <4>2 DEF ForeignLines
      <4> QED BY <1>1, <2>1, <4>1, <4>3 DEF ActiveExplained
    <3> QED BY <3>1, <3>2
  <2> QED BY <2>2, <2>3 DEF IsrInv
<1>5. CASE isr_dispatch_unhandled
  <2>1. /\ isr' = Finished(isr) /\ isr.pc = "loop" /\ isr.i < isr.n_lines
        /\ intc' = soc_intc_write_clear(soc_intc_ack(intc), AckLine)
        /\ AckLine # IRQ_NONE
    BY <1>5 DEF isr_dispatch_unhandled, AckBreaks
  <2>2. isr.i < ISR_MAX_LINES
    BY <1>2, <2>1
  <2>3. intc' \in IntcType /\ intc'.active \subseteq intc.active
    BY <1>1, <2>1, AckFacts, ClearFacts DEF AckLine
  <2>4. IsrTypeOK' /\ LoopInv'
    BY <1>1, <1>2, <2>1, <2>2, <2>3, FinishedFacts DEF IsrTypeOK, LoopInv
  <2>5. ActiveExplained'
    BY <1>1, <2>1, <2>3 DEF ActiveExplained
  <2> QED BY <2>4, <2>5 DEF IsrInv
<1>6. CASE isr_dispatch_enter
  <2>1. /\ isr.pc = "loop" /\ isr.i < isr.n_lines /\ AckLine # IRQ_NONE
        /\ intc' = soc_intc_ack(intc)
        /\ isr' = [isr EXCEPT !.pc = "handler", !.line = AckLine,
                              !.h = isr.vector[AckLine]]
    BY <1>6 DEF isr_dispatch_enter, AckBreaks
  <2>2. /\ AckLine \in Lines /\ intc' \in IntcType
        /\ intc'.active = intc.active \cup {AckLine}
    BY <1>1, <2>1, AckFacts DEF AckLine
  <2>3. isr.vector[AckLine] \in Handlers
    BY <1>1, <2>2, LinesAreVectors DEF IsrType
  <2>4. /\ isr' \in IsrType /\ isr'.pc = "handler" /\ isr'.line = AckLine
        /\ isr'.i = isr.i /\ isr'.handled = isr.handled
        /\ isr'.n_lines = isr.n_lines
    BY <1>1, <2>1, <2>2, <2>3 DEF IsrType
  <2>5. IsrTypeOK' /\ LoopInv'
    BY <1>1, <1>2, <2>1, <2>2, <2>4 DEF IsrTypeOK, LoopInv
  <2>6. ActiveExplained'
    BY <1>1, <2>1, <2>2, <2>4 DEF ActiveExplained
  <2> QED BY <2>5, <2>6 DEF IsrInv
<1>7. CASE isr_dispatch_leave_app
  <2>1. /\ isr.pc = "handler"
        /\ intc' = soc_intc_write_clear(intc, isr.line)
        /\ isr' = Finished(isr)
    BY <1>7 DEF isr_dispatch_leave_app
  <2>2. isr.i < ISR_MAX_LINES
    BY <1>1, <2>1 DEF LoopInv
  <2>3. intc' \in IntcType /\ intc'.active = intc.active \ {isr.line}
    BY <1>1, <2>1, ClearFacts
  <2>4. IsrTypeOK' /\ LoopInv'
    BY <1>1, <1>2, <2>1, <2>2, <2>3, FinishedFacts DEF IsrTypeOK, LoopInv
  <2>5. ActiveExplained'
    BY <1>1, <2>1, <2>3 DEF ActiveExplained
  <2> QED BY <2>4, <2>5 DEF IsrInv
<1> QED BY <1>3, <1>4, <1>5, <1>6, <1>7 DEF DispatchStep

(* Before anything is configured the invariant holds. *)
LEMMA IsrInitHolds == IsrInitState => IsrInv
<1> SUFFICES ASSUME IsrInitState PROVE IsrInv
  OBVIOUS
<1>1. intc \in IntcType /\ intc.active = {}
  BY DEF IsrInitState, soc_intc_reset, IntcType
<1>2. NoVectors \in [Vectors -> Handlers]
  BY IsrAssumption DEF NoVectors
<1>3. isr \in IsrType
  BY <1>2, IsrAssumption, CounterModAssumption
     DEF IsrInitState, IsrInit, IsrType, Counter, VLAB_IRQ_COUNT, Lines
<1>4. LoopInv
  BY DEF IsrInitState, IsrInit, LoopInv
<1> QED BY <1>1, <1>3, <1>4 DEF IsrInv, IsrTypeOK, ActiveExplained

(* Every step of the dispatcher and of its client keeps the invariant. *)
LEMMA IsrStepHolds == IsrInv /\ [IsrNext]_isrVars => IsrInv'
<1> SUFFICES ASSUME IsrInv, [IsrNext]_isrVars PROVE IsrInv'
  OBVIOUS
<1>1. intc \in IntcType /\ isr \in IsrType /\ LoopInv /\ ActiveExplained
  BY DEF IsrInv, IsrTypeOK
<1>2. CASE UNCHANGED isrVars
  BY <1>1, <1>2, ControllerKeeps DEF isrVars
<1>3. CASE isr_dispatch_call
  <2>1. isr.pc = "idle" /\ isr' = [isr EXCEPT !.pc = "loop"] /\ intc' = intc
    BY <1>3 DEF isr_dispatch_call
  <2>2. IsrTypeOK' /\ LoopInv' /\ isr'.pc = "loop"
    BY <1>1, <2>1 DEF IsrTypeOK, IsrType, LoopInv
  <2>3. ActiveExplained'
    BY <1>1, <2>1, <2>2 DEF ActiveExplained
  <2> QED BY <2>2, <2>3 DEF IsrInv
<1>4. CASE DispatchStep
  BY <1>4, DispatchStepKeeps
<1>5. ASSUME NEW l \in Lines, RaiseLine(l) PROVE IsrInv'
  BY <1>1, <1>5, RaiseFacts, ControllerKeeps DEF RaiseLine
<1>6. ASSUME NEW mask \in SUBSET Lines, intc_enable(mask) PROVE IsrInv'
  BY <1>1, <1>6, EnableFacts, ControllerKeeps DEF intc_enable
<1>7. ASSUME NEW l \in Lines, intc_clear(l) PROVE IsrInv'
  BY <1>1, <1>7, ClearFacts, ControllerKeeps DEF intc_clear
<1>8. ASSUME NEW n \in LineCounts, isr_configure(n) PROVE IsrInv'
  <2>1. /\ intc' = intc
        /\ isr' = IF n \in 1 .. ISR_MAX_LINES
                  THEN [isr EXCEPT !.n_lines = n, !.vector = NoVectors] ELSE isr
    BY <1>8 DEF isr_configure
  <2>2. NoVectors \in [Vectors -> Handlers]
    BY IsrAssumption DEF NoVectors
  <2>3. /\ isr' \in IsrType /\ isr'.pc = isr.pc /\ isr'.line = isr.line
        /\ isr'.i = isr.i /\ isr'.handled = isr.handled
        /\ isr'.n_lines \in {isr.n_lines, n}
    BY <1>1, <2>1, <2>2 DEF IsrType
  <2> QED BY <1>1, <2>1, <2>3 DEF IsrInv, IsrTypeOK, LoopInv, ActiveExplained
<1>9. ASSUME NEW l \in Lines, NEW h \in Handlers, isr_register(l, h)
      PROVE  IsrInv'
  <2>1. /\ intc' = intc /\ l \in Vectors
        /\ isr' = IF l < isr.n_lines THEN [isr EXCEPT !.vector[l] = h] ELSE isr
    BY <1>9, LinesAreVectors DEF isr_register
  <2>2. /\ isr' \in IsrType /\ isr'.pc = isr.pc /\ isr'.line = isr.line
        /\ isr'.i = isr.i /\ isr'.handled = isr.handled
        /\ isr'.n_lines = isr.n_lines
    BY <1>1, <2>1 DEF IsrType
  <2> QED BY <1>1, <2>1, <2>2 DEF IsrInv, IsrTypeOK, LoopInv, ActiveExplained
<1> QED BY <1>2, <1>3, <1>4, <1>5, <1>6, <1>7, <1>8, <1>9 DEF IsrNext

(* IsrInv is an invariant of the dispatcher under every client. *)
THEOREM IsrInvariance == IsrSpec => []IsrInv
BY IsrInitHolds, IsrStepHolds, PTL DEF IsrSpec

(* The types of controller and dispatcher hold for every size of the       *)
(* vector table and whatever counts clients pass to isr_configure: the     *)
(* locals of isr_dispatch and its table accesses stay in range             *)
(* (isr.c:16-48).                                                          *)
THEOREM IsrTypeCorrect == IsrSpec => []IsrTypeOK
BY IsrInvariance, PTL DEF IsrInv

(* No line stays ACTIVE behind the dispatcher's back (isr.c:32-48), unless *)
(* a client configured fewer lines than the controller has.                *)
THEOREM EveryActiveIsExplained == IsrSpec => []ActiveExplained
BY IsrInvariance, PTL DEF IsrInv

-----------------------------------------------------------------------------
(***************************************************************************)
(* A call without interference drains all lines.  The loop bound counts    *)
(* passes, not lines, so the argument is about priorities: the passes done *)
(* took lines that come before whatever is left.  Ahead(l, n) is the       *)
(* number of lines below the line count n that come before l; a line that  *)
(* is still pending and enabled has at least as many lines ahead of it as  *)
(* the call has taken.                                                     *)
(***************************************************************************)
Ahead(l, n) ==
  CASE l = TIMER -> 0
    [] l = DMA   -> IF n > 1 THEN 1 ELSE 0
    [] l = UART  -> IF n > 2 THEN 2 ELSE IF n > 1 THEN 1 ELSE 0

Taken == IF isr.pc = "handler" THEN isr.i + 1 ELSE isr.i

DrainInv ==
  /\ quiet \in BOOLEAN
  /\ isr.pc = "idle" => isr.i = 0
  /\ quiet /\ isr.pc # "idle" =>
       \A l \in Gated(intc) : Taken <= Ahead(l, isr.n_lines)

(* What comes later in kPriority has more lines ahead of it. *)
LEMMA AheadGrows ==
  ASSUME NEW l \in Lines, NEW m \in Lines, NEW n \in Nat, l < n,
         kPriority[l] <= kPriority[m], l # m
  PROVE  Ahead(l, n) + 1 <= Ahead(m, n)
<1>1. kPriority[TIMER] = 1 /\ kPriority[DMA] = 2 /\ kPriority[UART] = 3
  BY DEF kPriority, Lines, TIMER, DMA, UART
<1> QED BY <1>1 DEF Ahead, Lines, TIMER, DMA, UART

(* No line has as many lines ahead of it as the loop has passes. *)
LEMMA AheadBounded ==
  ASSUME NEW l \in Lines, NEW n \in Nat \ {0}
  PROVE  Ahead(l, n) \in Nat /\ Ahead(l, n) < n
BY DEF Ahead, Lines, TIMER, DMA, UART

(* ACK takes one line out of those pending and enabled, CLEAR none. *)
LEMMA GatedFacts ==
  ASSUME NEW ic \in IntcType
  PROVE  /\ Gated(ic) \subseteq Lines
         /\ \A l : Gated(soc_intc_write_clear(ic, l)) = Gated(ic)
         /\ soc_intc_highest(ic) = IRQ_NONE <=> Gated(ic) = {}
         /\ soc_intc_highest(ic) # IRQ_NONE =>
              Gated(soc_intc_ack(ic)) = Gated(ic) \ {soc_intc_highest(ic)}
<1>1. Gated(ic) \subseteq Lines
  BY DEF Gated, IntcType
<1>2. \A l : Gated(soc_intc_write_clear(ic, l)) = Gated(ic)
  BY DEF Gated, IntcType, soc_intc_write_clear
<1>3. soc_intc_highest(ic) = IRQ_NONE <=> Gated(ic) = {}
  BY <1>1, HighestIsGated DEF IRQ_NONE, Lines, UART, TIMER, DMA
<1>4. soc_intc_highest(ic) # IRQ_NONE =>
        Gated(soc_intc_ack(ic)) = Gated(ic) \ {soc_intc_highest(ic)}
  BY DEF Gated, IntcType, soc_intc_ack
<1> QED BY <1>1, <1>2, <1>3, <1>4

(* A pass that takes a line leaves only lines with more ahead of them. *)
LEMMA PassTakesOne ==
  ASSUME intc \in IntcType, isr \in IsrType, ~AckBreaks,
         \A l \in Gated(intc) : isr.i <= Ahead(l, isr.n_lines)
  PROVE  /\ Gated(soc_intc_ack(intc)) \subseteq Lines
         /\ \A m \in Gated(soc_intc_ack(intc)) :
              isr.i + 1 <= Ahead(m, isr.n_lines)
<1>1. /\ AckLine # IRQ_NONE /\ AckLine \in Gated(intc) /\ AckLine \in Lines
      /\ \A m \in Gated(intc) : kPriority[AckLine] <= kPriority[m]
      /\ Gated(soc_intc_ack(intc)) = Gated(intc) \ {AckLine}
      /\ Gated(intc) \subseteq Lines
  BY GatedFacts, HighestIsGated DEF AckBreaks, AckLine
<1>2. /\ isr.n_lines \in Nat \ {0} /\ AckLine < isr.n_lines /\ isr.i \in Nat
  BY <1>1, IsrAssumption DEF AckBreaks, IsrType, Lines, UART, TIMER, DMA
<1>3. ASSUME NEW m \in Gated(intc) \ {AckLine}
      PROVE  isr.i + 1 <= Ahead(m, isr.n_lines)
  <2>1. isr.i <= Ahead(AckLine, isr.n_lines)
    BY <1>1
  <2>2. Ahead(AckLine, isr.n_lines) + 1 <= Ahead(m, isr.n_lines)
    BY <1>1, <1>2, AheadGrows
  <2>3. /\ Ahead(AckLine, isr.n_lines) \in Nat
        /\ Ahead(m, isr.n_lines) \in Nat
    BY <1>1, <1>2, AheadBounded
  <2> QED BY <1>2, <2>1, <2>2, <2>3
<1> QED BY <1>1, <1>3

(* The steps of isr_dispatch keep the order of the lines taken. *)
LEMMA DispatchStepDrains ==
  ASSUME IsrInv, DrainInv, DispatchStep, quiet' = quiet
  PROVE  DrainInv'
<1>1. /\ intc \in IntcType /\ isr \in IsrType /\ LoopInv
      /\ quiet' \in BOOLEAN /\ ISR_MAX_LINES \in Nat
      /\ isr.i \in Nat /\ isr.i < ISR_MAX_LINES + 1
  BY IsrAssumption DEF IsrInv, IsrTypeOK, IsrType, DrainInv
<1>2. CASE isr_dispatch_full \/ isr_dispatch_break
  <2>1. isr' = Leave(isr)
    BY <1>2 DEF isr_dispatch_full, isr_dispatch_break
  <2>2. isr'.pc = "idle" /\ isr'.i = 0
    BY <1>1, <2>1 DEF Leave, IsrType
  <2> QED BY <1>1, <2>2 DEF DrainInv
<1>3. CASE isr_dispatch_unhandled
  <2>1. /\ isr.pc = "loop" /\ ~AckBreaks
        /\ intc' = soc_intc_write_clear(soc_intc_ack(intc), AckLine)
        /\ isr' = Finished(isr)
    BY <1>3 DEF isr_dispatch_unhandled
  <2>2. isr'.pc = "loop" /\ isr'.i = isr.i + 1 /\ isr'.n_lines = isr.n_lines
    BY <1>1, <2>1 DEF Finished, IsrType
  <2>3. Gated(intc') = Gated(soc_intc_ack(intc))
    BY <1>1, <2>1, AckFacts, GatedFacts
  <2>4. ASSUME quiet
        PROVE  \A m \in Gated(intc') : isr.i + 1 <= Ahead(m, isr.n_lines)
    <3>1. \A l \in Gated(intc) : isr.i <= Ahead(l, isr.n_lines)
      BY <2>1, <2>4 DEF DrainInv, Taken
    <3> QED BY <1>1, <2>1, <2>3, <3>1, PassTakesOne
  <2> QED BY <1>1, <2>2, <2>4 DEF DrainInv, Taken
<1>4. CASE isr_dispatch_enter
  <2>1. /\ isr.pc = "loop" /\ ~AckBreaks
        /\ intc' = soc_intc_ack(intc)
        /\ isr' = [isr EXCEPT !.pc = "handler", !.line = AckLine,
                              !.h = isr.vector[AckLine]]
    BY <1>4 DEF isr_dispatch_enter
  <2>2. isr'.pc = "handler" /\ isr'.i = isr.i /\ isr'.n_lines = isr.n_lines
    BY <1>1, <2>1 DEF IsrType
  <2>3. ASSUME quiet
        PROVE  \A m \in Gated(intc') : isr.i + 1 <= Ahead(m, isr.n_lines)
    <3>1. \A l \in Gated(intc) : isr.i <= Ahead(l, isr.n_lines)
      BY <2>1, <2>3 DEF DrainInv, Taken
    <3> QED BY <1>1, <2>1, <3>1, PassTakesOne
  <2> QED BY <1>1, <2>2, <2>3 DEF DrainInv, Taken
<1>5. CASE isr_dispatch_leave_app
  <2>1. /\ isr.pc = "handler" /\ isr' = Finished(isr)
        /\ intc' = soc_intc_write_clear(intc, isr.line)
    BY <1>5 DEF isr_dispatch_leave_app
  <2>2. isr'.pc = "loop" /\ isr'.i = isr.i + 1 /\ isr'.n_lines = isr.n_lines
    BY <1>1, <2>1 DEF Finished, IsrType
  <2>3. Gated(intc') = Gated(intc)
    BY <1>1, <2>1, GatedFacts
  <2> QED BY <1>1, <2>1, <2>2, <2>3 DEF DrainInv, Taken
<1> QED BY <1>2, <1>3, <1>4, <1>5 DEF DispatchStep

(* Every step keeps it: between two calls nothing has been taken, and a    *)
(* handler that does something ends the quiet.                             *)
LEMMA DrainStepHolds == IsrInv /\ DrainInv /\ [MCNext]_mcVars => DrainInv'
<1> SUFFICES ASSUME IsrInv, DrainInv, [MCNext]_mcVars PROVE DrainInv'
  OBVIOUS
<1>1. intc \in IntcType /\ isr \in IsrType
  BY DEF IsrInv, IsrTypeOK
<1>2. CASE UNCHANGED mcVars
  BY <1>2 DEF mcVars, DrainInv, Taken
<1>3. CASE MCNext /\ DispatchStep
  <2>1. isr.pc # "handler" \/ isr'.pc # "handler"
    BY <1>1, <1>3
       DEF DispatchStep, isr_dispatch_full, isr_dispatch_break,
           isr_dispatch_unhandled, isr_dispatch_enter,
           isr_dispatch_leave_app, Finished, IsrType
  <2>2. isr.pc # "idle"
    BY <1>3 DEF DispatchStep, isr_dispatch_full, isr_dispatch_break,
                isr_dispatch_unhandled, isr_dispatch_enter,
                isr_dispatch_leave_app
  <2>3. quiet' = quiet
    BY <1>3, <2>1, <2>2 DEF MCNext
  <2> QED BY <1>3, <2>3, DispatchStepDrains
<1>4. CASE MCNext /\ isr_dispatch_call
  <2>1. /\ isr.pc = "idle" /\ isr' = [isr EXCEPT !.pc = "loop"]
        /\ quiet' = TRUE /\ intc' = intc
    BY <1>4 DEF MCNext, isr_dispatch_call
  <2>2. isr'.pc = "loop" /\ isr'.i = 0 /\ isr'.n_lines = isr.n_lines
    BY <1>1, <2>1 DEF IsrType, DrainInv
  <2>3. \A l \in Gated(intc) : 0 <= Ahead(l, isr.n_lines)
    <3>1. Gated(intc) \subseteq Lines /\ isr.n_lines \in Nat \ {0}
      BY <1>1, GatedFacts, IsrAssumption DEF IsrType
    <3> QED BY <3>1, AheadBounded
  <2> QED BY <2>1, <2>2, <2>3 DEF DrainInv, Taken
<1>5. CASE MCNext /\ ClientRuns /\ isr'.pc = isr.pc /\ isr'.i = isr.i
  <2>1. CASE isr.pc = "idle"
    BY <1>5, <2>1 DEF MCNext, DrainInv
  <2>2. CASE isr.pc # "idle"
    <3>1. isr.pc = "handler"
      BY <1>5, <2>2 DEF ClientRuns
    <3>2. quiet' = FALSE
      BY <1>5, <2>2, <3>1 DEF MCNext
    <3> QED BY <1>5, <2>2, <3>2 DEF DrainInv
  <2> QED BY <2>1, <2>2
<1>6. CASE MCNext /\ ~DispatchStep /\ ~isr_dispatch_call
  <2>1. ClientRuns
    BY <1>6 DEF MCNext, IsrNext, RaiseLine, intc_enable, intc_clear,
                isr_configure, isr_register
  <2>2. isr'.pc = isr.pc /\ isr'.i = isr.i
    BY <1>1, <1>6 DEF MCNext, IsrNext, RaiseLine, intc_enable, intc_clear,
                isr_configure, isr_register, IsrType
  <2> QED BY <1>5, <1>6, <2>1, <2>2
<1> QED BY <1>2, <1>3, <1>4, <1>6

(* The step of the property, and why it has it. *)
DrainStep ==
  (isr.pc = "loop" /\ isr'.pc = "idle" /\ quiet)
    => \/ Gated(intc') = {}
       \/ isr.i < isr.n_lines /\ AckLine >= isr.n_lines

LEMMA DrainStepDrains ==
  ASSUME IsrInv, DrainInv, MCNext, isr.pc = "loop", isr'.pc = "idle", quiet
  PROVE  \/ Gated(intc') = {}
         \/ isr.i < isr.n_lines /\ AckLine >= isr.n_lines
<1>1. /\ intc \in IntcType /\ isr \in IsrType
      /\ isr.i \in Nat /\ isr.n_lines \in Nat \ {0}
      /\ Gated(intc) \subseteq Lines
      /\ \A l \in Gated(intc) : isr.i <= Ahead(l, isr.n_lines)
  BY GatedFacts, IsrAssumption DEF IsrInv, IsrTypeOK, IsrType, DrainInv, Taken
<1>2. isr_dispatch_full \/ isr_dispatch_break
  <2>1. ~isr_dispatch_unhandled /\ ~isr_dispatch_enter
    BY <1>1 DEF isr_dispatch_unhandled, isr_dispatch_enter, Finished, IsrType
  <2>2. ~ClientRuns /\ ~isr_dispatch_call /\ ~isr_dispatch_leave_app
    BY DEF ClientRuns, isr_dispatch_call, isr_dispatch_leave_app
  <2> QED BY <2>1, <2>2 DEF MCNext, IsrNext, DispatchStep, RaiseLine,
             intc_enable, intc_clear, isr_configure, isr_register
<1>3. CASE isr_dispatch_full
  <2>1. isr.i >= isr.n_lines /\ intc' = intc
    BY <1>3 DEF isr_dispatch_full
  <2>2. \A l \in Gated(intc) :
          Ahead(l, isr.n_lines) \in Nat /\ Ahead(l, isr.n_lines) < isr.n_lines
    BY <1>1, AheadBounded
  <2>3. Gated(intc) = {}
    BY <1>1, <2>1, <2>2
  <2> QED BY <2>1, <2>3
<1>4. CASE isr_dispatch_break
  <2>1. isr.i < isr.n_lines /\ AckBreaks /\ intc' = soc_intc_ack(intc)
    BY <1>4 DEF isr_dispatch_break
  <2>2. CASE AckLine = IRQ_NONE
    BY <1>1, <2>1, <2>2, AckFacts, GatedFacts DEF AckLine
  <2>3. CASE AckLine >= isr.n_lines
    BY <2>1, <2>3
  <2> QED BY <2>1, <2>2, <2>3 DEF AckBreaks
<1> QED BY <1>2, <1>3, <1>4

(* isr.h:34, "Dispatch all currently pending+enabled IRQs": without        *)
(* interference the loop of isr.c:35-47 leaves no line pending and         *)
(* enabled, unless it breaks on a foreign line, for every size of the      *)
(* vector table and every line count.                                      *)
THEOREM QuietDispatchDrainsAll == MCSpec => QuietDispatchDrains
<1>1. MCInit => IsrInv /\ DrainInv
  BY IsrInitHolds DEF MCInit, IsrInitState, IsrInit, DrainInv
<1>2. IsrInv /\ [MCNext]_mcVars => IsrInv'
  <2>1. [MCNext]_mcVars => [IsrNext]_isrVars
    BY DEF MCNext, mcVars, isrVars
  <2> QED BY <2>1, IsrStepHolds
<1>3. IsrInv /\ DrainInv /\ [MCNext]_mcVars => [DrainStep]_mcVars
  BY DrainStepDrains DEF DrainStep
<1>4. MCSpec => [][DrainStep]_mcVars
  BY <1>1, <1>2, <1>3, DrainStepHolds, PTL DEF MCSpec
<1> QED BY <1>4 DEF DrainStep, QuietDispatchDrains

=============================================================================
