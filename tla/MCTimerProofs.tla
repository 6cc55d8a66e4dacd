--------------------------- MODULE MCTimerProofs ----------------------------
(***************************************************************************)
(* The timer (soc_c/src/soc_timer.c, firmware/drivers/timer.c) keeps time  *)
(* under every client and for every set of loads.                          *)
(***************************************************************************)
EXTENDS MCTimer, CommonProofs

-----------------------------------------------------------------------------
(* The inductive invariant: while the reference countdown is known, the    *)
(* timer is enabled with a load, and VALUE is what the reference says.     *)
(* This fails of no restart, because an enabling write reloads VALUE only  *)
(* from zero and a write that changes LOAD or ENABLE ends the reference.   *)
TimerTypeOK == timer \in TimerType /\ intc \in IntcType

InStepWithReference ==
  left # Unknown =>
    /\ left \in Nat \ {0}
    /\ timer.value = left
    /\ timer.enable
    /\ timer.load # 0

TimerInv == TimerTypeOK /\ InStepWithReference

(* The registers of a timer. *)
LEMMA TimerFields ==
  ASSUME NEW t \in TimerType
  PROVE  /\ t.load \in Nat /\ t.value \in Nat
         /\ t.enable \in BOOLEAN /\ t.periodic \in BOOLEAN
         /\ t.irq_en \in BOOLEAN /\ t.fired \in BOOLEAN
<1>1. t.load \in Loads \cup {0}
  BY DEF TimerType
<1>2. t.load \in Nat
  <2>1. CASE t.load \in Loads
    BY <2>1, TimerAssumption, Zenon
  <2>2. CASE t.load = 0
    BY <2>2
  <2> QED BY <1>1, <2>1, <2>2
<1> QED BY <1>2 DEF TimerType

(* What soc_timer_step does to a timer that runs. *)
LEMMA StepFacts ==
  ASSUME NEW t \in TimerType
  PROVE  /\ soc_timer_step(t) \in TimerType
         /\ TimerRuns(t) /\ t.value > 1 =>
              /\ soc_timer_step(t).value = t.value - 1
              /\ soc_timer_step(t).load = t.load
              /\ soc_timer_step(t).enable = t.enable
              /\ soc_timer_step(t).fired = t.fired
         /\ TimerFires(t) =>
              /\ soc_timer_step(t).fired
              /\ soc_timer_step(t).load = t.load
              /\ soc_timer_step(t).enable = t.periodic
              /\ t.periodic => soc_timer_step(t).value = t.load
<1>1. /\ t.load \in Nat /\ t.value \in Nat
      /\ t.periodic \in BOOLEAN /\ t.enable \in BOOLEAN
  BY TimerFields
<1>2. CASE ~TimerRuns(t)
  BY <1>2 DEF soc_timer_step, TimerFires
<1>3. CASE TimerRuns(t) /\ ~TimerFires(t)
  <2>1. t.value > 1 /\ t.value - 1 \in Nat
    BY <1>1, <1>3 DEF TimerFires
  <2>2. soc_timer_step(t) = [t EXCEPT !.value = @ - 1]
    BY <1>3 DEF soc_timer_step
  <2> QED BY <1>3, <2>1, <2>2 DEF TimerType
<1>4. CASE TimerFires(t)
  <2>1. TimerRuns(t) /\ ~(t.value > 1) /\ t.enable = TRUE
    BY <1>1, <1>4 DEF TimerFires, TimerRuns
  <2>2. CASE t.periodic
    <3>1. soc_timer_step(t) = [t EXCEPT !.fired = TRUE, !.value = t.load]
      BY <1>4, <2>1, <2>2 DEF soc_timer_step
    <3> QED BY <1>1, <2>1, <2>2, <3>1 DEF TimerType
  <2>3. CASE ~t.periodic
    <3>1. soc_timer_step(t) =
            [t EXCEPT !.fired = TRUE, !.value = 0, !.enable = FALSE]
      BY <1>4, <2>1, <2>3 DEF soc_timer_step
    <3>2. t.periodic = FALSE
      BY <1>1, <2>3
    <3>3. soc_timer_step(t) \in TimerType
      <4> DEFINE zero == 0
                 off  == FALSE
      <4>1. zero \in Nat /\ off \in BOOLEAN
        OBVIOUS
      <4>2. soc_timer_step(t) =
              [t EXCEPT !.fired = TRUE, !.value = zero, !.enable = off]
        BY <3>1
      <4> HIDE DEF zero, off
      <4> QED BY <1>1, <4>1, <4>2 DEF TimerType
    <3>4. /\ soc_timer_step(t).fired = TRUE
          /\ soc_timer_step(t).enable = FALSE
          /\ soc_timer_step(t).load = t.load
      BY <3>1 DEF TimerType
    <3> QED BY <2>1, <3>2, <3>3, <3>4
  <2> QED BY <2>2, <2>3
<1> QED BY <1>2, <1>3, <1>4

(* A write of LOAD changes LOAD alone, also under a running timer. *)
LEMMA LoadFacts ==
  ASSUME NEW t \in TimerType, NEW load \in Loads
  PROVE  LET w == soc_timer_write_load(t, load)
         IN  /\ w \in TimerType
             /\ w.load = load
             /\ w.enable = t.enable
             /\ w.value = t.value
BY DEF soc_timer_write_load, TimerType

-----------------------------------------------------------------------------
LEMMA TimerInitHolds == MCInit => TimerInv
BY TimerAssumption
DEF MCInit, TimerInit, TimerInv, TimerTypeOK, InStepWithReference, TimerType,
    IntcType, soc_timer_reset, soc_intc_reset, Unknown

(* A tick counts the timer and the reference down together, and reloads    *)
(* both when a periodic timer fires.                                       *)
LEMMA TickHolds ==
  ASSUME TimerInv, Tick
  PROVE  TimerInv'
<1>1. /\ timer \in TimerType /\ intc \in IntcType /\ InStepWithReference
      /\ timer.load \in Nat
  BY TimerFields DEF TimerInv, TimerTypeOK
<1>2. /\ timer' = soc_timer_step(timer) /\ timer' \in TimerType
      /\ intc' = TimerRaises(timer, intc)
  BY <1>1, StepFacts DEF Tick, TimerTick
<1>3. intc' \in IntcType
  BY <1>1, <1>2, RaiseFacts DEF TimerRaises, Lines
<1>4. InStepWithReference'
  <2>1. CASE left = Unknown
    <3>1. left' = Unknown
      BY <2>1 DEF Tick, Unknown
    <3> QED BY <3>1 DEF InStepWithReference, Unknown
  <2>2. CASE left # Unknown /\ left > 1
    <3>1. left \in Nat /\ TimerRuns(timer) /\ timer.value > 1
      BY <1>1, <2>2 DEF InStepWithReference, TimerRuns
    <3>2. left' = left - 1
      BY <2>2 DEF Tick
    <3> QED BY <1>1, <1>2, <2>2, <3>1, <3>2, StepFacts
            DEF InStepWithReference, Unknown
  <2>3. CASE left = 1
    <3>1. TimerFires(timer)
      BY <1>1, <2>3 DEF InStepWithReference, TimerFires, TimerRuns, Unknown
    <3>2. CASE timer.periodic
      <4>1. left' = timer.load
        BY <2>3, <3>2 DEF Tick
      <4> QED BY <1>1, <1>2, <2>3, <3>1, <3>2, <4>1, StepFacts
              DEF InStepWithReference, Unknown
    <3>3. CASE ~timer.periodic
      <4>1. left' = Unknown
        BY <2>3, <3>3 DEF Tick
      <4> QED BY <4>1 DEF InStepWithReference, Unknown
    <3> QED BY <3>2, <3>3
  <2>4. left # Unknown => left \in Nat \ {0}
    BY <1>1 DEF InStepWithReference
  <2> QED BY <2>1, <2>2, <2>3, <2>4
<1> QED BY <1>2, <1>3, <1>4 DEF TimerInv, TimerTypeOK

(* What a register write may do: it keeps VALUE, or reloads it by enabling *)
(* a timer that stands at zero.                                            *)
Written ==
  /\ timer' \in TimerType
  /\ intc' = intc
  /\ timer'.value = IF timer'.enable /\ ~timer.enable /\ timer.value = 0
                    THEN timer'.load ELSE timer.value

LEMMA WriteFacts ==
  ASSUME TimerInv, Write
  PROVE  Written
<1>1. timer \in TimerType /\ timer.enable \in BOOLEAN
  BY DEF TimerInv, TimerTypeOK, TimerType
<1>2. ASSUME NEW load \in Loads, NEW p \in BOOLEAN, NEW q \in BOOLEAN,
             timer_start(load, p, q)
      PROVE  Written
  <2> DEFINE t == soc_timer_write_load(timer, load)
  <2>1. t \in TimerType /\ t.load = load /\ t.enable = timer.enable
        /\ t.value = timer.value
    BY <1>1, LoadFacts
  <2>2. timer' = soc_timer_write_ctrl(t, TRUE, p, q) /\ intc' = intc
    BY <1>2 DEF timer_start
  <2> HIDE DEF t
  <2> DEFINE v == IF ~t.enable /\ t.value = 0 THEN t.load ELSE t.value
  <2>3. v \in Nat
    BY <2>1, TimerFields
  <2>4. timer' = [t EXCEPT !.enable = TRUE, !.periodic = p, !.irq_en = q,
                           !.value = v]
    BY <2>2 DEF soc_timer_write_ctrl
  <2> HIDE DEF v
  <2>5. /\ timer' \in TimerType /\ timer'.enable = TRUE
        /\ timer'.load = t.load /\ timer'.value = v
    BY <2>1, <2>3, <2>4 DEF TimerType
  <2> QED BY <2>1, <2>2, <2>5 DEF Written, v
<1>3. CASE timer_stop
  <2>1. /\ timer' = [timer EXCEPT !.enable = FALSE, !.periodic = FALSE,
                                  !.irq_en = FALSE, !.value = timer.value]
        /\ intc' = intc
    BY <1>3 DEF timer_stop, soc_timer_write_ctrl
  <2>2. /\ timer' \in TimerType /\ timer'.enable = FALSE
        /\ timer'.value = timer.value
    BY <1>1, <2>1 DEF TimerType
  <2> QED BY <2>1, <2>2 DEF Written
<1>4. ASSUME NEW load \in Loads, WriteLoad(load)
      PROVE  Written
  <2>1. timer' = soc_timer_write_load(timer, load) /\ intc' = intc
    BY <1>4 DEF WriteLoad
  <2>2. /\ timer' \in TimerType /\ timer'.enable = timer.enable
        /\ timer'.value = timer.value
    BY <1>1, <2>1, LoadFacts
  <2> QED BY <1>1, <2>1, <2>2 DEF Written
<1>5. ASSUME NEW e \in BOOLEAN, NEW p \in BOOLEAN, NEW q \in BOOLEAN,
             WriteCtrl(e, p, q)
      PROVE  Written
  <2> DEFINE v == IF e /\ ~timer.enable /\ timer.value = 0
                  THEN timer.load ELSE timer.value
  <2>1. v \in Nat
    BY <1>1, TimerFields
  <2>2. /\ timer' = [timer EXCEPT !.enable = e, !.periodic = p, !.irq_en = q,
                                  !.value = v]
        /\ intc' = intc
    BY <1>5 DEF WriteCtrl, soc_timer_write_ctrl
  <2> HIDE DEF v
  <2>3. /\ timer' \in TimerType /\ timer'.enable = e
        /\ timer'.load = timer.load /\ timer'.value = v
    BY <1>1, <2>1, <2>2 DEF TimerType
  <2> QED BY <2>2, <2>3 DEF Written, v
<1> QED BY <1>2, <1>3, <1>4, <1>5 DEF Write

(* A write that the reference survives leaves the countdown alone. *)
LEMMA WriteHolds ==
  ASSUME TimerInv, Write
  PROVE  TimerInv'
<1>1. /\ timer \in TimerType /\ intc \in IntcType /\ InStepWithReference
      /\ Written
  BY WriteFacts DEF TimerInv, TimerTypeOK
<1>2. timer'.load \in Nat /\ timer.enable \in BOOLEAN /\ timer'.enable \in BOOLEAN
  BY <1>1, TimerFields DEF Written
<1>3. CASE timer'.enable /\ ~timer.enable /\ timer.value = 0 /\ timer'.load # 0
  <2>1. left' = timer'.load
    BY <1>3 DEF Write
  <2> QED BY <1>1, <1>2, <1>3, <2>1
          DEF Written, TimerInv, TimerTypeOK, InStepWithReference
<1>4. CASE /\ ~(timer'.enable /\ ~timer.enable /\ timer.value = 0
                /\ timer'.load # 0)
           /\ timer'.enable = timer.enable /\ timer'.load = timer.load
  <2>1. left' = left
    BY <1>4 DEF Write
  <2>2. timer'.value = timer.value
    BY <1>1, <1>2, <1>4 DEF Written
  <2> QED BY <1>1, <1>2, <1>4, <2>1, <2>2
          DEF Written, TimerInv, TimerTypeOK, InStepWithReference
<1>5. CASE /\ ~(timer'.enable /\ ~timer.enable /\ timer.value = 0
                /\ timer'.load # 0)
           /\ ~(timer'.enable = timer.enable /\ timer'.load = timer.load)
  <2>1. left' = Unknown
    BY <1>5 DEF Write
  <2> QED BY <1>1, <2>1 DEF Written, TimerInv, TimerTypeOK, InStepWithReference
<1> QED BY <1>3, <1>4, <1>5

(* Clearing FIRED, taking the interrupt and reset. *)
LEMMA OtherHolds ==
  ASSUME TimerInv, Other
  PROVE  TimerInv'
<1>1. timer \in TimerType /\ intc \in IntcType /\ InStepWithReference
  BY DEF TimerInv, TimerTypeOK
<1>2. CASE timer_clear /\ UNCHANGED left
  <2>1. timer' = [timer EXCEPT !.fired = FALSE] /\ intc' = intc /\ left' = left
    BY <1>2 DEF timer_clear, soc_timer_write_clear
  <2>2. /\ timer' \in TimerType /\ timer'.value = timer.value
        /\ timer'.enable = timer.enable /\ timer'.load = timer.load
    BY <1>1, <2>1 DEF TimerType
  <2> QED BY <1>1, <2>1, <2>2 DEF TimerInv, TimerTypeOK, InStepWithReference
<1>3. CASE TakeTimerIrq /\ UNCHANGED left
  <2>1. timer' = timer /\ left' = left /\ intc' \in IntcType
    BY <1>1, <1>3, ClearFacts, AckFacts, EnableFacts DEF TakeTimerIrq
  <2> QED BY <1>1, <2>1 DEF TimerInv, TimerTypeOK, InStepWithReference
<1>4. CASE TimerReset /\ left' = Unknown
  BY <1>4, TimerAssumption
  DEF TimerReset, TimerInv, TimerTypeOK, InStepWithReference, TimerType,
      IntcType, soc_timer_reset, soc_intc_reset, Unknown
<1> QED BY <1>2, <1>3, <1>4 DEF Other

LEMMA TimerStepHolds == TimerInv /\ [MCNext]_mcVars => TimerInv'
<1> SUFFICES ASSUME TimerInv, [MCNext]_mcVars PROVE TimerInv'
  OBVIOUS
<1>1. CASE UNCHANGED mcVars
  BY <1>1 DEF mcVars, TimerInv, TimerTypeOK, InStepWithReference
<1> QED BY <1>1, TickHolds, WriteHolds, OtherHolds DEF MCNext

(* VALUE follows the reference countdown under every client. *)
THEOREM TimerInvariance == MCSpec => []TimerInv
BY TimerInitHolds, TimerStepHolds, PTL DEF MCSpec

-----------------------------------------------------------------------------
(* The tick of the property, and why it has it. *)
TimelyTick ==
  Tick =>
    /\ left > 1 => /\ timer'.fired = timer.fired
                   /\ timer'.enable
                   /\ intc' = intc
    /\ left = 1 => /\ timer'.fired
                   /\ timer'.enable = timer.periodic
                   /\ TIMER \in intc'.pending <=>
                        (timer.irq_en \/ TIMER \in intc.pending)

LEMMA TicksAreTimely == TimerInv => TimelyTick
<1> SUFFICES ASSUME TimerInv, Tick PROVE TimelyTick
  BY DEF TimelyTick
<1>1. /\ timer \in TimerType /\ intc \in IntcType /\ InStepWithReference
      /\ timer.irq_en \in BOOLEAN
      /\ timer' = soc_timer_step(timer) /\ intc' = TimerRaises(timer, intc)
  BY DEF TimerInv, TimerTypeOK, TimerType, Tick, TimerTick
<1>2. ASSUME left > 1
      PROVE  timer'.fired = timer.fired /\ timer'.enable /\ intc' = intc
  <2>1. /\ left # Unknown /\ left \in Nat /\ timer.value = left
        /\ timer.enable /\ timer.load # 0
    BY <1>1, <1>2 DEF InStepWithReference, Unknown
  <2>2. TimerRuns(timer) /\ timer.value > 1 /\ ~TimerFires(timer)
    BY <1>2, <2>1 DEF TimerRuns, TimerFires
  <2> QED BY <1>1, <2>1, <2>2, StepFacts DEF TimerRaises
<1>3. ASSUME left = 1
      PROVE  /\ timer'.fired
             /\ timer'.enable = timer.periodic
             /\ TIMER \in intc'.pending <=>
                  (timer.irq_en \/ TIMER \in intc.pending)
  <2>1. TimerFires(timer)
    BY <1>1, <1>3 DEF InStepWithReference, Unknown, TimerFires, TimerRuns
  <2>2. TIMER \in intc'.pending <=>
          (timer.irq_en \/ TIMER \in intc.pending)
    BY <1>1, <2>1, RaiseFacts DEF TimerRaises, Lines
  <2> QED BY <1>1, <2>1, <2>2, StepFacts
<1> QED BY <1>2, <1>3 DEF TimelyTick

(* A countdown that nobody disturbs lasts exactly LOAD ticks, in the first *)
(* period and in every later one (soc_timer.c:51-70), for every set of     *)
(* loads and whatever else is written in between.                          *)
THEOREM TimerKeepsTime == MCSpec => FiresOnTime
<1>1. TimerInv /\ [MCNext]_mcVars => [TimelyTick]_mcVars
  BY TicksAreTimely
<1>2. MCSpec => [][TimelyTick]_mcVars
  BY <1>1, TimerInitHolds, TimerStepHolds, PTL DEF MCSpec
<1> QED BY <1>2 DEF TimelyTick, FiresOnTime

=============================================================================
