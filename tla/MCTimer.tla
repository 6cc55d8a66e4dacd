------------------------------ MODULE MCTimer -------------------------------
(***************************************************************************)
(* The timer under a client that calls its driver and writes its registers *)
(* in any order.  left is a history variable that counts down as           *)
(* soc-spec.md (5.2) describes it: it begins at LOAD when CTRL enables a   *)
(* timer that stands at zero, begins again when a periodic timer fires,    *)
(* and loses one with each tick.  It is Unknown while no countdown is on,  *)
(* and after a client changed LOAD, stopped the timer or resumed it in the *)
(* middle.                                                                 *)
(***************************************************************************)
EXTENDS Timer

VARIABLE left

mcVars == <<timer, intc, left>>

Unknown == -1

MCInit == TimerInit /\ left = Unknown

Tick ==
  /\ TimerTick
  /\ left' = IF left > 1 THEN left - 1
             ELSE IF left = 1 /\ timer.periodic THEN timer.load
             ELSE Unknown

Write ==
  /\ \/ \E load \in Loads, periodic, irq \in BOOLEAN :
          timer_start(load, periodic, irq)
     \/ timer_stop
     \/ \E load \in Loads : WriteLoad(load)
     \/ \E enable, periodic, irq \in BOOLEAN : WriteCtrl(enable, periodic, irq)
  /\ left' =
       IF timer'.enable /\ ~timer.enable /\ timer.value = 0 /\ timer'.load # 0
       THEN timer'.load
       ELSE IF timer'.enable = timer.enable /\ timer'.load = timer.load
       THEN left
       ELSE Unknown

Other ==
  \/ (timer_clear \/ TakeTimerIrq) /\ UNCHANGED left
  \/ TimerReset /\ left' = Unknown

MCNext == Tick \/ Write \/ Other

(* Time goes on. *)
MCSpec == MCInit /\ [][MCNext]_mcVars /\ WF_mcVars(Tick)

-----------------------------------------------------------------------------
(* A countdown that nobody disturbs lasts exactly LOAD ticks, the first    *)
(* one after timer_start and every later period: before that a tick sets   *)
(* no flag and raises no line, and then the timer sets FIRED, raises line  *)
(* 1 iff IRQ_ENABLE is set, and stays enabled iff it is periodic.          *)
FiresOnTime ==
  [][Tick =>
       /\ left > 1 => /\ timer'.fired = timer.fired
                      /\ timer'.enable
                      /\ intc' = intc
       /\ left = 1 => /\ timer'.fired
                      /\ timer'.enable = timer.periodic
                      /\ TIMER \in intc'.pending <=>
                           (timer.irq_en \/ TIMER \in intc.pending)]_mcVars

(* A timer that runs fires, although a client may call timer_start again   *)
(* and again: starting a running timer does not postpone it                *)
(* (soc_timer.c:36).                                                       *)
RunningFires == TimerRuns(timer) ~> (timer.fired \/ ~TimerRuns(timer))

=============================================================================
