------------------------------- MODULE Timer --------------------------------
(***************************************************************************)
(* The timer (soc_c/src/soc_timer.c) and its driver                        *)
(* (firmware/drivers/timer.c), with the interrupt line it raises.  The     *)
(* three bits of CTRL are the fields enable, periodic and irq_en, FIRED is *)
(* the one bit of IRQ_STATUS.  LOAD and VALUE are uint32_t; nothing is     *)
(* added to them, so their width does not matter.                          *)
(***************************************************************************)
EXTENDS Intc

CONSTANT Loads  \* what clients load the timer with

ASSUME TimerAssumption == Loads \subseteq Nat

VARIABLE timer

timerVars == <<timer, intc>>

TimerType == [enable : BOOLEAN, periodic : BOOLEAN, irq_en : BOOLEAN,
              load : Loads \cup {0}, value : Nat, fired : BOOLEAN]

soc_timer_reset ==
  [enable |-> FALSE, periodic |-> FALSE, irq_en |-> FALSE,
   load |-> 0, value |-> 0, fired |-> FALSE]

-----------------------------------------------------------------------------
(* Register writes.  Only an enabling write reloads VALUE, and only from   *)
(* zero: a timer that was stopped in the middle resumes where it was.      *)

(* Mutant: every enabling write reloads. *)
Mutant_ctrl_always_reloads(t, enable, periodic, irq_en) ==
  [t EXCEPT !.enable = enable, !.periodic = periodic, !.irq_en = irq_en,
            !.value = IF enable THEN t.load ELSE @]

soc_timer_write_ctrl(t, enable, periodic, irq_en) ==
  [t EXCEPT !.enable = enable, !.periodic = periodic, !.irq_en = irq_en,
            !.value = IF enable /\ ~t.enable /\ @ = 0 THEN t.load ELSE @]

soc_timer_write_load(t, load) == [t EXCEPT !.load = load]

soc_timer_write_clear(t) == [t EXCEPT !.fired = FALSE]

(* One tick.  TimerFires tells whether the countdown ends in it. *)

TimerRuns(t) == t.enable /\ t.load # 0

TimerFires(t) == TimerRuns(t) /\ t.value <= 1

TimerRaises(t, ic) ==
  IF TimerFires(t) /\ t.irq_en THEN soc_intc_raise(ic, TIMER) ELSE ic

(* Mutant: a periodic timer reloads without its last tick. *)
Mutant_step_short_reload(t) ==
  IF ~TimerRuns(t) THEN t
  ELSE IF ~TimerFires(t) THEN [t EXCEPT !.value = @ - 1]
  ELSE IF t.periodic THEN [t EXCEPT !.fired = TRUE, !.value = t.load - 1]
  ELSE [t EXCEPT !.fired = TRUE, !.value = 0, !.enable = FALSE]

soc_timer_step(t) ==
  IF ~TimerRuns(t) THEN t
  ELSE IF ~TimerFires(t) THEN [t EXCEPT !.value = @ - 1]
  ELSE IF t.periodic THEN [t EXCEPT !.fired = TRUE, !.value = t.load]
  ELSE [t EXCEPT !.fired = TRUE, !.value = 0, !.enable = FALSE]

-----------------------------------------------------------------------------
(* The driver, and what else happens to the timer. *)

(* timer_start refuses a load of zero. *)
timer_start(load, periodic, irq_enable) ==
  /\ load # 0
  /\ timer' = soc_timer_write_ctrl(soc_timer_write_load(timer, load),
                                   TRUE, periodic, irq_enable)
  /\ UNCHANGED intc

timer_stop ==
  /\ timer' = soc_timer_write_ctrl(timer, FALSE, FALSE, FALSE)
  /\ UNCHANGED intc

timer_clear ==
  /\ timer' = soc_timer_write_clear(timer)
  /\ UNCHANGED intc

(* The two registers written past the driver. *)
WriteLoad(load) ==
  /\ timer' = soc_timer_write_load(timer, load)
  /\ UNCHANGED intc

WriteCtrl(enable, periodic, irq_en) ==
  /\ timer' = soc_timer_write_ctrl(timer, enable, periodic, irq_en)
  /\ UNCHANGED intc

TimerTick ==
  /\ timer' = soc_timer_step(timer)
  /\ intc' = TimerRaises(timer, intc)

(* The interrupt is taken: ACK, then CLEAR. *)
TakeTimerIrq ==
  /\ intc' = soc_intc_write_clear(
               soc_intc_ack(soc_intc_write_enable(intc, {TIMER})), TIMER)
  /\ UNCHANGED timer

TimerReset == timer' = soc_timer_reset /\ intc' = soc_intc_reset

TimerInit == timer = soc_timer_reset /\ intc = soc_intc_reset

=============================================================================
