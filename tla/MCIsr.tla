------------------------------- MODULE MCIsr --------------------------------
(***************************************************************************)
(* Model-checking instance of the dispatcher.  quiet is a history variable *)
(* that says that no client code has run since the current isr_dispatch    *)
(* began: a step that stays in a handler is a step of that handler.        *)
(***************************************************************************)
EXTENDS Isr

VARIABLE quiet

mcVars == <<intc, isr, quiet>>

MCInit == IsrInitState /\ quiet = TRUE

MCNext ==
  /\ IsrNext
  /\ quiet' = CASE isr.pc = "idle" -> TRUE
                [] isr.pc = "handler" /\ isr'.pc = "handler" -> FALSE
                [] OTHER -> quiet

MCSpec == MCInit /\ [][MCNext]_mcVars /\ DispatchFairness

(* isr.h:34, "Dispatch all currently pending+enabled IRQs": if no handler  *)
(* touches anything, a call of isr_dispatch that is not stopped by a       *)
(* foreign line (isr.c:39) leaves no line both pending and enabled.  The   *)
(* loop bound of one pass per configured line is just enough for that.     *)
QuietDispatchDrains ==
  [][(isr.pc = "loop" /\ isr'.pc = "idle" /\ quiet)
       => \/ Gated(intc') = {}
          \/ isr.i < isr.n_lines /\ AckLine >= isr.n_lines]_mcVars

=============================================================================
