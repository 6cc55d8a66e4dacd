---------------------------- MODULE DmaLifecycle ----------------------------
(***************************************************************************)
(* What the DMA driver promises its client, after the lifecycle comment of *)
(* driver_api.h and the state machine of dma.c: a transfer is submitted    *)
(* from IDLE, has one outcome, and that outcome is reported exactly once,  *)
(* unaltered, before the driver can be made IDLE again.  How the outcome   *)
(* travels (flags, interrupt lines, dispatcher) is not visible here.       *)
(***************************************************************************)

CONSTANTS Failures,  \* the error codes of a transfer
          Nothing    \* no outcome

VARIABLES state,   \* the lifecycle state
          outcome, \* of the transfer in progress, Nothing before it ends
          report   \* what the client can read

Outcomes == {"done"} \cup Failures

vars == <<state, outcome, report>>

Init == state = "IDLE" /\ outcome = Nothing /\ report = Nothing

Submit ==
  /\ state = "IDLE"
  /\ state' = "ACTIVE"
  /\ UNCHANGED <<outcome, report>>

End(o) ==
  /\ state = "ACTIVE"
  /\ outcome = Nothing
  /\ outcome' = o
  /\ UNCHANGED <<state, report>>

Report ==
  /\ state = "ACTIVE"
  /\ outcome # Nothing
  /\ state' = IF outcome = "done" THEN "COMPLETE" ELSE "ERROR"
  /\ report' = outcome
  /\ outcome' = Nothing

Recover ==
  /\ state \in {"COMPLETE", "ERROR"}
  /\ state' = "IDLE"
  /\ report' = Nothing
  /\ UNCHANGED outcome

Next == Submit \/ (\E o \in Outcomes : End(o)) \/ Report \/ Recover

Spec == Init /\ [][Next]_vars

=============================================================================
