---------------------------- MODULE MCDmaPreempt ----------------------------
(***************************************************************************)
(* Model-checking instance of the preemptive driver, on the platform of    *)
(* MCDmaDriver.                                                            *)
(***************************************************************************)
EXTENDS DmaPreempt, MCDmaDriver

=============================================================================
