----------------------------- MODULE DmaPreempt -----------------------------
(***************************************************************************)
(* The DMA driver on silicon, where dma_isr preempts the main line and the *)
(* engine works on while code runs: the mapping that isr.h:8-9 and         *)
(* docs/firmware-c.md:67-73 intend, in which the code of the driver is the *)
(* same.  dma_submit, dma_recover and dma_isr are split into their         *)
(* accesses to registers and shared variables, and the critical sections   *)
(* of hal_irq_disable and hal_irq_restore are what keeps interrupts out of *)
(* the calls.                                                              *)
(*                                                                         *)
(* main is the driver call in progress: its next step, its arguments and   *)
(* the saved mask (key); without one the client runs, in the open or in a  *)
(* critical section of its own.  isr_at is the next step of dma_isr while  *)
(* it runs.  s_irq_masked is the interrupt mask.  The writes of SRC, DST   *)
(* and LEN are one step, since an idle engine does not look at them.  The  *)
(* DMA line is raised by the engine only: the raise hook of the tests has  *)
(* no counterpart on silicon.                                              *)
(***************************************************************************)
EXTENDS DmaDriver

VARIABLES main, isr_at, s_irq_masked

preemptVars == <<dma, uart, intc, sram, isr, drv, main, isr_at, s_irq_masked>>

CallSteps == {"submit_check", "submit_validate", "submit_program",
              "submit_start", "submit_active", "recover_check",
              "recover_clear", "recover_intc", "recover_idle", "restore"}

(* Where the client is between its calls. *)
ClientAt == {"client", "section"}

NoCall == [pc |-> "client", src |-> 0, dst |-> 0, len |-> 0, key |-> FALSE]

PreemptInit ==
  Init /\ main = NoCall /\ isr_at = "status" /\ s_irq_masked = FALSE

-----------------------------------------------------------------------------
(* The main line: code outside handlers, and handlers of the application,  *)
(* which call the driver too.                                              *)

Hardware == <<dma, uart, intc, sram>>

At(pc) == ClientRuns /\ main.pc = pc

Goto(pc) == main' = [main EXCEPT !.pc = pc]

SetState(s) == drv' = [drv EXCEPT !.s_state = s]

Outside == ClientRuns /\ main.pc \in ClientAt

(* hal_irq_disable on entry of a call. *)
Enter(pc, src, dst, len) ==
  /\ Outside
  /\ main' = [pc |-> pc, src |-> src, dst |-> dst, len |-> len,
              key |-> s_irq_masked]
  /\ s_irq_masked' = TRUE
  /\ UNCHANGED <<drv, isr, isr_at, Hardware>>

(* Mutant: dma_submit does not mask interrupts. *)
Mutant_submit_unmasked(src, dst, len) ==
  /\ Outside
  /\ main' = [pc |-> "submit_check", src |-> src, dst |-> dst, len |-> len,
              key |-> s_irq_masked]
  /\ UNCHANGED <<drv, isr, isr_at, s_irq_masked, Hardware>>

submit_enter(src, dst, len) == Enter("submit_check", src, dst, len)

recover_enter == Enter("recover_check", 0, 0, 0)

(* hal_irq_restore and return: the mask is as the call found it. *)
Returned == [NoCall EXCEPT !.pc = IF main.key THEN "section" ELSE "client"]

restore ==
  /\ At("restore")
  /\ s_irq_masked' = main.key
  /\ main' = Returned
  /\ UNCHANGED <<drv, isr, isr_at, Hardware>>

(* The client's own critical section, around calls of the driver or        *)
(* without any.                                                            *)
hal_irq_disable ==
  /\ At("client")
  /\ Goto("section")
  /\ s_irq_masked' = TRUE
  /\ UNCHANGED <<drv, isr, isr_at, Hardware>>

hal_irq_restore ==
  /\ At("section")
  /\ Goto("client")
  /\ s_irq_masked' = FALSE
  /\ UNCHANGED <<drv, isr, isr_at, Hardware>>

(* Mutant: the early return with BUSY forgets to restore the mask. *)
Mutant_busy_stays_masked ==
  /\ At("submit_check")
  /\ IF drv.s_state # "IDLE" THEN main' = Returned /\ UNCHANGED drv
     ELSE Goto("submit_validate") /\ SetState("STARTING")
  /\ UNCHANGED <<isr, isr_at, s_irq_masked, Hardware>>

submit_check ==
  /\ At("submit_check")
  /\ IF drv.s_state # "IDLE" THEN Goto("restore") /\ UNCHANGED drv
     ELSE Goto("submit_validate") /\ SetState("STARTING")
  /\ UNCHANGED <<isr, isr_at, s_irq_masked, Hardware>>

submit_validate ==
  /\ At("submit_validate")
  /\ IF Valid(main.src, main.dst, main.len)
     THEN Goto("submit_program") /\ UNCHANGED drv
     ELSE Goto("restore") /\ SetState("IDLE")
  /\ UNCHANGED <<isr, isr_at, s_irq_masked, Hardware>>

submit_program ==
  /\ At("submit_program")
  /\ drv' = [drv EXCEPT !.s_done_flag = FALSE, !.s_err_latch = NoErr]
  /\ dma' = Programmed(dma, main.src, main.dst, main.len)
  /\ Goto("submit_start")
  /\ UNCHANGED <<uart, intc, sram, isr, isr_at, s_irq_masked>>

submit_start ==
  /\ At("submit_start")
  /\ soc_dma_write_ctrl(TRUE, TRUE)
  /\ Goto("submit_active")
  /\ UNCHANGED <<drv, isr, isr_at, s_irq_masked>>

submit_active ==
  /\ At("submit_active")
  /\ SetState("ACTIVE")
  /\ Goto("restore")
  /\ UNCHANGED <<isr, isr_at, s_irq_masked, Hardware>>

(* Mutant: a driver that is still ACTIVE is recovered too. *)
Mutant_recover_active ==
  /\ At("recover_check")
  /\ IF drv.s_state \in {"ERROR", "COMPLETE", "ACTIVE"}
     THEN Goto("recover_clear") /\ SetState("RECOVERY")
     ELSE Goto("restore") /\ UNCHANGED drv
  /\ UNCHANGED <<isr, isr_at, s_irq_masked, Hardware>>

recover_check ==
  /\ At("recover_check")
  /\ IF drv.s_state \in {"ERROR", "COMPLETE"}
     THEN Goto("recover_clear") /\ SetState("RECOVERY")
     ELSE Goto("restore") /\ UNCHANGED drv
  /\ UNCHANGED <<isr, isr_at, s_irq_masked, Hardware>>

recover_clear ==
  /\ At("recover_clear")
  /\ soc_dma_write_irq_clear
  /\ Goto("recover_intc")
  /\ UNCHANGED <<drv, isr, isr_at, s_irq_masked>>

recover_intc ==
  /\ At("recover_intc")
  /\ intc' = soc_intc_write_clear(intc, DMA)
  /\ Goto("recover_idle")
  /\ UNCHANGED <<drv, isr, isr_at, s_irq_masked, dma, uart, sram>>

recover_idle ==
  /\ At("recover_idle")
  /\ drv' = [drv EXCEPT !.s_state = "IDLE", !.s_done_flag = FALSE,
                        !.s_err_latch = NoErr]
  /\ Goto("restore")
  /\ UNCHANGED <<isr, isr_at, s_irq_masked, Hardware>>

MainStep ==
  \/ restore
  \/ submit_check \/ submit_validate \/ submit_program
  \/ submit_start \/ submit_active
  \/ recover_check \/ recover_clear \/ recover_intc \/ recover_idle

-----------------------------------------------------------------------------
(* Interrupts.  The CPU enters isr_dispatch when the controller has a line *)
(* for it and the mask is open; handlers are not preempted.                *)

MainIdle == UNCHANGED <<main, s_irq_masked>>

TakeInterrupt ==
  /\ ~s_irq_masked
  /\ Gated(intc) # {}
  /\ Call
  /\ MainIdle
  /\ UNCHANGED isr_at

InHandler(step) == isr.pc = "handler" /\ isr.h = "dma_isr" /\ isr_at = step

(* STATUS and ERR_CODE are read, and the lifecycle state is set. *)
isr_status ==
  /\ InHandler("status")
  /\ drv' = [AfterIsr(drv) EXCEPT !.s_irq_count = drv.s_irq_count]
  /\ isr_at' = "clear"
  /\ MainIdle
  /\ UNCHANGED <<isr, Hardware>>

isr_clear ==
  /\ InHandler("clear")
  /\ soc_dma_write_irq_clear
  /\ isr_at' = "intc"
  /\ MainIdle
  /\ UNCHANGED <<isr, drv>>

isr_intc ==
  /\ InHandler("intc")
  /\ intc' = soc_intc_write_clear(soc_intc_write_clear(intc, DMA), isr.line)
  /\ drv' = [drv EXCEPT !.s_irq_count = Bump(@, 1)]
  /\ isr' = Finished(isr)
  /\ isr_at' = "status"
  /\ MainIdle
  /\ UNCHANGED <<dma, uart, sram>>

(* A handler of the application returns from its driver calls and ends its *)
(* critical sections first.                                                *)
HandlerStep ==
  \/ isr_status \/ isr_clear \/ isr_intc
  \/ /\ isr.pc = "handler" => main.pc = "client"
     /\ DispatchStep
     /\ DriverIdle /\ MainIdle
     /\ UNCHANGED isr_at

-----------------------------------------------------------------------------
(* The hardware and the client. *)

EngineTick ==
  /\ soc_dma_step(uart, intc)
  /\ MainIdle
  /\ UNCHANGED <<isr, drv, isr_at>>

(* The engine gets stuck, or fails in the middle of a transfer, at any     *)
(* moment, also inside a critical section.                                 *)
EngineFaults ==
  /\ \/ \E on \in BOOLEAN : SetStuck(on)
     \/ dma.busy /\ \E code \in HookCodes : vlab_test_dma_error(code)
  /\ MainIdle
  /\ UNCHANGED <<isr, drv, isr_at>>

OtherRaise(l) ==
  /\ intc' = soc_intc_raise(intc, l)
  /\ DriverIdle /\ MainIdle
  /\ UNCHANGED <<isr, isr_at>>

ClientStep ==
  /\ main.pc \in ClientAt
  /\ \/ \E mask \in EnableMasks : Enable(mask)
     \/ \E l \in ClientLines \ {DMA}, h \in Handlers \ {"dma_isr"} :
          Register(l, h)
  /\ MainIdle
  /\ UNCHANGED isr_at

PreemptNext ==
  \/ \E src, dst \in SubmitAddrs, len \in SubmitLens :
       submit_enter(src, dst, len)
  \/ recover_enter
  \/ hal_irq_disable
  \/ hal_irq_restore
  \/ MainStep
  \/ TakeInterrupt
  \/ HandlerStep
  \/ EngineTick
  \/ EngineFaults
  \/ \E l \in ClientLines \ {DMA} : OtherRaise(l)
  \/ ClientStep

(* Driver calls run to their end and time goes on.  Handlers return: one   *)
(* of the application makes finitely many driver calls, and between two of *)
(* them it can return, hence strong fairness.  An interrupt that is        *)
(* pending is taken as soon as the mask is open, however short that is:    *)
(* strong fairness too, because a client may enter one critical section    *)
(* after the other.  A critical section of the client ends, whatever calls *)
(* it makes in between.                                                    *)
PreemptSpec ==
  /\ PreemptInit /\ [][PreemptNext]_preemptVars
  /\ WF_preemptVars(MainStep)
  /\ SF_preemptVars(HandlerStep)
  /\ WF_preemptVars(EngineTick)
  /\ SF_preemptVars(TakeInterrupt)
  /\ SF_preemptVars(hal_irq_restore)

-----------------------------------------------------------------------------
(* The types; the mask is closed exactly in a call and in a critical       *)
(* section of the client.                                                  *)
PreemptTypeOK ==
  /\ dma \in DmaType
  /\ intc \in IntcType
  /\ isr \in IsrType
  /\ drv \in [s_state : DrvStates \cup {"STARTING", "RECOVERY"},
              s_done_flag : BOOLEAN, s_err_latch : ErrCodes \cup {NoErr},
              s_irq_count : Counter, cfg : {Platform}]
  /\ main \in [pc : CallSteps \cup ClientAt, src : Uint32, dst : Uint32,
               len : Uint32, key : BOOLEAN]
  /\ s_irq_masked <=> main.pc # "client"

(* No completion is lost to preemption: from the write of START on, also   *)
(* before the driver has set ACTIVE, the engine is busy and will raise the *)
(* line, or its flag is set and the interrupt is pending or about to read  *)
(* STATUS.  A completion between START and ACTIVE waits for the mask       *)
(* (dma.c:144-147).                                                        *)
NoCompletionPreempted ==
  (drv.s_state = "ACTIVE" \/ main.pc = "submit_active") =>
    \/ dma.busy /\ dma.irq_enable_latched
    \/ /\ dma.done \/ dma.error
       /\ DMA \in intc.pending \/ InHandler("status")

(* The preemptive driver implements the lifecycle as well.  START is the   *)
(* moment of submission, the read of STATUS that of the report, and a      *)
(* driver in RECOVERY has not recovered yet.                               *)
LifecycleState ==
  CASE drv.s_state = "STARTING" ->
         IF main.pc = "submit_active" THEN "ACTIVE" ELSE "IDLE"
    [] drv.s_state = "RECOVERY" ->
         IF drv.s_done_flag THEN "COMPLETE" ELSE "ERROR"
    [] OTHER -> drv.s_state

PreemptLifecycle ==
  INSTANCE DmaLifecycle
    WITH Failures <- ErrCodes, Nothing <- NoErr,
         state <- LifecycleState, report <- Reported,
         outcome <- IF InHandler("clear") THEN NoErr ELSE Outcome

PreemptRefinesLifecycle == PreemptLifecycle!Spec

(* Every call returns and puts back the mask it found, open or closed, on  *)
(* all paths through both calls: one made inside a critical section of the *)
(* client does not open it.                                                *)
MaskIsRestored ==
  \A k \in BOOLEAN :
    (main.pc \in CallSteps /\ main.key = k) ~>
      (main.pc \in ClientAt /\ s_irq_masked = k)

(* Every submitted transfer is reported in the end, although the client    *)
(* enters critical sections all the time, unless the engine is stuck, the  *)
(* client keeps the line disabled, or TIMER is raised for ever.            *)
TimerKeepsRaising == TIMER \in intc'.pending \ intc.pending

PreemptedIsReported ==
  <>[][~TimerKeepsRaising]_preemptVars =>
    (drv.s_state = "ACTIVE" ~>
       \/ drv.s_state \in {"COMPLETE", "ERROR"}
       \/ dma.fault_stuck_busy
       \/ DMA \notin intc.enable)

=============================================================================
