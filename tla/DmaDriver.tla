----------------------------- MODULE DmaDriver ------------------------------
(***************************************************************************)
(* The interrupt-driven DMA driver (firmware/drivers/dma.c) on the engine, *)
(* the interrupt controller and the dispatcher.  On the host everything    *)
(* runs in one thread: a driver call is atomic, and calls, ticks of the    *)
(* SoC, raises of the other peripherals and injected faults interleave     *)
(* wherever client code runs, that is between calls and inside handlers of *)
(* the application that isr_dispatch is running.                           *)
(*                                                                         *)
(* drv holds the statics of dma.c; the states STARTING and RECOVERY exist  *)
(* only inside a call.  drv.cfg is the configuration installed by dma_init *)
(* and dma_configure, see DmaCaps.                                         *)
(*                                                                         *)
(* Two clients are specified.  The disciplined one (Next) uses the driver  *)
(* as driver_api.h describes it: bring-up first, dma_submit with the       *)
(* interrupt enabled, completion through dma_isr, dma_recover.  The open   *)
(* one (OpenNext) makes every call of the drivers, the dispatcher and the  *)
(* test hooks in any order.  It writes no register past the drivers, which *)
(* the client of MCDmaEngine does, and it calls the error hook with codes  *)
(* of errors only: vlab_test_dma_error(0) would latch ERROR without one.   *)
(***************************************************************************)
EXTENDS DmaEngine, Isr

CONSTANTS SubmitAddrs, SubmitLens, \* what clients pass to the driver
          EnableMasks,             \* what they pass to intc_enable
          ClientLines,             \* the lines that are raised and served
          ClientMaps, ClientCaps,  \* what they pass to dma_configure
          HookCodes                \* what they pass to vlab_test_dma_error

ASSUME DriverAssumption ==
  /\ SubmitAddrs \subseteq Uint32
  /\ SubmitLens \subseteq Uint32
  /\ EnableMasks \subseteq SUBSET Lines
  /\ ClientLines \subseteq Lines
  /\ HookCodes \subseteq ErrCodes
  /\ {"app", "dma_isr"} \subseteq Handlers
  /\ Platform.hasCaps = TRUE
  /\ Platform.strict \in BOOLEAN

VARIABLE drv

vars == <<dma, uart, intc, sram, isr, drv>>

DrvStates == {"IDLE", "ACTIVE", "COMPLETE", "ERROR"}

-----------------------------------------------------------------------------
(* The driver's calls. *)

Programmed(d, src, dst, len) ==
  [d EXCEPT !.src = src, !.dst = dst, !.length = len]

Valid(src, dst, len) == validate(drv.cfg, dma.busy, src, dst, len) = "OK"

(* SRC, DST, LEN, then CTRL with START: what dma_start and dma_submit do   *)
(* to the hardware once validation has passed.                             *)
Launch(src, dst, len, irq) ==
  LET d == Programmed(dma, src, dst, len)
  IN  /\ dma' = soc_dma_write_start(d, irq)
      /\ intc' = StartIntc(d, irq, intc)
      /\ UNCHANGED <<uart, sram, isr>>

(* Mutant: a transfer is submitted over the unread outcome of the last. *)
Mutant_submit_unless_active(src, dst, len, irq) ==
  /\ ClientRuns
  /\ drv.s_state # "ACTIVE"
  /\ Valid(src, dst, len)
  /\ Launch(src, dst, len, irq)
  /\ drv' = [drv EXCEPT !.s_state = "ACTIVE", !.s_done_flag = FALSE,
                        !.s_err_latch = NoErr]

dma_submit(src, dst, len, irq) ==
  /\ ClientRuns
  /\ drv.s_state = "IDLE"
  /\ Valid(src, dst, len)
  /\ Launch(src, dst, len, irq)
  /\ drv' = [drv EXCEPT !.s_state = "ACTIVE", !.s_done_flag = FALSE,
                        !.s_err_latch = NoErr]

dma_start(src, dst, len, irq) ==
  /\ ClientRuns
  /\ Valid(src, dst, len)
  /\ Launch(src, dst, len, irq)
  /\ UNCHANGED drv

dma_clear ==
  /\ ClientRuns
  /\ soc_dma_write_irq_clear
  /\ UNCHANGED <<isr, drv>>

(* dma_isr, entered from isr_dispatch, and the rest of that iteration.  A  *)
(* spurious interrupt finds no terminal flag and leaves the state alone.   *)
AfterIsr(v) ==
  LET counted == [v EXCEPT !.s_irq_count = Bump(@, 1)]
  IN  IF dma.done
      THEN [counted EXCEPT !.s_done_flag = TRUE, !.s_state = "COMPLETE"]
      ELSE IF dma.error
      THEN [counted EXCEPT !.s_err_latch = dma.err_code, !.s_state = "ERROR"]
      ELSE counted

(* Mutant: the terminal flags of the engine are not cleared. *)
Mutant_isr_keeps_flags ==
  /\ isr.pc = "handler"
  /\ isr.h = "dma_isr"
  /\ drv' = AfterIsr(drv)
  /\ intc' = soc_intc_write_clear(soc_intc_write_clear(intc, DMA), isr.line)
  /\ isr' = Finished(isr)
  /\ UNCHANGED <<dma, uart, sram>>

dma_isr ==
  /\ isr.pc = "handler"
  /\ isr.h = "dma_isr"
  /\ drv' = AfterIsr(drv)
  /\ dma' = Cleared(dma)
  /\ intc' = soc_intc_write_clear(soc_intc_write_clear(intc, DMA), isr.line)
  /\ isr' = Finished(isr)
  /\ UNCHANGED <<uart, sram>>

(* Mutants: one of the two results survives the recovery. *)
Mutant_recover_keeps_error ==
  /\ ClientRuns
  /\ drv.s_state \in {"ERROR", "COMPLETE"}
  /\ dma' = Cleared(dma)
  /\ intc' = soc_intc_write_clear(intc, DMA)
  /\ drv' = [drv EXCEPT !.s_state = "IDLE", !.s_done_flag = FALSE]
  /\ UNCHANGED <<uart, sram, isr>>

Mutant_recover_keeps_done ==
  /\ ClientRuns
  /\ drv.s_state \in {"ERROR", "COMPLETE"}
  /\ dma' = Cleared(dma)
  /\ intc' = soc_intc_write_clear(intc, DMA)
  /\ drv' = [drv EXCEPT !.s_state = "IDLE", !.s_err_latch = NoErr]
  /\ UNCHANGED <<uart, sram, isr>>

dma_recover ==
  /\ ClientRuns
  /\ drv.s_state \in {"ERROR", "COMPLETE"}
  /\ dma' = Cleared(dma)
  /\ intc' = soc_intc_write_clear(intc, DMA)
  /\ drv' = [drv EXCEPT !.s_state = "IDLE", !.s_done_flag = FALSE,
                        !.s_err_latch = NoErr]
  /\ UNCHANGED <<uart, sram, isr>>

(* Configuration.  dma_init installs the platform's own tables and leaves  *)
(* the lifecycle state as it is.                                           *)
dma_init ==
  /\ ClientRuns
  /\ drv' = [drv EXCEPT !.cfg = Platform]
  /\ UNCHANGED <<dma, uart, intc, sram, isr>>

(* given says which of the two arguments is not NULL. *)
dma_configure(given, map, caps) ==
  /\ ClientRuns
  /\ drv' = [drv EXCEPT !.cfg.map = IF "map" \in given THEN map ELSE @,
                        !.cfg.caps = IF "caps" \in given THEN caps ELSE @,
                        !.cfg.hasCaps = @ \/ "caps" \in given]
  /\ UNCHANGED <<dma, uart, intc, sram, isr>>

(* dma_configure_periph(NULL, 0) removes the table of FIFOs. *)
dma_configure_periph_none ==
  /\ ClientRuns
  /\ drv' = [drv EXCEPT !.cfg.strict = FALSE]
  /\ UNCHANGED <<dma, uart, intc, sram, isr>>

-----------------------------------------------------------------------------
(* Steps of the other parts, as they appear here. *)

DriverIdle == UNCHANGED <<dma, uart, sram, drv>>

Tick == ClientRuns /\ soc_dma_step(uart, intc) /\ UNCHANGED <<isr, drv>>

Call == isr_dispatch_call /\ DriverIdle

Dispatching == (DispatchStep /\ DriverIdle) \/ dma_isr

Stick(on) == ClientRuns /\ SetStuck(on) /\ UNCHANGED <<isr, drv>>

Interrupt(l) == RaiseLine(l) /\ DriverIdle

Enable(mask) == intc_enable(mask) /\ DriverIdle

Clear(l) == intc_clear(l) /\ DriverIdle

Register(l, h) == isr_register(l, h) /\ DriverIdle

Hook(code) == ClientRuns /\ vlab_test_dma_error(code) /\ UNCHANGED <<isr, drv>>

(* A transfer in progress fails.  The driver never changes SRC, DST or LEN *)
(* under a running transfer, so the engine does not fault by itself; the   *)
(* tests inject the fault with the hook.                                   *)
EngineFault(code) == dma.busy /\ Hook(code)

(* The state after bring-up: dma_init has run (platform_init.c:34) and the *)
(* application has registered dma_isr for the DMA line.                    *)
Init ==
  /\ dma = soc_dma_reset
  /\ uart = soc_uart_reset
  /\ intc = soc_intc_reset
  /\ sram = [o \in 0 .. SramRegion.size - 1 |-> 0]
  /\ isr = [n_lines |-> VLAB_IRQ_COUNT, pc |-> "idle", i |-> 0,
            vector |-> [NoVectors EXCEPT ![DMA] = "dma_isr"],
            dispatched |-> 0, line |-> UART, h |-> "none", handled |-> 0]
  /\ drv = [s_state |-> "IDLE", s_done_flag |-> FALSE, s_err_latch |-> NoErr,
            s_irq_count |-> 0, cfg |-> Platform]

Next ==
  \/ \E src, dst \in SubmitAddrs, len \in SubmitLens :
       dma_submit(src, dst, len, TRUE)
  \/ dma_recover
  \/ Tick
  \/ Call
  \/ Dispatching
  \/ \E l \in ClientLines : Interrupt(l)
  \/ \E mask \in EnableMasks : Enable(mask)
  \/ \E l \in ClientLines : Clear(l)
  \/ \E on \in BOOLEAN : Stick(on)
  \/ \E code \in HookCodes : EngineFault(code)
  \/ \E l \in ClientLines \ {DMA}, h \in Handlers \ {"dma_isr"} : Register(l, h)

Spec == Init /\ [][Next]_vars

(* The main loop steps the SoC and calls isr_dispatch again and again, and *)
(* calls return.  Ticks need strong fairness because they do not happen    *)
(* while isr_dispatch runs.                                                *)
FairSpec ==
  /\ Spec
  /\ SF_vars(Tick)
  /\ WF_vars(Call)
  /\ WF_vars(Dispatching)

-----------------------------------------------------------------------------
(* The open client. *)

intc_ack ==
  /\ ClientRuns
  /\ intc' = soc_intc_ack(intc)
  /\ UNCHANGED isr
  /\ DriverIdle

Reset == ClientRuns /\ soc_reset_peripherals /\ UNCHANGED <<isr, drv>>

OpenNext ==
  \/ Next
  \/ \E src, dst \in SubmitAddrs, len \in SubmitLens, irq \in BOOLEAN :
       \/ dma_submit(src, dst, len, irq)
       \/ dma_start(src, dst, len, irq)
  \/ dma_clear
  \/ dma_init
  \/ \E given \in SUBSET {"map", "caps"}, map \in ClientMaps,
        caps \in ClientCaps : dma_configure(given, map, caps)
  \/ dma_configure_periph_none
  \/ intc_ack
  \/ Reset
  \/ \E code \in HookCodes : Hook(code)
  \/ \E h \in Handlers : Register(DMA, h)
  \/ \E n \in LineCounts : isr_configure(n) /\ DriverIdle

OpenSpec == Init /\ [][OpenNext]_vars

-----------------------------------------------------------------------------
DrvType == [s_state : DrvStates, s_done_flag : BOOLEAN,
            s_err_latch : ErrCodes \cup {NoErr}, s_irq_count : Counter,
            cfg : {Platform}]

(* The types of all components under the disciplined client. *)
TypeOK ==
  /\ dma \in DmaType
  /\ intc \in IntcType
  /\ isr \in IsrType
  /\ drv \in DrvType

(* No completion is lost: as long as the driver waits (ACTIVE), either the *)
(* engine is at work and will raise the line, or it has ended, its flag is *)
(* still set, and the interrupt that will report it is pending or being    *)
(* handled, whatever spurious interrupts, masks, faults and handlers of    *)
(* the application come in between.                                        *)
NoLostCompletion ==
  drv.s_state = "ACTIVE" =>
    \/ dma.busy /\ dma.irq_enable_latched
    \/ /\ dma.done \/ dma.error
       /\ \/ DMA \in intc.pending
          \/ isr.pc = "handler" /\ isr.h = "dma_isr"

(* Outside ACTIVE the engine is quiet, so that dma_submit in IDLE is never *)
(* refused as BUSY and no flag of an old transfer can be taken for one of  *)
(* the next.                                                               *)
QuietUnlessActive ==
  drv.s_state # "ACTIVE" => ~dma.busy /\ ~dma.done /\ ~dma.error

(* The flags the main line polls agree with the state: dma_is_complete is  *)
(* true exactly in COMPLETE and dma_latched_error is nonzero exactly in    *)
(* ERROR.                                                                  *)
FlagsMatchState ==
  /\ drv.s_done_flag <=> drv.s_state = "COMPLETE"
  /\ drv.s_err_latch # NoErr <=> drv.s_state = "ERROR"

(* What survives of that if the client is open: the flag that belongs to   *)
(* the state is set, and IDLE has none.                                    *)
OpenFlags ==
  /\ drv.s_state = "COMPLETE" => drv.s_done_flag
  /\ drv.s_state = "ERROR" => drv.s_err_latch # NoErr
  /\ drv.s_state = "IDLE" => ~drv.s_done_flag /\ drv.s_err_latch = NoErr

(* Every submitted transfer is reported in the end, unless the engine is   *)
(* stuck, the client keeps the DMA line masked, or TIMER, which has        *)
(* priority, is raised for ever.                                           *)
TimerRaised == TIMER \in intc'.pending \ intc.pending

SubmittedIsReported ==
  <>[][~TimerRaised]_vars =>
    (drv.s_state = "ACTIVE" ~>
       \/ drv.s_state \in {"COMPLETE", "ERROR"}
       \/ dma.fault_stuck_busy
       \/ DMA \notin intc.enable)

(* The driver implements its promise: the terminal flags of the engine are *)
(* the outcome on its way, the driver's two result variables are what was  *)
(* reported.                                                               *)
Outcome ==
  IF dma.done THEN "done" ELSE IF dma.error THEN dma.err_code ELSE NoErr

Reported == IF drv.s_done_flag THEN "done" ELSE drv.s_err_latch

Lifecycle ==
  INSTANCE DmaLifecycle WITH Failures <- ErrCodes, Nothing <- NoErr,
                             state <- drv.s_state, outcome <- Outcome,
                             report <- Reported

RefinesLifecycle == Lifecycle!Spec

-----------------------------------------------------------------------------
(* What the documentation says and the code does not do. *)

(* driver_api.h:83, "Latched error code captured by dma_isr (0 when no     *)
(* error)": a nonzero code is only seen in ERROR.                          *)
LatchedErrorMeansError == drv.s_err_latch # NoErr => drv.s_state = "ERROR"

(* fault-injection.md:55, "DMA returns to idle (BUSY/DONE/ERROR cleared);  *)
(* partial transfer discarded; software re-runs and completes": with the   *)
(* engine idle and nothing to report, the driver does not wait for it.     *)
IdleEngineCanBeRerun ==
  (~dma.busy /\ ~dma.done /\ ~dma.error) => drv.s_state # "ACTIVE"

(* The documented abort: reset of the peripherals, then re-initialisation. *)
Abort ==
  /\ ClientRuns
  /\ soc_reset_peripherals
  /\ drv' = [drv EXCEPT !.cfg = Platform]
  /\ UNCHANGED isr

(* Clients that do one thing more than the disciplined one: mix dma_start  *)
(* with dma_submit, or abort.                                              *)
MixedSpec ==
  Init /\ [][\/ Next
             \/ \E src, dst \in SubmitAddrs, len \in SubmitLens :
                  dma_start(src, dst, len, TRUE)]_vars

AbortSpec == Init /\ [][Next \/ Abort]_vars

=============================================================================
