---------------------------- MODULE MCDmaEngine -----------------------------
(***************************************************************************)
(* The engine under a client that writes its registers in any order at any *)
(* time, on a scaled-down platform.  The words have two bytes; the map has *)
(* two bytes of ROM, six of SRAM and a UART window, and addresses above   *)
(* it are unmapped.                                                        *)
(*                                                                         *)
(* hist is a history variable: what the transfer in progress was started   *)
(* with, how many ticks it has been counting, and whether the client has   *)
(* changed SRC, DST or LEN under it.                                       *)
(***************************************************************************)
EXTENDS DmaEngine, TLC

CONSTANTS ProgAddrs, ProgLens, \* what the client programs
          Irqs                 \* the values of IRQ_ENABLE it writes

ASSUME EngineClientAssumption ==
  /\ ProgAddrs \subseteq Uint32
  /\ ProgLens \subseteq Uint32
  /\ Irqs \subseteq BOOLEAN

(* The tables of platform_vlab.c fit the bridges of soc.c: the only memory *)
(* the DMA may reach is the SRAM, the only FIFO it may read from is RXDATA *)
(* and the only one it may write to is TXDATA.                             *)
ASSUME BridgeAssumption ==
  /\ Platform.strict = TRUE
  /\ \A i \in 1 .. Len(Platform.map) : IsMem(Platform.map[i]) => i = 2
  /\ \A a \in DOMAIN Platform.fifo :
       /\ "src" \in Platform.fifo[a] => a = RXDATA
       /\ "dst" \in Platform.fifo[a] => a = TXDATA

MCPlatform ==
  [map |-> << [base |-> 0, size |-> 2, type |-> "ROM"],
              [base |-> 2, size |-> 6, type |-> "SRAM"],
              [base |-> 8, size |-> 4, type |-> "MMIO"] >>,
   hasCaps |-> TRUE,
   caps |-> [alignment |-> 2, max_transfer |-> 4,
             supports_ram_to_ram |-> TRUE, supports_mem_to_periph |-> TRUE,
             supports_periph_to_mem |-> TRUE],
   strict |-> TRUE,
   fifo |-> (8 :> {"dst"} @@ 10 :> {"src"})]

VARIABLE hist

vars == <<dma, uart, intc, sram, hist>>

NoTransfer == [irq |-> FALSE, ticks |-> 0, elapsed |-> 0, touched |-> FALSE]

Init ==
  /\ dma = soc_dma_reset
  /\ uart = soc_uart_reset
  /\ intc = soc_intc_reset
  /\ sram = [o \in 0 .. SramRegion.size - 1 |-> 0]
  /\ hist = NoTransfer

(* Bound: where the count of elapsed ticks saturates, one above what a     *)
(* transfer can take if every malloc that may fail does.                   *)
MaxElapsed == hist.ticks + MaxAllocFails

(* What a step makes of the history: counted says that it is a tick. *)
Record(counted) ==
  hist' =
    IF ~dma'.busy THEN NoTransfer
    ELSE IF ~dma.busy
    THEN [irq |-> "IRQ_ENABLE" \in dma'.ctrl, elapsed |-> 0, touched |-> FALSE,
          ticks |-> transfer_ticks(dma.length, LatencyPerWord, Burst)]
    ELSE [hist EXCEPT
            !.elapsed = IF counted /\ ~dma.fault_stuck_busy /\ @ < MaxElapsed
                        THEN @ + 1 ELSE @,
            !.touched = @ \/ <<dma'.src, dma'.dst, dma'.length>> #
                             <<dma.src, dma.dst, dma.length>>]

Tick == soc_dma_step(uart, intc) /\ Record(TRUE)

StartTransfer(irq) == soc_dma_write_ctrl(TRUE, irq) /\ Record(FALSE)

Program ==
  /\ \/ \E a \in ProgAddrs : soc_dma_write_src(a) \/ soc_dma_write_dst(a)
     \/ \E n \in ProgLens : soc_dma_write_len(n)
     \/ \E irq \in Irqs : soc_dma_write_ctrl(FALSE, irq)
     \/ soc_dma_write_irq_clear
  /\ Record(FALSE)

(* The CPU takes the interrupt: ACK, then CLEAR. *)
TakeIrq ==
  /\ intc' = soc_intc_write_clear(
               soc_intc_ack(soc_intc_write_enable(intc, {DMA})), DMA)
  /\ UNCHANGED <<dma, uart, sram, hist>>

Disturb ==
  /\ \/ soc_reset_peripherals
     \/ \E on \in BOOLEAN : SetStuck(on)
  /\ Record(FALSE)

Next ==
  \/ Tick
  \/ \E irq \in Irqs : StartTransfer(irq)
  \/ Program
  \/ TakeIrq
  \/ Disturb

Spec == Init /\ [][Next]_vars

(* Time goes on. *)
FairSpec == Spec /\ WF_vars(Tick)

-----------------------------------------------------------------------------
(* STATUS never shows two of BUSY, DONE and ERROR, and ERR_CODE is set     *)
(* exactly in ERROR, whatever order registers are written in.              *)
StatusCoherent ==
  /\ ~(dma.busy /\ dma.done)
  /\ ~(dma.busy /\ dma.error)
  /\ ~(dma.done /\ dma.error)
  /\ dma.error <=> dma.err_code # NoErr

(* Nothing that is done to a busy engine, a second START included, changes *)
(* when it ends: the ticks counted and the ticks left add up to the length *)
(* computed at START.                                                      *)
EndsOnTime == dma.busy => hist.elapsed + dma.remaining = hist.ticks

(* INTC line 2 is raised on DONE and on ERROR iff IRQ_ENABLE was set at    *)
(* START (soc-spec.md:132-133), although a client may have written CTRL    *)
(* again, or started again, while the engine was busy.                     *)
RaisedIffEnabledAtStart ==
  [][/\ (dma.busy /\ ~dma'.busy /\ (dma'.done \/ dma'.error))
          => (DMA \in intc'.pending <=> (hist.irq \/ DMA \in intc.pending))
     /\ \A irq \in Irqs :
          (StartTransfer(irq) /\ dma'.error)
            => (DMA \in intc'.pending <=> (irq \/ DMA \in intc.pending))]_vars

(* Validation and the bridges fit together: a transfer the engine accepted *)
(* and whose registers nobody touched since does not fault at the end.     *)
AcceptedNeverFaults ==
  [][(dma.busy /\ dma'.error) => hist.touched]_vars

(* A transfer that ends in ERROR has written nothing, neither to memory    *)
(* nor to the transmit stream (what it read from the receive stream is     *)
(* gone: soc_dma.c:202 drains before soc_dma.c:213 can fail).              *)
FaultWritesNothing ==
  [][(dma.busy /\ dma'.error) =>
       sram' = sram /\ uart'.tx_fifo = uart.tx_fifo]_vars

(* A busy engine that is not stuck ends its transfer, even if malloc fails *)
(* a number of times.                                                      *)
BusyEnds == dma.busy ~> (~dma.busy \/ dma.fault_stuck_busy)

=============================================================================
