------------------------------- MODULE MCUart -------------------------------
(***************************************************************************)
(* The UART and its driver with a history of the bytes that were accepted: *)
(* accepted are those of uart_write_byte since the last reset and looped   *)
(* those that came back; sunk counts the bytes the DMA sent and drained    *)
(* those it took from the receive stream.                                  *)
(***************************************************************************)
EXTENDS UartDriver

CONSTANT MaxBytes  \* bound: bytes accepted between two resets

VARIABLE hist

mcVars == <<uart, intc, latency_ticks, hist>>

NoHist == [accepted |-> <<>>, looped |-> <<>>, sunk |-> 0, drained |-> 0]

MCInit == UartInit /\ hist = NoHist

(* The client sends a byte. *)
Send(b) ==
  /\ Len(hist.accepted) + hist.sunk < MaxBytes
  /\ uart_write_byte(b)
  /\ hist' = [hist EXCEPT !.accepted = Append(@, b)]

(* A tick; the transmitter that becomes idle has looped its byte back. *)
Tick ==
  /\ UartTick
  /\ hist' = IF uart.busy > 0 /\ uart'.busy = 0
             THEN [hist EXCEPT !.looped = Append(@, uart'.rxdata)]
             ELSE hist

Sink(payload) ==
  /\ Len(hist.accepted) + hist.sunk + Len(payload) <= MaxBytes
  /\ DmaSinks(payload)
  /\ hist' = [hist EXCEPT !.sunk = @ + Len(payload)]

Drain(len) ==
  /\ DmaDrains(len)
  /\ hist' = [hist EXCEPT !.drained = @ + SmallerOf(len, Len(uart.rx_fifo))]

Quiet ==
  /\ \/ uart_init
     \/ uart_read_byte
     \/ \E enable \in BOOLEAN : WriteCtrl(enable)
     \/ \E on \in BOOLEAN : StickUart(on)
  /\ UNCHANGED hist

Reset == ResetUart /\ hist' = NoHist

MCNext ==
  /\ \/ \E b \in Bytes : Send(b)
     \/ Tick
     \/ \E payload \in DmaPayloads : Sink(payload)
     \/ \E len \in DrainLens : Drain(len)
     \/ Quiet
     \/ Reset
  /\ UNCHANGED latency_ticks

(* Time goes on. *)
MCSpec ==
  MCInit /\ [][MCNext]_mcVars /\ WF_mcVars(Tick /\ UNCHANGED latency_ticks)

Payloads == {<<0>>, <<0, 1>>}

-----------------------------------------------------------------------------
(* Every byte that uart_write_byte accepted comes back once, in order: at  *)
(* any time the bytes accepted are those looped back so far and the one    *)
(* the transmitter is busy with.  No byte is overwritten in TXDATA and     *)
(* none is accepted by a transmitter that will not send it, also if the    *)
(* UART is disabled, stuck or has a latency of zero in between.  It is     *)
(* said of latencies below 2^31 (the default is 5): above, the cast of     *)
(* soc_uart.c:65 makes busy negative and no byte is ever sent.             *)
AcceptedBytesLoopBack ==
  2 * latency_ticks < U32Mod =>
    hist.accepted =
      hist.looped \o (IF uart.busy > 0 THEN <<uart.txdata>> ELSE <<>>)

(* The two streams record the same bytes: as long as neither was ever      *)
(* full, the transmit record holds every byte sent by the CPU or the DMA,  *)
(* and the receive stream is the end of it that was not drained.           *)
StreamsAgree ==
  LET tx   == uart.tx_fifo
      sent == Len(hist.looped) + hist.sunk
  IN  sent <= SOC_UART_DMA_FIFO_SIZE =>
        /\ Len(tx) = sent
        /\ uart.rx_fifo = SubSeq(tx, hist.drained + 1, Len(tx))

(* A byte that is on the way arrives, unless the transmitter is stuck.     *)
BusyUartEnds == uart.busy > 0 ~> (uart.busy = 0 \/ uart.stuck)

=============================================================================
