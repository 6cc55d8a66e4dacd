-------------------------------- MODULE Uart --------------------------------
(***************************************************************************)
(* The UART (soc_c/src/soc_uart.c): a transmitter that is busy for a fixed *)
(* number of ticks and loops its byte back, and the two streams that the   *)
(* DMA sees.  tx_fifo records every byte sent, by the CPU or by the DMA;   *)
(* rx_fifo is the loopback of the same bytes and is drained by the DMA.    *)
(* The baud divisor is informational and left out, and CTRL is reduced to  *)
(* its ENABLE bit.                                                         *)
(***************************************************************************)
EXTENDS Intc, MemRegions

CONSTANTS Bytes,                  \* the bytes that are told apart, 0 included
          SOC_UART_DMA_FIFO_SIZE  \* 16384 in the code

ASSUME UartAssumption ==
  /\ 0 \in Bytes
  /\ SOC_UART_DMA_FIFO_SIZE \in Nat

VARIABLE uart

SmallerOf(a, b) == IF a < b THEN a ELSE b

UartType == [enabled  : BOOLEAN,
             txdata   : Bytes,
             rxdata   : Bytes,
             busy     : Int,
             rx_valid : BOOLEAN,
             stuck    : BOOLEAN,
             tx_fifo  : Seq(Bytes),
             rx_fifo  : Seq(Bytes)]

soc_uart_reset ==
  [enabled |-> FALSE, txdata |-> 0, rxdata |-> 0, busy |-> 0,
   rx_valid |-> FALSE, stuck |-> FALSE, tx_fifo |-> <<>>, rx_fifo |-> <<>>]

(* Mutant: the space that is left is not looked at. *)
Mutant_append_unbounded(fifo, payload) == fifo \o payload

(* Appends as much of payload as fits; the rest is dropped silently. *)
Saturating(fifo, payload) ==
  LET space == SOC_UART_DMA_FIFO_SIZE - Len(fifo)
  IN  fifo \o SubSeq(payload, 1, SmallerOf(Len(payload), space))

soc_uart_dma_tx_append(u, payload) ==
  [u EXCEPT !.tx_fifo = Saturating(@, payload),
            !.rx_fifo = Saturating(@, payload)]

(* Mutant: the newest bytes are drained instead of the oldest. *)
Mutant_drain_newest(u, len) ==
  [u EXCEPT !.rx_fifo = SubSeq(@, 1, Len(@) - SmallerOf(len, Len(@)))]

(* The UART after len bytes were drained from it, and those bytes; a short *)
(* read is padded with zeros.                                              *)
soc_uart_dma_rx_drain(u, len) ==
  [u EXCEPT !.rx_fifo = SubSeq(@, SmallerOf(len, Len(@)) + 1, Len(@))]

RxDrained(u, len) ==
  [k \in 1 .. len |-> IF k <= Len(u.rx_fifo) THEN u.rx_fifo[k] ELSE 0]

-----------------------------------------------------------------------------
(* Register accesses of the CPU that change state. *)

soc_uart_write_ctrl(u, enable) == [u EXCEPT !.enabled = enable]

(* A write of TXDATA to a disabled UART is refused.  A write while a byte  *)
(* is on the way replaces that byte and starts the countdown afresh.  busy *)
(* is an int32_t: a latency from 2^31 on makes it negative, and the UART   *)
(* is idle with the byte unsent.                                           *)
soc_uart_write_txdata(u, byte, latency) ==
  IF ~u.enabled THEN u
  ELSE [u EXCEPT !.txdata = byte,
                 !.busy   = IF latency > 0 THEN AsInt32(latency) ELSE 1]

soc_uart_read_rxdata(u) == [u EXCEPT !.rx_valid = FALSE]

(* One tick.  UartSends tells whether it is the one that ends the byte,    *)
(* which is also when the line is raised.                                  *)
UartSends(u) == u.busy = 1 /\ ~u.stuck

UartRaises(u, ic) == IF UartSends(u) THEN soc_intc_raise(ic, UART) ELSE ic

(* Mutant: a UART that was disabled in the middle of a byte stands still. *)
Mutant_step_needs_enable(u) ==
  IF u.busy <= 0 \/ u.stuck \/ ~u.enabled THEN u
  ELSE IF UartSends(u)
  THEN soc_uart_dma_tx_append(
         [u EXCEPT !.busy = 0, !.rxdata = u.txdata, !.rx_valid = TRUE],
         <<u.txdata>>)
  ELSE [u EXCEPT !.busy = @ - 1]

soc_uart_step(u) ==
  IF u.busy <= 0 \/ u.stuck THEN u
  ELSE IF UartSends(u)
  THEN soc_uart_dma_tx_append(
         [u EXCEPT !.busy = 0, !.rxdata = u.txdata, !.rx_valid = TRUE],
         <<u.txdata>>)
  ELSE [u EXCEPT !.busy = @ - 1]

=============================================================================
