----------------------------- MODULE UartDriver -----------------------------
(***************************************************************************)
(* The UART driver (firmware/drivers/uart.c) on the UART.  On the host no  *)
(* time passes inside a driver call, so the thousand polls of TX_EMPTY in  *)
(* uart_write_byte all read the same STATUS: the call writes at once or    *)
(* times out.  Beside the driver's client there are the ticks of the SoC,  *)
(* the DMA at the two streams, writes of CTRL past the driver, the         *)
(* stuck-busy fault and the reset of the peripherals.                      *)
(***************************************************************************)
EXTENDS Uart

CONSTANTS DmaPayloads,  \* what the DMA appends in one transfer
          DrainLens,    \* how many bytes it drains in one
          UartLatencies \* the values of config.uart_latency_ticks

ASSUME UartDriverAssumption ==
  /\ DmaPayloads \subseteq Seq(Bytes)
  /\ DrainLens \subseteq Nat
  /\ UartLatencies \subseteq Uint32

VARIABLE latency_ticks  \* chosen by soc_uart_init, kept by resets

uart_init ==
  /\ uart' = soc_uart_write_ctrl(uart, TRUE)
  /\ UNCHANGED intc

WriteCtrl(enable) ==
  /\ uart' = soc_uart_write_ctrl(uart, enable)
  /\ UNCHANGED intc

(* Mutant: the byte is written without waiting for TX_EMPTY. *)
Mutant_write_byte_unpolled(b) ==
  /\ uart.enabled
  /\ uart' = soc_uart_write_txdata(uart, b, latency_ticks)
  /\ UNCHANGED intc

uart_write_byte(b) ==
  /\ uart.enabled
  /\ ~(uart.busy > 0)
  /\ uart' = soc_uart_write_txdata(uart, b, latency_ticks)
  /\ UNCHANGED intc

uart_read_byte ==
  /\ uart.rx_valid
  /\ uart' = soc_uart_read_rxdata(uart)
  /\ UNCHANGED intc

UartTick ==
  /\ uart' = soc_uart_step(uart)
  /\ intc' = UartRaises(uart, intc)

DmaSinks(payload) ==
  /\ uart' = soc_uart_dma_tx_append(uart, payload)
  /\ UNCHANGED intc

DmaDrains(len) ==
  /\ uart' = soc_uart_dma_rx_drain(uart, len)
  /\ UNCHANGED intc

StickUart(on) ==
  /\ uart' = [uart EXCEPT !.stuck = on]
  /\ UNCHANGED intc

ResetUart == uart' = soc_uart_reset /\ intc' = soc_intc_reset

UartInit ==
  /\ uart = soc_uart_reset
  /\ intc = soc_intc_reset
  /\ latency_ticks \in UartLatencies

=============================================================================
