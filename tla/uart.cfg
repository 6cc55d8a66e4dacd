SPECIFICATION MCSpec
CONSTANTS
  Bytes = {0, 1}
  SOC_UART_DMA_FIFO_SIZE = 3
  DmaPayloads <- Payloads
  DrainLens = {1, 2}
  MaxBytes = 4
  U32Mod = 8
  WordBytes = 2
  UartLatencies = {0, 2, 4}
INVARIANTS
  AcceptedBytesLoopBack
  StreamsAgree
PROPERTY BusyUartEnds
