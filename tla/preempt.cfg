SPECIFICATION PreemptSpec
CONSTANTS
  CounterMod = 1
  ISR_MAX_LINES = 3
  Handlers = {"none", "app", "dma_isr"}
  LineCounts = {}
  U32Mod = 12
  WordBytes = 2
  Bytes = {0}
  SOC_UART_DMA_FIFO_SIZE = 1
  Platform <- MCPlatform
  LatencyPerWord = 1
  Burst = 4
  TXDATA = 6
  RXDATA = 8
  MaxAllocFails = 1
  SubmitAddrs = {2, 6}
  SubmitLens = {2}
  EnableMasks <- DmaMasks
  ClientLines = {1, 2}
  ClientMaps <- NoChoice
  ClientCaps <- NoChoice
  HookCodes = {"ADDR"}
INVARIANTS
  PreemptTypeOK
  NoCompletionPreempted
PROPERTIES
  PreemptRefinesLifecycle
  MaskIsRestored
  PreemptedIsReported
