SPECIFICATION MCSpec
CONSTANTS
  CounterMod = 2
  U32Mod = 76
  WordBytes = 2
  Bytes = {0, 1}
  SOC_UART_DMA_FIFO_SIZE = 2
  Platform <- MCPlatform
  LatencyPerWord = 1
  Burst = 1
  TXDATA = 8
  RXDATA = 10
  MaxAllocFails = 0
  UartLatency = 2
  SOC_BOOT_TICKS = 1
  MaxPolls = 4
  TxPolls = 3
  MaxOps = 3
  Transfers <- MCTransfers
  TimerLoads = {0, 2}
  UntilTicks = {0, 2, 3}
  Stores <- MCStores
  RawReads = {3}
  Images <- MCImages
INVARIANTS
  SocTypeOK
  AccessRights
  DriversHitTheirRegisters
PROPERTIES
  BootIsFresh
  DataArrives
  PendingOnlyAcked
  RunUntilExact
  HookDrivesToEnd
  LoopsReturn
