SPECIFICATION FairSpec
CONSTANTS
  U32Mod = 14
  WordBytes = 2
  Bytes = {0}
  SOC_UART_DMA_FIFO_SIZE = 2
  Platform <- MCPlatform
  LatencyPerWord = 1
  Burst = 1
  TXDATA = 8
  RXDATA = 10
  MaxAllocFails = 2
  ProgAddrs = {2, 5, 6, 8, 10, 12}
  ProgLens = {0, 2, 4}
  Irqs = {TRUE, FALSE}
INVARIANTS
  StatusCoherent
  EndsOnTime
PROPERTIES
  RaisedIffEnabledAtStart
  AcceptedNeverFaults
  FaultWritesNothing
  BusyEnds
