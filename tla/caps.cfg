SPECIFICATION Spec
CONSTANTS
  U32Mod = 16
  WordBytes = 2
  Configs <- MCConfigs
  Lengths = {0, 1, 2, 3, 4, 6, 8, 15}
  Latencies = {1, 2, 3}
  Bursts = {1, 2, 3, 15}
INVARIANTS
  SameVerdict
  RouteIsOwner
  TicksAsSpecified
CHECK_DEADLOCK FALSE
