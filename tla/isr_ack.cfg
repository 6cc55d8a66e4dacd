SPECIFICATION IsrSpec
CONSTANTS
  CounterMod = 1
  ISR_MAX_LINES = 4
  Handlers = {"none", "app"}
  LineCounts = {2, 3}
INVARIANT EveryAckIsCleared
