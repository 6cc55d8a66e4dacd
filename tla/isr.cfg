SPECIFICATION MCSpec
CONSTANTS
  CounterMod = 1
  ISR_MAX_LINES = 4
  Handlers = {"none", "app"}
  LineCounts = {0, 2, 3, 4, 5}
INVARIANTS
  IsrTypeOK
  ActiveExplained
PROPERTIES
  QuietDispatchDrains
  DispatchReturns
  NoStarvation
