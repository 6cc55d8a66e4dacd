SPECIFICATION MCSpec
CONSTANT Loads = {0, 1, 2, 4}
PROPERTIES
  FiresOnTime
  RunningFires
