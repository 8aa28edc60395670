SPECIFICATION Spec
CONSTANTS
  NumSlots = 8
  FirstNumbers = {1}
  Tolerances = {1, 2}
  Revived = 0
  Jitter = 1
  LossFrom = 4
  MaxLost = 2
  MaxTroubles = 2
  AutoPeriod = 3
  RestartGap = 6
  MaxStall = 1
  MaxTime = 12
INVARIANTS
  SkipsAccounted
  DeafForHalfALap
PROPERTIES
  PlayedInOrder
CHECK_DEADLOCK FALSE
