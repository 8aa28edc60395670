SPECIFICATION FairSpec
CONSTANTS
  QueueSize = 2
  RingSize = 3
  Frames = 2
  UnitsPerSample = 2
  HeaderUnits = 2
  Chunks = {5}
  FirstCheck = 1
  LastCheck = 2
  MaxSamples = 7
  MaxCallbacks = 4
  MaxFaults = 1
INVARIANTS
  PlayedInOrder
  SamplesAccounted
CHECK_DEADLOCK FALSE
PROPERTIES
  StopEndsWorker
  LostConnectionIsRedialled
