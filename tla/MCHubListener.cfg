SPECIFICATION FairSpec
CONSTANTS
  UdpWorkers = {u1, u2, u3}
  RtcWorkers = {}
  NoWorker = NoWorker
  MaxThreads = 2
  Endpoints = {e1, e2}
  NoEndpoint = NoEndpoint
  NullIsFatal = TRUE
INVARIANTS
  ServedWorkerHoldsSlot
  NoSlotLeaks
  CountMatchesSlots
  OneWorkerPerClient
  PatcherTracksWorkers
PROPERTIES
  EndedWorkerIsReleased
CHECK_DEADLOCK FALSE
