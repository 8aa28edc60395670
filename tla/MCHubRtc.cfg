SPECIFICATION Spec
CONSTANTS
  UdpWorkers = {u1, u2}
  RtcWorkers = {r1}
  NoWorker = NoWorker
  MaxThreads = 2
  Endpoints = {e1}
  NoEndpoint = NoEndpoint
  NullIsFatal = FALSE
SYMMETRY UdpSymmetry
INVARIANTS
  CountNeverAbove
  PatcherTracksWorkers
CHECK_DEADLOCK FALSE
