SPECIFICATION Spec
CONSTANTS
  SlotSize = 2
  TotalSize = 18
  PositionRange = 32
  Strategy = 1
  QueueLength = 2
  BroadcastLatency = 4
  ResetFactor = 2
  PacketSizes = {1, 2}
  LostSizes = {0, 3}
  MaxPosition = 38
INVARIANTS PlaysWhatWasWritten LatencyBounded
PROPERTIES NeverReplays
CHECK_DEADLOCK FALSE
