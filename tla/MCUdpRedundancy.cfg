SPECIFICATION Spec
CONSTANTS
  SeqMod = 32
  MaxGap = 3
  ResyncAfter = 2
  LocalRedundancy = 3
  PeerRedundancy = 2
  Window = 5
  MaxSend = 11
INVARIANTS
  Timeline
  ConcealedOnlyBeyondRedundancy
  DeafnessBounded
