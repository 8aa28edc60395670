SPECIFICATION Spec
CONSTANTS
  SeqMod = 10
  MaxGap = 3
  ResyncAfter = 2
  LocalRedundancy = 2
  PeerRedundancy = 2
  Window = 3
  MaxSend = 13
INVARIANTS
  Timeline
