SPECIFICATION ClientFairSpec
CONSTANTS
  ReceiveChannels = 1
  SendChannels = 1
  NumSlots = 4
  PeerSends = {"audio", "exit", "invalid", "mismatched", "resized"}
  JackMayRefuse = TRUE
  OtherSessions = TRUE
  EndTicks = 2
INVARIANTS
  StopSticks
  ConnectedClientHasWorker
PROPERTIES
  AudioWithinThreads
  ConnectsOnce
  StartReturns
  StopReturns
  VanishedPeerIsNoticed
  DeadAudioEndsSession
  HandshakeEnds
CHECK_DEADLOCK FALSE
