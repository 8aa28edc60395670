SPECIFICATION FairSpec
CONSTANTS
  Buffers = {b1, b2}
  NoBuffer = NoBuffer
  MaxRequests = 2
  WaitMayExpire = FALSE
INVARIANTS
  LentBuffersUntouched
PROPERTIES
  EndedSessionIsReleased
  HubGoesOn
CHECK_DEADLOCK FALSE
