SPECIFICATION Spec
CONSTANTS
  Buffers = {b1, b2}
  NoBuffer = NoBuffer
  MaxRequests = 2
  WaitMayExpire = FALSE
INVARIANTS
  SessionOutlivesProtocols
CHECK_DEADLOCK FALSE
