CONSTANTS
  MaxRequests = 3
  MaxMappings = 4
  MayFailAllocation = FALSE
  InOrder = TRUE
SPECIFICATION RemoteFirstSpec
INVARIANTS BackingCurrent
CHECK_DEADLOCK FALSE
