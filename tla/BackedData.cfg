CONSTANTS
  MaxRequests = 4
  MaxMappings = 4
  MayFailAllocation = FALSE
  InOrder = FALSE
SPECIFICATION MCSpec
INVARIANTS ReadsLatest ValidCurrent StrictBackingCurrent
CHECK_DEADLOCK FALSE
