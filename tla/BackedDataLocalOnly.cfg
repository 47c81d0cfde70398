CONSTANTS
  MaxRequests = 3
  MaxMappings = 4
  MayFailAllocation = TRUE
  InOrder = FALSE
SPECIFICATION StrictSpec
INVARIANTS LocalOnlyData
CHECK_DEADLOCK FALSE
