SPECIFICATION MCSpec
CONSTANTS
  Providers = 2
  Chunk <- MCChunk
  MaxAvailable = 1
  AllocFails <- MCAllocFails
  MaxFaults = 1
  MaxBeats = 1
  MaxActivations = 1
  MaxRequests = 1
INVARIANTS
  DropClean
  CapacityHeld
  LostOnlyWithProvider
PROPERTIES
  LostIsFinal
  OperationEnds
  EveryProviderTried
CHECK_DEADLOCK FALSE
