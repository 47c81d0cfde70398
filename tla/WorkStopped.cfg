SPECIFICATION MCSpec
CONSTANTS
  Providers = 2
  Chunk <- MCChunk
  MaxAvailable = 1
  AllocFails <- MCAllocFails
  MaxFaults = 1
  MaxBeats = 0
  MaxActivations = 1
  MaxRequests = 0
INVARIANT
  WorkStopped
CHECK_DEADLOCK FALSE
