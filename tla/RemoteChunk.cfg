CONSTANTS
  l1 = l1
  l2 = l2
  Chunk = {0, 1}
  Provider = {0, 1}
  ProviderChunk = {0, 1}
  Lease = {l1, l2}
  SampleSize = 2
  MaxActivity = 1
  MaxAvailable = 2
  MaxSequence = 1
  MaxClaims = 2
SPECIFICATION MCSpec
INVARIANTS CountersDerived NoSharedProviderChunk NoOverplacement
  LeasePinsMapping ValidWrittenHere
PROPERTIES EvictionAtomic EvictionProgress
CHECK_DEADLOCK FALSE
