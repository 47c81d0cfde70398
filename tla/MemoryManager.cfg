CONSTANTS
  Slot = {s1, s2, s3}
  Connection = {c1, c2}
  Consumer = {k1, k2}
  Policy = {wide, narrow}
  wide = wide
  narrow = narrow
  PolicyChunks <- MCPolicyChunks
  PolicyConnections <- MCPolicyConnections
  MaxPool <- MCMaxPool
  HostReserve = 1
  HostChunks = 4
SPECIFICATION FairSpec
INVARIANTS WithinLimits ExposedHeld StatusHonoured
PROPERTIES ReservePursued
CHECK_DEADLOCK FALSE
