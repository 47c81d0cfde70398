SPECIFICATION MCSpec
CONSTANTS
  Connections = 2
  Chunk = {0, 1, 2}
  Granted <- MCGranted
  MaxRounds = 2
  MaxRequests <- MCMaxRequests
INVARIANTS
  MappedHeld
  QuietAgree
CHECK_DEADLOCK FALSE
PROPERTIES
  RoundEnds
  SessionSettles
