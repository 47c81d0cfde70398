CONSTANTS
  c1 = c1
  c2 = c2
  Connection = {c1, c2}
  MaxClient = 2
  MaxConnections = 1
  MaxReloads = 1
  MaxMessages <- MCMaxMessages
SPECIFICATION MCFairSpec
INVARIANTS NoUseAfterFree AuthorizedMembers ReclaimedForGood
PROPERTIES SilentReclaimed DownDestroyed ShutdownDrains
CHECK_DEADLOCK FALSE
