SPECIFICATION FairSpec
CONSTANT Operation = {o1, o2}
INVARIANTS
  FreedWhenQuiet
  OneTerminalResult
PROPERTY EventuallyFreed
CHECK_DEADLOCK FALSE
