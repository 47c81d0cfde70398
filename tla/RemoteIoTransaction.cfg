SPECIFICATION MCSpec
CONSTANT Transaction = {t1, t2}
INVARIANTS
  NoIllegalEvent
  FreedWhenQuiet
  LostCopyReported
  BorrowedPages
  EngineQuiet
PROPERTIES ImplementsAcknowledgement EventuallySettled
CHECK_DEADLOCK FALSE
