CHECK_DEADLOCK FALSE
SPECIFICATION Spec
INVARIANTS
  FailureMeansNoDaemon
  ReaderReleased
PROPERTIES
  ForegroundReturns
