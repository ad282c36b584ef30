CHECK_DEADLOCK FALSE
SPECIFICATION Spec
INVARIANTS
  SuccessMeansStarted
