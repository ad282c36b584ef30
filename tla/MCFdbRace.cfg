CONSTANTS
  Threads <- Threads2
  ThreadId <- Ids2
  MaxClock = 1
  InsertInfos <- Offered
  DeleteInfos <- ForgetTwo
  TxAccVsi <- MCTxAccVsi
SPECIFICATION MCSpec
INVARIANTS
  FdbTypeOK
  FdbAllOrNothing
  FdbReturnTruthful
  LiveIdsDiffer
  DeleteClassifies
PROPERTIES
  ImplementsFdbService
