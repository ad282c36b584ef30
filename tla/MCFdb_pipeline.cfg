CONSTANTS
  Threads <- Threads1
  ThreadId <- Ids1
  MaxClock = 2
  InsertInfos <- OneMac
  DeleteInfos <- Forget1
  TxAccVsi <- MCTxAccVsi
SPECIFICATION Spec
INVARIANTS
  PipelineErrorReported
