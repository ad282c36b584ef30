CONSTANTS
  Threads <- Threads2
  ThreadId <- Ids2
  MaxClock = 2
  InsertInfos <- TwoMacs
  DeleteInfos <- ForgetTwo
  TxAccVsi <- MCTxAccVsi
SPECIFICATION FairSpec
PROPERTIES
  ElectionIdsIncrease
