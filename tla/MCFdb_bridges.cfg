CONSTANTS
  Threads <- Threads1
  ThreadId <- Ids1
  MaxClock = 2
  InsertInfos <- TwoBridges
  DeleteInfos <- Forget2
  TxAccVsi <- MCTxAccVsi
SPECIFICATION Spec
INVARIANTS
  DeleteFindsOwnKind
