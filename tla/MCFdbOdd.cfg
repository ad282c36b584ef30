CONSTANTS
  Threads <- Threads2
  ThreadId <- Ids2
  MaxClock = 2
  InsertInfos <- OddMac
  DeleteInfos <- Forget2
  TxAccVsi <- MCTxAccVsi
SPECIFICATION MCSpec
INVARIANTS
  FdbReturnTruthful
  FdbInv
PROPERTIES
  ImplementsFdbService
  CallsReturn
