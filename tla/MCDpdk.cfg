CONSTANTS
  Threads <- Threads2
  ThreadId <- Ids2
  MaxClock = 1
  LearnInfos <- Learned
  TunnelInfos <- Tunnels
SPECIFICATION MCSpec
INVARIANTS
  DpdkTypeOK
  DpdkStatusTruthful
  RxMatchesTx
