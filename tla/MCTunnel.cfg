CONSTANTS
  Threads <- Threads2
  ThreadId <- Ids2
  MaxClock = 1
  TunnelInfos <- Offered
SPECIFICATION MCSpec
INVARIANTS
  TunnelTypeOK
  TunnelStatusTruthful
  TerminationBacked
