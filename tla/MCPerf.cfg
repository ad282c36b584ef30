CONSTANTS
  Threads <- Threads2
  ThreadId <- Ids2
  MaxClock = 2
  TotNumEntries = 3
  MaxRuns = 2
SPECIFICATION FairSpec
CHECK_DEADLOCK FALSE
INVARIANTS
  SharesCover
  SuccessMeansSent
PROPERTIES
  RunEnds
