SPECIFICATION BjFairSpec
CONSTANTS
  j0 = j0
  j1 = j1
  j2 = j2
  j3 = j3
  r1 = r1
  LkProcs <- Jobs
  LkLeft = j0
  NoLock = NoLock
  Empty = Empty
  LkMaxFault = 1
  r2 = r2
  BjRepos = {r1}
  BjOrphan = r2
  BjScenarios <- Scenarios
  Nobody = Nobody
  Unreadable = Unreadable
  Foreign = Foreign
INVARIANTS JobsInv
PROPERTIES RecordedResultsStay YoungLocksStay EveryJobEnds
CHECK_DEADLOCK FALSE
