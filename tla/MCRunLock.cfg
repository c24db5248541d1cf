SPECIFICATION LkSpec
CONSTANTS
  j0 = j0
  j1 = j1
  j2 = j2
  j3 = j3
  LkProcs <- Jobs
  LkLeft = j0
  NoLock = NoLock
  Empty = Empty
  LkMaxFault = 1
INVARIANT JobsExclude
CHECK_DEADLOCK FALSE
