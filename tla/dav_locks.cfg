SPECIFICATION Spec
CONSTANTS
  Accounts = {ann, bob}
  Jobs = {q1, q2}
  Paths <- ThreePaths
  Disks <- SomeDisks
  MaxLocks = 2
  Timeouts = {1, 2}
  MaxTime = 1
  MaxRequests = 3
  MaxChanges = 1
SYMMETRY Symmetry
INVARIANTS TypeOK NoConflict NoOrphanLock
PROPERTY LocksRespected
CHECK_DEADLOCK FALSE
