SPECIFICATION FairSpec
CONSTANTS
  Visitors = {v1, v2}
  Links <- SomeLinks
  MaxUses = 2
  MaxChecks = 1
  MaxItems = 2
  MaxRequests = 1
  MaxFiles = 3
  OwnersFiles = {1}
INVARIANTS TypeOK NeverMoreUses OnlyUnlocked ChecksReturn OneAtATime
PROPERTIES UploadsKeep PageSettles
CHECK_DEADLOCK FALSE
