SPECIFICATION FairSpec
CONSTANTS
  f1 = f1
  f2 = f2
  Folders = {f1, f2}
  NoFolder = NoFolder
  MaxName = 3
  Hidden <- HiddenMiddle
  Unreadable <- Odd
  PageSize = 2
  Contents <- Full
  MaxClicks = 2
  MaxCalls = 3
  MaxChanges = 1
INVARIANTS TypeOK RowsBelong ListsEverything
PROPERTIES OnlyBackMisleads LoadSettles
CHECK_DEADLOCK FALSE
