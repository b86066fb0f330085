SPECIFICATION FairSpec
CONSTANTS
  Jobs = {p1, p2}
  Dirs = {d1, d2, d3}
  Names = {a, b}
  Ids = {r1}
  Contents = {c1, c2, c3}
  Folders = {c3}
  Nothing = Nothing
  d1 = d1
  d2 = d2
  d3 = d3
  a = a
  b = b
  r1 = r1
  c1 = c1
  c2 = c2
  c3 = c3
  Ops = {"copy", "move", "bin", "restore", "purge", "import", "upload", "rename"}
  Faults = {"copy", "open", "stream", "short", "commit", "delete", "row", "cleanup", "crash"}
  RootOf <- PhoneAndCard
  DirectRoots = {"phone"}
  Candidates <- KeepBothNames
  Initials <- Assorted
  MaxEvents = 2
INVARIANTS TypeOK
PROPERTIES KeepsUndisputed HiddenOnlyInBin RowsHaveBytes FreeNameStaysFree  RequestsEnd
CHECK_DEADLOCK FALSE
