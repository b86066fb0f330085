SPECIFICATION Spec
CONSTANTS
  Jobs = {p1, p2}
  Dirs = {d1, d2}
  Names = {a, b}
  Ids = {r1}
  Contents = {c1, c2, c3}
  Folders = {}
  Nothing = Nothing
  d1 = d1
  d2 = d2
  d3 = d3
  a = a
  b = b
  r1 = r1
  c1 = c1
  c2 = c2
  c3 = c3
  Ops = {"import", "upload"}
  Faults = {}
  RootOf <- PhoneAndCard
  DirectRoots = {"phone"}
  Candidates <- KeepBothNames
  Initials <- OneFile
  MaxEvents = 2
PROPERTIES ImportNeverOverwrites
CHECK_DEADLOCK FALSE
