SPECIFICATION Spec
CONSTANTS
  Jobs = {p1, p2}
  Users = {u1}
  Passwords = {x, y}
  Tokens = {t1, t2}
  Nothing = Nothing
  u1 = u1
  x = x
  y = y
  Initials <- StrongOrWeak
  Changes = {"password", "on", "off", "revoke", "delete", "restart"}
  IdleTimeout = 2
  AbsoluteTimeout = 3
  CacheFor = 1
  Lifetime = 1
  MaxTickets = 1
  MaxTime = 3
  MaxChanges = 2
  MaxRequests = 3
SYMMETRY Symmetry
INVARIANTS TypeOK AllowedWasRight
PROPERTIES DeadStaysDead
CHECK_DEADLOCK FALSE
