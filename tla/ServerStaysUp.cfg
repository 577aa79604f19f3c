CONSTANTS
  s1 = s1
  s2 = s2
  x1 = x1
  r1 = r1
  Sockets = {s1}
  Partitions = {x1}
  Repositories = {r1}
  None = None
  Messages <- SessionMessages
  Parts = {}
  MaxMessages = 1
  MaxQueue = 1
  MaxDetached = 0
SPECIFICATION Spec
INVARIANTS ServerStaysUp
CHECK_DEADLOCK FALSE
