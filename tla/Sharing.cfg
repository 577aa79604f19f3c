CONSTANTS
  s1 = s1
  s2 = s2
  x1 = x1
  r1 = r1
  Sockets = {s1, s2}
  Partitions = {x1}
  Repositories = {r1}
  None = None
  Messages <- SharingMessages
  Parts <- InnerCommands
  MaxMessages = 4
  MaxQueue = 1
  MaxDetached = 1
SPECIFICATION SignedOnSpec
PROPERTIES InStepUnlessCrossing
CHECK_DEADLOCK FALSE
