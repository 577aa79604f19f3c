CONSTANTS
  s1 = s1
  s2 = s2
  x1 = x1
  r1 = r1
  Sockets = {s1, s2}
  Partitions = {x1}
  Repositories = {r1}
  None = None
  Messages <- CommandMessages
  Parts <- InnerCommands
  MaxMessages = 3
  MaxQueue = 2
  MaxDetached = 1
SPECIFICATION SignedOnSpec
INVARIANTS TypeOK NumbersTellLoss BuffersBalanced
PROPERTIES InStepUnlessCrossing QueueDrains
CHECK_DEADLOCK FALSE
