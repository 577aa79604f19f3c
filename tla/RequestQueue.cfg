CONSTANTS
  Jobs = {j1, j2, j3, j4}
  NoJob = NoJob
SPECIFICATION Spec
INVARIANTS TypeOK OneLoopOnTheHead StartedInOrder
PROPERTIES EveryJobIsDone ImplementsSerialExecution
CHECK_DEADLOCK FALSE
