CONSTANTS
  Repos = {r1, r2}
  Fresh = r2
  MetaPointers = {m1, m2}
  creation <- Configured
  None = None
  MaxTasks = 4
  MaxStarts = 2
SPECIFICATION Spec
INVARIANTS TypeOK StoredAsGiven CacheNamesRight CanStartUnlessAlways
SYMMETRY Interchangeable
CHECK_DEADLOCK FALSE
