CONSTANTS
  Ids = {n1, n2, n3, n4, n5}
  Containments = {c1, c2}
  Annotations = Annotations
  None = None
  MaxList = 4
SPECIFICATION Spec
INVARIANTS TypeOK NoDanglingRows ProperTree
PROPERTIES ToldPartition ImplementsModelTree
CHECK_DEADLOCK FALSE
SYMMETRY Interchangeable
