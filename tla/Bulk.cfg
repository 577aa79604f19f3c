CONSTANTS
  Ids = {n1, n2, n3, a1}
  AnnotationIds = {a1}
  Containments = {c1, c2}
  Annotations = Annotations
  None = None
  MaxImport = 2
SPECIFICATION ImportSpec
INVARIANTS ImportTypeOK TreeWhenIdle StoresAsMeantWhenIdle RetrievesTreesWhenIdle
PROPERTIES ImportLeavesNothingDangling OldNodesStay
CHECK_DEADLOCK FALSE
SYMMETRY Interchangeable
