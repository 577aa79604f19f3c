CONSTANTS
  Ids = {n1, n2, n3, n4}
  AnnotationIds = {}
  Containments = {c1}
  Annotations = Annotations
  None = None
  MaxImport = 2
SPECIFICATION ImportSpec
INVARIANT StoresAllNodes
CHECK_DEADLOCK FALSE
SYMMETRY Interchangeable
