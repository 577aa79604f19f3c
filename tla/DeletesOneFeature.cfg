CONSTANTS
  Ids = {n1, n2}
  Classifiers = {k1}
  Properties = {p1, p2}
  References = {r1}
  Values = {x1, x2}
  Null = Null
  TargetsOfReferences = {t1}
  MaxTargets = 1
  MaxVersion = 3
  Forever = 100
SPECIFICATION Spec
PROPERTIES DeletesOneFeature
CHECK_DEADLOCK FALSE
