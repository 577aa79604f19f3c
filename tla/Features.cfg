CONSTANTS
  Ids = {n1, n2}
  Classifiers = {k1, k2}
  Properties = {p1, p2}
  References = {r1}
  Values = {x1, x2}
  Null = Null
  TargetsOfReferences = {t1, t2}
  MaxTargets = 2
  MaxVersion = 4
  Forever = 100
SPECIFICATION Spec
INVARIANTS TypeOK OneRowPerVersion CurrentIsLastVersion FeaturesOfNodes
PROPERTIES PastAnswersStay ImplementsHistory
CHECK_DEADLOCK FALSE
SYMMETRY Interchangeable
