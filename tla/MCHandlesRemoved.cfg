CONSTANTS
  Slots = {n1, n2, n3}
  Values = {a}
  List = List
  Null = Null
  Vacant = Vacant
  MaxVersion = 3
  Refs = {r1, r2, r3}
SYMMETRY HandleSymmetry
SPECIFICATION HandlesSpec
PROPERTY RemovedRefused
CHECK_DEADLOCK FALSE
