\* Callers that respect both preconditions of Tree.tla: the root.
CONSTANTS
  Slots = {n1, n2, n3, n4}
  Values = {a}
  List = List
  Null = Null
  Vacant = Vacant
  MaxVersion = 7
SYMMETRY SlotSymmetry
SPECIFICATION TreeSpec
INVARIANT RootAlwaysValid
CHECK_DEADLOCK FALSE
