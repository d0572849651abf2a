\* Callers that respect none of the preconditions: parent chains.
CONSTANTS
  Slots = {n1, n2, n3, n4}
  Values = {a}
  List = List
  Null = Null
  Vacant = Vacant
  MaxVersion = 7
SYMMETRY SlotSymmetry
SPECIFICATION OpenSpec
INVARIANT ParentChainsEnd
CHECK_DEADLOCK FALSE
