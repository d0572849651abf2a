\* Callers that respect none of the preconditions: sibling lists.
CONSTANTS
  Slots = {n1, n2, n3, n4}
  Values = {a}
  List = List
  Null = Null
  Vacant = Vacant
  MaxVersion = 7
SYMMETRY SlotSymmetry
SPECIFICATION OpenSpec
INVARIANT SiblingListsEnd
CHECK_DEADLOCK FALSE
