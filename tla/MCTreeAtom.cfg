\* Callers that respect the preconditions: children of atoms.
CONSTANTS
  Slots = {n1, n2, n3, n4}
  Values = {a}
  List = List
  Null = Null
  Vacant = Vacant
  MaxVersion = 7
SYMMETRY SlotSymmetry
SPECIFICATION TreeSpec
INVARIANT AtomsAreLeaves
CHECK_DEADLOCK FALSE
