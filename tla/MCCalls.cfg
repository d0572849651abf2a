\* Calls one after the other; a run may stop at a panic and at MaxVersion.
CONSTANTS
  Slots = {n1, n2, n3, n4, n5}
  Values = {a, b}
  List = List
  Null = Null
  Vacant = Vacant
  MaxVersion = 3
SYMMETRY SlotSymmetry
SPECIFICATION CallsSpec
INVARIANTS NoVacantRead VisitsInOrder WritesText CopyFaithful EqualMeansSame IndexFinds NameFinds
PROPERTY RemovesAtomically
CHECK_DEADLOCK FALSE
