\* A run may stop: at a panic, which ends the process, and at MaxVersion.
CONSTANTS
  Slots = {n1, n2, n3, n4}
  Values = {a, b}
  List = List
  Null = Null
  Vacant = Vacant
  MaxVersion = 3
SYMMETRY ReprSymmetry
SPECIFICATION ReprSpec
INVARIANT ReprFaithful
CHECK_DEADLOCK FALSE
