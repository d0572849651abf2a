\* A run may stop: at a panic, which ends the process, and at MaxVersion.
CONSTANTS
  Slots = {n1, n2, n3}
  Values = {a}
  List = List
  Null = Null
  Vacant = Vacant
  MaxVersion = 3
  Refs = {r1, r2, r3}
SYMMETRY HandleSymmetry
SPECIFICATION HandlesSpec
INVARIANTS HandlesTypeOK HandlesFaithful IterFaithful
PROPERTY RemovalStalesAll
CHECK_DEADLOCK FALSE
