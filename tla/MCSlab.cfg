\* A Vec of at most 4 cells, over 5 keys: key 4 is always out of range.
CONSTANTS
  Values = {u, v}
  None = None
  KeyRange = 5
  MaxSlots = 4
SYMMETRY ValueSymmetry
SPECIFICATION SlabSpec
INVARIANTS TypeOK FreeExact Dense
PROPERTY IsArena
