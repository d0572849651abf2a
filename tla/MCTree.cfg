\* Callers that respect the preconditions of Tree.tla.  No move looks at the
\* kind of a node: all are lists.  A run may stop: at a panic, which ends the
\* process, and at MaxVersion.
CONSTANTS
  Slots = {n1, n2, n3, n4, n5}
  Values = {}
  List = List
  Null = Null
  Vacant = Vacant
  MaxVersion = 9
SYMMETRY SlotSymmetry
SPECIFICATION TreeSpec
INVARIANTS TypeOK LinksAgree WalksEnd CountsAgree CycleRefused MovesAsLists
PROPERTY FreesSubtree
CHECK_DEADLOCK FALSE
