\* A run stops when the source is refused or written back.
CONSTANTS
  MaxChars = 5
  MaxBytes = 3
  Sources <- SomeSources
  MaxLen = 15
  InlineCap = 2
  Slots <- SomeKeys
  Values <- Atoms
  List = List
  Null = Null
  Vacant = Vacant
SPECIFICATION TripSpec
INVARIANTS ParseTypeOK ParserLinks OneRoot CutsWhole OutcomeMeant SourceRestored
PROPERTY TripEnds
CHECK_DEADLOCK FALSE
