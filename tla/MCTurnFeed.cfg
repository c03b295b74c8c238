SPECIFICATION FairSpec
CONSTANTS
  Kind <- MCKind
  Newline = Newline
  Query = Query
  Panel = Panel
  Failure = Failure
  Marker = Marker
  Size <- MCSize
  Unnamed = {2}
  Quotes = {2}
  Limit = 2
  Room = 10
  MaxCopies = 2
CHECK_DEADLOCK FALSE
INVARIANTS
  
  FinishedIsWhole
PROPERTIES
  NeverBackward
  Finishes
