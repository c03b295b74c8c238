SPECIFICATION FairSpec
CONSTANTS
  t1 = t1
  t2 = t2
  Threads <- MCThreads
  MaxChanges = 3
CHECK_DEADLOCK FALSE
INVARIANTS
  FlagBacked
  PaintOwed
PROPERTIES
  ChangesPainted
