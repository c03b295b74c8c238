SPECIFICATION FairSpec
CONSTANTS
  Screens <- MCScreens
  None = None
  Page = 4
  Kept = 5
  Guarded = 3
  Floor = 2
  MaxLine <- MCMaxLine
INVARIANTS
  EndsWithFeed
  OwnLines
  Unbroken
PROPERTIES
  CaughtUp
