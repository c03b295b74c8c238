SPECIFICATION FairSpec
CONSTANTS
  Turns = 2
  Words <- MCWords
  Timeout = 2
  Longest = 4
  Extension = 1
  CatchUp = 1
  Tight = 3
  Wide = 4
  Begin = 4
  End = 9
CHECK_DEADLOCK FALSE
INVARIANTS
  NoEarlierRun
  PatientSeek
PROPERTIES
  RunFound
