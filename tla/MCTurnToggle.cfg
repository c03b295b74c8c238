SPECIFICATION FairSpec
CONSTANTS
  a = a
  b = b
  NoAgent = NoAgent
  Agents <- OneAgent
  CredsMayFail = TRUE
  Keys <- AllKeys
  MaxTurns = 1
  MaxToggles = 2
  LateAnswers = TRUE
CHECK_DEADLOCK FALSE
INVARIANTS
  Driven
  OffIsQuiet
PROPERTIES
  StaleIsSilent
  NeverInterrupted
  ImplementsTable
  PopupEnds
