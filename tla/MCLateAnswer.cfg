SPECIFICATION Spec
CONSTANTS
  a = a
  b = b
  NoAgent = NoAgent
  Agents <- OneAgent
  CredsMayFail = FALSE
  Keys <- SelectedKey
  MaxTurns = 1
  MaxToggles = 1
  LateAnswers = TRUE
CHECK_DEADLOCK FALSE
PROPERTIES
  FinishedTextStays
