SPECIFICATION Spec
CONSTANTS
  a = a
  b = b
  NoAgent = NoAgent
  Agents <- TwoAgents
  CredsMayFail = FALSE
  Keys <- FollowKey
  MaxTurns = 1
  MaxToggles = 1
  LateAnswers = FALSE
CHECK_DEADLOCK FALSE
PROPERTIES
  PreemptTakesEffect
