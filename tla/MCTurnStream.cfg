SPECIFICATION Spec
CONSTANTS
  a = a
  b = b
  NoAgent = NoAgent
  Agents <- TwoAgents
  CredsMayFail = TRUE
  Keys <- FollowKey
  MaxTurns = 1
  MaxToggles = 1
  LateAnswers = FALSE
SYMMETRY AgentSymmetry
ACTION_CONSTRAINT ModeFirst
CHECK_DEADLOCK FALSE
INVARIANTS
  TextIsAgents
PROPERTIES
  NeverInterrupted
  ImplementsTable
