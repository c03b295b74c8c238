SPECIFICATION Spec
CONSTANTS
  Agents <- MCAgents
  InTree <- MCInTree
  Logged <- MCInTree
  System <- MCSystem
INVARIANTS
  OutageReported
  RecoveryReported
PROPERTIES
  ReturnedFromFailure
