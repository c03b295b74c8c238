SPECIFICATION FairSpec
CONSTANTS
  None = None
  Agents <- MCAgents
  Windows <- MCWindows
  Place <- MCPlace
  Broca <- MCBroca
  Secondary <- MCSecondary
  Id <- MCId
  Filters = {"", "ad"}
  Matches <- MCMatches
  MaxTorn = 1
  Snapshots <- MCSnapshots
INVARIANTS
  OneSelection
  FocusFollows
PROPERTIES
  SelectionKept
  PinHeld
  Settles
