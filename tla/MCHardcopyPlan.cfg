SPECIFICATION PlanSpec
CONSTANTS
  Brocas <- MCBrocas
  MaxScreens = 4
  ProbeSlots = 2
  Turn = 12
INVARIANTS
  WithinBatch
  RoundRobin
