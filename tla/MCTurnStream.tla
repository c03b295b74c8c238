---------------------------- MODULE MCTurnStream ----------------------------
(* Agents are interchangeable as far as safety goes.                         *)
EXTENDS TurnStream, TLC

CONSTANTS a, b
TwoAgents == {a, b}
OneAgent == {a}
SelectedKey == {"t"}
FollowKey == {"f"}
AllKeys == {"t", "f", "q"}
\* The mode is chosen before the first seek.
ModeFirst == presses' # presses => generation = 0
AgentSymmetry == Permutations(Agents)
=============================================================================
