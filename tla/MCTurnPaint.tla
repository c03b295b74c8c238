----------------------------- MODULE MCTurnPaint -----------------------------
(* Two threads, so that one finds the flag another one has raised, and        *)
(* changes enough for one to come while an earlier one is being painted.      *)
EXTENDS TurnPaint

CONSTANTS t1, t2
MCThreads == {t1, t2}
=============================================================================
