---------------------------- MODULE MCHostWindows ----------------------------
(* An agent with a directory and a run log, and a system session, which leaves *)
(* the list with its session and its cron line.                               *)
EXTENDS HostWindows

MCAgents == {"ada"}
MCInTree == {"ada"}
MCSystem == {"smcp"}
=============================================================================
