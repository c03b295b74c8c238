----------------------------- MODULE MCTurnSeek -----------------------------
(* Two turns; the old run was asked what the second turn asks. *)
EXTENDS TurnSeek, TLC
MCWords == 0 :> "b" @@ 1 :> "a" @@ 2 :> "b"
=============================================================================
