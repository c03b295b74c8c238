----------------------------- MODULE MCTurnFeed -----------------------------
(* A thought and a longer answer. *)
EXTENDS TurnFeed, TLC
MCKind == <<"think", "say">>
MCSize == 1 :> 2 @@ 2 :> 4 @@ Newline :> 1 @@ Query :> 2 @@ Panel :> 6 @@ Failure :> 2 @@ Marker :> 2
=============================================================================
