---------------------------- MODULE MCSelection ----------------------------
(* Two agents with a Broca, one of them with a run log that comes and goes, and *)
(* System with or without letta; a filter that hides all but ada.               *)
EXTENDS Selection, TLC

MCAgents == {"ada", "bo", "System"}
MCWindows == {"ada/broca", "ada/run-log", "bo/broca", "letta", "smcp"}
MCPlace == "System" :> 2 @@ "ada" :> 0 @@ "bo" :> 1
MCBroca == "ada" :> "ada/broca" @@ "bo" :> "bo/broca" @@ "System" :> None
MCSecondary == "ada" :> {} @@ "bo" :> {} @@ "System" :> {"smcp"}
MCId == "ada/broca" :> 0 @@ "bo/broca" :> 1
MCMatches == "" :> MCAgents @@ "ad" :> {"ada"}

Out == [eligible |-> FALSE, kind |-> 0, epoch |-> 0, text |-> FALSE]
Quiet == [eligible |-> TRUE, kind |-> 0, epoch |-> 0, text |-> TRUE]
Talk == [eligible |-> TRUE, kind |-> 2, epoch |-> 1, text |-> TRUE]
Hot == [eligible |-> TRUE, kind |-> 2, epoch |-> 2, text |-> TRUE]

Snapshot(ada, bo, sys, h) ==
  [agents |-> {a \in MCAgents : CASE a = "ada" -> ada # << >> [] a = "bo" -> bo # << >> [] a = "System" -> sys # << >>},
   windows |-> "ada" :> ada @@ "bo" :> bo @@ "System" :> sys,
   heat |-> "ada/broca" :> h @@ "bo/broca" :> Talk]

MCSnapshots == LET A == <<"ada/broca">> B == <<"bo/broca">> N == << >>
                   L == <<"ada/broca", "ada/run-log">> IN
  {Snapshot(L, B, N, h) : h \in {Out, Quiet, Hot}} \cup
  {Snapshot(A, B, N, Hot), Snapshot(N, B, N, Out), Snapshot(L, N, <<"letta", "smcp">>, Quiet), Snapshot(L, N, <<"smcp">>, Quiet)}
=============================================================================
