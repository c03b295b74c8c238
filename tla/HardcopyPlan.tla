---------------------------- MODULE HardcopyPlan ----------------------------
(* Which screens LiveHost.snapshot takes a hardcopy of (src/src/stop/host.py):  *)
(* the focus of the panes first, and every Broca in turn by a cursor, within a   *)
(* number of screens and a time for each batch.  Screens come and go, the user   *)
(* and Active Now move the focus, and a batch may run out of time.               *)
EXTENDS Naturals, FiniteSets, Sequences, FiniteSetsExt, SequencesExt

CONSTANTS Brocas,      \* the Broca screens, in the order of their names
          MaxScreens,  \* hardcopy_max_screens (6)
          ProbeSlots,  \* hardcopy_probe_slots (3)
          Turn         \* a common multiple of the possible numbers of Brocas

BrocaScreens == Range(Brocas)
SystemScreens == {"letta", "smcp"}
Candidates == BrocaScreens \cup SystemScreens

ASSUME PlanAssumption ==
  /\ Brocas \in Seq(STRING) /\ IsInjective(Brocas) /\ BrocaScreens \cap SystemScreens = {}
  /\ MaxScreens \in Nat \ {0} /\ ProbeSlots \in Nat
  /\ Turn \in Nat \ {0} /\ \A n \in 1..Len(Brocas) : Turn % n = 0

VARIABLES available,   \* running screens
          focus,       \* _focus_order
          cursor,      \* _hardcopy_probe_cursor, modulo Turn
          waiting      \* history: whole batches since a Broca's last hardcopy,
                       \* its coming, a batch cut short or a change of Brocas

planVars == <<available, focus, cursor, waiting>>

Nobody == [b \in BrocaScreens |-> 0]

PlanInit == available = {} /\ focus = << >> /\ cursor = 0 /\ waiting = Nobody

FirstOf(s, n) == SubSeq(s, 1, IF Len(s) < n THEN Len(s) ELSE n)

\* The elements of s that are in S, in their order: the j-th of them is the one
\* with j - 1 before it.
Only(s, S) == LET at == {i \in 1..Len(s) : s[i] \in S}
                  Nth(j) == CHOOSE i \in at : Cardinality({k \in at : k < i}) = j - 1
              IN [j \in 1..Cardinality(at) |-> s[Nth(j)]]

Without(s, S) == Only(s, Range(s) \ S)

-----------------------------------------------------------------------------
(* The plan *)

Reserved == IF ProbeSlots < MaxScreens THEN ProbeSlots ELSE MaxScreens - 1

\* prioritize_hardcopy
Prioritize(order, n) == FirstOf(Only(order, available), n)

\* A focus without a Broca, before anything is selected: all of them.
Order == IF Range(focus) \cap BrocaScreens # {} THEN focus
         ELSE focus \o Only(Brocas, available)

\* The probe's walk round the running Brocas, from the cursor on.
Walk == LET running == Only(Brocas, available)
            n == Len(running)
        IN [i \in 1..n |-> running[((cursor + i - 1) % n) + 1]]

\* How far it goes: to the last free slot, or once round.
Steps(seen) == LET Full == {n \in 1..Len(Walk) :
                              Len(Without(SubSeq(Walk, 1, n), seen)) = Reserved}
               IN IF Reserved = 0 THEN 0 ELSE IF Full = {} THEN Len(Walk) ELSE Min(Full)

\* Mutant: no slots are held back for the probes.
PrimaryAll == Prioritize(Order, MaxScreens)

Primary == Prioritize(Order, MaxScreens - Reserved)
Probes == Without(SubSeq(Walk, 1, Steps(Range(Primary))), Range(Primary))

\* plan_hardcopy_with_probes: slots the probes leave go to the focus again.
Plan == LET both == Primary \o Probes
        IN both \o FirstOf(Without(Only(Order, available), Range(both)), MaxScreens - Len(both))

-----------------------------------------------------------------------------
(* Actions *)

\* Waiting starts anew when the order the cursor runs over changes.
Comes(s) == /\ s \in Candidates \ available
            /\ available' = available \cup {s}
            /\ waiting' = IF s \in BrocaScreens THEN Nobody ELSE waiting
            /\ UNCHANGED <<focus, cursor>>

Goes(s) == /\ s \in available
           /\ available' = available \ {s}
           /\ waiting' = IF s \in BrocaScreens THEN Nobody ELSE waiting
           /\ UNCHANGED <<focus, cursor>>

\* _update_focus_screens and set_focus_screens, for a selected Broca, the
\* System agent or nobody ("none"), and what Active Now shows.
Focus(selected, active) ==
  /\ focus' = Only(<<selected>>, BrocaScreens)
              \o Without(Only(<<active>>, Candidates), {selected} \cap BrocaScreens)
              \o Without(<<"letta">>, {active})
              \o Without(IF selected = "System" THEN <<"smcp">> ELSE << >>, {active})
  /\ UNCHANGED <<available, cursor, waiting>>

\* Mutant: the cursor is not kept.
AdvanceNot == cursor' = cursor

\* The cursor moves over all the walk, whatever came of it.
Advance == cursor' = (cursor + Steps(Range(Primary))) % Turn

\* The batch is done in time.
BatchDone == /\ Advance
             /\ waiting' = [b \in BrocaScreens |-> IF b \in available /\ b \notin Range(Plan)
                                                        THEN waiting[b] + 1 ELSE 0]
             /\ UNCHANGED <<available, focus>>

\* hardcopy_batch_budget_s is over after the first of them, or after more.
BatchCut == /\ Len(Plan) > 1
            /\ Advance
            /\ waiting' = Nobody
            /\ UNCHANGED <<available, focus>>

PlanNext ==
  \/ \E s \in Candidates : Comes(s) \/ Goes(s)
  \/ \E selected \in BrocaScreens \cup {"System", "none"}, active \in Candidates \cup {"none"} :
       Focus(selected, active)
  \/ BatchDone \/ BatchCut

PlanSpec == PlanInit /\ [][PlanNext]_planVars

-----------------------------------------------------------------------------
(* Properties *)

Running == Cardinality(available \cap BrocaScreens)
Rounds == IF Reserved = 0 THEN 0 ELSE (Running + Reserved - 1) \div Reserved

\* A batch stays within its number of screens and takes none twice, however the
\* focus, the probes and what is left over overlap.
WithinBatch == Len(Plan) <= MaxScreens /\ IsInjective(Plan) /\ Range(Plan) \subseteq available

\* "round-robin sampling other Brocas": while the same Brocas run and batches
\* are done in time, each gets a hardcopy once in as many batches as it takes
\* to go round, whatever the focus does.
RoundRobin == Reserved > 0 => \A b \in BrocaScreens : waiting[b] < Rounds \/ Running = 0

\* "Keep focused panes hot": the batch, which may be cut short after its first
\* screen, starts with the running screen that is first in the focus.
FocusFirst == Only(focus, available) # << >> => Plan[1] = Only(focus, available)[1]
=============================================================================
