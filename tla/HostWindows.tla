----------------------------- MODULE HostWindows -----------------------------
(* What LiveHost.snapshot (src/src/stop/host.py) makes of the host's screen   *)
(* sessions and crontab: the state of every window (discovery.build_agents,   *)
(* state.classify_window) and the died / back events of the event strip.  The *)
(* world changes under it, the crontab is cached for five minutes, and either *)
(* reading may fail.  A cron log pane, which never fails, is left out.        *)
EXTENDS Naturals, FiniteSets

CONSTANTS Agents,     \* agents that can have a Broca
          InTree,     \* those with a directory under agents_root
          Logged,     \* of those, the ones with a run log
          System      \* letta, smcp

ASSUME HostAssumption == Logged \subseteq InTree /\ InTree \subseteq Agents

\* Window ids, as build_agents makes them.
Broca(a) == <<a, "broca">>
RunLog(a) == <<a, "run-log">>
Surface(s) == <<s, "system">>
Screens == {Broca(a) : a \in Agents} \cup {Surface(s) : s \in System}
Windows == Screens \cup {RunLog(a) : a \in Logged}

VARIABLES session,    \* screen sessions of the host
          crontab,    \* windows the crontab starts
          cron,       \* the host's copy of that
          prev,       \* _prev_states, "unseen" before the first
          shown,      \* state in the last snapshot, "absent" if not in it
          last,       \* the last event about a window
          upOnce, lapsed   \* history: seen not failing; seen without cron line
                           \* since it died

vars == <<session, crontab, cron, prev, shown, last, upOnce, lapsed>>

WindowState == {"running", "dead", "missing", "unmanaged", "returned"}
Failure == {"dead", "missing"}

\* The disk copy of the crontab may be what an earlier process left.
Init == /\ session \in [Screens -> {"none", "live", "dead"}]
        /\ crontab \in SUBSET Screens
        /\ cron \in SUBSET Screens
        /\ prev = [w \in Windows |-> "unseen"]
        /\ shown = [w \in Windows |-> "absent"]
        /\ last = [w \in Windows |-> "none"]
        /\ upOnce = {} /\ lapsed = {}

-----------------------------------------------------------------------------
(* One snapshot *)

\* Mutant: only a session that was listed as dead comes back.
ClassifyDeadOnly(managed, screen, before) ==
  CASE screen = "live" -> IF managed /\ before = "dead" THEN "returned" ELSE "running"
    [] screen = "none" /\ managed -> "missing"
    [] screen = "dead" /\ managed -> "dead"
    [] OTHER -> "unmanaged"

\* Mutant: every live session not known to be running has returned.
ClassifyAllReturn(managed, screen, before) ==
  CASE screen = "live" -> IF managed /\ before # "running" THEN "returned" ELSE "running"
    [] screen = "none" /\ managed -> "missing"
    [] screen = "dead" /\ managed -> "dead"
    [] OTHER -> "unmanaged"

\* classify_window
Classify(managed, screen, before) ==
  CASE screen = "live" -> IF managed /\ before \in Failure THEN "returned" ELSE "running"
    [] screen = "none" /\ managed -> "missing"
    [] screen = "dead" /\ managed -> "dead"
    [] OTHER -> "unmanaged"

\* A Broca is listed for its directory or its cron line, a system window for
\* its session or its cron line.
Listed(view, screens) == {Broca(a) : a \in {x \in Agents : x \in InTree \/ Broca(x) \in view}}
                         \cup {RunLog(a) : a \in Logged}
                         \cup {Surface(s) : s \in {x \in System : \/ screens[Surface(x)] # "none"
                                                                  \/ Surface(x) \in view}}

\* A system window counts as managed; a run log has its Broca's state, which
\* classify_window never sees as the log's own return.
StateIn(view, screens) == [w \in Windows |->
  IF w \in Screens
  THEN Classify(w \in view \/ w[2] = "system", screens[w], prev[w])
  ELSE LET broca == Broca(w[1])
           state == Classify(broca \in view, screens[broca], prev[broca])
       IN IF state = "returned" THEN "running" ELSE state]

\* Mutant: only a session that was listed as dead is reported.
DiesDeadOnly(before, now) == before \notin Failure \cup {"unseen"} /\ now = "dead"

Dies(before, now) == before \notin Failure \cup {"unseen"} /\ now \in Failure
ComesBack(before, now) == before \in Failure /\ now = "returned"

\* The 3 s flash of a returned window cannot end inside a snapshot: its clock
\* is set by the snapshot that classifies it so, and the next sees it running.
Remembered(state) == IF state = "returned" THEN "running" ELSE state

\* snapshot(), given what the two readings brought.
SnapshotOf(view, screens) ==
  LET listed == Listed(view, screens)
      state == StateIn(view, screens)
  IN /\ cron' = view
     /\ shown' = [w \in Windows |-> IF w \in listed THEN state[w] ELSE "absent"]
     /\ last' = [w \in Windows |->
                   IF w \notin listed THEN last[w]
                   ELSE IF Dies(prev[w], state[w]) THEN "died"
                   ELSE IF ComesBack(prev[w], state[w]) THEN "back" ELSE last[w]]
     /\ prev' = [w \in Windows |-> IF w \in listed THEN Remembered(state[w]) ELSE prev[w]]
     /\ upOnce' = upOnce \cup {w \in listed : state[w] \notin Failure}
     /\ lapsed' = (lapsed \cup {w \in Screens : w[2] = "broca" /\ w \notin view})
                    \ {w \in listed : Dies(prev[w], state[w])}
     /\ UNCHANGED <<session, crontab>>

\* _read_screen_list answers "" when screen -ls does not.
NoScreens == [w \in Screens |-> "none"]

\* Both commands are run and answer.
SnapshotFresh == SnapshotOf(crontab, session)

\* The crontab comes from a cache, or cannot be read and is taken to be empty;
\* the list of screens cannot be read.
SnapshotDoubtful == \E view \in {cron, crontab, {}}, screens \in {session, NoScreens} :
                      SnapshotOf(view, screens)

-----------------------------------------------------------------------------
(* The host *)

notWorld == <<cron, prev, shown, last, upOnce, lapsed>>

SessionChanges(w) == /\ \E s \in {"none", "live", "dead"} \ {session[w]} :
                          session' = [session EXCEPT ![w] = s]
                     /\ UNCHANGED <<notWorld, crontab>>

CrontabEdited(w) == /\ crontab' = IF w \in crontab THEN crontab \ {w} ELSE crontab \cup {w}
                    /\ UNCHANGED <<notWorld, session>>

Next == \/ SnapshotFresh \/ SnapshotDoubtful
        \/ \E w \in Screens : SessionChanges(w) \/ CrontabEdited(w)

Spec == Init /\ [][Next]_vars

-----------------------------------------------------------------------------
(* Properties *)

TypeOK == /\ session \in [Screens -> {"none", "live", "dead"}]
          /\ crontab \subseteq Screens /\ cron \subseteq Screens
          /\ prev \in [Windows -> (WindowState \ {"returned"}) \cup {"unseen"}]
          /\ shown \in [Windows -> WindowState \cup {"absent"}]
          /\ last \in [Windows -> {"none", "died", "back"}]
          /\ upOnce \subseteq Windows /\ lapsed \subseteq Screens

\* Every outage on screen has its "died" event, unless the window was down when
\* stop first saw it; no doubtful reading in between loses or undoes it.
OutageReported ==
  \A w \in Windows : shown[w] \in Failure /\ w \in upOnce => last[w] = "died"

\* Every recovery of a screen has its "back" event: a window shown running is
\* not one the strip last said died, unless it lost its cron line in between.
RecoveryReported ==
  \A w \in Screens : shown[w] \in {"running", "returned"} /\ last[w] = "died" =>
                       w \in lapsed

\* "returned: was dead/missing, now running again": a screen is shown as returned
\* only right after it was shown failing, or was failing when it left the list.
ReturnedFromFailure ==
  [][\A w \in Screens : shown'[w] = "returned" /\ shown[w] # "returned"
       => shown[w] \in Failure \cup {"absent"}]_vars
=============================================================================
