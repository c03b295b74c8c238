----------------------------- MODULE TurnStream -----------------------------
(* TurnStreamWorker (src/src/stop/turn_stream.py): the Textual thread that   *)
(* ticks and toggles it, one seek-and-stream thread per generation with its  *)
(* message poller, and the recovery probe.  Each region under _lock is one   *)
(* step; what is read before a region and used after it is kept in a local.  *)
(* HTTP answers, deadlines and wall clocks are nondeterministic choices, the *)
(* popup's text is the kind of text it is and the agent whose turn it tells. *)
(* Sockets are left out: closing one only changes when a stream step ends.   *)
EXTENDS Naturals, FiniteSets

CONSTANTS Agents, NoAgent,
          CredsMayFail,   \* load_agent_creds, which reads files, may find none
          Keys,           \* keys pressed: the modes "t" and "f", "q" to quit
          MaxTurns,       \* bound: turns an agent takes
          MaxToggles,     \* bound: presses of a mode key
          LateAnswers     \* a message fetch may outlast the poller's 1 s join

ASSUME TurnStreamAssumption == /\ NoAgent \notin Agents
                               /\ IsFiniteSet(Agents)
                               /\ CredsMayFail \in BOOLEAN
                               /\ MaxTurns \in Nat /\ MaxToggles \in Nat
                               /\ LateAnswers \in BOOLEAN

\* Every generation spawns at most one worker, which is named after it.  An
\* edge is worth a preempt and a seek, a turn key one more seek, so TLC meets
\* no generation beyond this bound.
Gen == 1..(MaxToggles + 3 * MaxTurns * Cardinality(Agents))
TurnKey == Agents \X (1..MaxTurns)

VARIABLES
  \* fields of TurnStreamState
  enabled, follow, presses, status, active, lingering, agent, saw, pending,
  text, textOf,           \* kind of text shown, and whose turn it tells
  due,                    \* linger_until has passed
  \* fields of the worker object
  generation, stop, thread, selAgent, cooldown, seenRuns, seenTurns,
  \* threads
  pc, workFor,            \* seek-and-stream thread of each generation
  poller,                 \* its message poller
  probe,                  \* the probe thread's locals
  ui, uiFor, tick,        \* the Textual thread's step, target, tick locals
  astray,                 \* what has befallen the popup since its seek began (history)
  \* Broca: turns each agent has begun, agents with LIVE lines no tick has seen
  turns, edges

popup == <<status, active, lingering, agent, saw, text, textOf, due>>
modes == <<enabled, follow, presses>>
workers == <<pc, workFor>>
marks == <<seenRuns, seenTurns>>
era == <<generation, astray>>
vars == <<modes, popup, pending, era, stop, thread, selAgent,
          cooldown, marks, workers, poller, probe, ui, uiFor, tick,
          turns, edges>>

Status == {"idle", "seeking", "streaming", "linger", "error", "off"}
Text == {"none", "waiting", "partial", "final", "note"}
WorkerPC == {"none", "seek", "claim", "stream", "join", "final"}
PollerPC == {"none", "poll", "query", "steps", "wait"}
ProbePC == {"none", "fetch", "mark", "nocreds", "clear", "guard", "spawn"}
\* The no-creds popup put over one that is up; a poller that writes after its worker
\* has ended; a mode switch during a turn; a seek begun while a preempt has the stop
\* flag up.
Mishap == {"nocreds", "late", "mode", "stopped"}
UIPC == {"idle", "expire", "observe", "seek", "preempt", "join", "gone"}

NoProbe == [at |-> "none", agent |-> NoAgent, turn |-> 0, gen |-> 0]
NoTick == [busy |-> FALSE, linger |-> FALSE, agent |-> NoAgent]

Init == /\ enabled = TRUE /\ follow = FALSE /\ presses = 0
        /\ status = "idle" /\ active = FALSE /\ lingering = FALSE
        /\ agent = NoAgent /\ saw = FALSE /\ pending = {}
        /\ text = "none" /\ textOf = NoAgent /\ due = FALSE
        /\ generation = 0 /\ stop = FALSE /\ thread = 0
        /\ selAgent = NoAgent /\ cooldown = {} /\ seenRuns = {} /\ seenTurns = {}
        /\ pc = [g \in Gen |-> "none"]
        /\ workFor = [g \in Gen |-> NoAgent]
        /\ poller = [g \in Gen |-> "none"]
        /\ probe = NoProbe
        /\ ui = "idle" /\ uiFor = NoAgent /\ tick = NoTick
        /\ turns = [a \in Agents |-> 0] /\ edges = {} /\ astray = {}

-----------------------------------------------------------------------------
(* Changes of the popup *)

\* Back to an empty popup; agent_name is not always cleared.
Blank(to, name) == /\ status' = to
                   /\ active' = FALSE /\ lingering' = FALSE /\ due' = FALSE
                   /\ agent' = name
                   /\ saw' = FALSE /\ text' = "none" /\ textOf' = NoAgent

Show(kind, whose) == text' = kind /\ textOf' = whose

\* "no Letta creds": set without looking at what the popup shows.
ShowNoCreds(a) == /\ status' = "error" /\ active' = TRUE /\ agent' = a
                  /\ lingering' = TRUE /\ due' = FALSE
                  /\ UNCHANGED <<saw, text, textOf>>

\* Mutant: a deadline, but not the flag the tick looks at.
LingerUnflagged(as, kind, whose, up) == /\ status' = as /\ due' = FALSE
                                        /\ active' = up
                                        /\ Show(kind, whose)
                                        /\ UNCHANGED <<lingering, agent, saw>>

\* A finished or failed turn stays on screen until linger_until.
Linger(as, kind, whose, up) == /\ status' = as
                               /\ active' = up
                               /\ lingering' = TRUE /\ due' = FALSE
                               /\ Show(kind, whose)
                               /\ UNCHANGED <<agent, saw>>

Waiting(as, whose, withQuery) == /\ status' = as
                                 /\ Show("waiting", whose)
                                 /\ saw' = (saw \/ withQuery)
                                 /\ UNCHANGED <<active, lingering, agent, due>>

\* New text of the turn, or text the merge keeps out.
Apply(whose) == \/ UNCHANGED popup
                \/ /\ status' = "streaming"
                   /\ Show("partial", whose)
                   /\ UNCHANGED <<active, lingering, agent, saw, due>>

\* The region of _start_seek, refused while a popup is up.
MaySeek == ~active /\ status = "idle"
TakeSeek(a, query) == /\ generation' = generation + 1
                      /\ status' = "seeking" /\ active' = TRUE
                      /\ lingering' = FALSE /\ due' = FALSE
                      /\ agent' = a /\ saw' = query /\ Show("waiting", a)

Spawn(g, a) == /\ pc' = [pc EXCEPT ![g] = "seek"]
               /\ workFor' = [workFor EXCEPT ![g] = a]
               /\ thread' = g

-----------------------------------------------------------------------------
(* The seek-and-stream thread: runner, _seek_and_stream, _consume_stream *)

\* Mutant: only disabling makes a worker stale.
CurrentAnyGeneration(g) == enabled

\* _gen_ok, and the check every region under the lock repeats.
Current(g) == enabled /\ g = generation

Alive(g) == pc[g] # "none"
Goto(g, to) == pc' = [pc EXCEPT ![g] = to] /\ UNCHANGED workFor
Die(g) == Goto(g, "none")

notPoller == <<modes, pending, generation, stop, thread, selAgent, cooldown, seenRuns,
               seenTurns, workers, probe, ui, uiFor, tick, turns, edges>>
notWorker == <<modes, pending, era, stop, thread, selAgent, cooldown,
               seenTurns, probe, ui, uiFor, tick, turns, edges>>

\* The triggering message Broca reports, unless the probe brought it.
SeekQuery(g) == /\ pc[g] = "seek"
                /\ Current(g) /\ ~saw
                /\ Waiting("seeking", workFor[g], TRUE)
                /\ UNCHANGED <<notWorker, workers, seenRuns, poller>>

\* The loop and the checks after it leave without a word when superseded.
SeekQuits(g) == /\ pc[g] = "seek"
                /\ stop \/ ~Current(g)
                /\ Die(g)
                /\ UNCHANGED <<notWorker, popup, seenRuns, poller>>

\* A run of this agent not seen before; it is remembered at once.
SeekFinds(g) == /\ pc[g] = "seek"
                /\ ~stop /\ Current(g)
                /\ \E n \in 1..turns[workFor[g]] :
                     /\ <<workFor[g], n>> \notin seenRuns
                     /\ seenRuns' = seenRuns \cup {<<workFor[g], n>>}
                /\ Goto(g, "claim")
                /\ UNCHANGED <<notWorker, popup, poller>>

\* Mutant: giving up says nothing.
SeekFailsSilently(g) == /\ pc[g] = "seek"
                        /\ ~stop /\ Current(g)
                        /\ Die(g)
                        /\ UNCHANGED <<notWorker, popup, seenRuns, poller>>

\* Deadline passed or the search raised.
SeekFails(g) == /\ pc[g] = "seek"
                /\ ~stop /\ Current(g)
                /\ Linger("error", "note", workFor[g], active)
                /\ Die(g)
                /\ UNCHANGED <<notWorker, seenRuns, poller>>

\* Waiting chrome first; the poller starts with the stream.
ClaimRun(g) == /\ pc[g] = "claim"
               /\ \/ /\ Current(g)
                     /\ Waiting("streaming", workFor[g], FALSE)
                     /\ Goto(g, "stream")
                     /\ poller' = [poller EXCEPT ![g] = "poll"]
                  \/ /\ ~Current(g)
                     /\ Die(g)
                     /\ UNCHANGED <<popup, poller>>
               /\ UNCHANGED <<notWorker, seenRuns>>

\* The run's user message, polled for before the first step is shown.
EarlyQuery(g) == /\ pc[g] = "stream"
                 /\ Current(g) /\ ~saw /\ text = "waiting"
                 /\ Waiting("streaming", workFor[g], TRUE)
                 /\ UNCHANGED <<notWorker, workers, seenRuns, poller>>

\* Data, or an idle socket or early end while the run is still in flight.
StreamGoesOn(g) == /\ pc[g] = "stream"
                   /\ ~stop /\ Current(g)
                   /\ \/ Apply(workFor[g])
                      \/ /\ status' = "streaming"
                         /\ UNCHANGED <<active, lingering, agent, saw, text,
                                        textOf, due>>
                   /\ UNCHANGED <<notWorker, workers, seenRuns, poller>>

\* Done, out of time, failed or superseded: poll_stop, then a bounded join.  A
\* failed stream says so where the waiting panel was.
StreamEnds(g) == /\ pc[g] = "stream"
                 /\ Goto(g, "join")
                 /\ \/ UNCHANGED popup
                    \/ /\ Current(g) /\ text = "waiting"
                       /\ Show("note", workFor[g])
                       /\ UNCHANGED <<status, active, lingering, agent, saw, due>>
                 /\ UNCHANGED <<notWorker, seenRuns, poller>>

PollerJoined(g) == /\ pc[g] = "join"
                   /\ poller[g] = "none" \/ LateAnswers
                   /\ Goto(g, "final")
                   /\ UNCHANGED <<notWorker, popup, seenRuns, poller>>

\* Still in flight: keep polling messages.
FinalPoll(g) == /\ pc[g] = "final"
                /\ ~stop /\ Current(g)
                /\ \/ Apply(workFor[g])
                   \/ /\ status' = "streaming"
                      /\ UNCHANGED <<active, lingering, agent, saw, text,
                                     textOf, due>>
                /\ UNCHANGED <<notWorker, workers, seenRuns, poller>>

Finalize(g) == /\ pc[g] = "final"
               /\ Current(g)
               /\ \/ Linger("linger", "final", workFor[g], TRUE)
                  \/ Linger("error", "note", workFor[g], TRUE)
               /\ Die(g)
               /\ UNCHANGED <<notWorker, seenRuns, poller>>

\* The handler around the whole thread, for what was raised before.
RunnerRaises(g) == /\ pc[g] = "final"
                   /\ Current(g)
                   /\ Linger("error", "note", workFor[g], active)
                   /\ Die(g)
                   /\ UNCHANGED <<notWorker, seenRuns, poller>>

\* Mutant: a superseded worker lingers all the same.
FinalStaleLingers(g) == /\ pc[g] = "final"
                        /\ ~Current(g)
                        /\ Linger("linger", "final", workFor[g], TRUE)
                        /\ Die(g)
                        /\ UNCHANGED <<notWorker, seenRuns, poller>>

\* Disabled or superseded: do not enter linger.
FinalStale(g) == /\ pc[g] = "final"
                 /\ ~Current(g)
                 /\ Die(g)
                 /\ UNCHANGED <<notWorker, popup, seenRuns, poller>>

WorkerAdvances(g) == \/ SeekQuits(g) \/ SeekFails(g) \/ ClaimRun(g)
                     \/ StreamEnds(g) \/ PollerJoined(g) \/ Finalize(g)
                     \/ FinalStale(g)

WorkerStep(g) == \/ WorkerAdvances(g) \/ SeekQuery(g) \/ SeekFinds(g)
                 \/ EarlyQuery(g) \/ StreamGoesOn(g) \/ FinalPoll(g) \/ RunnerRaises(g)
-----------------------------------------------------------------------------
(* The message poller: _poll_messages, _set_query_and_waiting, _apply_text *)

PollStopped(g) == pc[g] \in {"join", "final", "none"}
PollerAt(g, to) == poller' = [poller EXCEPT ![g] = to]

PollQuits(g) == /\ poller[g] = "poll"
                /\ PollStopped(g) \/ stop \/ ~Current(g)
                /\ PollerAt(g, "none")
                /\ UNCHANGED <<notWorker, popup, seenRuns, workers>>

\* Rows in hand: only the user's message, or steps as well.
PollFetches(g) == /\ poller[g] = "poll"
                  /\ ~PollStopped(g) /\ ~stop /\ Current(g)
                  /\ \E rows \in {"query", "steps"} : PollerAt(g, rows)
                  /\ UNCHANGED <<notWorker, popup, seenRuns, workers>>

\* need_waiting is read in one region and acted on in the next.
PollQuery(g) == /\ poller[g] = "query"
                /\ PollerAt(g, IF ~Current(g) THEN "none"
                               ELSE IF saw THEN "poll" ELSE "wait")
                /\ UNCHANGED <<notWorker, popup, seenRuns, workers>>

\* A region of the poller's: what it has to show, if the generation is current.
Answer(g, shows) == IF Current(g)
                    THEN /\ shows
                         /\ astray' = IF Alive(g) THEN astray ELSE astray \cup {"late"}
                    ELSE UNCHANGED <<popup, astray>>

PollShowsWaiting(g) == /\ poller[g] = "wait"
                       /\ Answer(g, Waiting("streaming", workFor[g], TRUE))
                       /\ PollerAt(g, "poll")
                       /\ UNCHANGED notPoller

\* Mutant: what was fetched is shown without a second look at the generation.
PollShowsStepsUnchecked(g) == /\ poller[g] = "steps"
                              /\ Apply(workFor[g])
                              /\ PollerAt(g, "poll")
                              /\ UNCHANGED <<notWorker, seenRuns, workers>>

PollShowsSteps(g) == /\ poller[g] = "steps"
                     /\ Answer(g, Apply(workFor[g]))
                     /\ PollerAt(g, "poll")
                     /\ UNCHANGED notPoller

PollerStep(g) == \/ PollQuits(g) \/ PollFetches(g) \/ PollQuery(g)
                 \/ PollShowsWaiting(g) \/ PollShowsSteps(g)

-----------------------------------------------------------------------------
(* The probe thread: _probe_current_turn *)

notProbe == <<modes, pending, selAgent, cooldown, seenRuns, poller,
              ui, uiFor, tick, turns, edges>>

\* What load_agent_creds may lead to.
CredsLoaded(found, missing) == IF CredsMayFail THEN {found, missing} ELSE {found}

\* Broca may report a turn in progress; then the agent must still be selected.
ProbeFetch == /\ probe.at = "fetch"
              /\ \/ probe' = NoProbe
                 \/ /\ turns[probe.agent] > 0 /\ selAgent = probe.agent
                    /\ probe' = [probe EXCEPT !.at = "mark",
                                             !.turn = turns[probe.agent]]
              /\ UNCHANGED <<notProbe, popup, era, stop, thread, workers,
                             seenTurns>>

ProbeMark == LET key == <<probe.agent, probe.turn>>
             IN /\ probe.at = "mark"
                /\ \/ /\ enabled /\ MaySeek /\ key \notin seenTurns
                      /\ seenTurns' = seenTurns \cup {key}
                      /\ \E next \in CredsLoaded("clear", "nocreds") :
                           probe' = [probe EXCEPT !.at = next]
                   \/ /\ ~(enabled /\ MaySeek /\ key \notin seenTurns)
                      /\ probe' = NoProbe
                      /\ UNCHANGED seenTurns
                /\ UNCHANGED <<notProbe, popup, era, stop, thread, workers>>

\* _set_error does not exist: the thread dies with the popup untouched.
ProbeNoCreds == /\ probe.at = "nocreds"
                /\ probe' = NoProbe
                /\ UNCHANGED <<notProbe, popup, era, stop, thread, workers,
                               seenTurns>>

\* _start_seek on the probe's thread, step by step.
ProbeClearsStop == /\ probe.at = "clear"
                   /\ stop' = FALSE
                   /\ probe' = [probe EXCEPT !.at = "guard"]
                   /\ UNCHANGED <<notProbe, popup, era, thread, workers,
                                  seenTurns>>

ProbeSeeks == /\ probe.at = "guard"
              /\ \/ /\ MaySeek
                    /\ TakeSeek(probe.agent, TRUE)
                    /\ astray' = IF stop THEN {"stopped"} ELSE {}
                    /\ probe' = [probe EXCEPT !.at = "spawn", !.gen = generation + 1]
                 \/ /\ ~MaySeek
                    /\ probe' = NoProbe
                    /\ UNCHANGED <<popup, era>>
              /\ UNCHANGED <<notProbe, stop, thread, workers, seenTurns>>

ProbeSpawns == /\ probe.at = "spawn"
               /\ Spawn(probe.gen, probe.agent)
               /\ probe' = NoProbe
               /\ UNCHANGED <<notProbe, popup, era, stop, seenTurns>>

ProbeStep == \/ ProbeFetch \/ ProbeMark \/ ProbeNoCreds
             \/ ProbeClearsStop \/ ProbeSeeks \/ ProbeSpawns

-----------------------------------------------------------------------------
(* The Textual thread *)

notUI == <<marks, poller, turns>>
UIAt(to, a) == ui' = to /\ uiFor' = a
UIDone == UIAt("idle", NoAgent) /\ tick' = NoTick

\* A popup is up, or a thread still runs.
BusyNow == \/ lingering
           \/ status \in {"streaming", "seeking", "linger", "error"}
           \/ thread # 0 /\ Alive(thread)

\* tick(), first region: what it decides on from here is this copy.
TickReads(sel) ==
  /\ ui = "idle"
  /\ selAgent' = sel
  /\ IF ~enabled THEN UNCHANGED <<ui, uiFor, tick>>
     ELSE IF lingering /\ due THEN UIAt("expire", NoAgent) /\ UNCHANGED tick
     ELSE /\ UIAt("observe", NoAgent)
          /\ tick' = [busy |-> BusyNow, linger |-> status = "linger",
                      agent |-> IF follow THEN agent ELSE NoAgent]
  /\ UNCHANGED <<notUI, modes, popup, pending, era, stop, thread, cooldown,
                 workers, probe, edges>>

\* The linger is over; cursors jump to what the screens show now.
TickExpires == /\ ui = "expire"
               /\ Blank("idle", NoAgent)
               /\ cooldown' = cooldown \cup ({selAgent} \ {NoAgent})
               /\ edges' = {}
               /\ UIDone
               /\ UNCHANGED <<notUI, modes, pending, era, stop, thread,
                              selAgent, workers, probe>>

Started == edges \ cooldown

\* Mutant: a popup gives way whether it is finished or not.
YieldsAlways == tick.busy /\ (follow \/ selAgent \in Started)

\* A finished popup gives way to a fresh turn.
Yields == tick.linger /\ (follow \/ selAgent \in Started)
Busy == tick.busy /\ ~Yields

MaybeYield == IF Yields THEN Blank("idle", agent) ELSE UNCHANGED popup

\* At most one probe; none before _probe_after, which is a choice here.
StartProbe == \/ UNCHANGED probe
              \/ /\ selAgent # NoAgent /\ probe.at = "none"
                 /\ probe' = [NoProbe EXCEPT !.at = "fetch", !.agent = selAgent]

\* Selected mode: the selected agent's start, else badges and the probe.
TickSelected ==
  /\ ui = "observe" /\ ~follow
  /\ edges' = {}
  /\ pending' = pending \cup (Started \ {selAgent})
  /\ MaybeYield
  /\ IF ~Busy /\ selAgent \in Started
     THEN UIAt("seek", selAgent) /\ tick' = NoTick /\ UNCHANGED probe
     ELSE UIDone /\ IF Busy THEN UNCHANGED probe ELSE StartProbe
  /\ UNCHANGED <<notUI, modes, era, stop, thread, selAgent, cooldown, workers>>

\* Follow mode: a start that is not on screen comes first.
Targets == IF Started \ {tick.agent} # {} THEN Started \ {tick.agent} ELSE Started

TickFollow ==
  /\ ui = "observe" /\ follow
  /\ edges' = {}
  /\ IF Started = {}
     THEN /\ UIDone
          /\ IF tick.busy THEN UNCHANGED probe ELSE StartProbe
          /\ UNCHANGED <<popup, pending, era, stop>>
     ELSE \E target \in Targets :
          /\ tick' = NoTick
          /\ IF Busy
             THEN /\ generation' = generation + 1 /\ astray' = {}
                  /\ stop' = TRUE
                  /\ Blank("idle", NoAgent)
                  /\ pending' = {}
                  /\ UIAt("preempt", target)
             ELSE /\ MaybeYield
                  /\ UIAt("seek", target)
                  /\ UNCHANGED <<pending, era, stop>>
          /\ UNCHANGED probe
  /\ UNCHANGED <<notUI, modes, thread, selAgent, cooldown, workers>>

\* Credentials, then _start_seek; after a preempt the old thread has ended or
\* its 0.8 s are over.
TickSeeks == /\ ui \in {"seek", "preempt"}
             /\ UIDone
             /\ \/ /\ CredsMayFail
                   /\ ShowNoCreds(uiFor)
                   /\ astray' = IF MaySeek THEN astray ELSE astray \cup {"nocreds"}
                   /\ stop' = (stop /\ ui # "preempt")
                   /\ UNCHANGED <<generation, thread, workers>>
                \/ /\ stop' = FALSE
                   /\ IF MaySeek
                      THEN TakeSeek(uiFor, FALSE) /\ Spawn(generation + 1, uiFor) /\ astray' = {}
                      ELSE UNCHANGED <<popup, era, thread, workers>>
             /\ UNCHANGED <<notUI, modes, pending, selAgent, cooldown, probe, edges>>

\* set_enabled(False), from a mode key or from shutdown.
Disable(to) == /\ generation' = generation + 1 /\ astray' = {}
               /\ stop' = TRUE
               /\ enabled' = FALSE /\ follow' = FALSE
               /\ Blank("off", agent)
               /\ pending' = {}
               /\ UIAt(to, NoAgent) /\ tick' = NoTick

\* set_mode on: the popup is reset only when the worker was off.
Enable(f) == /\ generation' = generation + 1
             /\ stop' = FALSE
             /\ enabled' = TRUE /\ follow' = f
             /\ astray' = IF enabled /\ status \in {"seeking", "streaming"}
                          THEN astray \cup {"mode"} ELSE astray
             /\ IF enabled THEN UNCHANGED <<popup, pending>>
                           ELSE Blank("idle", agent) /\ pending' = {}
             /\ UNCHANGED <<ui, uiFor, tick>>

\* toggle() and toggle_follow()
Press(key) == /\ ui = "idle"
              /\ presses < MaxToggles /\ presses' = presses + 1
              /\ IF enabled /\ follow = (key = "f")
                 THEN Disable("join")
                 ELSE Enable(key = "f")
              /\ UNCHANGED <<notUI, thread, selAgent, cooldown, workers, probe, edges>>

\* The disable has joined its threads, or its five seconds are over.
Joined == /\ ui = "join"
          /\ UIDone
          /\ UNCHANGED <<notUI, modes, popup, pending, era, stop, thread,
                         selAgent, cooldown, workers, probe, edges>>

\* shutdown(): the app is quitting.
Shutdown == /\ ui = "idle"
            /\ Disable("gone")
            /\ UNCHANGED <<notUI, presses, thread, selAgent, cooldown, workers, probe, edges>>

UIStep == TickExpires \/ TickSelected \/ TickFollow \/ TickSeeks \/ Joined
TickAny == \E sel \in Agents \cup {NoAgent} : TickReads(sel)

-----------------------------------------------------------------------------
(* Broca and the clock *)

notEnv == <<modes, status, active, lingering, agent, saw, text, textOf, pending, 
            era, stop, thread, selAgent, marks, workers, poller, probe,
            ui, uiFor, tick>>

TurnBegins(a) == /\ turns[a] < MaxTurns
                 /\ turns' = [turns EXCEPT ![a] = @ + 1]
                 /\ edges' = edges \cup {a}
                 /\ UNCHANGED <<notEnv, cooldown, due>>

LingerElapses == /\ lingering /\ ~due
                 /\ due' = TRUE
                 /\ UNCHANGED <<notEnv, turns, edges, cooldown>>

CooldownElapses(a) == /\ a \in cooldown
                      /\ cooldown' = cooldown \ {a}
                      /\ UNCHANGED <<notEnv, turns, edges, due>>

Next == \/ \E g \in Gen : WorkerStep(g) \/ PollerStep(g)
        \/ ProbeStep
        \/ TickAny \/ UIStep
        \/ \E key \in Keys \cap {"t", "f"} : Press(key)
        \/ "q" \in Keys /\ Shutdown
        \/ \E a \in Agents : TurnBegins(a) \/ CooldownElapses(a)
        \/ LingerElapses

\* Threads run; every deadline, wall clock and timer passes; the app ticks.
Fairness == /\ \A g \in Gen : WF_vars(WorkerAdvances(g)) /\ WF_vars(PollerStep(g))
            /\ WF_vars(ProbeStep)
            /\ WF_vars(TickAny) /\ WF_vars(UIStep)
            /\ WF_vars(LingerElapses)
            /\ \A a \in Agents : WF_vars(CooldownElapses(a))

Spec == Init /\ [][Next]_vars
FairSpec == Spec /\ Fairness

-----------------------------------------------------------------------------
(* Properties *)

TypeOK == /\ enabled \in BOOLEAN /\ follow \in BOOLEAN /\ presses \in 0..MaxToggles
          /\ status \in Status /\ active \in BOOLEAN /\ lingering \in BOOLEAN
          /\ agent \in Agents \cup {NoAgent} /\ saw \in BOOLEAN
          /\ pending \subseteq Agents
          /\ text \in Text /\ textOf \in Agents \cup {NoAgent} /\ due \in BOOLEAN
          /\ generation \in Nat /\ stop \in BOOLEAN /\ thread \in Nat
          /\ selAgent \in Agents \cup {NoAgent}
          /\ cooldown \subseteq Agents
          /\ seenRuns \subseteq TurnKey /\ seenTurns \subseteq TurnKey
          /\ pc \in [Gen -> WorkerPC]
          /\ workFor \in [Gen -> Agents \cup {NoAgent}]
          /\ poller \in [Gen -> PollerPC]
          /\ probe \in [at: ProbePC, agent: Agents \cup {NoAgent},
                         turn: 0..MaxTurns, gen: Nat]
          /\ ui \in UIPC /\ uiFor \in Agents \cup {NoAgent}
          /\ tick \in [busy: BOOLEAN, linger: BOOLEAN,
                       agent: Agents \cup {NoAgent}]
          /\ turns \in [Agents -> 0..MaxTurns] /\ edges \subseteq Agents
          /\ astray \subseteq Mishap

\* "any | disable / quit | off": once the mode is off nothing shows again, though
\* workers, pollers and a probe may still be running after the bounded join.
OffIsQuiet == ~enabled => /\ status = "off" /\ ~active /\ ~lingering
                          /\ text = "none" /\ ~saw /\ pending = {}

\* Unless the no-creds popup was put over a turn that was up, or a poller wrote
\* after its worker's end, the popup shows no agent's turn under another's name.
TextIsAgents == text # "none" => textOf = agent \/ astray \cap {"nocreds", "late"} # {}

\* The popup is seeking or streaming only while somebody drives it: the worker of
\* the current generation, or the probe about to start that worker.  Only a mode
\* switch, a late poller or a seek begun in a preempt leaves it with nobody.
Driven == status \in {"seeking", "streaming"} /\ ~lingering =>
            \/ generation \in Gen /\ Alive(generation)
            \/ probe.at = "spawn" /\ probe.gen = generation
            \/ astray \cap {"mode", "late", "stopped"} # {}

\* "Turn worker writes only when generation is current and enabled": no step of a
\* superseded worker, or of its poller, changes the popup.
StaleIsSilent ==
  [][\A g \in Gen : (~enabled \/ g # generation) /\ (WorkerStep(g) \/ PollerStep(g))
                      => UNCHANGED popup]_vars

\* "never interrupt an in-flight focused turn": in selected mode the popup is not
\* cleared or given to another agent while a turn is sought or streamed, whatever the
\* tick decided on a moment earlier; save when the tick finds no credentials.
Focused == ~follow /\ ~lingering /\ status \in {"seeking", "streaming"}
NeverInterrupted ==
  [][(Focused /\ ~follow') =>
       \/ agent' = agent /\ status' # "idle"
       \/ TickSeeks /\ status' = "error" /\ agent' = uiFor]_vars

\* The same without the exception, as the comment at turn_stream.py:1198 has it.
\* Violated: a probe's seek that began after the tick's look at the popup is
\* overwritten with the no-creds error (1235-1245).
NotEvenWithoutCreds == [][(Focused /\ ~follow') => agent' = agent /\ status' # "idle"]_vars

\* "streaming | run complete | linger": the finished answer stays until the next
\* turn or the timer, it does not turn back into the waiting panel.
FinishedTextStays == [][text = "final" => text' # "waiting"]_vars

\* "any busy | newer start + follow | seeking (other)": the start that preempts
\* gets the popup.
PreemptTakesEffect ==
  [][(ui = "preempt" /\ ui' = "idle") => agent' = uiFor]_vars

\* A popup ends: the run ends or times out, then lingers, then goes.  Only a mode
\* switch during its turn, or a preempt that its seek ran into, may leave it up.
PopupEnds == active ~> ~active \/ astray \cap {"mode", "stopped"} # {}

\* The same without the exception ("streaming | run complete | linger", "linger |
\* timer | idle", docs/ARCHITECTURE.md:59-60).  Violated: set_mode makes the worker
\* stale and leaves the popup up (turn_stream.py:1013).
EveryPopupEnds == active ~> ~active

\* The state table of docs/ARCHITECTURE.md, until a no-creds popup or a late poller
\* takes the popup out of it.
Table == INSTANCE TurnPopup WITH
           phase <- IF astray \cap {"nocreds", "late"} = {} THEN status ELSE "astray",
           mode <- IF ~enabled THEN "off" ELSE IF follow THEN "follow" ELSE "selected"

ImplementsTable == Table!Spec
=============================================================================
