-------------------------- MODULE TurnStreamProofs --------------------------
(* What TLAPS proves about TurnStream for any number of agents, turns and    *)
(* presses of the keys, whatever files are missing and however late a fetch. *)
(* The popup keeps to the state table until the no-creds popup is put over   *)
(* one that is up, or a poller writes after its worker's end; the history    *)
(* variable astray says when, and what holds before is proved by an          *)
(* invariant that is void from then to the next seek, preempt or disabling.  *)
EXTENDS TurnStream, FiniteSetTheorems, TLAPS

-----------------------------------------------------------------------------
(* The inductive invariant, part by part *)

\* No worker or poller has a generation that was not given out yet, and the
\* generation the probe is about to give a worker has none.
Unborn == /\ \A g \in Gen : g > generation => pc[g] = "none" /\ poller[g] = "none"
          /\ probe.at = "spawn" =>
               /\ probe.gen <= generation
               /\ probe.gen \in Gen => pc[probe.gen] = "none" /\ poller[probe.gen] = "none"

\* The Textual thread cannot toggle between two steps of one tick.
TickEnabled == ui \in {"expire", "observe", "seek", "preempt"} => enabled

\* Targets are agents.
HasTarget == /\ ui \in {"seek", "preempt"} => uiFor \in Agents
             /\ probe.at # "none" => probe.agent \in Agents
             /\ probe.at = "mark" => probe.turn \in 1..MaxTurns
             /\ \A g \in Gen : pc[g] # "none" => workFor[g] \in Agents

\* A poller starts with the stream.
PollerAfter == \A g \in Gen : poller[g] # "none" => pc[g] \notin {"seek", "claim"}

\* What the status says whoever wrote it: a popup that lingers is not idle, a
\* finished one lingers, an idle one shows nothing, and only an enabled mode has a
\* status other than off, and a popup astray.
StatusTells == /\ lingering => status # "idle"
               /\ status = "linger" => lingering
               /\ status = "idle" => text = "none"
               /\ enabled => status # "off"
               /\ ~enabled => astray = {}

\* What the tick copied is still so: nobody else ends a linger.
TickKnows == /\ ui = "expire" => lingering
             /\ ui = "observe" /\ tick.linger => lingering

\* No popup written over, none written late.
OnCourse == astray \cap {"nocreds", "late"} = {}

\* The flags say what the status says.
FlagsAgree == /\ lingering <=> status \in {"linger", "error"}
              /\ active <=> status \in {"seeking", "streaming", "linger", "error"}

\* The worker of the current generation, or the probe about to start it, is
\* the only one that drives the popup, which is in that worker's phase.
InFlight == /\ \A g \in Gen : enabled /\ g = generation =>
                 /\ pc[g] \in {"seek", "claim"} =>
                      status = "seeking" /\ agent = workFor[g]
                 /\ pc[g] \in {"stream", "join", "final"} =>
                      status = "streaming" /\ agent = workFor[g]
            /\ probe.at = "spawn" /\ probe.gen = generation /\ enabled =>
                 status = "seeking" /\ agent = probe.agent

Named == text # "none" => textOf = agent

Quiet == TypeOK /\ Unborn /\ TickEnabled /\ OffIsQuiet /\ HasTarget
Told == PollerAfter /\ StatusTells /\ TickKnows
Orderly == OnCourse => FlagsAgree /\ InFlight /\ Named

-----------------------------------------------------------------------------
(* Types.  TypeOK is split by owner: a step changes the type of few parts.   *)

USE DEF era

ModesType == enabled \in BOOLEAN /\ follow \in BOOLEAN /\ presses \in 0..MaxToggles
PopupType == /\ status \in Status /\ active \in BOOLEAN /\ lingering \in BOOLEAN
             /\ agent \in Agents \cup {NoAgent} /\ saw \in BOOLEAN
             /\ text \in Text /\ textOf \in Agents \cup {NoAgent}
             /\ due \in BOOLEAN
WorkerType == /\ generation \in Nat /\ stop \in BOOLEAN /\ thread \in Nat
              /\ selAgent \in Agents \cup {NoAgent}
              /\ pending \subseteq Agents /\ cooldown \subseteq Agents
MarksType == seenRuns \subseteq TurnKey /\ seenTurns \subseteq TurnKey
ThreadsType == /\ pc \in [Gen -> WorkerPC]
               /\ workFor \in [Gen -> Agents \cup {NoAgent}]
               /\ poller \in [Gen -> PollerPC]
ProbeType == probe \in [at: ProbePC, agent: Agents \cup {NoAgent},
                        turn: 0..MaxTurns, gen: Nat]
UIType == /\ ui \in UIPC /\ uiFor \in Agents \cup {NoAgent}
          /\ tick \in [busy: BOOLEAN, linger: BOOLEAN,
                       agent: Agents \cup {NoAgent}]
EnvType == turns \in [Agents -> 0..MaxTurns] /\ edges \subseteq Agents

Parts == /\ ModesType /\ PopupType /\ WorkerType /\ MarksType
         /\ ThreadsType /\ ProbeType /\ UIType /\ EnvType

LEMMA TypeParts ==
  /\ TypeOK <=> Parts /\ astray \subseteq Mishap
  /\ (TypeOK <=> Parts /\ astray \subseteq Mishap)'
BY DEF TypeOK, Parts, ModesType, PopupType, WorkerType, MarksType, ThreadsType,
       ProbeType, UIType, EnvType

\* A part no variable of which changes keeps its type.
LEMMA SameModes == ModesType /\ UNCHANGED modes => ModesType'
BY DEF ModesType, modes
LEMMA SamePopup == PopupType /\ UNCHANGED popup => PopupType'
BY DEF PopupType, popup
LEMMA SameMarks == MarksType /\ UNCHANGED marks => MarksType'
BY DEF MarksType, marks
LEMMA SameThreads == ThreadsType /\ UNCHANGED <<workers, poller>> => ThreadsType'
BY DEF ThreadsType, workers
LEMMA SameProbe == ProbeType /\ UNCHANGED probe => ProbeType'
BY DEF ProbeType
LEMMA SameUI == UIType /\ UNCHANGED <<ui, uiFor, tick>> => UIType'
BY DEF UIType
LEMMA SameEnv == EnvType /\ UNCHANGED <<turns, edges>> => EnvType'
BY DEF EnvType

\* Every change of the popup keeps its type.
LEMMA PopupChanges ==
  ASSUME PopupType, NEW a \in Agents \cup {NoAgent}
  PROVE  /\ \A to \in Status : Blank(to, a) => PopupType'
         /\ \A as \in Status, kind \in Text, up \in BOOLEAN : Linger(as, kind, a, up) => PopupType'
         /\ \A as \in Status, q \in BOOLEAN : Waiting(as, a, q) => PopupType'
         /\ Apply(a) => PopupType'
         /\ \A q \in BOOLEAN : TakeSeek(a, q) => PopupType'
         /\ ShowNoCreds(a) => PopupType'
<1>1. ASSUME NEW to \in Status, Blank(to, a) PROVE PopupType'
  BY <1>1 DEF PopupType, Blank, Text
<1>2. ASSUME NEW as \in Status, NEW kind \in Text, NEW up \in BOOLEAN, Linger(as, kind, a, up)
      PROVE  PopupType'
  BY <1>2 DEF PopupType, Linger, Show
<1>3. ASSUME NEW as \in Status, NEW q \in BOOLEAN, Waiting(as, a, q) PROVE PopupType'
  BY <1>3 DEF PopupType, Waiting, Show, Text
<1>4. ASSUME Apply(a) PROVE PopupType'
  BY <1>4 DEF PopupType, Apply, Show, popup, Text, Status
<1>5. ASSUME NEW q \in BOOLEAN, TakeSeek(a, q) PROVE PopupType'
  BY <1>5 DEF PopupType, TakeSeek, Show, Text, Status
<1>6. ASSUME ShowNoCreds(a) PROVE PopupType'
  BY <1>6 DEF PopupType, ShowNoCreds, Status
<1> QED BY <1>1, <1>2, <1>3, <1>4, <1>5, <1>6

\* A probe just started, and an emptied tick, have their types.
LEMMA FreshProbe ==
  ASSUME NEW a \in Agents \cup {NoAgent}
  PROVE  [NoProbe EXCEPT !.at = "fetch", !.agent = a]
           \in [at: ProbePC, agent: Agents \cup {NoAgent}, turn: 0..MaxTurns, gen: Nat]
<1>1. NoProbe \in [at: ProbePC, agent: Agents \cup {NoAgent}, turn: 0..MaxTurns, gen: Nat]
  BY TurnStreamAssumption DEF NoProbe, ProbePC
<1>2. "fetch" \in ProbePC
  BY DEF ProbePC
<1> QED BY <1>1, <1>2

LEMMA TickCopy ==
  ASSUME NEW busy \in BOOLEAN, NEW linger \in BOOLEAN, NEW a \in Agents \cup {NoAgent}
  PROVE  [busy |-> busy, linger |-> linger, agent |-> a]
           \in [busy: BOOLEAN, linger: BOOLEAN, agent: Agents \cup {NoAgent}]
OBVIOUS

LEMMA FreshTick ==
  ASSUME ui' \in UIPC, uiFor' \in Agents \cup {NoAgent}, tick' = NoTick PROVE UIType'
BY DEF UIType, NoTick

LEMMA InitType == Init => TypeOK
<1> SUFFICES ASSUME Init PROVE TypeOK
  OBVIOUS
<1>1. PopupType /\ astray \subseteq Mishap
  BY DEF Init, PopupType, Status, Text
<1>0. ModesType
  <2>1. enabled \in BOOLEAN /\ follow \in BOOLEAN
    BY DEF Init
  <2>2. presses \in 0..MaxToggles
    BY TurnStreamAssumption DEF Init
  <2> QED BY <2>1, <2>2 DEF ModesType
<1>2. WorkerType /\ MarksType
  BY DEF Init, WorkerType, MarksType
<1>3. ThreadsType
  BY DEF Init, ThreadsType, WorkerPC, PollerPC
<1>4. ProbeType
  BY TurnStreamAssumption DEF Init, ProbeType, NoProbe, ProbePC
<1>5. UIType
  BY DEF Init, UIType, UIPC, NoTick
<1>6. EnvType
  BY TurnStreamAssumption DEF Init, EnvType
<1> QED BY <1>0, <1>1, <1>2, <1>3, <1>4, <1>5, <1>6, TypeParts DEF Parts

LEMMA WorkerStepType ==
  ASSUME TypeOK, HasTarget, NEW g \in Gen, WorkerStep(g) PROVE Parts'
<1> DEFINE whose == workFor[g]
<1> USE DEF Parts
<1>a. Parts
  BY TypeParts
<1>b. whose \in Agents \cup {NoAgent}
  BY <1>a DEF ThreadsType
<1>0. SeekQuery(g) \/ SeekQuits(g) \/ SeekFinds(g) \/ SeekFails(g) \/ ClaimRun(g)
      \/ EarlyQuery(g) \/ StreamGoesOn(g) \/ StreamEnds(g) \/ PollerJoined(g)
      \/ FinalPoll(g) \/ Finalize(g) \/ RunnerRaises(g) \/ FinalStale(g)
  BY DEF WorkerStep, WorkerAdvances
<1>1. ThreadsType'
  BY <1>0, <1>a DEF ThreadsType, SeekQuery, SeekQuits, SeekFinds, SeekFails,
     ClaimRun, EarlyQuery, StreamGoesOn, StreamEnds, PollerJoined, FinalPoll,
     Finalize, RunnerRaises, FinalStale, Die, Goto, WorkerPC, PollerPC, workers
<1>2. UNCHANGED notWorker
  BY <1>0 DEF SeekQuery, SeekQuits, SeekFinds, SeekFails, ClaimRun, EarlyQuery,
     StreamGoesOn, StreamEnds, PollerJoined, FinalPoll, Finalize, RunnerRaises,
     FinalStale
<1>3. ModesType' /\ WorkerType' /\ ProbeType' /\ UIType' /\ EnvType'
  BY <1>2, <1>a, SameModes, SameProbe, SameUI, SameEnv DEF notWorker, WorkerType
<1>4. seenRuns' = seenRuns \/ SeekFinds(g)
  BY <1>0 DEF SeekQuery, SeekQuits, SeekFails, ClaimRun, EarlyQuery,
     StreamGoesOn, StreamEnds, PollerJoined, FinalPoll, Finalize, RunnerRaises,
     FinalStale
<1>5. MarksType'
  <2>1. CASE seenRuns' = seenRuns
    BY <2>1, <1>2, <1>a, SameMarks DEF notWorker, marks
  <2>2. CASE SeekFinds(g)
    <3>1. PICK n \in 1..turns[whose] : seenRuns' = seenRuns \cup {<<whose, n>>}
      BY <2>2 DEF SeekFinds
    <3>2. whose \in Agents
      BY <2>2 DEF SeekFinds, HasTarget
    <3>3. turns[whose] \in 0..MaxTurns
      BY <3>2, <1>a DEF EnvType
    <3>4. <<whose, n>> \in TurnKey
      BY <3>1, <3>2, <3>3, TurnStreamAssumption DEF TurnKey
    <3> QED BY <3>1, <3>4, <1>a, <1>2 DEF MarksType, notWorker
  <2> QED BY <1>4, <2>1, <2>2
<1>6. PopupType'
  <2> USE DEF Status, Text
  <2>0. active \in BOOLEAN
    BY <1>a DEF PopupType
  <2>1. CASE SeekQuery(g)     BY <2>1, <1>a, <1>b, PopupChanges DEF SeekQuery
  <2>2. CASE SeekQuits(g)     BY <2>2, <1>a, SamePopup DEF SeekQuits
  <2>3. CASE SeekFinds(g)     BY <2>3, <1>a, SamePopup DEF SeekFinds
  <2>4. CASE SeekFails(g)     BY <2>4, <2>0, <1>a, <1>b, PopupChanges DEF SeekFails
  <2>5. CASE ClaimRun(g)      BY <2>5, <1>a, <1>b, PopupChanges, SamePopup DEF ClaimRun
  <2>6. CASE EarlyQuery(g)    BY <2>6, <1>a, <1>b, PopupChanges DEF EarlyQuery
  <2>7. CASE StreamGoesOn(g)  BY <2>7, <1>a, <1>b, PopupChanges DEF StreamGoesOn, PopupType
  <2>8. CASE StreamEnds(g)
    <3>1. CASE UNCHANGED popup   BY <3>1, <1>a, SamePopup
    <3>2. CASE ~UNCHANGED popup
      BY <2>8, <3>2, <1>a, <1>b DEF StreamEnds, Show, PopupType
    <3> QED BY <3>1, <3>2
  <2>9. CASE PollerJoined(g)  BY <2>9, <1>a, SamePopup DEF PollerJoined
  <2>10. CASE FinalPoll(g)    BY <2>10, <1>a, <1>b, PopupChanges DEF FinalPoll, PopupType
  <2>11. CASE Finalize(g)     BY <2>11, <1>a, <1>b, PopupChanges DEF Finalize
  <2>12. CASE RunnerRaises(g) BY <2>12, <2>0, <1>a, <1>b, PopupChanges DEF RunnerRaises
  <2>13. CASE FinalStale(g)   BY <2>13, <1>a, SamePopup DEF FinalStale
  <2> QED BY <1>0, <2>1, <2>2, <2>3, <2>4, <2>5, <2>6, <2>7, <2>8, <2>9, <2>10,
             <2>11, <2>12, <2>13
<1> QED BY <1>1, <1>3, <1>5, <1>6, TypeParts DEF Parts

LEMMA PollerStepType ==
  ASSUME TypeOK, NEW g \in Gen, PollerStep(g) PROVE Parts'
<1> USE DEF Parts
<1>a. Parts
  BY TypeParts
<1>b. workFor[g] \in Agents \cup {NoAgent}
  BY <1>a DEF ThreadsType
<1>0. PollQuits(g) \/ PollFetches(g) \/ PollQuery(g) \/ PollShowsWaiting(g)
      \/ PollShowsSteps(g)
  BY DEF PollerStep
<1>1. UNCHANGED notPoller
  BY <1>0 DEF PollQuits, PollFetches, PollQuery, PollShowsWaiting, PollShowsSteps,
     notWorker, notPoller
<1>2. ThreadsType'
  BY <1>0, <1>1, <1>a DEF PollQuits, PollFetches, PollQuery, PollShowsWaiting,
     PollShowsSteps, PollerAt, ThreadsType, PollerPC, notPoller, workers
<1>3. PopupType'
  <2> USE DEF Status, Text
  <2>1. CASE PollQuits(g)        BY <2>1, <1>a, SamePopup DEF PollQuits
  <2>2. CASE PollFetches(g)      BY <2>2, <1>a, SamePopup DEF PollFetches
  <2>3. CASE PollQuery(g)        BY <2>3, <1>a, SamePopup DEF PollQuery
  <2>4. CASE PollShowsWaiting(g)
    BY <2>4, <1>a, <1>b, SamePopup, PopupChanges DEF PollShowsWaiting, Answer
  <2>5. CASE PollShowsSteps(g)
    BY <2>5, <1>a, <1>b, SamePopup, PopupChanges DEF PollShowsSteps, Answer
  <2> QED BY <1>0, <2>1, <2>2, <2>3, <2>4, <2>5
<1>4. ModesType' /\ WorkerType' /\ MarksType' /\ ProbeType' /\ UIType' /\ EnvType'
  BY <1>1, <1>a, SameModes, SameMarks, SameProbe, SameUI, SameEnv
     DEF notPoller, marks, WorkerType
<1> QED BY <1>2, <1>3, <1>4, TypeParts

LEMMA ProbeStepType ==
  ASSUME TypeOK, HasTarget, ProbeStep PROVE Parts'
<1> USE DEF Parts
<1>a. Parts
  BY TypeParts
<1>0. ProbeFetch \/ ProbeMark \/ ProbeNoCreds \/ ProbeClearsStop \/ ProbeSeeks
      \/ ProbeSpawns
  BY DEF ProbeStep
<1>1. UNCHANGED notProbe
  BY <1>0 DEF ProbeFetch, ProbeMark, ProbeNoCreds, ProbeClearsStop, ProbeSeeks,
     ProbeSpawns
<1>2. ModesType' /\ UIType' /\ EnvType'
  BY <1>1, <1>a, SameModes, SameUI, SameEnv DEF notProbe
<1>3. ThreadsType'
  BY <1>0, <1>1, <1>a DEF ProbeFetch, ProbeMark, ProbeNoCreds, ProbeClearsStop,
     ProbeSeeks, ProbeSpawns, Spawn, ThreadsType, ProbeType, WorkerPC, workers, notProbe
<1>4. PopupType'
  BY <1>0, <1>a, SamePopup, PopupChanges DEF ProbeFetch, ProbeMark, ProbeNoCreds,
     ProbeClearsStop, ProbeSeeks, ProbeSpawns, ProbeType
<1>5. WorkerType'
  <2>1. probe.gen \in Nat
    BY <1>a DEF ProbeType
  <2>2. generation' \in {generation, generation + 1}
    BY <1>0 DEF ProbeFetch, ProbeMark, ProbeNoCreds, ProbeClearsStop,
       ProbeSeeks, ProbeSpawns, TakeSeek
  <2>3. stop' = stop \/ stop' = FALSE
    BY <1>0 DEF ProbeFetch, ProbeMark, ProbeNoCreds, ProbeClearsStop,
       ProbeSeeks, ProbeSpawns
  <2>4. thread' \in {thread, probe.gen}
    BY <1>0 DEF ProbeFetch, ProbeMark, ProbeNoCreds, ProbeClearsStop,
       ProbeSeeks, ProbeSpawns, Spawn
  <2>5. generation' \in Nat /\ thread' \in Nat
    BY <2>1, <2>2, <2>4, <1>a DEF WorkerType
  <2>6. stop' \in BOOLEAN
    BY <2>3, <1>a DEF WorkerType
  <2> QED BY <2>5, <2>6, <1>1, <1>a DEF WorkerType, notProbe
<1>6. ProbeType'
  <2> USE DEF ProbeType, ProbePC, NoProbe
  <2>0. NoProbe \in [at: ProbePC, agent: Agents \cup {NoAgent}, turn: 0..MaxTurns,
                     gen: Nat]
    BY TurnStreamAssumption
  <2>1. CASE ProbeFetch
    <3>1. probe.agent \in Agents
      BY <2>1 DEF ProbeFetch, HasTarget
    <3> QED BY <2>0, <2>1, <3>1, <1>a DEF ProbeFetch, EnvType
  <2>2. CASE ProbeMark
    <3>1. \/ probe' = NoProbe
          \/ \E next \in {"clear", "nocreds"} : probe' = [probe EXCEPT !.at = next]
      BY <2>2, Zenon DEF ProbeMark, CredsLoaded
    <3> QED BY <2>0, <3>1, <1>a
  <2>3. CASE ProbeNoCreds    BY <2>0, <2>3 DEF ProbeNoCreds
  <2>4. CASE ProbeClearsStop BY <2>4, <1>a DEF ProbeClearsStop
  <2>5. CASE ProbeSeeks
    <3>1. \/ probe' = NoProbe
          \/ probe' = [probe EXCEPT !.at = "spawn", !.gen = generation + 1]
      BY <2>5, Zenon DEF ProbeSeeks
    <3>2. generation + 1 \in Nat
      BY <1>a DEF WorkerType
    <3> QED BY <2>0, <3>1, <3>2, <1>a
  <2>6. CASE ProbeSpawns     BY <2>0, <2>6 DEF ProbeSpawns
  <2> QED BY <1>0, <2>1, <2>2, <2>3, <2>4, <2>5, <2>6
<1>7. MarksType'
  <2>1. CASE ProbeMark
    <3>1. probe.agent \in Agents
      BY <2>1 DEF ProbeMark, HasTarget
    <3>2. CASE UNCHANGED seenTurns
      BY <3>2, <1>1, <1>a, SameMarks DEF notProbe, marks
    <3>3. CASE seenTurns' = seenTurns \cup {<<probe.agent, probe.turn>>}
      <4>1. <<probe.agent, probe.turn>> \in TurnKey
        BY <2>1, <3>1 DEF ProbeMark, HasTarget, TurnKey
      <4> QED BY <3>3, <4>1, <1>1, <1>a DEF MarksType, notProbe
    <3> QED BY <2>1, <3>2, <3>3 DEF ProbeMark
  <2>2. CASE ~ProbeMark
    BY <2>2, <1>0, <1>1, <1>a, SameMarks DEF ProbeFetch, ProbeNoCreds,
       ProbeClearsStop, ProbeSeeks, ProbeSpawns, notProbe, marks
  <2> QED BY <2>1, <2>2
<1> QED BY <1>2, <1>3, <1>4, <1>5, <1>6, <1>7, TypeParts

\* The tick: nothing of the workers, the marks or Broca's turns changes but the
\* thread TickSeeks spawns.
LEMMA TickType ==
  ASSUME TypeOK, TickAny \/ UIStep PROVE Parts'
<1> USE DEF Parts
<1>a. Parts
  BY TypeParts
<1>1. ASSUME NEW sel \in Agents \cup {NoAgent}, TickReads(sel) PROVE Parts'
  <2>1. UNCHANGED <<marks, poller, turns, modes, popup, pending, generation, stop,
                    thread, cooldown, workers, probe, edges>> /\ selAgent' = sel
    BY <1>1 DEF TickReads, notUI
  <2>2. UIType'
    <3>1. BusyNow \in BOOLEAN
      BY DEF BusyNow
    <3>2. (IF follow THEN agent ELSE NoAgent) \in Agents \cup {NoAgent}
      BY <1>a DEF PopupType
    <3>3. \/ UNCHANGED <<ui, uiFor, tick>>
          \/ UIAt("expire", NoAgent) /\ UNCHANGED tick
          \/ /\ UIAt("observe", NoAgent)
             /\ tick' = [busy |-> BusyNow, linger |-> status = "linger",
                         agent |-> IF follow THEN agent ELSE NoAgent]
      BY <1>1, Zenon DEF TickReads
    <3>4. tick' \in [busy: BOOLEAN, linger: BOOLEAN, agent: Agents \cup {NoAgent}]
      <4>1. (status = "linger") \in BOOLEAN
        OBVIOUS
      <4>2. [busy |-> BusyNow, linger |-> status = "linger",
             agent |-> IF follow THEN agent ELSE NoAgent]
              \in [busy: BOOLEAN, linger: BOOLEAN, agent: Agents \cup {NoAgent}]
        BY <3>1, <3>2, <4>1, TickCopy, Zenon
      <4>3. CASE UNCHANGED tick
        BY <4>3, <1>a DEF UIType
      <4> QED BY <3>3, <4>2, <4>3, Zenon
    <3>5. ui' \in UIPC /\ uiFor' \in Agents \cup {NoAgent}
      BY <3>3, <1>a DEF UIType, UIAt, UIPC
    <3> QED BY <3>4, <3>5 DEF UIType
  <2>3. WorkerType'
    BY <2>1, <1>a DEF WorkerType
  <2> QED BY <2>1, <2>2, <2>3, <1>a, TypeParts, SameModes, SamePopup, SameMarks,
             SameThreads, SameProbe, SameEnv
<1>2. CASE TickExpires
  <2>1. UNCHANGED <<marks, poller, turns, modes, pending, generation, stop, thread,
                    selAgent, workers, probe>> /\ edges' = {}
    BY <1>2 DEF TickExpires, notUI
  <2>2. PopupType'
    BY <1>2, <1>a, PopupChanges DEF TickExpires, Status
  <2>3. WorkerType'
    BY <1>2, <2>1, <1>a DEF TickExpires, WorkerType
  <2>4. UIType'
    BY <1>2 DEF TickExpires, UIDone, UIAt, NoTick, UIType, UIPC
  <2>5. EnvType'
    BY <2>1, <1>a DEF EnvType
  <2> QED BY <2>1, <2>2, <2>3, <2>4, <2>5, <1>a, TypeParts, SameModes, SameMarks,
             SameThreads, SameProbe
<1>3. CASE TickSelected
  <2>1. UNCHANGED <<marks, poller, turns, modes, generation, stop, thread, selAgent,
                    cooldown, workers>> /\ edges' = {}
    BY <1>3 DEF TickSelected, notUI
  <2>2. PopupType'
    BY <1>3, <1>a, SamePopup, PopupChanges DEF TickSelected, MaybeYield, PopupType, Status
  <2>3. pending' \subseteq Agents
    BY <1>3, <1>a DEF TickSelected, Started, WorkerType, EnvType
  <2>4. WorkerType'
    BY <2>1, <2>3, <1>a DEF WorkerType
  <2>5. UIType'
    <3>1. tick' = NoTick
      BY <1>3, Zenon DEF TickSelected, UIDone
    <3>2. UIAt("seek", selAgent) \/ UIAt("idle", NoAgent)
      BY <1>3, Zenon DEF TickSelected, UIDone
    <3> QED BY <3>1, <3>2, <1>a, FreshTick DEF UIAt, UIPC, WorkerType
  <2>6. ProbeType'
    <3>1. \/ probe' = probe
          \/ probe' = [NoProbe EXCEPT !.at = "fetch", !.agent = selAgent]
      BY <1>3, Zenon DEF TickSelected, StartProbe
    <3> QED BY <3>1, <1>a, FreshProbe DEF ProbeType, WorkerType
  <2>7. EnvType'
    BY <2>1, <1>a DEF EnvType
  <2> QED BY <2>1, <2>2, <2>4, <2>5, <2>6, <2>7, <1>a, TypeParts, SameModes, SameMarks,
             SameThreads
<1>4. CASE TickFollow
  <2>1. UNCHANGED <<marks, poller, turns, modes, thread, selAgent, cooldown, workers>>
        /\ edges' = {}
    BY <1>4 DEF TickFollow, notUI
  <2>2. PopupType'
    BY <1>4, <1>a, SamePopup, PopupChanges DEF TickFollow, MaybeYield, PopupType, Status
  <2>3. pending' \subseteq Agents
    BY <1>4, <1>a DEF TickFollow, WorkerType
  <2>4. generation' \in Nat
    <3>1. generation' \in {generation, generation + 1}
      BY <1>4, Zenon DEF TickFollow
    <3> QED BY <3>1, <1>a DEF WorkerType
  <2>5. stop' \in BOOLEAN
    BY <1>4, <1>a DEF TickFollow, WorkerType
  <2>6. WorkerType'
    BY <2>1, <2>3, <2>4, <2>5, <1>a DEF WorkerType
  <2>7. UIType'
    <3>1. Targets \subseteq Agents
      BY <1>a DEF Targets, Started, EnvType
    <3>2. ui' \in UIPC /\ uiFor' \in Agents \cup {NoAgent} /\ tick' = NoTick
      BY <1>4, <3>1 DEF TickFollow, UIDone, UIAt, UIPC
    <3> QED BY <3>2 DEF UIType, NoTick
  <2>8. ProbeType'
    <3>1. \/ probe' = probe
          \/ probe' = [NoProbe EXCEPT !.at = "fetch", !.agent = selAgent]
      BY <1>4, Zenon DEF TickFollow, StartProbe
    <3> QED BY <3>1, <1>a, FreshProbe DEF ProbeType, WorkerType
  <2>9. EnvType'
    BY <2>1, <1>a DEF EnvType
  <2> QED BY <2>1, <2>2, <2>6, <2>7, <2>8, <2>9, <1>a, TypeParts, SameModes, SameMarks,
             SameThreads
<1>5. CASE TickSeeks
  <2>1. UNCHANGED <<marks, poller, turns, modes, pending, selAgent, cooldown, probe,
                    edges>>
    BY <1>5 DEF TickSeeks, notUI
  <2>2. PopupType'
    BY <1>5, <1>a, SamePopup, PopupChanges DEF TickSeeks, UIType
  <2>3. \/ UNCHANGED <<generation, thread, workers>>
        \/ generation' = generation + 1 /\ Spawn(generation + 1, uiFor)
    BY <1>5, Zenon DEF TickSeeks, TakeSeek
  <2>4. generation' \in Nat /\ thread' \in Nat
    BY <2>3, <1>a DEF WorkerType, Spawn
  <2>5. stop' \in BOOLEAN
    BY <1>5, <1>a DEF TickSeeks, WorkerType
  <2>6. WorkerType'
    BY <2>1, <2>4, <2>5, <1>a DEF WorkerType
  <2>7. ThreadsType'
    BY <2>1, <2>3, <1>a DEF ThreadsType, Spawn, UIType, WorkerPC, workers
  <2>8. UIType'
    BY <1>5 DEF TickSeeks, UIDone, UIAt, NoTick, UIType, UIPC
  <2> QED BY <2>1, <2>2, <2>6, <2>7, <2>8, <1>a, TypeParts, SameModes, SameMarks,
             SameProbe, SameEnv
<1>6. CASE Joined
  <2>1. UNCHANGED <<marks, poller, turns, modes, popup, pending, generation, stop,
                    thread, selAgent, cooldown, workers, probe, edges>>
    BY <1>6 DEF Joined, notUI
  <2>2. UIType'
    BY <1>6 DEF Joined, UIDone, UIAt, NoTick, UIType, UIPC
  <2>3. WorkerType'
    BY <2>1, <1>a DEF WorkerType
  <2> QED BY <2>1, <2>2, <2>3, <1>a, TypeParts, SameModes, SamePopup, SameMarks,
             SameThreads, SameProbe, SameEnv
<1> QED BY <1>1, <1>2, <1>3, <1>4, <1>5, <1>6 DEF TickAny, UIStep

LEMMA ToggleType ==
  ASSUME TypeOK, Shutdown \/ \E key \in Keys \cap {"t", "f"} : Press(key) PROVE Parts'
<1> USE DEF Parts
<1>a. Parts
  BY TypeParts
<1>0. UNCHANGED <<marks, poller, turns, thread, selAgent, cooldown, workers, probe, edges>>
  BY DEF Shutdown, Press, notUI
<1>1. MarksType' /\ ThreadsType' /\ ProbeType' /\ EnvType'
  BY <1>0, <1>a, SameMarks, SameThreads, SameProbe, SameEnv
<1>p. presses' \in 0..MaxToggles
  BY <1>a, TurnStreamAssumption DEF Shutdown, Press, ModesType
<1>2. ASSUME NEW to \in UIPC, Disable(to) PROVE Parts'
  <2>1. ModesType'
    BY <1>2, <1>p DEF Disable, ModesType
  <2>2. PopupType'
    BY <1>2, <1>a, PopupChanges DEF Disable, PopupType, Status
  <2>3. generation' \in Nat
    BY <1>2, <1>a DEF Disable, WorkerType
  <2>4. WorkerType'
    BY <1>0, <1>2, <2>3, <1>a DEF Disable, WorkerType
  <2>5. UIType'
    BY <1>2, FreshTick DEF Disable, UIAt
  <2> QED BY <1>1, <2>1, <2>2, <2>4, <2>5
<1>3. ASSUME NEW f \in BOOLEAN, Enable(f) PROVE Parts'
  <2>1. ModesType'
    BY <1>3, <1>p DEF Enable, ModesType
  <2>2. PopupType'
    BY <1>3, <1>a, SamePopup, PopupChanges DEF Enable, PopupType, Status
  <2>3. generation' \in Nat
    BY <1>3, <1>a DEF Enable, WorkerType
  <2>4. WorkerType'
    BY <1>0, <1>3, <2>3, <1>a DEF Enable, WorkerType
  <2>5. UIType'
    BY <1>3, <1>a, SameUI DEF Enable
  <2> QED BY <1>1, <2>1, <2>2, <2>4, <2>5
<1>4. CASE Shutdown
  BY <1>2, <1>4 DEF Shutdown, UIPC
<1>5. ASSUME NEW key \in Keys \cap {"t", "f"}, Press(key) PROVE Parts'
  <2>1. Disable("join") \/ Enable(key = "f")
    BY <1>5, Zenon DEF Press
  <2>2. "join" \in UIPC /\ (key = "f") \in BOOLEAN
    BY DEF UIPC
  <2> QED BY <2>1, <2>2, <1>2, <1>3
<1> QED BY <1>4, <1>5

LEMMA BrocaType ==
  ASSUME TypeOK,
         LingerElapses \/ \E a \in Agents : TurnBegins(a) \/ CooldownElapses(a)
  PROVE  Parts'
<1> USE DEF Parts
<1>a. Parts
  BY TypeParts
<1>0. UNCHANGED <<modes, pending, generation, stop, thread, selAgent, marks, workers,
                  poller, probe, ui, uiFor, tick>>
  BY DEF LingerElapses, TurnBegins, CooldownElapses, notEnv
<1>1. ModesType' /\ MarksType' /\ ThreadsType' /\ ProbeType' /\ UIType'
  BY <1>0, <1>a, SameModes, SameMarks, SameThreads, SameProbe, SameUI
<1>2. PopupType'
  BY <1>a DEF LingerElapses, TurnBegins, CooldownElapses, notEnv, PopupType
<1>3. WorkerType'
  BY <1>0, <1>a DEF LingerElapses, TurnBegins, CooldownElapses, WorkerType
<1>4. EnvType'
  <2>1. ASSUME NEW a \in Agents, TurnBegins(a) PROVE EnvType'
    <3>1. turns[a] + 1 \in 0..MaxTurns
      BY <2>1, <1>a, TurnStreamAssumption DEF TurnBegins, EnvType
    <3> QED BY <2>1, <3>1, <1>a DEF TurnBegins, EnvType
  <2>2. ASSUME UNCHANGED <<turns, edges>> PROVE EnvType'
    BY <2>2, <1>a, SameEnv
  <2> QED BY <2>1, <2>2 DEF LingerElapses, CooldownElapses
<1> QED BY <1>1, <1>2, <1>3, <1>4, TypeParts

LEMMA NextTarget ==
  ASSUME TypeOK, HasTarget, [Next]_vars PROVE HasTarget'
<1>a. Parts
  BY TypeParts
<1>1. ASSUME NEW g \in Gen, WorkerStep(g) PROVE HasTarget'
  <2>1. UNCHANGED <<ui, uiFor, probe, workFor>>
    BY <1>1 DEF WorkerStep, WorkerAdvances, SeekQuery, SeekQuits, SeekFinds, SeekFails,
       ClaimRun, EarlyQuery, StreamGoesOn, StreamEnds, PollerJoined, FinalPoll,
       Finalize, RunnerRaises, FinalStale, Die, Goto, notWorker, workers
  <2>2. \A h \in Gen : pc'[h] # "none" => pc[h] # "none"
    BY <1>1, <1>a DEF Parts, ThreadsType, WorkerStep, WorkerAdvances, SeekQuery, SeekQuits,
       SeekFinds, SeekFails, ClaimRun, EarlyQuery, StreamGoesOn, StreamEnds,
       PollerJoined, FinalPoll, Finalize, RunnerRaises, FinalStale, Die, Goto, workers
  <2> QED BY <2>1, <2>2 DEF HasTarget
<1>2. ASSUME NEW g \in Gen, PollerStep(g) PROVE HasTarget'
  BY <1>2 DEF HasTarget, PollerStep, PollQuits, PollFetches, PollQuery, PollShowsWaiting,
     PollShowsSteps, notWorker, notPoller, workers
<1>3. CASE ProbeStep
  <2> USE <1>a DEF Parts, HasTarget, notProbe, workers
  <2>1. CASE ProbeFetch
    <3>1. turns[probe.agent] \in 0..MaxTurns
      BY <2>1 DEF ProbeFetch, EnvType
    <3>2. UNCHANGED <<ui, uiFor, pc, workFor>>
      BY <2>1 DEF ProbeFetch
    <3>3. CASE probe' = NoProbe
      BY <3>2, <3>3 DEF NoProbe
    <3>4. CASE /\ probe' = [probe EXCEPT !.at = "mark", !.turn = turns[probe.agent]]
               /\ turns[probe.agent] > 0
      <4>1. probe'.agent \in Agents
        BY <2>1, <3>4 DEF ProbeFetch, ProbeType
      <4>2. probe'.turn \in 1..MaxTurns
        BY <3>1, <3>4, TurnStreamAssumption DEF ProbeType
      <4> QED BY <3>2, <4>1, <4>2
    <3> QED BY <2>1, <3>3, <3>4, Zenon DEF ProbeFetch
  <2>2. CASE ProbeMark
    <3>1. \/ probe' = NoProbe
          \/ \E next \in {"clear", "nocreds"} : probe' = [probe EXCEPT !.at = next]
      BY <2>2, Zenon DEF ProbeMark, CredsLoaded
    <3>2. UNCHANGED <<ui, uiFor, pc, workFor>>
      BY <2>2 DEF ProbeMark
    <3> QED BY <2>2, <3>1, <3>2 DEF NoProbe, ProbeType, ProbeMark
  <2>3. CASE ProbeNoCreds    BY <2>3 DEF ProbeNoCreds, NoProbe
  <2>4. CASE ProbeClearsStop BY <2>4 DEF ProbeClearsStop, ProbeType
  <2>5. CASE ProbeSeeks
    <3>1. \/ probe' = NoProbe
          \/ probe' = [probe EXCEPT !.at = "spawn", !.gen = generation + 1]
      BY <2>5, Zenon DEF ProbeSeeks
    <3>2. UNCHANGED <<ui, uiFor, pc, workFor>>
      BY <2>5 DEF ProbeSeeks
    <3>3. CASE probe' = NoProbe
      BY <3>2, <3>3 DEF NoProbe
    <3>4. CASE probe' = [probe EXCEPT !.at = "spawn", !.gen = generation + 1]
      <4>1. probe'.at = "spawn" /\ probe'.agent \in Agents
        BY <2>5, <3>4 DEF ProbeSeeks, ProbeType
      <4> QED BY <3>2, <4>1
    <3> QED BY <3>1, <3>3, <3>4
  <2>6. CASE ProbeSpawns     BY <2>6 DEF ProbeSpawns, NoProbe, Spawn, ThreadsType
  <2> QED BY <1>3, <2>1, <2>2, <2>3, <2>4, <2>5, <2>6 DEF ProbeStep
<1>4. CASE TickAny
  BY <1>4 DEF TickAny, TickReads, HasTarget, UIAt, notUI, workers
<1>5. CASE UIStep
  <2> USE <1>a DEF Parts, HasTarget, notUI, workers
  <2>1. CASE TickExpires  BY <2>1 DEF TickExpires, UIDone, UIAt
  <2>2. CASE TickSelected
    <3>1. UNCHANGED probe \/ StartProbe
      BY <2>2, Zenon DEF TickSelected
    <3>2. \/ UNCHANGED probe
          \/ probe'.at = "fetch" /\ probe'.agent \in Agents
      BY <3>1 DEF StartProbe, NoProbe, WorkerType
    <3>3. \/ UIAt("seek", selAgent) /\ selAgent \in Agents
          \/ UIAt("idle", NoAgent)
      BY <2>2 DEF TickSelected, UIDone, Started, EnvType
    <3> QED BY <2>2, <3>2, <3>3 DEF TickSelected, UIAt
  <2>3. CASE TickFollow
    <3>1. UNCHANGED probe \/ StartProbe
      BY <2>3, Zenon DEF TickFollow
    <3>2. \/ UNCHANGED probe
          \/ probe'.at = "fetch" /\ probe'.agent \in Agents
      BY <3>1 DEF StartProbe, NoProbe, WorkerType
    <3>3. Targets \subseteq Agents
      BY DEF Targets, Started, EnvType
    <3>4. uiFor' \in Agents \/ ui' = "idle"
      BY <2>3, <3>3 DEF TickFollow, UIDone, UIAt
    <3> QED BY <2>3, <3>2, <3>4 DEF TickFollow
  <2>4. CASE TickSeeks
    <3>1. \/ UNCHANGED workers
          \/ Spawn(generation + 1, uiFor) /\ uiFor \in Agents
      BY <2>4 DEF TickSeeks
    <3>2. UNCHANGED probe /\ ui' = "idle"
      BY <2>4 DEF TickSeeks, UIDone, UIAt
    <3> QED BY <3>1, <3>2 DEF Spawn, ThreadsType
  <2>5. CASE Joined       BY <2>5 DEF Joined, UIDone, UIAt
  <2> QED BY <1>5, <2>1, <2>2, <2>3, <2>4, <2>5 DEF UIStep
<1>6. ASSUME NEW key \in Keys \cap {"t", "f"}, Press(key) PROVE HasTarget'
  BY <1>6 DEF Press, Disable, Enable, HasTarget, UIAt, notUI, workers
<1>7. CASE Shutdown
  BY <1>7 DEF Shutdown, Disable, HasTarget, UIAt, notUI, workers
<1>8. CASE LingerElapses \/ \E a \in Agents : TurnBegins(a) \/ CooldownElapses(a)
  BY <1>8 DEF LingerElapses, TurnBegins, CooldownElapses, HasTarget, notEnv, workers
<1>9. CASE UNCHANGED vars
  BY <1>9 DEF vars, HasTarget, workers
<1> QED BY <1>1, <1>2, <1>3, <1>4, <1>5, <1>6, <1>7, <1>8, <1>9 DEF Next

\* What has befallen the popup is one of the four things that may.
LEMMA NextAstray == ASSUME TypeOK, Next PROVE astray' \subseteq Mishap
<1>a. astray \subseteq Mishap
  BY DEF TypeOK
<1>1. ASSUME NEW g \in Gen, WorkerStep(g) PROVE astray' = astray
  BY <1>1 DEF WorkerStep, WorkerAdvances, SeekQuery, SeekQuits, SeekFinds, SeekFails,
     ClaimRun, EarlyQuery, StreamGoesOn, StreamEnds, PollerJoined, FinalPoll,
     Finalize, RunnerRaises, FinalStale, notWorker
<1>2. ASSUME NEW g \in Gen, PollerStep(g) PROVE astray' \in {astray, astray \cup {"late"}}
  BY <1>2 DEF PollerStep, PollQuits, PollFetches, PollQuery, PollShowsWaiting,
     PollShowsSteps, Answer, notWorker
<1>3. CASE ProbeStep
  <2>1. astray' \in {astray, {}, {"stopped"}}
    BY <1>3 DEF ProbeStep, ProbeFetch, ProbeMark, ProbeNoCreds, ProbeClearsStop,
       ProbeSeeks, ProbeSpawns
  <2> QED BY <1>a, <2>1 DEF Mishap
<1>4. CASE TickAny \/ UIStep
  <2>1. astray' \in {astray, {}, astray \cup {"nocreds"}}
    BY <1>4 DEF TickAny, TickReads, UIStep, TickExpires, TickSelected, TickFollow,
       TickSeeks, Joined
  <2> QED BY <1>a, <2>1 DEF Mishap
<1>5. CASE Shutdown \/ \E key \in Keys \cap {"t", "f"} : Press(key)
  <2>1. astray' \in {astray, {}, astray \cup {"mode"}}
    BY <1>5 DEF Shutdown, Press, Disable, Enable
  <2> QED BY <1>a, <2>1 DEF Mishap
<1>6. CASE LingerElapses \/ \E a \in Agents : TurnBegins(a) \/ CooldownElapses(a)
  BY <1>a, <1>6 DEF LingerElapses, TurnBegins, CooldownElapses, notEnv
<1> QED BY <1>a, <1>1, <1>2, <1>3, <1>4, <1>5, <1>6 DEF Next, Mishap

LEMMA NextType == TypeOK /\ HasTarget /\ [Next]_vars => TypeOK'
<1> SUFFICES ASSUME TypeOK, HasTarget, [Next]_vars PROVE TypeOK'
  BY DEF vars
<1>1. CASE UNCHANGED vars
  <2>1. Parts /\ astray \subseteq Mishap
    BY TypeParts
  <2>2. WorkerType' /\ (astray \subseteq Mishap)'
    BY <1>1, <2>1 DEF vars, Parts, WorkerType
  <2>3. UNCHANGED <<modes, popup, marks, workers, poller, probe, ui, uiFor, tick,
                    turns, edges>>
    BY <1>1 DEF vars
  <2>4. /\ ModesType' /\ PopupType' /\ MarksType' /\ ThreadsType'
        /\ ProbeType' /\ UIType' /\ EnvType'
    BY <2>1, <2>3, SameModes, SamePopup, SameMarks, SameThreads, SameProbe, SameUI,
       SameEnv DEF Parts
  <2> QED BY <2>2, <2>4, TypeParts DEF Parts
<1>2. CASE Next
  BY <1>2, WorkerStepType, PollerStepType, ProbeStepType, TickType, ToggleType, BrocaType,
     NextAstray, TypeParts DEF Next
<1> QED BY <1>1, <1>2

\* Every variable keeps its type: in particular a run is remembered under an agent
\* and a turn it has, and nothing but an agent is sought, streamed or queued.
THEOREM TypeCorrect == Spec => []TypeOK
<1>1. Init => TypeOK /\ HasTarget
  BY InitType DEF Init, HasTarget, NoProbe
<1>2. TypeOK /\ HasTarget /\ [Next]_vars => (TypeOK /\ HasTarget)'
  BY NextType, NextTarget
<1> QED BY <1>1, <1>2, PTL DEF Spec

-----------------------------------------------------------------------------
(* Superseded threads are silent *)

LEMMA GenNat == \A g \in Gen : g \in Nat
BY DEF Gen

\* A worker's step is about itself, and touches the popup only while current.
LEMMA WorkerFacts ==
  ASSUME TypeOK, NEW g \in Gen, WorkerStep(g)
  PROVE  /\ UNCHANGED notWorker /\ UNCHANGED workFor
         /\ pc[g] # "none"
         /\ \A h \in Gen : h # g => pc'[h] = pc[h] /\ poller'[h] = poller[h]
         /\ poller'[g] = poller[g] \/ pc[g] = "claim"
         /\ UNCHANGED popup \/ Current(g)
<1> USE DEF SeekQuery, SeekQuits, SeekFinds, SeekFails, ClaimRun, EarlyQuery,
            StreamGoesOn, StreamEnds, PollerJoined, FinalPoll, Finalize, RunnerRaises,
            FinalStale, WorkerStep, WorkerAdvances
<1>0. pc \in [Gen -> WorkerPC] /\ poller \in [Gen -> PollerPC]
  BY DEF TypeOK
<1>1. UNCHANGED notWorker /\ UNCHANGED workFor
  BY DEF Die, Goto, workers
<1>2. pc[g] # "none"
  OBVIOUS
<1>3. \A h \in Gen : h # g => pc'[h] = pc[h] /\ poller'[h] = poller[h]
  BY <1>0 DEF Die, Goto, workers
<1>4. poller'[g] = poller[g] \/ pc[g] = "claim"
  OBVIOUS
<1>5. UNCHANGED popup \/ Current(g)
  OBVIOUS
<1> QED BY <1>1, <1>2, <1>3, <1>4, <1>5

LEMMA PollerFacts ==
  ASSUME TypeOK, NEW g \in Gen, PollerStep(g)
  PROVE  /\ UNCHANGED notPoller /\ poller[g] # "none"
         /\ \A h \in Gen : h # g => poller'[h] = poller[h]
         /\ \/ UNCHANGED <<popup, astray>>
            \/ /\ Current(g)
               /\ Waiting("streaming", workFor[g], TRUE) \/ Apply(workFor[g])
               /\ astray' = IF Alive(g) THEN astray ELSE astray \cup {"late"}
<1> USE DEF PollerStep, PollQuits, PollFetches, PollQuery, PollShowsWaiting,
            PollShowsSteps, PollerAt
<1>0. poller \in [Gen -> PollerPC]
  BY DEF TypeOK
<1>1. UNCHANGED notPoller
  BY DEF notPoller, notWorker
<1>2. poller[g] # "none" /\ \A h \in Gen : h # g => poller'[h] = poller[h]
  BY <1>0
<1>3. CASE PollQuits(g) \/ PollFetches(g) \/ PollQuery(g)
  BY <1>1, <1>2, <1>3 DEF notWorker
<1>4. CASE PollShowsWaiting(g)
  BY <1>1, <1>2, <1>4, Zenon DEF Answer
<1>5. CASE PollShowsSteps(g)
  BY <1>1, <1>2, <1>5, Zenon DEF Answer
<1> QED BY <1>3, <1>4, <1>5

\* The probe touches the popup only from "guard", and the workers from "spawn".
LEMMA ProbeFacts ==
  ASSUME TypeOK, ProbeStep
  PROVE  /\ UNCHANGED notProbe
         /\ \/ UNCHANGED <<era, workers, popup>> /\ probe'.at # "spawn"
            \/ /\ MaySeek /\ TakeSeek(probe.agent, TRUE) /\ UNCHANGED <<stop, workers>>
               /\ astray' = IF stop THEN {"stopped"} ELSE {}
               /\ probe'.at = "spawn" /\ probe'.gen = generation + 1
               /\ probe'.agent = probe.agent /\ probe.at # "none"
            \/ /\ UNCHANGED <<era, popup>> /\ Spawn(probe.gen, probe.agent)
               /\ probe.at = "spawn" /\ probe'.at = "none"
<1>0. probe \in [at: ProbePC, agent: Agents \cup {NoAgent}, turn: 0..MaxTurns, gen: Nat]
  BY DEF TypeOK
<1>n. NoProbe.at = "none"
  BY DEF NoProbe
<1>1. CASE ProbeFetch
  <2>1. \/ probe' = NoProbe
        \/ probe' = [probe EXCEPT !.at = "mark", !.turn = turns[probe.agent]]
    BY <1>1, Zenon DEF ProbeFetch
  <2>2. probe'.at # "spawn"
    <3>1. CASE probe' = NoProbe
      BY <3>1, <1>n
    <3>2. ASSUME NEW n, probe' = [probe EXCEPT !.at = "mark", !.turn = n]
          PROVE  probe'.at # "spawn"
      BY <3>2, <1>0
    <3> QED BY <2>1, <3>1, <3>2
  <2>3. UNCHANGED <<notProbe, era, workers, popup>>
    BY <1>1 DEF ProbeFetch
  <2> QED BY <2>2, <2>3
<1>2. CASE ProbeMark
  <2>1. \/ probe' = NoProbe
        \/ \E next \in {"clear", "nocreds"} : probe' = [probe EXCEPT !.at = next]
    BY <1>2, Zenon DEF ProbeMark, CredsLoaded
  <2>2. probe'.at # "spawn"
    BY <2>1, <1>0 DEF NoProbe
  <2> QED BY <1>2, <2>2 DEF ProbeMark
<1>3. CASE ProbeNoCreds    BY <1>3 DEF ProbeNoCreds, NoProbe
<1>4. CASE ProbeClearsStop BY <1>0, <1>4 DEF ProbeClearsStop
<1>5. CASE ProbeSeeks
  <2>1. UNCHANGED notProbe /\ UNCHANGED <<stop, workers>>
    BY <1>5 DEF ProbeSeeks
  <2>2. CASE MaySeek
    <3>1. probe' = [probe EXCEPT !.at = "spawn", !.gen = generation + 1]
          /\ TakeSeek(probe.agent, TRUE) /\ probe.at = "guard"
          /\ astray' = IF stop THEN {"stopped"} ELSE {}
      BY <1>5, <2>2, Zenon DEF ProbeSeeks
    <3>2. probe'.at = "spawn" /\ probe'.gen = generation + 1 /\ probe'.agent = probe.agent
      BY <3>1, <1>0
    <3> QED BY <2>1, <2>2, <3>1, <3>2
  <2>3. CASE ~MaySeek
    <3>1. probe' = NoProbe /\ UNCHANGED <<popup, era>>
      BY <1>5, <2>3, Zenon DEF ProbeSeeks
    <3> QED BY <2>1, <3>1, <1>n
  <2> QED BY <2>2, <2>3
<1>6. CASE ProbeSpawns     BY <1>6 DEF ProbeSpawns, NoProbe
<1> QED BY <1>1, <1>2, <1>3, <1>4, <1>5, <1>6 DEF ProbeStep

LEMMA NextUnborn ==
  ASSUME TypeOK, Unborn, [Next]_vars PROVE Unborn'
<1> USE GenNat DEF Unborn
<1>a. /\ pc \in [Gen -> WorkerPC] /\ poller \in [Gen -> PollerPC]
      /\ generation \in Nat /\ probe.gen \in Nat
  BY DEF TypeOK
<1>0. ASSUME UNCHANGED <<workers, poller>>, probe' = probe \/ probe'.at # "spawn",
             generation' \in {generation, generation + 1}
      PROVE  Unborn'
  BY <1>0, <1>a DEF workers
<1>1. ASSUME NEW g \in Gen, WorkerStep(g) PROVE Unborn'
  <2>1. UNCHANGED <<generation, probe>>
    BY <1>1, WorkerFacts DEF notWorker
  <2>2. \A h \in Gen : pc[h] = "none" => pc'[h] = "none" /\ poller'[h] = poller[h]
    BY <1>1, WorkerFacts
  <2> QED BY <2>1, <2>2
<1>2. ASSUME NEW g \in Gen, PollerStep(g) PROVE Unborn'
  <2>1. UNCHANGED <<generation, probe>> /\ UNCHANGED workers
    BY <1>2, PollerFacts DEF notPoller
  <2>2. \A h \in Gen : poller[h] = "none" => poller'[h] = "none"
    BY <1>2, PollerFacts
  <2> QED BY <2>1, <2>2 DEF workers
<1>3. CASE ProbeStep
  <2>1. UNCHANGED poller
    BY <1>3, ProbeFacts DEF notProbe
  <2>2. CASE UNCHANGED <<era, workers, popup>> /\ probe'.at # "spawn"
    BY <2>1, <2>2, <1>0
  <2>3. CASE /\ generation' = generation + 1 /\ UNCHANGED workers
             /\ probe'.at = "spawn" /\ probe'.gen = generation + 1
    BY <2>1, <2>3, <1>a DEF workers
  <2>4. CASE /\ UNCHANGED generation /\ Spawn(probe.gen, probe.agent)
             /\ probe.at = "spawn" /\ probe'.at = "none"
    BY <2>1, <2>4, <1>a DEF Spawn
  <2> QED BY <1>3, <2>2, <2>3, <2>4, ProbeFacts DEF TakeSeek
<1>4. CASE TickAny
  BY <1>4, <1>0 DEF TickAny, TickReads, notUI
<1>5. CASE UIStep
  <2>1. CASE TickExpires  BY <2>1, <1>0 DEF TickExpires, notUI
  <2>2. CASE TickSelected
    <3>1. probe' = probe \/ probe'.at # "spawn"
      BY <2>2 DEF TickSelected, StartProbe, NoProbe
    <3> QED BY <2>2, <3>1, <1>0 DEF TickSelected, notUI
  <2>3. CASE TickFollow
    <3>1. probe' = probe \/ probe'.at # "spawn"
      BY <2>3 DEF TickFollow, StartProbe, NoProbe
    <3>2. generation' \in {generation, generation + 1}
      BY <2>3, Zenon DEF TickFollow
    <3> QED BY <2>3, <3>1, <3>2, <1>0 DEF TickFollow, notUI
  <2>4. CASE TickSeeks
    <3>1. \/ UNCHANGED <<generation, thread, workers>>
          \/ generation' = generation + 1 /\ Spawn(generation + 1, uiFor)
      BY <2>4, Zenon DEF TickSeeks, TakeSeek
    <3>2. UNCHANGED <<poller, probe>>
      BY <2>4 DEF TickSeeks, notUI
    <3> QED BY <3>1, <3>2, <1>0, <1>a DEF Spawn
  <2>5. CASE Joined       BY <2>5, <1>0 DEF Joined, notUI
  <2> QED BY <1>5, <2>1, <2>2, <2>3, <2>4, <2>5 DEF UIStep
<1>6. CASE Shutdown \/ \E key \in Keys \cap {"t", "f"} : Press(key)
  <2>1. generation' = generation + 1
    BY <1>6, Zenon DEF Shutdown, Press, Disable, Enable
  <2> QED BY <1>6, <2>1, <1>0 DEF Press, Shutdown, notUI
<1>7. CASE LingerElapses \/ \E a \in Agents : TurnBegins(a) \/ CooldownElapses(a)
  BY <1>7, <1>0 DEF LingerElapses, TurnBegins, CooldownElapses, notEnv
<1>8. CASE UNCHANGED vars
  BY <1>8, <1>0 DEF vars
<1> QED BY <1>1, <1>2, <1>3, <1>4, <1>5, <1>6, <1>7, <1>8 DEF Next

LEMMA NextQuiet ==
  ASSUME TypeOK, TickEnabled, OffIsQuiet, [Next]_vars PROVE (TickEnabled /\ OffIsQuiet)'
<1> USE DEF TickEnabled, OffIsQuiet
<1>1. ASSUME NEW g \in Gen, WorkerStep(g) PROVE (TickEnabled /\ OffIsQuiet)'
  BY <1>1, WorkerFacts DEF notWorker, modes, popup, Current
<1>2. ASSUME NEW g \in Gen, PollerStep(g) PROVE (TickEnabled /\ OffIsQuiet)'
  BY <1>2, PollerFacts DEF notPoller, modes, popup, Current
<1>3. CASE ProbeStep
  <2>1. UNCHANGED <<modes, pending, ui>>
    BY <1>3, ProbeFacts DEF notProbe
  <2>2. CASE MaySeek
    BY <2>1, <2>2 DEF MaySeek, modes
  <2>3. CASE UNCHANGED popup
    BY <2>1, <2>3 DEF modes, popup
  <2> QED BY <1>3, <2>2, <2>3, ProbeFacts
<1>4. CASE TickAny
  BY <1>4 DEF TickAny, TickReads, UIAt, modes, popup
<1>5. CASE UIStep
  <2>1. CASE Joined
    BY <2>1 DEF Joined, UIDone, UIAt, modes, popup
  <2>2. CASE ~Joined
    <3>1. enabled /\ UNCHANGED modes
      BY <1>5, <2>2 DEF UIStep, TickExpires, TickSelected, TickFollow, TickSeeks
    <3> QED BY <3>1 DEF modes
  <2> QED BY <2>1, <2>2
<1>6. CASE Shutdown \/ \E key \in Keys \cap {"t", "f"} : Press(key)
  BY <1>6 DEF Shutdown, Press, Disable, Enable, Blank, UIAt
<1>7. CASE LingerElapses \/ \E a \in Agents : TurnBegins(a) \/ CooldownElapses(a)
  BY <1>7 DEF LingerElapses, TurnBegins, CooldownElapses, notEnv, modes
<1>8. CASE UNCHANGED vars
  BY <1>8 DEF vars, modes, popup
<1> QED BY <1>1, <1>2, <1>3, <1>4, <1>5, <1>6, <1>7, <1>8 DEF Next

\* What holds whatever the files and the network answer.
LEMMA QuietInductive ==
  /\ Init => Quiet
  /\ Quiet /\ [Next]_vars => Quiet'
<1>1. Init => Unborn /\ TickEnabled /\ OffIsQuiet /\ HasTarget
  BY DEF Init, Unborn, TickEnabled, OffIsQuiet, HasTarget, NoProbe
<1> QED BY <1>1, InitType, NextType, NextTarget, NextUnborn, NextQuiet DEF Quiet

\* "any | disable / quit | off": once the mode is off nothing shows, although the
\* join that follows is bounded and workers, pollers and the probe run on.
THEOREM OffStaysQuiet == Spec => []OffIsQuiet
<1>1. Quiet => OffIsQuiet
  BY DEF Quiet
<1> QED BY <1>1, QuietInductive, PTL DEF Spec

\* "Turn worker writes only when generation is current and enabled": no step of a
\* superseded worker or poller changes the popup, wherever in its work it is.
THEOREM StaleStaysSilent == Spec => StaleIsSilent
<1>1. Quiet /\ [Next]_vars =>
        [\A g \in Gen : (~enabled \/ g # generation) /\ (WorkerStep(g) \/ PollerStep(g))
                          => UNCHANGED popup]_vars
  BY WorkerFacts, PollerFacts DEF Quiet, Current
<1> QED BY <1>1, QuietInductive, PTL DEF Spec, StaleIsSilent

-----------------------------------------------------------------------------
(* Who may end a turn                                                        *)

\* What a thread writes is a turn sought or streamed, or one that lingers from now on,
\* or a note in place of the waiting panel; never another agent.
LEMMA ThreadWrites ==
  ASSUME TypeOK, NEW g \in Gen, WorkerStep(g) \/ PollerStep(g)
  PROVE  /\ UNCHANGED modes /\ agent' = agent
         /\ \/ UNCHANGED popup
            \/ status' \in {"seeking", "streaming"} /\ lingering' = lingering
            \/ status' \in {"linger", "error"} /\ lingering'
            \/ UNCHANGED <<status, lingering>> /\ text = "waiting"
<1>0. UNCHANGED modes
  BY WorkerFacts, PollerFacts DEF notWorker, notPoller
<1>1. CASE UNCHANGED popup
  BY <1>0, <1>1 DEF popup
<1>2. CASE WorkerStep(g) /\ ~UNCHANGED popup
  <2>1. SeekQuery(g) \/ SeekFails(g) \/ ClaimRun(g) \/ EarlyQuery(g) \/ StreamGoesOn(g)
        \/ StreamEnds(g) \/ FinalPoll(g) \/ Finalize(g) \/ RunnerRaises(g)
    BY <1>2 DEF WorkerStep, WorkerAdvances, SeekQuits, SeekFinds, PollerJoined, FinalStale
  <2> USE <1>0 DEF Waiting, Linger, Apply, popup
  <2>2. CASE SeekQuery(g)     BY <2>2 DEF SeekQuery
  <2>3. CASE SeekFails(g)     BY <2>3 DEF SeekFails
  <2>4. CASE ClaimRun(g)      BY <1>2, <2>4 DEF ClaimRun
  <2>5. CASE EarlyQuery(g)    BY <2>5 DEF EarlyQuery
  <2>6. CASE StreamGoesOn(g)  BY <1>2, <2>6 DEF StreamGoesOn
  <2>7. CASE StreamEnds(g)    BY <1>2, <2>7 DEF StreamEnds, Show
  <2>8. CASE FinalPoll(g)     BY <1>2, <2>8 DEF FinalPoll
  <2>9. CASE Finalize(g)      BY <2>9 DEF Finalize
  <2>10. CASE RunnerRaises(g) BY <2>10 DEF RunnerRaises
  <2> QED BY <2>1, <2>2, <2>3, <2>4, <2>5, <2>6, <2>7, <2>8, <2>9, <2>10
<1>3. CASE PollerStep(g) /\ ~UNCHANGED popup
  <2>1. Waiting("streaming", workFor[g], TRUE) \/ Apply(workFor[g])
    BY <1>3, PollerFacts
  <2> QED BY <1>0, <1>3, <2>1 DEF Waiting, Apply
<1> QED BY <1>1, <1>2, <1>3

LEMMA NextPollerAfter ==
  ASSUME Quiet, PollerAfter, [Next]_vars PROVE PollerAfter'
<1>a. /\ pc \in [Gen -> WorkerPC] /\ poller \in [Gen -> PollerPC] /\ generation \in Nat
      /\ TypeOK
  BY DEF Quiet, TypeOK
<1>1. ASSUME NEW g \in Gen, WorkerStep(g) PROVE PollerAfter'
  <2>1. \A h \in Gen : h # g => pc'[h] = pc[h] /\ poller'[h] = poller[h]
    BY <1>1, <1>a, WorkerFacts
  <2>2. poller'[g] # "none" => pc'[g] \notin {"seek", "claim"}
    BY <1>1, <1>a DEF PollerAfter, WorkerStep, WorkerAdvances, SeekQuery, SeekQuits, SeekFinds,
       SeekFails, ClaimRun, EarlyQuery, StreamGoesOn, StreamEnds, PollerJoined, FinalPoll,
       Finalize, RunnerRaises, FinalStale, Die, Goto, workers
  <2> QED BY <2>1, <2>2 DEF PollerAfter
<1>2. ASSUME NEW g \in Gen, PollerStep(g) PROVE PollerAfter'
  BY <1>2, <1>a, PollerFacts DEF PollerAfter, notPoller, workers
<1>3. ASSUME UNCHANGED poller, NEW h \in Nat, NEW a, Spawn(h, a),
             h \in Gen => poller[h] = "none"
      PROVE  PollerAfter'
  BY <1>3, <1>a DEF Spawn, PollerAfter
<1>4. ASSUME UNCHANGED <<poller, workers>> PROVE PollerAfter'
  BY <1>4 DEF PollerAfter, workers
<1>5. CASE ProbeStep
  <2>1. UNCHANGED poller /\ probe.gen \in Nat
    BY <1>5, <1>a, ProbeFacts DEF notProbe, TypeOK
  <2>2. UNCHANGED workers \/ (Spawn(probe.gen, probe.agent) /\ probe.at = "spawn")
    BY <1>5, <1>a, ProbeFacts
  <2> QED BY <1>3, <1>4, <2>1, <2>2 DEF Quiet, Unborn
<1>6. CASE TickAny
  BY <1>4, <1>6 DEF TickAny, TickReads, notUI
<1>7. CASE UIStep
  <2>1. UNCHANGED poller
    BY <1>7 DEF UIStep, TickExpires, TickSelected, TickFollow, TickSeeks, Joined, notUI
  <2>2. UNCHANGED workers \/ Spawn(generation + 1, uiFor)
    BY <1>7 DEF UIStep, TickExpires, TickSelected, TickFollow, TickSeeks, Joined
  <2>3. generation + 1 \in Gen => poller[generation + 1] = "none"
    BY <1>a DEF Quiet, Unborn
  <2> QED BY <1>3, <1>4, <1>a, <2>1, <2>2, <2>3
<1>8. CASE Shutdown \/ \E key \in Keys \cap {"t", "f"} : Press(key)
  BY <1>4, <1>8 DEF Shutdown, Press, notUI
<1>9. CASE LingerElapses \/ \E a \in Agents : TurnBegins(a) \/ CooldownElapses(a)
  BY <1>4, <1>9 DEF LingerElapses, TurnBegins, CooldownElapses, notEnv
<1>10. CASE UNCHANGED vars
  BY <1>4, <1>10 DEF vars
<1> QED BY <1>1, <1>2, <1>5, <1>6, <1>7, <1>8, <1>9, <1>10 DEF Next

LEMMA NextStatusTells ==
  ASSUME Quiet, StatusTells, TickKnows, [Next]_vars PROVE (StatusTells /\ TickKnows)'
<1> USE DEF StatusTells, TickKnows
<1>a. TypeOK /\ OffIsQuiet /\ TickEnabled
  BY DEF Quiet
<1>1. ASSUME NEW g \in Gen, WorkerStep(g) \/ PollerStep(g) PROVE (StatusTells /\ TickKnows)'
  <2>1. UNCHANGED <<enabled, ui, tick>>
    BY <1>1, <1>a, WorkerFacts, PollerFacts DEF notWorker, notPoller, modes
  <2>2. enabled \/ UNCHANGED <<astray, popup>>
    BY <1>1, <1>a, WorkerFacts, PollerFacts DEF notWorker, Current
  <2>3. CASE UNCHANGED popup
    BY <2>1, <2>2, <2>3 DEF popup
  <2>4. CASE ~UNCHANGED popup
    <3>1. \/ status' \in {"seeking", "streaming"} /\ lingering' = lingering
          \/ status' \in {"linger", "error"} /\ lingering'
          \/ UNCHANGED <<status, lingering>> /\ text = "waiting"
      BY <1>1, <1>a, <2>4, ThreadWrites
    <3> QED BY <2>1, <2>2, <2>4, <3>1
  <2> QED BY <2>3, <2>4
<1>2. CASE ProbeStep
  <2>1. UNCHANGED <<enabled, ui, tick>>
    BY <1>2, <1>a, ProbeFacts DEF notProbe, modes
  <2>2. UNCHANGED <<popup, astray>> \/ (MaySeek /\ TakeSeek(probe.agent, TRUE))
    BY <1>2, <1>a, ProbeFacts
  <2>3. CASE UNCHANGED <<popup, astray>>
    BY <2>1, <2>3 DEF popup
  <2>4. CASE MaySeek /\ TakeSeek(probe.agent, TRUE)
    BY <2>1, <2>4, <1>a DEF MaySeek, TakeSeek, OffIsQuiet
  <2> QED BY <2>2, <2>3, <2>4
<1>3. CASE TickAny
  <2>1. PICK sel \in Agents \cup {NoAgent} : TickReads(sel)
    BY <1>3 DEF TickAny
  <2>2. UNCHANGED <<modes, popup, astray>> /\ ui = "idle"
    BY <2>1 DEF TickReads
  <2>3. ui' = "observe" => tick'.linger = (status = "linger")
    BY <2>1 DEF TickReads, UIAt
  <2>4. ui' = "expire" => lingering
    BY <2>1 DEF TickReads, UIAt
  <2> QED BY <2>2, <2>3, <2>4 DEF modes, popup
<1>4. CASE Joined
  BY <1>4 DEF Joined, UIDone, UIAt, modes, popup
<1>5. CASE UIStep /\ ~Joined
  <2>1. enabled /\ enabled' /\ ui' \notin {"expire", "observe"}
    BY <1>5, <1>a DEF UIStep, TickExpires, TickSelected, TickFollow, TickSeeks, TickEnabled,
       UIDone, UIAt, modes
  <2>2. UNCHANGED popup \/ (\E name : Blank("idle", name)) \/ ShowNoCreds(uiFor)
        \/ TakeSeek(uiFor, FALSE)
    BY <1>5 DEF UIStep, TickExpires, TickSelected, TickFollow, TickSeeks, MaybeYield
  <2> QED BY <2>1, <2>2 DEF popup, Blank, ShowNoCreds, TakeSeek
<1>6. CASE Shutdown \/ \E key \in Keys \cap {"t", "f"} : Press(key)
  <2>1. ASSUME NEW to \in {"join", "gone"}, Disable(to) PROVE (StatusTells /\ TickKnows)'
    BY <2>1 DEF Disable, Blank, UIAt
  <2>2. ASSUME NEW f \in BOOLEAN, Enable(f), ui = "idle" PROVE (StatusTells /\ TickKnows)'
    BY <2>2 DEF Enable, Blank, popup
  <2>3. ASSUME NEW key, Press(key) PROVE (StatusTells /\ TickKnows)'
    <3>1. ui = "idle" /\ (Disable("join") \/ Enable(key = "f"))
      BY <2>3, Zenon DEF Press
    <3>2. (key = "f") \in BOOLEAN
      OBVIOUS
    <3> QED BY <2>1, <2>2, <3>1, <3>2
  <2> QED BY <1>6, <2>1, <2>3 DEF Shutdown
<1>7. CASE LingerElapses \/ \E a \in Agents : TurnBegins(a) \/ CooldownElapses(a)
  BY <1>7 DEF LingerElapses, TurnBegins, CooldownElapses, notEnv, modes
<1>8. CASE UNCHANGED vars
  BY <1>8 DEF vars, modes, popup
<1> QED BY <1>1, <1>2, <1>3, <1>4, <1>5, <1>6, <1>7, <1>8 DEF Next

LEMMA ToldInductive ==
  /\ Init => Quiet /\ Told
  /\ Quiet /\ Told /\ [Next]_vars => (Quiet /\ Told)'
<1>1. Init => Told
  BY DEF Init, Told, PollerAfter, StatusTells, TickKnows
<1> QED BY <1>1, QuietInductive, NextPollerAfter, NextStatusTells DEF Told

\* A tick acts on what it read some time ago.  In selected mode it takes the popup
\* from a turn that is sought or streamed only when it finds no credentials.
LEMMA StepFocused ==
  ASSUME Quiet, Told, [Next]_vars, Focused, ~follow'
  PROVE  \/ agent' = agent /\ status' # "idle"
         \/ TickSeeks /\ status' = "error" /\ agent' = uiFor
<1>0. TypeOK /\ ~follow /\ ~lingering /\ status \in {"seeking", "streaming"}
  BY DEF Quiet, Focused
<1>1. ASSUME UNCHANGED <<agent, status>> PROVE agent' = agent /\ status' # "idle"
  BY <1>0, <1>1
<1>2. ASSUME NEW g \in Gen, WorkerStep(g) \/ PollerStep(g) PROVE agent' = agent /\ status' # "idle"
  BY <1>0, <1>1, <1>2, ThreadWrites DEF popup
<1>3. CASE ProbeStep
  BY <1>0, <1>1, <1>3, ProbeFacts DEF popup, MaySeek
<1>4. CASE TickAny
  BY <1>1, <1>4 DEF TickAny, TickReads, popup
<1>5. CASE UIStep
  <2>1. ~TickExpires
    BY <1>0 DEF TickExpires, Told, TickKnows
  <2>2. TickSelected => UNCHANGED popup
    BY <1>0 DEF TickSelected, MaybeYield, Yields, Told, TickKnows
  <2>3. ~TickFollow
    BY <1>0 DEF TickFollow
  <2>4. CASE TickSeeks
    <3>1. UNCHANGED popup \/ ShowNoCreds(uiFor)
      BY <1>0, <2>4, Zenon DEF TickSeeks, MaySeek
    <3> QED BY <1>1, <2>4, <3>1 DEF popup, ShowNoCreds
  <2>5. Joined => UNCHANGED popup
    BY DEF Joined
  <2> QED BY <1>1, <1>5, <2>1, <2>2, <2>3, <2>4, <2>5 DEF UIStep, popup
<1>6. CASE Shutdown \/ \E key \in Keys \cap {"t", "f"} : Press(key)
  <2>1. enabled
    BY <1>0 DEF Quiet, OffIsQuiet
  <2>2. (\E to : Disable(to)) \/ (\E f : Enable(f))
    BY <1>6, Zenon DEF Shutdown, Press
  <2> QED BY <1>1, <2>1, <2>2 DEF Disable, Enable, Blank, popup
<1>7. CASE LingerElapses \/ \E a \in Agents : TurnBegins(a) \/ CooldownElapses(a)
  BY <1>1, <1>7 DEF LingerElapses, TurnBegins, CooldownElapses, notEnv
<1>8. CASE UNCHANGED vars
  BY <1>1, <1>8 DEF vars, popup
<1> QED BY <1>2, <1>3, <1>4, <1>5, <1>6, <1>7, <1>8 DEF Next

\* "never interrupt an in-flight focused turn", but for missing credentials: whatever
\* a probe, a late thread or a key did since the tick looked.
THEOREM FocusedTurnStays == Spec => NeverInterrupted
<1>1. Quiet /\ Told /\ [Next]_vars =>
        [(Focused /\ ~follow') =>
           \/ agent' = agent /\ status' # "idle"
           \/ TickSeeks /\ status' = "error" /\ agent' = uiFor]_vars
  BY StepFocused
<1> QED BY <1>1, ToldInductive, PTL DEF Spec, NeverInterrupted
-----------------------------------------------------------------------------
(* Who drives the popup until it goes astray                                 *)

\* Nobody drives a popup that lingers or is idle; who drives it is alone.
LEMMA Driver ==
  ASSUME Quiet, Orderly, OnCourse, NEW g \in Gen, Current(g), pc[g] # "none"
  PROVE  /\ agent = workFor[g] /\ status \in {"seeking", "streaming"}
         /\ active /\ ~lingering
         /\ ~(probe.at = "spawn" /\ probe.gen = generation)
<1>1. pc[g] \in WorkerPC
  BY DEF Quiet, TypeOK
<1>2. agent = workFor[g] /\ status \in {"seeking", "streaming"}
  BY <1>1 DEF Orderly, InFlight, Current, WorkerPC
<1>3. active /\ ~lingering
  BY <1>2 DEF Orderly, FlagsAgree
<1>4. ~(probe.at = "spawn" /\ probe.gen = generation)
  BY DEF Quiet, Unborn, Current
<1> QED BY <1>2, <1>3, <1>4

\* A step of the driver, or of its poller, that keeps to its own phase.
LEMMA DriverStep ==
  ASSUME Quiet, Orderly, OnCourse, NEW g \in Gen, Current(g), pc[g] # "none",
         UNCHANGED <<enabled, generation, probe, workFor>>, agent' = agent,
         \A h \in Gen : h # g => pc'[h] = pc[h],
         UNCHANGED <<text, textOf>> \/ textOf' = workFor[g],
         pc'[g] \in {"seek", "claim"} => status' = "seeking",
         pc'[g] \in {"stream", "join", "final"} => status' = "streaming",
         FlagsAgree'
  PROVE  Orderly'
<1>1. InFlight'
  BY Driver DEF InFlight, Current
<1>2. Named'
  BY Driver DEF Orderly, Named
<1> QED BY <1>1, <1>2 DEF Orderly

\* A step that leaves the popup alone and starts no worker.
LEMMA AsideStep ==
  ASSUME Quiet, Orderly, UNCHANGED popup, UNCHANGED workFor,
         enabled' => enabled, OnCourse' => OnCourse,
         generation' = generation \/ generation' = generation + 1,
         \A h \in Gen : h = generation' /\ pc'[h] # "none" => pc'[h] = pc[h],
         probe' = probe \/ probe'.at # "spawn"
  PROVE  Orderly'
<1> SUFFICES ASSUME OnCourse PROVE FlagsAgree' /\ InFlight' /\ Named'
  BY DEF Orderly
<1>0. generation \in Nat /\ probe.gen \in Nat
  BY DEF Quiet, TypeOK
<1>1. InFlight'
  <2>1. CASE generation' = generation
    BY <2>1 DEF Orderly, InFlight, popup
  <2>2. CASE generation' = generation + 1
    <3>1. \A h \in Gen : h = generation' => pc'[h] = "none"
      BY <1>0, <2>2, GenNat DEF Quiet, Unborn
    <3>2. ~(probe'.at = "spawn" /\ probe'.gen = generation')
      BY <1>0, <2>2 DEF Quiet, Unborn
    <3> QED BY <3>1, <3>2 DEF InFlight
  <2> QED BY <2>1, <2>2
<1>2. FlagsAgree' /\ Named'
  BY DEF Orderly, FlagsAgree, Named, popup
<1> QED BY <1>1, <1>2

LEMMA WorkerOrderly ==
  ASSUME Quiet, Orderly, NEW g \in Gen, WorkerStep(g) PROVE Orderly'
<1>a. pc \in [Gen -> WorkerPC] /\ generation \in Nat
  BY DEF Quiet, TypeOK
<1>f. /\ UNCHANGED notWorker /\ UNCHANGED workFor /\ pc[g] # "none"
      /\ \A h \in Gen : h # g => pc'[h] = pc[h]
      /\ UNCHANGED popup \/ Current(g)
  BY WorkerFacts DEF Quiet
<1>n. UNCHANGED <<enabled, generation, probe>> /\ OnCourse' = OnCourse
  BY <1>f DEF notWorker, modes, OnCourse
<1>0. SeekQuery(g) \/ SeekQuits(g) \/ SeekFinds(g) \/ SeekFails(g) \/ ClaimRun(g)
      \/ EarlyQuery(g) \/ StreamGoesOn(g) \/ StreamEnds(g) \/ PollerJoined(g)
      \/ FinalPoll(g) \/ Finalize(g) \/ RunnerRaises(g) \/ FinalStale(g)
  BY DEF WorkerStep, WorkerAdvances
<1>1. CASE ~OnCourse
  BY <1>1, <1>n DEF Orderly
<1>2. ASSUME ~Current(g) PROVE Orderly'
  <2>1. \A h \in Gen : h = generation' /\ enabled => pc'[h] = pc[h]
    BY <1>2, <1>f, <1>n DEF Current
  <2>2. OnCourse' => InFlight'
    BY <1>2, <2>1, <1>f, <1>n DEF Orderly, InFlight, popup
  <2> QED BY <1>2, <1>f, <1>n, <2>2 DEF Orderly, FlagsAgree, Named, popup
<1>3. ASSUME Current(g), OnCourse PROVE Orderly'
  <2>d. /\ agent = workFor[g] /\ status \in {"seeking", "streaming"} /\ active /\ ~lingering
    BY <1>3, <1>f, Driver
  <2>s. /\ pc[g] \in {"seek", "claim"} => status = "seeking"
        /\ pc[g] \in {"stream", "join", "final"} => status = "streaming"
    BY <1>3 DEF Orderly, InFlight, Current
  \* Enough for each action: who is shown stays, and status and flags fit pc.
  <2>q. SUFFICES /\ agent' = agent
                 /\ UNCHANGED <<text, textOf>> \/ textOf' = workFor[g]
                 /\ pc'[g] \in {"seek", "claim"} => status' = "seeking"
                 /\ pc'[g] \in {"stream", "join", "final"} => status' = "streaming"
                 /\ FlagsAgree'
    BY <1>3, <1>f, <1>n, DriverStep
  <2> USE <1>a, <2>d, <2>s DEF FlagsAgree, popup, workers, Goto, Die, Show, Waiting, Linger, Apply
  <2>1. CASE SeekQuery(g)     BY <2>1 DEF SeekQuery
  <2>2. CASE SeekQuits(g)     BY <2>2 DEF SeekQuits
  <2>3. CASE SeekFinds(g)     BY <2>3 DEF SeekFinds
  <2>4. CASE SeekFails(g)     BY <2>4 DEF SeekFails
  <2>5. CASE ClaimRun(g)      BY <1>3, <2>5 DEF ClaimRun
  <2>6. CASE EarlyQuery(g)    BY <2>6 DEF EarlyQuery
  <2>7. CASE StreamGoesOn(g)
    <3>1. pc[g] = "stream" /\ pc'[g] = "stream" /\ status = "streaming"
      BY <2>7 DEF StreamGoesOn
    <3>2. Apply(workFor[g]) \/ UNCHANGED <<active, lingering, agent, text, textOf>>
      BY <2>7 DEF StreamGoesOn
    <3>3. /\ UNCHANGED <<active, lingering, agent>> /\ status' = "streaming"
          /\ UNCHANGED <<text, textOf>> \/ textOf' = workFor[g]
      BY <2>7, <3>1, <3>2 DEF StreamGoesOn
    <3> QED BY <3>1, <3>3
  <2>8. CASE StreamEnds(g)
    <3>1. pc[g] = "stream" /\ pc'[g] = "join" /\ status = "streaming"
      BY <2>8 DEF StreamEnds
    <3>2. /\ UNCHANGED <<status, active, lingering, agent>>
          /\ UNCHANGED <<text, textOf>> \/ textOf' = workFor[g]
      BY <2>8 DEF StreamEnds
    <3> QED BY <3>1, <3>2
  <2>9. CASE PollerJoined(g)  BY <2>9 DEF PollerJoined
  <2>10. CASE FinalPoll(g)
    <3>1. pc[g] = "final" /\ pc'[g] = "final" /\ status = "streaming"
      BY <2>10 DEF FinalPoll
    <3>2. Apply(workFor[g]) \/ UNCHANGED <<active, lingering, agent, text, textOf>>
      BY <2>10 DEF FinalPoll
    <3>3. /\ UNCHANGED <<active, lingering, agent>> /\ status' = "streaming"
          /\ UNCHANGED <<text, textOf>> \/ textOf' = workFor[g]
      BY <2>10, <3>1, <3>2 DEF FinalPoll
    <3> QED BY <3>1, <3>3
  <2>11. CASE Finalize(g)     BY <2>11 DEF Finalize
  <2>12. CASE RunnerRaises(g) BY <2>12 DEF RunnerRaises
  <2>13. CASE FinalStale(g)   BY <1>3, <2>13 DEF FinalStale
  <2> QED BY <1>0, <2>1, <2>2, <2>3, <2>4, <2>5, <2>6, <2>7, <2>8, <2>9, <2>10,
             <2>11, <2>12, <2>13
<1> QED BY <1>1, <1>2, <1>3

LEMMA PollerOrderly ==
  ASSUME Quiet, Told, Orderly, NEW g \in Gen, PollerStep(g)
  PROVE  Orderly'
<1>f. /\ UNCHANGED notPoller /\ poller[g] # "none"
      /\ \/ UNCHANGED <<popup, astray>>
         \/ /\ Current(g)
            /\ Waiting("streaming", workFor[g], TRUE) \/ Apply(workFor[g])
            /\ astray' = IF Alive(g) THEN astray ELSE astray \cup {"late"}
  BY PollerFacts DEF Quiet
<1>n. UNCHANGED <<enabled, generation, probe, pc, workFor>>
  BY <1>f DEF notPoller, modes, workers
<1>1. CASE UNCHANGED <<popup, astray>>
  BY <1>1, <1>n, AsideStep DEF OnCourse
<1>2. CASE Current(g) /\ pc[g] = "none" /\ "late" \in astray'
  BY <1>2 DEF Orderly, OnCourse
<1>3. CASE /\ Current(g) /\ pc[g] # "none" /\ astray' = astray
           /\ Waiting("streaming", workFor[g], TRUE) \/ Apply(workFor[g])
  <2>0. SUFFICES ASSUME OnCourse PROVE Orderly'
    BY <1>3 DEF Orderly, OnCourse
  <2>1. pc[g] \in {"stream", "join", "final"}
    BY <1>3, <1>f DEF Quiet, TypeOK, WorkerPC, Told, PollerAfter
  <2>2. /\ agent = workFor[g] /\ status = "streaming" /\ active /\ ~lingering
    BY <1>3, <2>0, <2>1, Driver DEF Orderly, InFlight, Current
  <2>3. /\ agent' = agent /\ (UNCHANGED <<text, textOf>> \/ textOf' = workFor[g])
        /\ status' = "streaming" /\ UNCHANGED <<active, lingering>>
    BY <1>3, <2>2 DEF Waiting, Apply, Show, popup
  <2>4. FlagsAgree'
    BY <2>2, <2>3 DEF FlagsAgree
  <2> QED BY <1>3, <1>n, <2>0, <2>1, <2>3, <2>4, DriverStep
<1> QED BY <1>1, <1>2, <1>3, <1>f DEF Alive

LEMMA ProbeOrderly ==
  ASSUME Quiet, Orderly, ProbeStep PROVE Orderly'
<1>a. /\ pc \in [Gen -> WorkerPC] /\ workFor \in [Gen -> Agents \cup {NoAgent}]
      /\ generation \in Nat /\ probe.gen \in Nat
  BY DEF Quiet, TypeOK
<1>0. UNCHANGED enabled
  BY ProbeFacts DEF Quiet, notProbe, modes
<1>1. CASE UNCHANGED <<era, workers, popup>> /\ probe'.at # "spawn"
  BY <1>0, <1>1, AsideStep DEF workers, OnCourse
<1>2. CASE /\ MaySeek /\ TakeSeek(probe.agent, TRUE) /\ UNCHANGED workers
           /\ probe'.at = "spawn" /\ probe'.gen = generation + 1
           /\ probe'.agent = probe.agent
  <2>1. FlagsAgree' /\ Named'
    BY <1>2 DEF TakeSeek, FlagsAgree, Named, Show
  <2>2. \A h \in Gen : h = generation' => pc'[h] = "none"
    BY <1>2, <1>a, GenNat DEF Quiet, Unborn, TakeSeek, workers
  <2>3. InFlight'
    BY <1>2, <2>2 DEF InFlight, TakeSeek
  <2> QED BY <2>1, <2>3 DEF Orderly
<1>3. CASE /\ UNCHANGED <<era, popup>> /\ Spawn(probe.gen, probe.agent)
           /\ probe.at = "spawn" /\ probe'.at = "none"
  <2>1. OnCourse' => FlagsAgree' /\ Named'
    BY <1>3 DEF Orderly, FlagsAgree, Named, OnCourse, popup
  <2>2. OnCourse' => InFlight'
    BY <1>0, <1>3, <1>a DEF Orderly, OnCourse, InFlight, popup, Spawn
  <2> QED BY <2>1, <2>2 DEF Orderly
<1> QED BY <1>1, <1>2, <1>3, ProbeFacts DEF Quiet

\* A popup that is cleared when nobody drives it, or whose driver is superseded.
LEMMA ClearStep ==
  ASSUME Quiet, Orderly, NEW to \in {"idle", "off"}, NEW name, Blank(to, name),
         UNCHANGED workers,
         probe' = probe \/ probe'.at # "spawn",
         \/ generation' = generation + 1
         \/ UNCHANGED era /\ lingering /\ enabled
  PROVE  Orderly'
<1>a. generation \in Nat /\ probe.gen \in Nat /\ pc \in [Gen -> WorkerPC]
  BY DEF Quiet, TypeOK
<1>1. FlagsAgree' /\ Named'
  BY DEF Blank, FlagsAgree, Named
<1>2. OnCourse' => InFlight'
  <2>1. CASE generation' = generation + 1
    <3>1. \A h \in Gen : h = generation' => pc'[h] = "none"
      BY <1>a, <2>1, GenNat DEF Quiet, Unborn, workers
    <3>2. ~(probe'.at = "spawn" /\ probe'.gen = generation')
      BY <1>a, <2>1 DEF Quiet, Unborn
    <3> QED BY <3>1, <3>2 DEF InFlight
  <2>2. CASE UNCHANGED era /\ lingering /\ enabled /\ OnCourse
    <3>1. \A h \in Gen : h = generation' => pc'[h] = "none"
      BY <2>2, Driver DEF Current, workers
    <3>2. status \in {"linger", "error"}
      BY <2>2 DEF Orderly, FlagsAgree
    <3>3. ~(probe'.at = "spawn" /\ probe'.gen = generation')
      BY <2>2, <3>2 DEF Orderly, InFlight
    <3> QED BY <3>1, <3>3 DEF InFlight
  <2> QED BY <2>1, <2>2 DEF OnCourse
<1> QED BY <1>1, <1>2 DEF Orderly

LEMMA UIOrderly ==
  ASSUME Quiet, Told, Orderly, TickAny \/ UIStep PROVE Orderly'
<1>a. /\ pc \in [Gen -> WorkerPC] /\ workFor \in [Gen -> Agents \cup {NoAgent}]
      /\ generation \in Nat /\ probe.gen \in Nat
  BY DEF Quiet, TypeOK
<1>0. ASSUME UNCHANGED <<enabled, popup, era, workers>>, probe' = probe \/ probe'.at # "spawn"
      PROVE  Orderly'
  BY <1>0, AsideStep DEF workers, OnCourse
\* What yields lingers.
<1>y. ASSUME Yields, MaybeYield, ui = "observe", UNCHANGED <<era, workers>>,
             probe' = probe \/ probe'.at # "spawn"
      PROVE  Orderly'
  <2>1. lingering /\ enabled
    BY <1>y DEF Yields, Told, TickKnows, Quiet, TickEnabled
  <2>2. Blank("idle", agent)
    BY <1>y DEF MaybeYield
  <2> QED BY <1>y, <2>1, <2>2, ClearStep
<1>1. CASE TickAny
  BY <1>0, <1>1 DEF TickAny, TickReads, modes
<1>2. CASE TickExpires
  <2>1. /\ Blank("idle", NoAgent) /\ UNCHANGED <<workers, probe, era>>
        /\ lingering /\ enabled
    BY <1>2 DEF TickExpires, Told, TickKnows, Quiet, TickEnabled
  <2> QED BY <2>1, ClearStep
<1>3. CASE TickSelected
  <2>1. UNCHANGED <<enabled, era, workers>> /\ MaybeYield /\ ui = "observe"
    BY <1>3 DEF TickSelected, modes
  <2>2. probe' = probe \/ probe'.at # "spawn"
    BY <1>3 DEF TickSelected, StartProbe, NoProbe
  <2> QED BY <1>0, <1>y, <2>1, <2>2 DEF MaybeYield
<1>4. CASE TickFollow
  <2>1. UNCHANGED <<enabled, workers>> /\ ui = "observe"
    BY <1>4 DEF TickFollow, modes
  <2>2. probe' = probe \/ probe'.at # "spawn"
    BY <1>4 DEF TickFollow, StartProbe, NoProbe
  <2>3. \/ UNCHANGED <<popup, era>>
        \/ generation' = generation + 1 /\ Blank("idle", NoAgent)
        \/ MaybeYield /\ UNCHANGED era
    BY <1>4, Zenon DEF TickFollow
  <2>4. CASE generation' = generation + 1 /\ Blank("idle", NoAgent)
    BY <2>1, <2>2, <2>4, ClearStep
  <2> QED BY <1>0, <1>y, <2>1, <2>2, <2>3, <2>4 DEF MaybeYield
<1>5. CASE TickSeeks
  <2>1. UNCHANGED <<enabled, poller, probe>>
    BY <1>5 DEF TickSeeks, notUI, modes
  <2>2. \/ UNCHANGED <<popup, era, workers>>
        \/ TakeSeek(uiFor, FALSE) /\ Spawn(generation + 1, uiFor)
        \/ /\ ShowNoCreds(uiFor) /\ UNCHANGED <<generation, workers>>
           /\ astray' = IF MaySeek THEN astray ELSE astray \cup {"nocreds"}
    BY <1>5, Zenon DEF TickSeeks
  <2>3. CASE UNCHANGED <<popup, era, workers>>
    BY <1>0, <2>1, <2>3
  <2>4. CASE TakeSeek(uiFor, FALSE) /\ Spawn(generation + 1, uiFor)
    <3>1. FlagsAgree' /\ Named'
      BY <2>4 DEF TakeSeek, FlagsAgree, Named, Show
    <3>2. ~(probe'.at = "spawn" /\ probe'.gen = generation')
      BY <2>1, <2>4, <1>a DEF Quiet, Unborn, TakeSeek
    <3>3. InFlight'
      BY <2>4, <3>2, <1>a DEF InFlight, TakeSeek, Spawn
    <3> QED BY <3>1, <3>3 DEF Orderly
  <2>5. CASE /\ ShowNoCreds(uiFor) /\ UNCHANGED <<generation, workers>>
             /\ astray' = IF MaySeek THEN astray ELSE astray \cup {"nocreds"}
    <3>1. CASE ~MaySeek
      BY <2>5, <3>1 DEF Orderly, OnCourse
    <3>2. CASE MaySeek /\ OnCourse
      <4>1. status = "idle" /\ text = "none"
        BY <3>2 DEF MaySeek, Told, StatusTells
      <4>2. FlagsAgree' /\ Named'
        BY <2>5, <4>1 DEF ShowNoCreds, FlagsAgree, Named
      <4>3. \A h \in Gen : enabled /\ h = generation => pc[h] = "none"
        BY <3>2, <4>1, Driver DEF Current
      <4>4. InFlight'
        BY <2>1, <2>5, <3>2, <4>1, <4>3 DEF Orderly, InFlight, workers
      <4> QED BY <4>2, <4>4 DEF Orderly
    <3>3. CASE MaySeek /\ ~OnCourse
      BY <2>5, <3>3 DEF Orderly, OnCourse
    <3> QED BY <3>1, <3>2, <3>3
  <2> QED BY <2>2, <2>3, <2>4, <2>5
<1>6. CASE Joined
  BY <1>0, <1>6 DEF Joined, modes
<1> QED BY <1>1, <1>2, <1>3, <1>4, <1>5, <1>6 DEF UIStep

LEMMA ToggleOrderly ==
  ASSUME Quiet, Orderly, Shutdown \/ \E key \in Keys \cap {"t", "f"} : Press(key)
  PROVE  Orderly'
<1>0. UNCHANGED <<workers, probe>>
  BY DEF Shutdown, Press, notUI
<1>1. ASSUME NEW to \in {"join", "gone"}, Disable(to) PROVE Orderly'
  <2>1. generation' = generation + 1 /\ Blank("off", agent)
    BY <1>1 DEF Disable
  <2> QED BY <1>0, <2>1, ClearStep
<1>2. ASSUME NEW f \in BOOLEAN, Enable(f) PROVE Orderly'
  <2>1. generation' = generation + 1 /\ (OnCourse' => OnCourse)
    BY <1>2 DEF Enable, OnCourse
  <2>2. CASE enabled
    <3>1. UNCHANGED popup
      BY <1>2, <2>2 DEF Enable
    <3>2. \A h \in Gen : pc'[h] = pc[h]
      BY <1>0 DEF workers
    <3> QED BY <1>0, <2>1, <2>2, <3>1, <3>2, AsideStep DEF workers
  <2>3. CASE ~enabled
    <3>1. Blank("idle", agent)
      BY <1>2, <2>3 DEF Enable
    <3> QED BY <1>0, <2>1, <3>1, ClearStep
  <2> QED BY <2>2, <2>3
<1>3. CASE Shutdown
  BY <1>1, <1>3 DEF Shutdown
<1>4. ASSUME NEW key, Press(key) PROVE Orderly'
  <2>1. Disable("join") \/ Enable(key = "f")
    BY <1>4, Zenon DEF Press
  <2>2. (key = "f") \in BOOLEAN
    OBVIOUS
  <2> QED BY <2>1, <2>2, <1>1, <1>2
<1> QED BY <1>3, <1>4

LEMMA OrderlyInductive ==
  /\ Init => Quiet /\ Told /\ Orderly
  /\ Quiet /\ Told /\ Orderly /\ [Next]_vars => (Quiet /\ Told /\ Orderly)'
<1>1. Init => Orderly
  BY DEF Init, Orderly, FlagsAgree, InFlight, Named, NoProbe
<1>2. ASSUME Quiet, Told, Orderly, [Next]_vars PROVE Orderly'
  <2>1. CASE LingerElapses \/ \E a \in Agents : TurnBegins(a) \/ CooldownElapses(a)
    <3>1. UNCHANGED <<enabled, status, active, lingering, agent, text, textOf, era,
                      workers, probe>>
      BY <2>1 DEF LingerElapses, TurnBegins, CooldownElapses, notEnv, modes
    <3> QED BY <1>2, <3>1 DEF Orderly, OnCourse, FlagsAgree, InFlight, Named, workers
  <2>2. CASE UNCHANGED vars
    BY <1>2, <2>2 DEF vars, Orderly, OnCourse, FlagsAgree, InFlight, Named, modes, workers,
       popup
  <2> QED BY <1>2, <2>1, <2>2, WorkerOrderly, PollerOrderly, ProbeOrderly, UIOrderly,
             ToggleOrderly DEF Next
<1> QED BY <1>1, <1>2, ToldInductive

\* The popup shows no agent's turn under another's name until the no-creds popup is
\* put over one that is up, or a poller writes after its worker's end; the next seek,
\* preempt or disabling sets it right.
THEOREM TextStaysAgents == Spec => []TextIsAgents
<1>1. Orderly => TextIsAgents
  BY DEF Orderly, OnCourse, Named, TextIsAgents
<1> QED BY <1>1, OrderlyInductive, PTL DEF Spec
-----------------------------------------------------------------------------
(* The state table of docs/ARCHITECTURE.md                                   *)

\* A thread's step is a row of the table, or none of its business, or leads astray.
LEMMA ThreadRows ==
  ASSUME Quiet, Told, Orderly, OnCourse', NEW g \in Gen, WorkerStep(g) \/ PollerStep(g)
  PROVE  /\ UNCHANGED modes /\ agent' = agent /\ OnCourse
         /\ \/ status' = status
            \/ status = "seeking" /\ status' \in {"streaming", "error"}
            \/ status = "streaming" /\ status' \in {"linger", "error"}
<1>0. UNCHANGED modes /\ agent' = agent
  BY ThreadWrites DEF Quiet
<1>c. OnCourse
  BY WorkerFacts, PollerFacts DEF Quiet, notWorker, OnCourse
<1>1. CASE UNCHANGED popup
  BY <1>0, <1>1, <1>c DEF popup
<1>2. CASE Current(g) /\ ~UNCHANGED popup
  <2>s. /\ pc[g] \in {"seek", "claim"} => status = "seeking"
        /\ pc[g] \in {"stream", "join", "final"} => status = "streaming"
    BY <1>2, <1>c DEF Orderly, InFlight, Current
  <2>1. CASE WorkerStep(g)
    <3>1. SeekQuery(g) \/ SeekFails(g) \/ ClaimRun(g) \/ EarlyQuery(g) \/ StreamGoesOn(g)
          \/ StreamEnds(g) \/ FinalPoll(g) \/ Finalize(g) \/ RunnerRaises(g)
      BY <1>2, <2>1 DEF WorkerStep, WorkerAdvances, SeekQuits, SeekFinds, PollerJoined,
         FinalStale
    <3> USE <1>2, <1>c, <2>s DEF Waiting, Linger, Apply, popup
    <3>2. CASE SeekQuery(g)     BY <1>0, <3>2 DEF SeekQuery
    <3>3. CASE SeekFails(g)     BY <1>0, <3>3 DEF SeekFails
    <3>4. CASE ClaimRun(g)      BY <1>0, <3>4 DEF ClaimRun
    <3>5. CASE EarlyQuery(g)    BY <1>0, <3>5 DEF EarlyQuery
    <3>6. CASE StreamGoesOn(g)  BY <1>0, <3>6 DEF StreamGoesOn
    <3>7. CASE FinalPoll(g)     BY <1>0, <3>7 DEF FinalPoll
    <3>8. CASE Finalize(g)      BY <1>0, <3>8 DEF Finalize
    <3>9. CASE RunnerRaises(g)  BY <1>0, <3>9 DEF RunnerRaises
    <3>10. CASE StreamEnds(g)   BY <1>0, <3>10 DEF StreamEnds, Show
    <3> QED BY <3>1, <3>2, <3>3, <3>4, <3>5, <3>6, <3>7, <3>8, <3>9, <3>10
  <2>2. CASE PollerStep(g)
    <3>1. /\ poller[g] # "none"
          /\ Waiting("streaming", workFor[g], TRUE) \/ Apply(workFor[g])
          /\ astray' = IF Alive(g) THEN astray ELSE astray \cup {"late"}
      BY <1>2, <2>2, PollerFacts DEF Quiet
    <3>2. pc[g] # "none"
      BY <3>1 DEF OnCourse, Alive
    <3>3. status = "streaming"
      <4>1. pc[g] \in WorkerPC
        BY DEF Quiet, TypeOK
      <4>2. pc[g] \in {"stream", "join", "final"}
        BY <3>1, <3>2, <4>1 DEF WorkerPC, Told, PollerAfter
      <4> QED BY <2>s, <4>2
    <3> QED BY <1>0, <1>c, <1>2, <3>1, <3>3 DEF Waiting, Apply
  <2> QED BY <2>1, <2>2
<1> QED BY <1>1, <1>2, WorkerFacts, PollerFacts DEF Quiet

LEMMA StepTable ==
  ASSUME Quiet, Told, Orderly, Quiet', Told', [Next]_vars
  PROVE  [Table!Next]_(Table!vars)
<1> USE DEF OnCourse, Table!Next, Table!vars, Table!TurnOn, Table!SwitchMode, Table!Seek,
            Table!NoCreds, Table!Found, Table!GiveUp, Table!Complete, Table!Clear,
            Table!GoAstray, Table!Preempt, Table!Disable
<1>0. StatusTells /\ StatusTells' /\ agent' \in Agents \cup {NoAgent}
  BY DEF Told, Quiet, TypeOK
<1>1. ASSUME UNCHANGED <<enabled, follow, status, agent, astray>> PROVE UNCHANGED Table!vars
  BY <1>1
<1>2. ASSUME UNCHANGED <<enabled, follow>>, ~OnCourse' PROVE Table!Next
  <2>1. enabled
    BY <1>0, <1>2 DEF StatusTells
  <2> QED BY <1>0, <1>2, <2>1 DEF StatusTells
<1>3. ASSUME NEW g \in Gen, WorkerStep(g) \/ PollerStep(g) PROVE [Table!Next]_(Table!vars)
  <2>1. UNCHANGED <<enabled, follow>>
    BY <1>3, ThreadWrites DEF Quiet, modes
  <2>2. CASE OnCourse'
    BY <1>3, <2>1, <2>2, ThreadRows
  <2> QED BY <1>2, <2>1, <2>2
<1>4. CASE ProbeStep
  <2>1. UNCHANGED <<enabled, follow>>
    BY <1>4, ProbeFacts DEF Quiet, notProbe, modes
  <2>2. CASE UNCHANGED <<popup, astray>>
    BY <1>1, <2>1, <2>2 DEF popup
  <2>3. CASE MaySeek /\ TakeSeek(probe.agent, TRUE) /\ probe.at # "none" /\ OnCourse'
    BY <2>1, <2>3 DEF MaySeek, TakeSeek, Quiet, HasTarget
  <2> QED BY <1>2, <1>4, <2>1, <2>2, <2>3, ProbeFacts DEF Quiet
<1>5. CASE TickAny
  BY <1>1, <1>5 DEF TickAny, TickReads, modes, popup
<1>6. CASE UIStep
  <2>1. UNCHANGED <<enabled, follow>>
    BY <1>6 DEF UIStep, TickExpires, TickSelected, TickFollow, TickSeeks, Joined, modes
  <2>2. ASSUME NEW name \in {agent, NoAgent}, Blank("idle", name), lingering, UNCHANGED astray
        PROVE  Table!Next
    BY <1>2, <2>1, <2>2 DEF Blank, Orderly, FlagsAgree
  <2>3. CASE UNCHANGED <<popup, astray>>
    BY <1>1, <2>1, <2>3 DEF popup
  <2>4. CASE TickExpires
    BY <2>2, <2>4 DEF TickExpires, Told, TickKnows
  <2>5. CASE MaybeYield /\ ui = "observe" /\ UNCHANGED astray
    BY <2>2, <2>3, <2>5 DEF MaybeYield, Yields, Told, TickKnows
  <2>6. CASE TickSelected
    BY <2>5, <2>6 DEF TickSelected
  <2>7. CASE TickFollow
    <3>1. CASE Blank("idle", NoAgent) /\ astray' = {}
      BY <2>1, <2>7, <3>1 DEF TickFollow, Blank, Quiet, TickEnabled
    <3>2. \/ UNCHANGED <<popup, astray>>
          \/ MaybeYield /\ UNCHANGED astray
          \/ Blank("idle", NoAgent) /\ astray' = {}
      BY <2>7, Zenon DEF TickFollow
    <3> QED BY <2>3, <2>5, <2>7, <3>1, <3>2 DEF TickFollow
  <2>8. CASE TickSeeks
    <3>1. \/ UNCHANGED <<popup, astray>>
          \/ MaySeek /\ TakeSeek(uiFor, FALSE) /\ astray' = {}
          \/ ShowNoCreds(uiFor) /\ astray' = IF MaySeek THEN astray ELSE astray \cup {"nocreds"}
      BY <2>8, Zenon DEF TickSeeks
    <3>2. uiFor \in Agents
      BY <2>8 DEF TickSeeks, Quiet, HasTarget
    <3>3. CASE MaySeek /\ TakeSeek(uiFor, FALSE) /\ astray' = {}
      BY <2>1, <3>2, <3>3 DEF MaySeek, TakeSeek
    <3>4. CASE ShowNoCreds(uiFor) /\ OnCourse' /\ MaySeek /\ UNCHANGED astray
      BY <2>1, <3>2, <3>4 DEF ShowNoCreds, MaySeek
    <3> QED BY <1>2, <2>1, <2>3, <3>1, <3>3, <3>4
  <2>9. CASE Joined
    BY <2>3, <2>9 DEF Joined
  <2> QED BY <1>6, <2>4, <2>6, <2>7, <2>8, <2>9 DEF UIStep
<1>7. CASE Shutdown \/ \E key \in Keys \cap {"t", "f"} : Press(key)
  <2>1. ASSUME NEW to, Disable(to) PROVE Table!Next
    BY <2>1 DEF Disable, Blank
  <2>2. ASSUME NEW f \in BOOLEAN, Enable(f) PROVE Table!Next
    <3>1. CASE enabled
      BY <2>2, <3>1 DEF Enable, popup
    <3>2. CASE ~enabled
      BY <1>0, <2>2, <3>2 DEF Enable, Blank, StatusTells
    <3> QED BY <3>1, <3>2
  <2>3. \A key : (key = "f") \in BOOLEAN
    OBVIOUS
  <2> QED BY <1>7, <2>1, <2>2, <2>3 DEF Shutdown, Press
<1>8. CASE LingerElapses \/ \E a \in Agents : TurnBegins(a) \/ CooldownElapses(a)
  BY <1>1, <1>8 DEF LingerElapses, TurnBegins, CooldownElapses, notEnv, modes
<1>9. CASE UNCHANGED vars
  BY <1>1, <1>9 DEF vars, popup, modes
<1> QED BY <1>3, <1>4, <1>5, <1>6, <1>7, <1>8, <1>9 DEF Next

\* Threads, generations and ticks together do what the table says, and leave it only
\* for a no-creds popup put over one that is up or a poller that writes late, until
\* the next seek, preempt or disabling.
THEOREM PopupImplementsTable == Spec => ImplementsTable
<1>1. Init => Table!Init
  BY DEF Init, Table!Init
<1> QED BY <1>1, StepTable, OrderlyInductive, PTL DEF Spec, ImplementsTable, Table!Spec
-----------------------------------------------------------------------------
(* No worker is left without a generation.  Every seek is paid for: by an    *)
(* edge, which a turn raised, or by a turn key that the probe marks; what is *)
(* left to pay with never grows, so generations end where Gen does.          *)

\* A turn not begun is worth an edge and what an edge is worth, a preempt and a
\* seek; a key the probe has not marked is worth a seek.
Unbegun(t) == {k \in TurnKey : t[k[1]] < k[2]}
Worth(t, e, s) == 2 * Cardinality(Unbegun(t)) + 2 * Cardinality(e) + Cardinality(TurnKey \ s)

\* A seek that is asked for, and paid, is still to be made.
Flag(asked) == IF asked THEN 1 ELSE 0
Owed == Flag(ui \in {"seek", "preempt"}) + Flag(probe.at \in {"clear", "guard"})
Left == Worth(turns, edges, seenTurns) + Owed

Tickets == 3 * MaxTurns * Cardinality(Agents)

\* Every generation was taken for a press or for one of the tickets spent.
Covered(g, l, p) == g + l <= p + Tickets
Paid == /\ Left <= Tickets
        /\ ui # "gone" => Covered(generation, Left, presses)
Budget == /\ Paid
          /\ ui = "gone" => ~enabled
          /\ probe.at = "spawn" => probe.gen \in Gen

LEMMA KeysFinite ==
  /\ IsFiniteSet(TurnKey) /\ 3 * Cardinality(TurnKey) = Tickets
  /\ Tickets \in Nat
<1>1. IsFiniteSet(Agents) /\ MaxTurns \in Nat
  BY TurnStreamAssumption
<1>2. IsFiniteSet(1..MaxTurns) /\ Cardinality(1..MaxTurns) = MaxTurns
  BY <1>1, FS_Interval
<1>3. Cardinality(Agents) \in Nat
  BY <1>1, FS_CardinalityType
<1>4. IsFiniteSet(TurnKey) /\ Cardinality(TurnKey) = Cardinality(Agents) * MaxTurns
  BY <1>1, <1>2, FS_Product DEF TurnKey
<1> QED
  BY <1>1, <1>3, <1>4 DEF Tickets

LEMMA WorthIsNat ==
  ASSUME NEW t, NEW e \in SUBSET Agents, NEW s
  PROVE  /\ IsFiniteSet(Unbegun(t)) /\ Cardinality(Unbegun(t)) \in Nat
         /\ IsFiniteSet(e) /\ Cardinality(e) \in Nat
         /\ IsFiniteSet(TurnKey \ s) /\ Cardinality(TurnKey \ s) \in Nat
         /\ Worth(t, e, s) \in Nat
<1>1. Unbegun(t) \in SUBSET TurnKey /\ TurnKey \ s \in SUBSET TurnKey
  BY DEF Unbegun
<1>2. IsFiniteSet(Unbegun(t)) /\ IsFiniteSet(e) /\ IsFiniteSet(TurnKey \ s)
  BY <1>1, KeysFinite, TurnStreamAssumption, FS_Subset
<1>3. Cardinality(Unbegun(t)) \in Nat /\ Cardinality(e) \in Nat /\ Cardinality(TurnKey \ s) \in Nat
  BY <1>2, FS_CardinalityType
<1> QED
  BY <1>2, <1>3 DEF Worth

LEMMA WorthAtFirst == Worth([a \in Agents |-> 0], {}, {}) = Tickets
<1>1. Unbegun([a \in Agents |-> 0]) = TurnKey
  BY DEF Unbegun, TurnKey
<1>2. TurnKey \ {} = TurnKey /\ Cardinality({}) = 0 /\ Cardinality(TurnKey) \in Nat
  BY KeysFinite, FS_EmptySet, FS_CardinalityType
<1> QED
  BY <1>1, <1>2, KeysFinite DEF Worth

\* Reading the edges spends them all.
LEMMA WorthOfEdges ==
  ASSUME NEW t, NEW e \in SUBSET Agents, NEW s
  PROVE  /\ Worth(t, {}, s) <= Worth(t, e, s)
         /\ e # {} => Worth(t, {}, s) + 2 <= Worth(t, e, s)
<1>1. /\ IsFiniteSet(e) /\ Cardinality(e) \in Nat
      /\ Cardinality(Unbegun(t)) \in Nat /\ Cardinality(TurnKey \ s) \in Nat
  BY WorthIsNat
<1>2. Cardinality({}) = 0 /\ (e # {} => Cardinality(e) # 0)
  BY <1>1, FS_EmptySet
<1> QED
  BY <1>1, <1>2 DEF Worth

LEMMA WorthOfMark ==
  ASSUME NEW t, NEW e \in SUBSET Agents, NEW s, NEW k \in TurnKey \ s
  PROVE  Worth(t, e, s \cup {k}) + 1 = Worth(t, e, s)
<1>1. TurnKey \ (s \cup {k}) = (TurnKey \ s) \ {k}
  OBVIOUS
<1>2. IsFiniteSet(TurnKey \ s)
  BY WorthIsNat
<1>4. Cardinality(TurnKey \ (s \cup {k})) = Cardinality(TurnKey \ s) - 1
  <2>1. Cardinality((TurnKey \ s) \ {k}) = Cardinality(TurnKey \ s) - 1
    BY <1>2, FS_RemoveElement
  <2> QED
    BY <1>1, <2>1
<1>3. /\ Cardinality(Unbegun(t)) \in Nat /\ Cardinality(e) \in Nat
      /\ Cardinality(TurnKey \ s) \in Nat
  BY WorthIsNat
<1> QED
  BY <1>3, <1>4 DEF Worth

\* The edge a turn raises was there already, or is paid for by the turn.
LEMMA WorthOfTurn ==
  ASSUME NEW t \in [Agents -> 0..MaxTurns], NEW e \in SUBSET Agents, NEW s,
         NEW a \in Agents, t[a] < MaxTurns
  PROVE  Worth([t EXCEPT ![a] = @ + 1], e \cup {a}, s) <= Worth(t, e, s)
<1> DEFINE k == <<a, t[a] + 1>>
           u == [t EXCEPT ![a] = @ + 1]
<1>0. MaxTurns \in Nat /\ t[a] \in Nat
  BY TurnStreamAssumption
<1>1. k \in Unbegun(t)
  BY <1>0 DEF Unbegun, TurnKey
<1>2. Unbegun(u) = Unbegun(t) \ {k}
  <2>1. ASSUME NEW b \in Agents, NEW n \in 1..MaxTurns
        PROVE  u[b] < n <=> t[b] < n /\ <<b, n>> # k
    <3>1. CASE b = a
      BY <1>0, <3>1
    <3>2. CASE b # a
      BY <1>0, <3>2
    <3> QED
      BY <3>1, <3>2
  <2>2. \A x \in TurnKey : \E b \in Agents, n \in 1..MaxTurns : x = <<b, n>>
    BY DEF TurnKey
  <2> HIDE DEF k, u
  <2>3. ASSUME NEW x \in TurnKey PROVE x \in Unbegun(u) <=> x \in Unbegun(t) \ {k}
    <3>1. PICK b \in Agents, n \in 1..MaxTurns : x = <<b, n>>
      BY <2>2
    <3> QED
      BY <2>1, <3>1 DEF Unbegun
  <2> QED
    BY <2>3 DEF Unbegun
<1> HIDE DEF k, u
<1>3. Cardinality(Unbegun(u)) = Cardinality(Unbegun(t)) - 1
  <2>1. IsFiniteSet(Unbegun(t))
    BY WorthIsNat
  <2> QED
    BY <1>1, <1>2, <2>1, FS_RemoveElement
<1>4. Cardinality(e \cup {a}) <= Cardinality(e) + 1
  <2>1. IsFiniteSet(e) /\ Cardinality(e) \in Nat
    BY WorthIsNat
  <2> QED
    BY <2>1, FS_AddElement
<1>5. e \cup {a} \in SUBSET Agents
  OBVIOUS
<1>6. /\ Cardinality(Unbegun(t)) \in Nat /\ Cardinality(e) \in Nat
      /\ Cardinality(TurnKey \ s) \in Nat /\ Cardinality(e \cup {a}) \in Nat
  BY <1>5, WorthIsNat
<1>7. Worth(u, e \cup {a}, s) <= Worth(t, e, s)
  BY <1>3, <1>4, <1>6 DEF Worth
<1> QED
  BY <1>7 DEF u

LEMMA LeftIsNat ==
  ASSUME TypeOK
  PROVE  Worth(turns, edges, seenTurns) \in Nat /\ Owed \in 0..2 /\ Left \in Nat
<1>1. Worth(turns, edges, seenTurns) \in Nat
  BY WorthIsNat DEF TypeOK
<1> QED
  BY <1>1 DEF Left, Owed, Flag

LEMMA NextLeftIsNat ==
  ASSUME TypeOK'
  PROVE  /\ Left' = Worth(turns', edges', seenTurns') + Owed'
         /\ Worth(turns', edges', seenTurns') \in Nat /\ Owed' \in 0..2 /\ Left' \in Nat
<1>1. Worth(turns', edges', seenTurns') \in Nat
  BY WorthIsNat DEF TypeOK
<1>2. Left' = Worth(turns', edges', seenTurns') + Owed'
  BY DEF Left, Worth, Unbegun
<1>3. Owed' \in 0..2
  BY DEF Owed, Flag
<1> QED
  BY <1>1, <1>2, <1>3

LEMMA Accounts ==
  ASSUME NEW g \in Nat, NEW h \in Nat, NEW l \in Nat, NEW m \in Nat,
         NEW p \in Nat, NEW q \in Nat, Covered(g, l, p), m <= l,
         \/ h = g /\ q = p
         \/ h = g + 1 /\ m + 1 <= l /\ q = p
         \/ h = g + 1 /\ q = p + 1
  PROVE  Covered(h, m, q)
BY KeysFinite DEF Covered

\* A step that pays for the generation it takes, or takes one for a press of a key,
\* or is the last one.
LEMMA PaidStep ==
  ASSUME TypeOK, TypeOK', Paid, Left' <= Left, ui = "gone" => ui' = "gone",
         \/ generation' = generation /\ presses' = presses
         \/ generation' = generation + 1 /\ Left' + 1 <= Left /\ presses' = presses
         \/ generation' = generation + 1 /\ presses' = presses + 1
         \/ ui' = "gone"
  PROVE  Paid'
<1>1. /\ Left \in Nat /\ Left' \in Nat /\ Tickets \in Nat
      /\ generation \in Nat /\ generation' \in Nat /\ presses \in Nat /\ presses' \in Nat
  BY LeftIsNat, NextLeftIsNat, KeysFinite, TurnStreamAssumption DEF TypeOK
<1>2. Left <= Tickets /\ (ui # "gone" => Covered(generation, Left, presses))
  BY DEF Paid
<1>3. Left' <= Tickets
  BY <1>1, <1>2
<1>4. ASSUME ui' # "gone" PROVE Covered(generation', Left', presses')
  <2>1. Covered(generation, Left, presses)
    BY <1>2, <1>4
  <2>2. \/ generation' = generation /\ presses' = presses
        \/ generation' = generation + 1 /\ Left' + 1 <= Left /\ presses' = presses
        \/ generation' = generation + 1 /\ presses' = presses + 1
    BY <1>4
  <2> QED
    BY <1>1, <2>1, <2>2, Accounts
<1> QED
  BY <1>3, <1>4 DEF Paid, Tickets, Covered

\* Worth a seek, the next generation is one of Gen.
LEMMA NextFits ==
  ASSUME TypeOK, Paid, ui # "gone", Left >= 1 PROVE generation + 1 \in Gen
<1>1. /\ generation \in Nat /\ Left \in Nat /\ MaxToggles \in Nat /\ Tickets \in Nat
      /\ presses \in Nat /\ presses <= MaxToggles
      /\ generation + Left <= presses + Tickets
  BY LeftIsNat, KeysFinite, TurnStreamAssumption DEF TypeOK, Paid, Covered
<1>2. generation + 1 \in 1..(MaxToggles + Tickets)
  BY <1>1
<1> QED
  BY <1>2 DEF Gen, Tickets

LEMMA SameLeft ==
  ASSUME TypeOK, TypeOK', UNCHANGED <<turns, edges, seenTurns>>, Owed' <= Owed
  PROVE  Left' <= Left /\ (Owed' + 1 <= Owed => Left' + 1 <= Left)
<1>1. Worth(turns', edges', seenTurns') = Worth(turns, edges, seenTurns)
  OBVIOUS
<1> QED
  BY <1>1, LeftIsNat, NextLeftIsNat DEF Left

LEMMA ProbePaid ==
  ASSUME Quiet, Quiet', Budget, ProbeStep
  PROVE  Budget'
<1> USE DEF Flag
<1>a. TypeOK /\ TypeOK' /\ Paid
  BY DEF Quiet, Budget
<1>b. probe \in [at: ProbePC, agent: Agents \cup {NoAgent}, turn: 0..MaxTurns, gen: Nat]
  BY <1>a DEF TypeOK
<1>0. UNCHANGED <<enabled, presses, ui, turns, edges>>
  BY <1>a, ProbeFacts DEF notProbe, modes
<1>n. NoProbe.at = "none"
  BY DEF NoProbe
<1>1. ASSUME UNCHANGED <<generation, seenTurns>>, probe'.at # "spawn",
             probe'.at \in {"clear", "guard"} => probe.at \in {"clear", "guard"}
      PROVE  Budget'
  <2>1. Left' <= Left
    BY <1>0, <1>1, <1>a, SameLeft DEF Owed
  <2> QED
    BY <1>0, <1>1, <1>a, <2>1, PaidStep DEF Budget
<1>2. CASE ProbeFetch
  <2>1. \/ probe' = NoProbe
        \/ probe' = [probe EXCEPT !.at = "mark", !.turn = turns[probe.agent]]
    BY <1>2, Zenon DEF ProbeFetch
  <2>2. probe'.at \in {"none", "mark"}
    BY <2>1, <1>b, <1>n
  <2> QED
    BY <1>1, <1>2, <2>2 DEF ProbeFetch
<1>3. CASE ProbeMark
  <2> DEFINE k == <<probe.agent, probe.turn>>
  <2>1. CASE UNCHANGED seenTurns /\ probe' = NoProbe
    BY <1>1, <1>3, <1>n, <2>1 DEF ProbeMark
  <2>2. CASE ~(UNCHANGED seenTurns /\ probe' = NoProbe)
    <3>1. k \notin seenTurns /\ seenTurns' = seenTurns \cup {k}
      BY <1>3, <2>2 DEF ProbeMark
    <3>2. k \in TurnKey
      BY <1>3, <1>a DEF ProbeMark, Quiet, HasTarget, TurnKey
    <3>3. \E next \in {"clear", "nocreds"} : probe' = [probe EXCEPT !.at = next]
      BY <1>3, <2>2, Zenon DEF ProbeMark, CredsLoaded
    <3>4. probe.at = "mark" /\ probe'.at \in {"clear", "nocreds"} /\ generation' = generation
      BY <1>3, <1>b, <3>3 DEF ProbeMark
    <3> HIDE DEF k
    <3>5. Worth(turns', edges', seenTurns') + 1 = Worth(turns, edges, seenTurns)
      <4>1. Worth(turns, edges, seenTurns \cup {k}) + 1 = Worth(turns, edges, seenTurns)
        BY <1>a, <3>1, <3>2, WorthOfMark DEF TypeOK
      <4> QED
        BY <1>0, <3>1, <4>1
    <3>6. Owed' <= Owed + 1
      BY <1>0, <3>4 DEF Owed
    <3>7. Left' <= Left
      BY <1>a, <3>5, <3>6, LeftIsNat, NextLeftIsNat DEF Left
    <3> QED
      BY <1>0, <1>a, <3>4, <3>7, PaidStep DEF Budget
  <2> QED
    BY <2>1, <2>2
<1>4. CASE ProbeNoCreds \/ ProbeClearsStop \/ ProbeSpawns
  <2>1. probe' = NoProbe \/ (probe.at = "clear" /\ probe' = [probe EXCEPT !.at = "guard"])
    BY <1>4 DEF ProbeNoCreds, ProbeClearsStop, ProbeSpawns
  <2>2. probe'.at = "none" \/ (probe.at = "clear" /\ probe'.at = "guard")
    BY <2>1, <1>b, <1>n
  <2>3. UNCHANGED <<generation, seenTurns>>
    BY <1>4 DEF ProbeNoCreds, ProbeClearsStop, ProbeSpawns
  <2> QED
    BY <1>1, <2>2, <2>3
<1>5. CASE ProbeSeeks
  <2>1. CASE ~MaySeek
    <3>1. probe' = NoProbe /\ UNCHANGED <<generation, seenTurns>>
      BY <1>5, <2>1, Zenon DEF ProbeSeeks
    <3> QED
      BY <1>1, <1>n, <3>1
  <2>2. CASE MaySeek
    <3>1. /\ probe' = [probe EXCEPT !.at = "spawn", !.gen = generation + 1]
          /\ generation' = generation + 1 /\ seenTurns' = seenTurns /\ probe.at = "guard"
      BY <1>5, <2>2, Zenon DEF ProbeSeeks, TakeSeek
    <3>2. probe'.at = "spawn" /\ probe'.gen = generation + 1
      BY <1>b, <3>1
    <3>3. Owed' + 1 <= Owed /\ Owed >= 1
      BY <1>0, <3>1, <3>2 DEF Owed
    <3>4. Left' + 1 <= Left /\ Left >= 1 /\ Left' <= Left
      <4>2. Owed' <= Owed
        BY <1>a, <3>3, LeftIsNat, NextLeftIsNat
      <4>3. Left' + 1 <= Left /\ Left' <= Left
        BY <1>0, <1>a, <3>1, <3>3, <4>2, SameLeft
      <4> QED
        BY <1>a, <3>3, <4>3, LeftIsNat, NextLeftIsNat DEF Left
    <3>5. enabled /\ ui # "gone"
      BY <2>2 DEF MaySeek, Quiet, OffIsQuiet, Budget
    <3>6. generation + 1 \in Gen
      BY <1>a, <3>4, <3>5, NextFits
    <3> QED
      BY <1>0, <1>a, <3>1, <3>2, <3>4, <3>5, <3>6, PaidStep DEF Budget
  <2> QED
    BY <2>1, <2>2
<1> QED
  BY <1>2, <1>3, <1>4, <1>5 DEF ProbeStep

LEMMA UIPaid ==
  ASSUME Quiet, Quiet', Budget, TickAny \/ UIStep
  PROVE  Budget'
<1> USE DEF Flag
<1>a. TypeOK /\ TypeOK' /\ Paid
  BY DEF Quiet, Budget
<1>1. ASSUME UNCHANGED <<enabled, presses, generation, seenTurns, turns, edges>>,
             probe' = probe \/ probe'.at \notin {"spawn", "clear", "guard"},
             ui # "gone", ui' \notin {"seek", "preempt", "gone"}
      PROVE  Budget'
  <2>1. Owed' <= Owed
    BY <1>1 DEF Owed
  <2>2. Left' <= Left
    BY <1>1, <1>a, <2>1, SameLeft
  <2> QED
    BY <1>1, <1>a, <2>2, PaidStep DEF Budget
\* The edges are read; a preempt and a seek may come of them.
<1>2. ASSUME UNCHANGED <<enabled, presses, seenTurns, turns>>, edges' = {},
             probe' = probe \/ probe'.at \notin {"spawn", "clear", "guard"},
             ui \notin {"gone", "seek", "preempt"}, ui' # "gone",
             ui' \in {"seek", "preempt"} => edges # {},
             generation' = generation \/ (generation' = generation + 1 /\ edges # {})
      PROVE  Budget'
  <2>1. /\ Worth(turns', edges', seenTurns') <= Worth(turns, edges, seenTurns)
        /\ edges # {} => Worth(turns', edges', seenTurns') + 2 <= Worth(turns, edges, seenTurns)
    BY <1>2, <1>a, WorthOfEdges DEF TypeOK
  <2>2. Owed' <= Owed + 1 /\ (edges = {} => Owed' <= Owed)
    BY <1>2 DEF Owed
  <2>3. Left' <= Left /\ (edges # {} => Left' + 1 <= Left)
    BY <1>a, <2>1, <2>2, LeftIsNat, NextLeftIsNat DEF Left
  <2> QED
    BY <1>2, <1>a, <2>3, PaidStep DEF Budget
<1>s. Started \subseteq edges
  BY DEF Started
<1>p. StartProbe => probe' = probe \/ probe'.at \notin {"spawn", "clear", "guard"}
  BY DEF StartProbe, NoProbe
<1>3. CASE TickAny
  BY <1>1, <1>3, Zenon DEF TickAny, TickReads, UIAt, notUI, modes, marks
<1>4. CASE TickExpires
  BY <1>2, <1>4 DEF TickExpires, UIDone, UIAt, notUI, modes, marks
<1>5. CASE TickSelected
  <2>1. probe' = probe \/ probe'.at \notin {"spawn", "clear", "guard"}
    BY <1>5, <1>p DEF TickSelected
  <2>2. ui' \in {"idle", "seek"} /\ (ui' = "seek" => edges # {})
    BY <1>5, <1>s DEF TickSelected, UIDone, UIAt
  <2> QED
    BY <1>2, <1>5, <2>1, <2>2 DEF TickSelected, notUI, modes, marks
<1>6. CASE TickFollow
  <2>1. /\ UNCHANGED <<enabled, presses, seenTurns, turns>> /\ edges' = {} /\ ui = "observe"
    BY <1>6 DEF TickFollow, notUI, modes, marks
  <2>2. CASE Started = {}
    <3>1. UIDone /\ UNCHANGED generation /\ (UNCHANGED probe \/ StartProbe)
      BY <1>6, <2>2, Zenon DEF TickFollow
    <3> QED
      BY <1>2, <1>p, <2>1, <3>1 DEF UIDone, UIAt
  <2>3. CASE Started # {}
    <3>1. PICK target \in Targets : /\ UIAt("preempt", target) \/ UIAt("seek", target)
                                    /\ generation' \in {generation, generation + 1}
                                    /\ UNCHANGED probe
      BY <1>6, <2>3, Zenon DEF TickFollow
    <3> QED
      BY <1>2, <1>s, <2>1, <2>3, <3>1 DEF UIAt
  <2> QED
    BY <2>2, <2>3
<1>7. CASE TickSeeks
  <2>1. /\ UNCHANGED <<enabled, presses, seenTurns, turns, edges, probe>>
        /\ ui \in {"seek", "preempt"} /\ ui' = "idle"
        /\ generation' = generation \/ generation' = generation + 1
    BY <1>7, Zenon DEF TickSeeks, TakeSeek, UIDone, UIAt, notUI, modes, marks
  <2>2. Owed' + 1 <= Owed /\ Owed' <= Owed
    BY <2>1 DEF Owed
  <2>3. Left' + 1 <= Left /\ Left' <= Left
    BY <1>a, <2>1, <2>2, SameLeft
  <2> QED
    BY <1>a, <2>1, <2>3, PaidStep DEF Budget
<1>8. CASE Joined
  BY <1>1, <1>8 DEF Joined, UIDone, UIAt, notUI, modes, marks
<1> QED
  BY <1>3, <1>4, <1>5, <1>6, <1>7, <1>8 DEF UIStep

LEMMA BudgetInductive ==
  /\ Init => Budget
  /\ Quiet /\ Budget /\ [Next]_vars => Budget'
<1>1. ASSUME Init PROVE Budget
  <2>1. Owed = 0
    BY <1>1 DEF Init, Owed, Flag, NoProbe
  <2>2. Left = Tickets
    BY <1>1, <2>1, WorthAtFirst, KeysFinite DEF Init, Left
  <2> QED
    BY <1>1, <2>2, KeysFinite, TurnStreamAssumption DEF Init, Budget, Paid, Covered, NoProbe
<1>2. ASSUME Quiet, Budget, [Next]_vars PROVE Budget'
  <2>a. TypeOK /\ TypeOK' /\ Quiet' /\ Paid
    BY <1>2, QuietInductive DEF Quiet, Budget
  <2>1. ASSUME UNCHANGED <<enabled, presses, generation, seenTurns, turns, edges, probe, ui>>
        PROVE  Budget'
    <3>1. Owed' <= Owed
      BY <2>1 DEF Owed, Flag
    <3>2. Left' <= Left
      BY <2>1, <2>a, <3>1, SameLeft
    <3> QED
      BY <1>2, <2>1, <2>a, <3>2, PaidStep DEF Budget
  <2>2. ASSUME NEW g \in Gen, WorkerStep(g) PROVE Budget'
    BY <2>1, <2>2, <2>a, WorkerFacts DEF notWorker, modes
  <2>3. ASSUME NEW g \in Gen, PollerStep(g) PROVE Budget'
    BY <2>1, <2>3, <2>a, PollerFacts DEF notPoller, modes
  <2>4. CASE Shutdown \/ \E key \in Keys \cap {"t", "f"} : Press(key)
    <3>1. /\ UNCHANGED <<seenTurns, turns, edges, probe>> /\ ui = "idle"
          /\ generation' = generation + 1
          /\ ui' = "gone" \/ (ui' \in {"idle", "join"} /\ presses' = presses + 1)
          /\ ui' = "gone" => ~enabled'
      BY <2>4, Zenon DEF Shutdown, Press, Disable, Enable, UIAt, notUI, marks
    <3>2. Owed' <= Owed
      BY <3>1 DEF Owed, Flag
    <3>3. Left' <= Left
      BY <2>a, <3>1, <3>2, SameLeft
    <3> QED
      BY <1>2, <2>a, <3>1, <3>3, PaidStep DEF Budget
  <2>5. ASSUME NEW a \in Agents, TurnBegins(a) PROVE Budget'
    <3>1. /\ UNCHANGED <<enabled, presses, generation, seenTurns, probe, ui>>
          /\ turns' = [turns EXCEPT ![a] = @ + 1] /\ edges' = edges \cup {a}
          /\ turns[a] < MaxTurns
      BY <2>5 DEF TurnBegins, notEnv, modes, marks
    <3>2. Worth(turns', edges', seenTurns') <= Worth(turns, edges, seenTurns)
      BY <2>a, <3>1, WorthOfTurn DEF TypeOK
    <3>3. Left' <= Left
      <4>1. Owed' = Owed
        BY <3>1 DEF Owed, Flag
      <4> QED
        BY <2>a, <3>2, <4>1, LeftIsNat, NextLeftIsNat DEF Left
    <3> QED
      BY <1>2, <2>a, <3>1, <3>3, PaidStep DEF Budget
  <2>6. CASE LingerElapses \/ \E a \in Agents : CooldownElapses(a)
    BY <2>1, <2>6 DEF LingerElapses, CooldownElapses, notEnv, modes, marks
  <2>7. CASE UNCHANGED vars
    BY <2>1, <2>7 DEF vars, modes, marks
  <2> QED
    BY <1>2, <2>2, <2>3, <2>4, <2>5, <2>6, <2>7, <2>a, ProbePaid, UIPaid DEF Next
<1> QED
  BY <1>1, <1>2

\* A worker gets its generation from the counter _start_seek increments under the
\* lock.  Whoever is about to start one, the Textual thread or the probe, has a
\* generation of Gen for it: the presses, the edges and the probe's turn keys
\* bound the generations, so every worker the code would start is in the model.
WorkersFit == /\ ui \in {"seek", "preempt"} => generation + 1 \in Gen
              /\ probe.at = "spawn" => probe.gen \in Gen

LEMMA BudgetFits == Quiet /\ Budget => WorkersFit
<1> SUFFICES ASSUME Quiet, Budget, ui \in {"seek", "preempt"} PROVE generation + 1 \in Gen
  BY DEF Budget, WorkersFit
<1>1. Left >= 1
  <2>1. Owed >= 1
    BY DEF Owed, Flag
  <2> QED
    BY <2>1, LeftIsNat DEF Quiet, Left
<1> QED
  BY <1>1, NextFits DEF Quiet, Budget

THEOREM EveryWorkerFits == Spec => []WorkersFit
BY QuietInductive, BudgetInductive, BudgetFits, PTL DEF Spec
-----------------------------------------------------------------------------
(* Who is left to drive the popup                                            *)

HasDriver == \/ generation \in Gen /\ Alive(generation)
             \/ probe.at = "spawn" /\ probe.gen = generation

\* The stop flag is not up while a turn is driven, unless the turn was begun by a
\* probe while it was up.
Unstopped == enabled /\ HasDriver => ~stop \/ "stopped" \in astray

Seeking == status \in {"seeking", "streaming"} /\ ~lingering
Excused == astray \cap {"mode", "late", "stopped"} # {}

\* Driven says that a popup that seeks or streams has a driver, or is excused.
LEMMA DrivenIs == (Driven <=> (Seeking => HasDriver \/ Excused)) /\ (Driven <=> (Seeking => HasDriver \/ Excused))'
BY DEF Driven, Seeking, HasDriver, Excused

\* A step that shows no new turn and loses no driver.
LEMMA DrivenAside ==
  ASSUME Driven, UNCHANGED era, Seeking' => Seeking,
         \A g \in Gen : g = generation /\ pc[g] # "none" => pc'[g] # "none",
         probe' = probe \/ probe.at # "spawn"
  PROVE  Driven'
BY DrivenIs DEF Seeking, HasDriver, Excused, Alive

\* One that starts no driver and raises no stop flag.
LEMMA UnstoppedAside ==
  ASSUME Unstopped, UNCHANGED <<enabled, era>>, HasDriver' => HasDriver, stop' => stop
  PROVE  Unstopped'
BY DEF Unstopped

\* Nobody drives a generation just given out.
LEMMA NoDriverYet ==
  ASSUME Quiet, generation' = generation + 1, UNCHANGED pc,
         probe' = probe \/ probe'.at # "spawn"
  PROVE  ~HasDriver'
<1>1. generation \in Nat /\ probe.gen \in Nat
  BY DEF Quiet, TypeOK
<1>2. generation + 1 \in Gen => pc[generation + 1] = "none"
  BY <1>1 DEF Quiet, Unborn
<1>3. probe.at = "spawn" => probe.gen # generation + 1
  BY <1>1 DEF Quiet, Unborn
<1> QED BY <1>2, <1>3 DEF HasDriver, Alive

LEMMA WorkerDriven ==
  ASSUME Quiet, Unstopped, Driven, NEW g \in Gen, WorkerStep(g)
  PROVE  Unstopped' /\ Driven'
<1>a. pc \in [Gen -> WorkerPC] /\ generation \in Nat
  BY DEF Quiet, TypeOK
<1>f. /\ UNCHANGED notWorker /\ pc[g] # "none"
      /\ \A h \in Gen : h # g => pc'[h] = pc[h]
      /\ UNCHANGED popup \/ Current(g)
  BY WorkerFacts DEF Quiet
<1>n. UNCHANGED <<enabled, era, stop, probe>>
  BY <1>f DEF notWorker, modes
<1>1. Unstopped'
  <2>1. HasDriver' => HasDriver
    BY <1>f, <1>n DEF HasDriver, Alive
  <2> QED BY <1>n, <2>1, UnstoppedAside
<1>q. SUFFICES Driven'
  BY <1>1
<1>2. CASE ~Current(g)
  <2>1. CASE ~enabled
    BY <1>2, <1>f, <1>n, <2>1, DrivenIs DEF Quiet, OffIsQuiet, Seeking, popup
  <2>2. CASE enabled
    <3>1. g # generation
      BY <1>2, <2>2 DEF Current
    <3> QED BY <1>2, <1>f, <1>n, <3>1, DrivenAside DEF popup, Seeking
  <2> QED BY <2>1, <2>2
<1>3. CASE Current(g) /\ pc'[g] # "none"
  BY <1>3, <1>n, DrivenIs DEF HasDriver, Current, Alive
<1>4. CASE Current(g) /\ pc'[g] = "none"
  <2>1. ~stop \/ "stopped" \in astray'
    BY <1>4, <1>f, <1>n DEF Unstopped, HasDriver, Current, Alive
  <2>2. SeekQuits(g) \/ SeekFails(g) \/ Finalize(g) \/ RunnerRaises(g)
    BY <1>4, <1>a DEF WorkerStep, WorkerAdvances, Current, SeekQuery, SeekFinds, ClaimRun,
       EarlyQuery, StreamGoesOn, StreamEnds, PollerJoined, FinalPoll, FinalStale, Die,
       Goto, workers
  <2>3. CASE SeekQuits(g)
    BY <1>4, <2>1, <2>3, DrivenIs DEF SeekQuits, Excused
  <2>4. CASE SeekFails(g) \/ Finalize(g) \/ RunnerRaises(g)
    BY <2>4, DrivenIs DEF SeekFails, Finalize, RunnerRaises, Linger, Seeking
  <2> QED BY <2>2, <2>3, <2>4
<1> QED BY <1>2, <1>3, <1>4

LEMMA PollerDriven ==
  ASSUME Quiet, Unstopped, Driven, NEW g \in Gen, PollerStep(g)
  PROVE  Unstopped' /\ Driven'
<1>f. /\ UNCHANGED notPoller
      /\ \/ UNCHANGED <<popup, astray>>
         \/ /\ Current(g)
            /\ astray' = IF Alive(g) THEN astray ELSE astray \cup {"late"}
  BY PollerFacts DEF Quiet
<1>n. UNCHANGED <<enabled, generation, stop, probe, pc>>
  BY <1>f DEF notPoller, modes, workers
<1>1. Unstopped'
  BY <1>f, <1>n DEF Unstopped, HasDriver, Alive
<1>2. CASE UNCHANGED <<popup, astray>>
  BY <1>1, <1>2, <1>n, DrivenAside DEF popup, Seeking
<1>3. CASE /\ Current(g) /\ astray' = IF Alive(g) THEN astray ELSE astray \cup {"late"}
  BY <1>1, <1>3, <1>n, DrivenIs DEF HasDriver, Excused, Current, Alive
<1> QED BY <1>2, <1>3, <1>f

LEMMA ProbeDriven ==
  ASSUME Quiet, Budget, Unstopped, Driven, ProbeStep
  PROVE  Unstopped' /\ Driven'
<1>a. pc \in [Gen -> WorkerPC] /\ generation \in Nat /\ TypeOK
  BY DEF Quiet, TypeOK
<1>0. UNCHANGED enabled
  BY <1>a, ProbeFacts DEF notProbe, modes
<1>s. stop' = stop \/ stop' = FALSE
  BY DEF ProbeStep, ProbeFetch, ProbeMark, ProbeNoCreds, ProbeClearsStop, ProbeSeeks,
     ProbeSpawns
<1>1. CASE UNCHANGED <<era, popup>> /\ Spawn(probe.gen, probe.agent) /\ probe.at = "spawn"
           /\ probe'.at = "none"
  <2>1. probe.gen \in Gen /\ pc' = [pc EXCEPT ![probe.gen] = "seek"]
    BY <1>1 DEF Spawn, Budget
  <2>2. HasDriver' <=> HasDriver
    BY <1>1, <1>a, <2>1 DEF HasDriver, Alive
  <2>3. Unstopped'
    BY <1>0, <1>1, <1>s, <2>2, UnstoppedAside
  <2>4. Driven'
    BY <1>1, <2>2, DrivenIs DEF Seeking, Excused, popup
  <2> QED BY <2>3, <2>4
<1>2. CASE /\ TakeSeek(probe.agent, TRUE) /\ UNCHANGED <<stop, workers>>
           /\ astray' = IF stop THEN {"stopped"} ELSE {}
           /\ probe'.at = "spawn" /\ probe'.gen = generation + 1
  <2>1. HasDriver'
    BY <1>2 DEF HasDriver, TakeSeek
  <2> QED BY <1>0, <1>2, <2>1, DrivenIs DEF Unstopped
<1>3. CASE UNCHANGED <<era, workers, popup>> /\ probe'.at # "spawn" /\ probe.at # "spawn"
  <2>1. HasDriver' => HasDriver
    BY <1>3 DEF HasDriver, Alive, workers
  <2>2. Unstopped'
    BY <1>0, <1>3, <1>s, <2>1, UnstoppedAside
  <2>3. Driven'
    BY <1>3, DrivenAside DEF Seeking, popup, workers
  <2> QED BY <2>2, <2>3
<1>4. probe.at = "spawn" => ProbeSpawns
  BY DEF ProbeStep, ProbeFetch, ProbeMark, ProbeNoCreds, ProbeClearsStop, ProbeSeeks
<1>5. ProbeSpawns => UNCHANGED <<era, popup>> /\ Spawn(probe.gen, probe.agent) /\ probe'.at = "none"
  BY DEF ProbeSpawns, NoProbe
<1> QED BY <1>1, <1>2, <1>3, <1>4, <1>5, <1>a, ProbeFacts

LEMMA UIDriven ==
  ASSUME Quiet, Budget, Unstopped, Driven, TickAny \/ UIStep
  PROVE  Unstopped' /\ Driven'
<1>a. /\ pc \in [Gen -> WorkerPC] /\ generation \in Nat /\ stop \in BOOLEAN
  BY DEF Quiet, TypeOK
<1>1. ASSUME UNCHANGED <<enabled, era, pc>>, stop' => stop,
             probe' = probe \/ (probe.at # "spawn" /\ probe'.at # "spawn"),
             Seeking' => Seeking
      PROVE  Unstopped' /\ Driven'
  <2>1. HasDriver' => HasDriver
    BY <1>1 DEF HasDriver, Alive
  <2>2. Unstopped'
    BY <1>1, <2>1, UnstoppedAside
  <2>3. Driven'
    BY <1>1, DrivenAside
  <2> QED BY <2>2, <2>3
<1>b. \A name : Blank("idle", name) => ~Seeking'
  BY DEF Blank, Seeking
<1>p. StartProbe => probe' = probe \/ (probe.at # "spawn" /\ probe'.at # "spawn")
  BY DEF StartProbe, NoProbe
<1>2. CASE TickAny
  BY <1>1, <1>2 DEF TickAny, TickReads, workers, modes, popup, Seeking
<1>3. CASE TickExpires
  BY <1>1, <1>3, <1>b DEF TickExpires, workers, modes
<1>4. CASE TickSelected
  <2>1. Seeking' => Seeking
    BY <1>4, <1>b DEF TickSelected, MaybeYield, Seeking, popup
  <2>2. probe' = probe \/ (probe.at # "spawn" /\ probe'.at # "spawn")
    BY <1>4, <1>p DEF TickSelected
  <2> QED BY <1>1, <1>4, <2>1, <2>2 DEF TickSelected, workers, modes
<1>5. CASE TickFollow
  <2>1. UNCHANGED <<enabled, pc>>
    BY <1>5 DEF TickFollow, workers, modes
  <2>2. probe' = probe \/ (probe.at # "spawn" /\ probe'.at # "spawn")
    BY <1>5, <1>p DEF TickFollow
  <2>3. \/ UNCHANGED <<popup, era, stop>>
        \/ generation' = generation + 1 /\ Blank("idle", NoAgent)
        \/ MaybeYield /\ UNCHANGED <<era, stop>>
    BY <1>5, Zenon DEF TickFollow
  <2>4. CASE generation' = generation + 1 /\ Blank("idle", NoAgent)
    BY <1>b, <2>1, <2>2, <2>4, NoDriverYet, DrivenIs DEF Unstopped
  <2>5. CASE MaybeYield /\ UNCHANGED <<era, stop>>
    <3>1. Seeking' => Seeking
      BY <1>b, <2>5 DEF MaybeYield, Seeking, popup
    <3> QED BY <1>1, <2>1, <2>2, <2>5, <3>1
  <2>6. CASE UNCHANGED <<popup, era, stop>>
    BY <1>1, <2>1, <2>2, <2>6 DEF Seeking, popup
  <2> QED BY <2>3, <2>4, <2>5, <2>6
<1>6. CASE TickSeeks
  <2>1. UNCHANGED <<enabled, probe>> /\ (stop' => stop) /\ ui \in {"seek", "preempt"}
    BY <1>6, Zenon DEF TickSeeks, notUI, modes
  <2>2. \/ UNCHANGED <<popup, era, workers>>
        \/ TakeSeek(uiFor, FALSE) /\ Spawn(generation + 1, uiFor) /\ stop' = FALSE
        \/ /\ ShowNoCreds(uiFor) /\ UNCHANGED <<generation, workers>>
           /\ astray' = IF MaySeek THEN astray ELSE astray \cup {"nocreds"}
    BY <1>6, Zenon DEF TickSeeks
  <2>3. CASE UNCHANGED <<popup, era, workers>>
    BY <1>1, <2>1, <2>3 DEF Seeking, popup, workers
  <2>4. CASE TakeSeek(uiFor, FALSE) /\ Spawn(generation + 1, uiFor) /\ stop' = FALSE
    <3>1. generation + 1 \in Gen
      BY <2>1, BudgetFits DEF WorkersFit
    <3>2. HasDriver'
      BY <1>a, <2>4, <3>1 DEF HasDriver, Alive, Spawn, TakeSeek
    <3> QED BY <2>4, <3>2, DrivenIs DEF Unstopped
  <2>5. CASE /\ ShowNoCreds(uiFor) /\ UNCHANGED <<generation, workers>>
             /\ astray' = IF MaySeek THEN astray ELSE astray \cup {"nocreds"}
    <3>1. ~Seeking'
      BY <2>5 DEF ShowNoCreds, Seeking
    <3>2. HasDriver' = HasDriver /\ ("stopped" \in astray => "stopped" \in astray')
      BY <2>1, <2>5 DEF HasDriver, Alive, workers
    <3> QED BY <2>1, <3>1, <3>2, DrivenIs DEF Unstopped
  <2> QED BY <2>2, <2>3, <2>4, <2>5
<1>7. CASE Joined
  BY <1>1, <1>7 DEF Joined, workers, modes, popup, Seeking
<1> QED BY <1>2, <1>3, <1>4, <1>5, <1>6, <1>7 DEF UIStep

LEMMA ToggleDriven ==
  ASSUME Quiet, Unstopped, Driven, Shutdown \/ \E key \in Keys \cap {"t", "f"} : Press(key)
  PROVE  Unstopped' /\ Driven'
<1>0. UNCHANGED <<pc, probe>>
  BY DEF Shutdown, Press, notUI, workers
<1>1. ASSUME NEW to, Disable(to) PROVE Unstopped' /\ Driven'
  <2>1. ~Seeking' /\ ~enabled'
    BY <1>1 DEF Disable, Blank, Seeking
  <2> QED BY <2>1, DrivenIs DEF Unstopped
<1>2. ASSUME NEW f, Enable(f) PROVE Unstopped' /\ Driven'
  <2>1. Unstopped'
    BY <1>0, <1>2, NoDriverYet DEF Enable, Unstopped
  <2>2. CASE enabled /\ status \in {"seeking", "streaming"}
    BY <1>2, <2>1, <2>2, DrivenIs DEF Enable, Excused
  <2>3. CASE enabled /\ status \notin {"seeking", "streaming"}
    BY <1>2, <2>1, <2>3, DrivenIs DEF Enable, Seeking, popup
  <2>4. CASE ~enabled
    BY <1>2, <2>1, <2>4, DrivenIs DEF Enable, Blank, Seeking
  <2> QED BY <2>2, <2>3, <2>4
<1>3. (\E to : Disable(to)) \/ (\E f : Enable(f))
  BY Zenon DEF Shutdown, Press
<1> QED BY <1>1, <1>2, <1>3

\* The popup says seeking or streaming only while the worker of the current
\* generation, or the probe about to start it, is there to finish it: whatever files
\* are missing and however often the mode is toggled, until the mode is switched
\* during a turn, a poller writes after its worker's end, or a probe seeks while a
\* preempt has the stop flag up.
THEOREM PopupIsDriven == Spec => []Driven
<1> DEFINE DrivenInv == Quiet /\ Budget /\ Unstopped /\ Driven
<1>1. Init => Unstopped /\ Driven
  BY DEF Init, Unstopped, Driven
<1>2. ASSUME DrivenInv, [Next]_vars PROVE Unstopped' /\ Driven'
  <2>1. CASE LingerElapses \/ \E a \in Agents : TurnBegins(a) \/ CooldownElapses(a)
    <3>1. UNCHANGED <<enabled, status, lingering, era, stop, pc, probe>>
      BY <2>1 DEF LingerElapses, TurnBegins, CooldownElapses, notEnv, modes, workers
    <3> QED BY <1>2, <3>1, DrivenIs DEF Unstopped, HasDriver, Seeking, Excused, Alive
  <2>2. CASE UNCHANGED vars
    <3>1. UNCHANGED <<enabled, status, lingering, era, stop, pc, probe>>
      BY <2>2 DEF vars, modes, popup, workers
    <3> QED BY <1>2, <3>1, DrivenIs DEF Unstopped, HasDriver, Seeking, Excused, Alive
  <2> QED BY <1>2, <2>1, <2>2, WorkerDriven, PollerDriven, ProbeDriven, UIDriven,
             ToggleDriven DEF Next
<1>3. DrivenInv /\ [Next]_vars => DrivenInv'
  BY <1>2, QuietInductive, BudgetInductive
<1> QED BY <1>1, <1>3, QuietInductive, BudgetInductive, PTL DEF Spec
=============================================================================
