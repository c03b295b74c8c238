------------------------------ MODULE TurnSeek ------------------------------
(* Which Letta run a turn's popup is given (src/src/stop/turn_stream.py): the loop *)
(* of _seek_and_stream, pick_run_id and extend_seek_deadline.  Broca takes one turn *)
(* after the other, and Letta makes a run of each, which may go on when Broca has    *)
(* let go of its turn; run 0 is a row that was left "running" long before.  The      *)
(* lists of runs come late or in part, or say of a run that ended since that it is   *)
(* running; what a run was asked cannot always be fetched; and a call may raise what *)
(* pick_run_id does not catch.  Times are in steps of the clock: a step is longer    *)
(* than the loop's sleep, and passes while its requests are out.                     *)
EXTENDS Integers

CONSTANTS Turns,         \* number of Broca's turns
          Words,         \* Words[k]: what the user said in turn k, or the old run was asked
          Timeout, Longest, Extension,   \* SEEK_TIMEOUT_S, SEEK_MAX_S, 3.0
          CatchUp, Tight, Wide,          \* 8.0, 180.0, max_recovery_age_s
          Begin, End     \* bounds of the clock; the old run is of time 0

Runs == 0..Turns
NoRun == -1

ASSUME SeekAssumption ==
  /\ Turns \in Nat
  /\ {Timeout, Longest, Extension, CatchUp, Tight, Wide, Begin, End} \subseteq Nat \ {0}
  /\ Timeout <= Longest /\ CatchUp <= Tight /\ Begin <= End

VARIABLES clock,
          turn, active,      \* Broca's turn, and whether it has it still
          created, status,   \* of a run: when it was made (0: not yet), how it is
          seeker,            \* "idle"; at the "loop"; in its "calls"; "found"; "gaveup"; "raised"
          for, want,         \* the turn it was started for; are its words known?
          since, deadline,
          chosen, seen,      \* run_id, _seen_runs
          over               \* the runs that had ended when the seek began (history)

broca == <<turn, active>>
letta == <<created, status>>
goal == <<for, want, since, over>>
vars == <<clock, broca, letta, seeker, goal, deadline, chosen, seen>>

-----------------------------------------------------------------------------
(* Broca and Letta: the run of a turn may outlast it *)

Take == /\ ~ active /\ turn < Turns
        /\ turn' = turn + 1 /\ active' = TRUE
        /\ UNCHANGED <<clock, letta, seeker, goal, deadline, chosen, seen>>

MakeRun == /\ active /\ created[turn] = 0
           /\ created' = [created EXCEPT ![turn] = clock]
           /\ status' = [status EXCEPT ![turn] = "running"]
           /\ UNCHANGED <<clock, broca, seeker, goal, deadline, chosen, seen>>

EndRun(k) == /\ status[k] = "running"
             /\ \E s \in {"completed", "failed"} : status' = [status EXCEPT ![k] = s]
             /\ UNCHANGED <<clock, broca, created, seeker, goal, deadline, chosen, seen>>

Release == /\ active
           /\ active' = FALSE
           /\ UNCHANGED <<clock, turn, letta, seeker, goal, deadline, chosen, seen>>

\* The loop itself takes no time.
Tick == /\ seeker # "loop" /\ clock < End
        /\ clock' = clock + 1
        /\ UNCHANGED <<broca, letta, seeker, goal, deadline, chosen, seen>>

-----------------------------------------------------------------------------
(* pick_run_id, of the rows, of those whose words were fetched and are the turn's, *)
(* and of those that are listed as running although they ended since               *)

Least(a, b) == IF a < b THEN a ELSE b
Most(a, b) == IF a < b THEN b ELSE a

TightFloor == since - Tight
WideFloor == clock - Wide
LiveFloor == IF want THEN Least(TightFloor, WideFloor) ELSE TightFloor

\* Mutant: the catch-up window, words or not.
DoneFloorShort == since - CatchUp
DoneFloor == IF want THEN WideFloor ELSE since - CatchUp

Live(k, matched, late) ==
  /\ status[k] = "running" \/ k \in late
  /\ created[k] >= LiveFloor
  /\ want /\ created[k] < TightFloor => k \in matched

\* Mutant: a finished run is taken without a look at its words.
DoneAny(k, matched, late) == status[k] = "completed" /\ k \notin late /\ created[k] >= DoneFloor
Done(k, matched, late) ==
  /\ status[k] = "completed" /\ k \notin late
  /\ created[k] >= DoneFloor
  /\ want => k \in matched

Scored(rows, matched, late) ==
  {k \in rows \ seen : Live(k, matched, late) \/ Done(k, matched, late)}
Narrowed(S, matched) == IF want /\ S \cap matched # {} THEN S \cap matched ELSE S

\* A running row before a finished one, then the younger before the older.
Rank(k, late) == IF status[k] = "running" \/ k \in late THEN 2 ELSE 1
Precedes(j, k, late) == \/ Rank(j, late) < Rank(k, late)
                        \/ Rank(j, late) = Rank(k, late) /\ created[j] <= created[k]
Picked(S, late) == {k \in S : \A j \in S : Precedes(j, k, late)}

Rows == {k \in Runs : created[k] > 0 \/ k = 0}
Ended == {k \in Runs : status[k] \in {"completed", "failed"}}
Stale == Ended \ over    \* the lists are asked for after the seek began
Matching == {k \in Runs : Words[k] = Words[for]}

-----------------------------------------------------------------------------
(* The seek *)

\* A log edge, or the probe: with Broca's words, or without.
Start == /\ seeker = "idle" /\ active
         /\ seeker' = "loop"
         /\ for' = turn /\ want' \in BOOLEAN
         /\ since' = clock /\ deadline' = clock + Timeout /\ over' = Ended
         /\ UNCHANGED <<clock, broca, letta, chosen, seen>>

\* Choose takes what pick_run_id makes of the rows it got; a run is remembered.
Choose(rows, matched, late) ==
  LET picked == Picked(Narrowed(Scored(rows, matched, late), matched), late)
  IN /\ seeker = "loop" /\ clock < deadline
     /\ IF picked = {}
          THEN seeker' = "calls" /\ UNCHANGED <<chosen, seen>>
          ELSE /\ seeker' = "found"
               /\ chosen' \in picked
               /\ seen' = seen \cup {chosen'}
     /\ UNCHANGED <<clock, broca, letta, goal, deadline>>

\* Mutant: only Broca's own word keeps the seek up.
ExtendedActive(owned) == IF ~ owned THEN deadline
                         ELSE Least(since + Longest, Most(deadline, clock + Extension))
\* extend_seek_deadline
Extended(owned) == IF ~ owned /\ ~ want THEN deadline
                   ELSE Least(since + Longest, Most(deadline, clock + Extension))

\* A probe of Broca that fails says it is not active.
Extend == /\ seeker = "calls"
          /\ \E owned \in {FALSE, active} : deadline' = Extended(owned)
          /\ seeker' = "loop"
          /\ UNCHANGED <<clock, broca, letta, goal, chosen, seen>>

\* An error that pick_run_id lets through (a connection that breaks off, a refused
\* redirect) ends the seek: the runner shows it.
Raise == /\ seeker = "loop" /\ clock < deadline
         /\ seeker' = "raised"
         /\ UNCHANGED <<clock, broca, letta, goal, deadline, chosen, seen>>

GiveUp == /\ seeker = "loop" /\ clock >= deadline
          /\ seeker' = "gaveup"
          /\ UNCHANGED <<clock, broca, letta, goal, deadline, chosen, seen>>

\* The popup ends: shown, lingered, turned off, or taken for another agent.
Leave == /\ seeker # "idle"
         /\ seeker' = "idle"
         /\ for' = 0 /\ want' = FALSE /\ since' = 0 /\ deadline' = 0 /\ chosen' = NoRun
         /\ over' = {}
         /\ UNCHANGED <<clock, broca, letta, seen>>

Init == /\ clock = Begin
        /\ turn = 0 /\ active = FALSE
        /\ created = [k \in Runs |-> 0]
        /\ status = [k \in Runs |-> IF k = 0 THEN "running" ELSE "none"]
        /\ seeker = "idle" /\ for = 0 /\ want = FALSE
        /\ since = 0 /\ deadline = 0 /\ over = {}
        /\ chosen = NoRun /\ seen = {}

Next == \/ Take \/ MakeRun \/ Release \/ Tick
        \/ \E k \in 1..Turns : EndRun(k)
        \/ Start \/ Extend \/ Raise \/ GiveUp \/ Leave
        \/ \E rows \in SUBSET Rows :
             \E matched \in SUBSET (rows \cap Matching), late \in SUBSET (rows \cap Stale) :
               Choose(rows, matched, late)

Spec == Init /\ [][Next]_vars

\* The calls return, and not always with less than there is.
Fairness == WF_vars(Extend) /\ SF_vars(Choose(Rows, Rows \cap Matching, {}))
FairSpec == Spec /\ Fairness

-----------------------------------------------------------------------------
(* Properties *)

TypeOK ==
  /\ clock \in Begin..End
  /\ turn \in Runs /\ active \in BOOLEAN
  /\ created \in [Runs -> {0} \cup Begin..End]
  /\ status \in [Runs -> {"none", "running", "completed", "failed"}]
  /\ seeker \in {"idle", "loop", "calls", "found", "gaveup", "raised"}
  /\ for \in Runs /\ want \in BOOLEAN
  /\ since \in {0} \cup Begin..End /\ deadline \in Nat
  /\ chosen \in Runs \cup {NoRun} /\ seen \subseteq Runs
  /\ over \subseteq Runs

\* The run chosen is of the turn sought, or of a later one.  An earlier run is taken
\* only if it was asked the same; or, the words not being known, if it began in the
\* seconds before; or if it was still running when the seek began, and younger than
\* three minutes then (turn_stream.py:725-731, 770-773).
NoEarlierRun ==
  seeker = "found" => \/ chosen >= for
                      \/ want /\ Words[chosen] = Words[for]
                      \/ ~ want /\ created[chosen] >= since - CatchUp
                      \/ chosen \notin over /\ created[chosen] >= TightFloor

\* The docstring of pick_run_id: "Choose a fresh run, correlating it to the Broca query
\* when we have one", "so the previous turn cannot steal the pane" (turn_stream.py:725,
\* 730).  Violated: as long as the row of the turn sought, or its words, are not listed,
\* the previous turn's run is taken while it goes on, whatever it was asked (835-843).
PaneNotStolen ==
  seeker = "found" /\ want => chosen >= for \/ Words[chosen] = Words[for]

\* A seek that knows the words of its turn goes on as long as a turn may take, however
\* long its calls are out, and whatever Broca's bridge says; unless a call raises.
PatientSeek ==
  seeker = "gaveup" => clock - since >= IF want THEN Longest ELSE Timeout

\* A seek whose turn has a run finds one, however late it is listed, and also when it
\* has ended by then; but not when a popup had it before, and not when a call raises.
\* Which run it takes is NoEarlierRun's.
RunFound ==
  (/\ seeker \in {"loop", "calls"} /\ want /\ status[for] \in {"running", "completed"}
   /\ for \notin seen /\ created[for] >= clock - Wide)
  ~> (seeker \in {"found", "raised", "idle"} \/ clock >= since + Longest \/ status[for] = "failed"
      \/ created[for] < clock - Wide)

=============================================================================
