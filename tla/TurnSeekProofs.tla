--------------------------- MODULE TurnSeekProofs ---------------------------
(* The safety of the seek, for every number of turns and every length of its       *)
(* windows.  A row that is taken as running was running when the seek began: what    *)
(* had ended before stays ended (RunsOK), and the lists are asked for later.  A       *)
(* finished row needs the turn's words or the catch-up window.                       *)
EXTENDS TurnSeek, TLAPS

\* Runs end once; the run chosen has been made.
RunsOK == /\ active => turn # 0
          /\ \A k \in Runs : k # 0 /\ created[k] = 0 => status[k] = "none"
          /\ \A k \in over : status[k] \in {"completed", "failed"}
          /\ seeker = "found" => chosen \in Runs /\ (chosen = 0 \/ created[chosen] # 0)

Since == seeker # "idle" => since \in Begin..clock

\* The loop finds its time over only when it is.
Patient ==
  /\ seeker \in {"loop", "calls"} => deadline >= since + Timeout
  /\ seeker = "loop" /\ want /\ clock >= deadline => clock >= since + Longest

IInv == TypeOK /\ RunsOK /\ Since /\ Patient /\ NoEarlierRun /\ PatientSeek

LEMMA Numbers ==
  /\ Turns \in Nat
  /\ Timeout \in Nat /\ Longest \in Nat /\ Extension \in Nat \ {0} /\ CatchUp \in Nat
  /\ Tight \in Nat /\ Wide \in Nat /\ Begin \in Nat \ {0} /\ End \in Nat
  /\ 0 < Timeout /\ Timeout <= Longest /\ CatchUp <= Tight /\ Begin <= End
  BY SeekAssumption

LEMMA OldRun == 0 \in Runs /\ 1..Turns \subseteq Runs /\ \A k \in 1..Turns : k # 0
  BY Numbers DEF Runs

LEMMA InitOK == Init => IInv
<1> SUFFICES ASSUME Init PROVE IInv
  OBVIOUS
<1>1. TypeOK
  <2>1. clock \in Begin..End /\ deadline \in Nat /\ since \in {0} \cup Begin..End
    BY Numbers DEF Init
  <2>2. created \in [Runs -> {0} \cup Begin..End]
    BY DEF Init
  <2>3. status \in [Runs -> {"none", "running", "completed", "failed"}]
    BY DEF Init
  <2> QED
    BY <2>1, <2>2, <2>3, OldRun DEF Init, TypeOK
<1>2. RunsOK
  BY OldRun DEF Init, RunsOK
<1> QED
  BY <1>1, <1>2 DEF Init, IInv, Since, Patient, NoEarlierRun, PatientSeek

LEMMA BrocaOK == IInv /\ (Take \/ Release) => IInv'
<1> SUFFICES ASSUME IInv, Take \/ Release PROVE IInv'
  OBVIOUS
<1>1. UNCHANGED <<clock, letta, seeker, goal, deadline, chosen, seen>>
  BY DEF Take, Release
<1>2. turn' \in Runs /\ active' \in BOOLEAN /\ (active' => turn' # 0)
  <2>1. turn \in 0..Turns
    BY Numbers DEF Runs, IInv, TypeOK
  <2>2. CASE Take
    BY <2>1, <2>2, Numbers DEF Runs, Take
  <2>3. CASE Release
    <3>1. turn' = turn
      BY <2>3 DEF Release
    <3>2. active' \in BOOLEAN /\ ~ active'
      BY <2>3, Zenon DEF Release
    <3> QED
      BY <2>1, <3>1, <3>2 DEF Runs
  <2> QED
    BY <2>2, <2>3
<1>3. TypeOK'
  BY <1>1, <1>2 DEF IInv, TypeOK, letta, goal
<1>4. RunsOK'
  BY <1>1, <1>2 DEF IInv, RunsOK, letta, goal
<1>5. Since' /\ Patient' /\ NoEarlierRun' /\ PatientSeek'
  BY <1>1 DEF IInv, Since, Patient, NoEarlierRun, PatientSeek, TightFloor, letta, goal
<1> QED
  BY <1>3, <1>4, <1>5 DEF IInv

\* What Letta does to run k: it is made, or it ends; what has ended stays so.
LEMMA LettaOK == IInv /\ (MakeRun \/ \E k \in 1..Turns : EndRun(k)) => IInv'
<1> SUFFICES ASSUME IInv, MakeRun \/ \E k \in 1..Turns : EndRun(k) PROVE IInv'
  OBVIOUS
<1>1. UNCHANGED <<clock, broca, seeker, goal, deadline, chosen, seen>>
  BY DEF MakeRun, EndRun
<1>2. PICK k \in Runs \ {0}, t \in {"running", "completed", "failed"} :
        /\ status' = [status EXCEPT ![k] = t]
        /\ \/ created[k] = 0 /\ created' = [created EXCEPT ![k] = clock]
           \/ status[k] = "running" /\ created' = created
  <2>1. CASE MakeRun
    <3>1. turn \in Runs \ {0}
      BY <2>1 DEF MakeRun, IInv, TypeOK, RunsOK
    <3> QED
      BY <2>1, <3>1 DEF MakeRun
  <2>2. CASE \E k \in 1..Turns : EndRun(k)
    BY <2>2, OldRun DEF EndRun
  <2> QED
    BY <2>1, <2>2
<1>3. clock \in Begin..End /\ clock # 0 /\ k \in Runs
  BY <1>2, Numbers DEF IInv, TypeOK
<1>4. /\ created' \in [Runs -> {0} \cup Begin..End] /\ created'[k] # 0
      /\ \A j \in Runs : j # k => created'[j] = created[j]
  <2>1. created[k] # 0 \/ created' = [created EXCEPT ![k] = clock]
    BY <1>2 DEF IInv, RunsOK
  <2> QED
    BY <1>2, <1>3, <2>1 DEF IInv, TypeOK
<1>5. /\ status' \in [Runs -> {"none", "running", "completed", "failed"}]
      /\ \A j \in Runs : j # k => status'[j] = status[j]
      /\ k \notin over
  <2>1. status[k] \in {"none", "running"}
    BY <1>2 DEF IInv, RunsOK
  <2>2. k \notin over
    BY <2>1 DEF IInv, RunsOK
  <2> QED
    BY <1>2, <2>2 DEF IInv, TypeOK
<1>6. TypeOK'
  BY <1>1, <1>4, <1>5 DEF IInv, TypeOK, broca, goal
<1>7. RunsOK'
  <2>1. \A j \in Runs : j # 0 /\ created'[j] = 0 => status'[j] = "none"
    BY <1>4, <1>5 DEF IInv, RunsOK
  <2>2. \A j \in over : status'[j] \in {"completed", "failed"}
    BY <1>5 DEF IInv, RunsOK, TypeOK
  <2>3. seeker = "found" => chosen \in Runs /\ (chosen = 0 \/ created'[chosen] # 0)
    BY <1>4 DEF IInv, RunsOK
  <2> QED
    BY <1>1, <2>1, <2>2, <2>3 DEF IInv, RunsOK, broca, goal
<1>8. Since' /\ Patient' /\ PatientSeek'
  BY <1>1 DEF IInv, Since, Patient, PatientSeek, goal
<1>9. seeker = "found" => created'[chosen] = created[chosen]
  <2> SUFFICES ASSUME seeker = "found" PROVE created'[chosen] = created[chosen]
    OBVIOUS
  <2>1. chosen \in Runs /\ (chosen = k => created[k] # 0)
    BY <1>2 DEF IInv, RunsOK
  <2> QED
    BY <1>2, <1>4, <2>1
<1>10. NoEarlierRun'
  BY <1>1, <1>9 DEF IInv, NoEarlierRun, TightFloor, goal
<1> QED
  BY <1>6, <1>7, <1>8, <1>10 DEF IInv

LEMMA TickOK == IInv /\ Tick => IInv'
<1> SUFFICES ASSUME IInv, Tick PROVE IInv'
  OBVIOUS
<1>1. clock' = clock + 1 /\ clock' \in Begin..End /\ clock \in Int /\ seeker # "loop"
  BY Numbers DEF Runs, IInv, TypeOK, Tick
<1>2. UNCHANGED <<broca, letta, seeker, goal, deadline, chosen, seen>>
  BY DEF Tick
<1>3. TypeOK' /\ RunsOK' /\ NoEarlierRun'
  BY <1>1, <1>2 DEF IInv, TypeOK, RunsOK, NoEarlierRun, TightFloor, broca, letta, goal
<1>4. Since' /\ Patient' /\ PatientSeek'
  BY <1>1, <1>2, Numbers DEF Runs, IInv, TypeOK, Since, Patient, PatientSeek, goal
<1> QED
  BY <1>3, <1>4 DEF IInv

LEMMA StartOK == IInv /\ Start => IInv'
<1> SUFFICES ASSUME IInv, Start PROVE IInv'
  OBVIOUS
<1>1. /\ over' = Ended /\ seeker' = "loop" /\ for' = turn /\ since' = clock
      /\ want' \in BOOLEAN /\ deadline' = clock + Timeout
      /\ UNCHANGED <<clock, broca, letta, chosen, seen>>
  BY DEF Start
<1>2. over' \subseteq Runs /\ \A k \in over' : status[k] \in {"completed", "failed"}
  BY <1>1 DEF Ended
<1>3. clock + Timeout \in Nat
  BY Numbers DEF IInv, TypeOK
<1>4. TypeOK'
  BY <1>1, <1>2, <1>3 DEF IInv, TypeOK, broca, letta
<1>5. RunsOK'
  BY <1>1, <1>2 DEF IInv, RunsOK, broca, letta
<1>6. Since' /\ Patient' /\ NoEarlierRun' /\ PatientSeek'
  BY Numbers DEF Runs, IInv, TypeOK, Start, Since, Patient, NoEarlierRun, PatientSeek
<1> QED
  BY <1>4, <1>5, <1>6 DEF IInv

LEMMA LeaveOK == IInv /\ Leave => IInv'
<1> SUFFICES ASSUME IInv, Leave PROVE IInv'
  OBVIOUS
<1>1. TypeOK'
  BY OldRun DEF IInv, TypeOK, Leave, broca, letta
<1>2. RunsOK'
  BY Numbers DEF Runs, IInv, TypeOK, RunsOK, Leave, broca, letta
<1> QED
  BY <1>1, <1>2 DEF IInv, Leave, Since, Patient, NoEarlierRun, PatientSeek

LEMMA GiveUpOK == IInv /\ GiveUp => IInv'
<1> SUFFICES ASSUME IInv, GiveUp PROVE IInv'
  OBVIOUS
<1>1. TypeOK' /\ RunsOK' /\ Since' /\ Patient' /\ NoEarlierRun'
  BY DEF GiveUp, IInv, TypeOK, RunsOK, Since, Patient, NoEarlierRun, TightFloor, broca, letta, goal
<1>2. clock - since >= IF want THEN Longest ELSE Timeout
  BY Numbers DEF Runs, GiveUp, IInv, TypeOK, Patient
<1>3. PatientSeek'
  BY <1>2 DEF GiveUp, PatientSeek, goal
<1> QED
  BY <1>1, <1>3 DEF IInv

LEMMA RaiseOK == IInv /\ Raise => IInv'
  BY DEF Raise, IInv, TypeOK, RunsOK, Since, Patient, NoEarlierRun, TightFloor, PatientSeek,
         broca, letta, goal

\* The deadline is moved ahead of the clock, or to the longest time.
LEMMA ExtendOK == IInv /\ Extend => IInv'
<1> SUFFICES ASSUME IInv, Extend PROVE IInv'
  OBVIOUS
<1>1. PICK owned \in {FALSE, active} : deadline' = Extended(owned)
  BY DEF Extend
<1>2. /\ seeker = "calls" /\ seeker' = "loop"
      /\ UNCHANGED <<clock, broca, letta, goal, chosen, seen>>
  BY DEF Extend
<1>3. clock \in Nat /\ since \in Nat /\ deadline \in Nat /\ deadline >= since + Timeout
  BY <1>2, Numbers DEF Runs, IInv, TypeOK, Patient
<1>4. deadline' \in Nat /\ deadline' >= since + Timeout
  BY <1>1, <1>3, Numbers DEF Runs, Extended, Least, Most
<1>5. want /\ clock >= deadline' => clock >= since + Longest
  BY <1>1, <1>3, Numbers DEF Runs, Extended, Least, Most
<1>6. TypeOK' /\ RunsOK' /\ Since' /\ NoEarlierRun' /\ PatientSeek'
  BY <1>2, <1>4 DEF IInv, TypeOK, RunsOK, Since, NoEarlierRun, TightFloor, PatientSeek, broca, letta, goal
<1>7. Patient'
  BY <1>2, <1>4, <1>5 DEF Patient, goal
<1> QED
  BY <1>6, <1>7 DEF IInv

\* What pick_run_id may choose.
LEMMA PickedIsNotEarlier ==
  ASSUME IInv, seeker = "loop", NEW rows \in SUBSET Rows, NEW matched \in SUBSET (rows \cap Matching),
         NEW late \in SUBSET (rows \cap Stale), NEW k \in Scored(rows, matched, late)
  PROVE /\ k \in Runs /\ (k = 0 \/ created[k] # 0)
        /\ \/ want /\ Words[k] = Words[for]
           \/ ~ want /\ created[k] >= since - CatchUp
           \/ k \notin over /\ created[k] >= TightFloor
<1>1. k \in Runs /\ (k = 0 \/ created[k] # 0) /\ (Live(k, matched, late) \/ Done(k, matched, late))
  BY DEF Scored, Rows
<1>2. want \in BOOLEAN /\ (k \in matched => Words[k] = Words[for])
  BY DEF Matching, IInv, TypeOK
<1>3. CASE Done(k, matched, late)
  BY <1>1, <1>2, <1>3 DEF Done, DoneFloor
<1>4. CASE Live(k, matched, late)
  <2>1. k \notin over
    BY <1>4 DEF Live, Stale, IInv, RunsOK
  <2>2. since \in Int /\ created[k] \in Int /\ TightFloor \in Int
    BY <1>1, Numbers DEF IInv, TypeOK, TightFloor
  <2>3. CASE created[k] >= TightFloor
    BY <1>1, <2>1, <2>3
  <2>4. CASE created[k] < TightFloor
    <3>1. want
      BY <1>4, <2>2, <2>4 DEF Live, LiveFloor
    <3> QED
      BY <1>1, <1>2, <1>4, <2>4, <3>1 DEF Live
  <2> QED
    BY <2>2, <2>3, <2>4
<1> QED
  BY <1>1, <1>3, <1>4

LEMMA ChooseOK ==
  ASSUME IInv, NEW rows \in SUBSET Rows, NEW matched \in SUBSET (rows \cap Matching),
         NEW late \in SUBSET (rows \cap Stale), Choose(rows, matched, late)
  PROVE IInv'
<1>1. /\ seeker = "loop" /\ clock < deadline
      /\ UNCHANGED <<clock, broca, letta, goal, deadline>>
  BY DEF Choose
<1>2. Since' /\ Patient' /\ PatientSeek'
  BY <1>1 DEF Choose, IInv, Since, Patient, PatientSeek, goal
<1>3. CASE seeker' = "calls" /\ UNCHANGED <<chosen, seen>>
  BY <1>1, <1>2, <1>3 DEF IInv, TypeOK, RunsOK, NoEarlierRun, TightFloor, broca, letta, goal
<1>4. CASE /\ seeker' = "found" /\ seen' = seen \cup {chosen'}
           /\ chosen' \in Picked(Narrowed(Scored(rows, matched, late), matched), late)
  <2>1. chosen' \in Scored(rows, matched, late)
    BY <1>4 DEF Picked, Narrowed
  <2>2. /\ chosen' \in Runs /\ (chosen' = 0 \/ created[chosen'] # 0)
        /\ \/ want /\ Words[chosen'] = Words[for]
           \/ ~ want /\ created[chosen'] >= since - CatchUp
           \/ chosen' \notin over /\ created[chosen'] >= TightFloor
    BY <1>1, <2>1, PickedIsNotEarlier
  <2>3. TypeOK' /\ RunsOK'
    BY <1>1, <1>4, <2>2 DEF IInv, TypeOK, RunsOK, broca, letta, goal
  <2>4. NoEarlierRun'
    BY <1>1, <2>2 DEF NoEarlierRun, TightFloor, letta, goal
  <2> QED
    BY <1>2, <2>3, <2>4 DEF IInv
<1> QED
  BY <1>3, <1>4 DEF Choose

LEMMA StepOK == IInv /\ [Next]_vars => IInv'
<1>1. IInv /\ UNCHANGED vars => IInv'
  BY DEF IInv, TypeOK, RunsOK, Since, Patient, NoEarlierRun, TightFloor, PatientSeek, vars, broca, letta, goal
<1> QED
  BY <1>1, BrocaOK, LettaOK, TickOK, StartOK, LeaveOK, RaiseOK, GiveUpOK, ExtendOK, ChooseOK DEF Next

LEMMA Inductive == Spec => []IInv
  BY InitOK, StepOK, PTL DEF Spec

\* The state keeps its types.
THEOREM TypeCorrect == Spec => []TypeOK
<1>1. IInv => TypeOK
  BY DEF IInv
<1> QED
  BY Inductive, <1>1, PTL

\* The run chosen is not an earlier turn's, unless that was asked the same or, the
\* words unknown, began in the catch-up window, or was still running when the seek
\* began and younger than the tight window.
THEOREM EarlierKeptOut == Spec => []NoEarlierRun
<1>1. IInv => NoEarlierRun
  BY DEF IInv
<1> QED
  BY Inductive, <1>1, PTL

\* A seek is not given up early.
THEOREM SeekIsPatient == Spec => []PatientSeek
<1>1. IInv => PatientSeek
  BY DEF IInv
<1> QED
  BY Inductive, <1>1, PTL

=============================================================================
