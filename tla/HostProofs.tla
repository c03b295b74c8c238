----------------------------- MODULE HostProofs -----------------------------
(* Proofs about the two sides of LiveHost.snapshot: the window states and events *)
(* of HostWindows, for any agents, run logs and system sessions, and the batch of  *)
(* HardcopyPlan, for any Brocas, screens and slots.                                *)
(*   Events: the inductive invariant ties what the strip last said of a window to  *)
(* the state stop remembers for it, not only to the state on screen, since a       *)
(* window may leave the list and come back to it.                                  *)
(*   Batch: sequences without repetition are told by their ranges, a filtered one  *)
(* by the positions it keeps.  Round robin needs the place of a Broca on the walk  *)
(* and the batches it waited to be weighed against each other (InTurn).            *)
EXTENDS HostWindows, HardcopyPlan, SequenceTheorems, FiniteSetTheorems, WellFoundedInduction, TLAPS

SessionState == {"none", "live", "dead"}

\* A window that was once seen up has a remembered state.
Met == \A w \in upOnce : prev[w] # "unseen"

\* What is on screen is what is remembered, up to the flash.
ShownIsPrev == \A w \in Windows : shown[w] # "absent" => prev[w] = Remembered(shown[w])

\* A remembered outage of a window once seen up has its event ...
OutageNoted == \A w \in Windows : prev[w] \in Failure /\ w \in upOnce => last[w] = "died"

\* ... and an outage the strip last told of is still remembered, or lapsed.
RecoveryNoted == \A w \in Screens : last[w] = "died" => prev[w] \in Failure \/ w \in lapsed

Noted == TypeOK /\ Met /\ ShownIsPrev /\ OutageNoted /\ RecoveryNoted

-----------------------------------------------------------------------------

\* A run log's Broca is a screen.
LEMMA LogsBroca == \A w \in Windows \ Screens : Broca(w[1]) \in Screens
BY HostAssumption DEF Windows, Screens, RunLog, Broca

\* The kinds of window by their second part.
LEMMA ScreenKinds == \A w \in Screens : w[2] = "broca" \/ w[2] = "system"
BY DEF Screens, Broca, Surface

\* The states a snapshot gives are states, and a log's is never "returned".
LEMMA StateTypes ==
  ASSUME NEW view \in SUBSET Screens, NEW screens \in [Screens -> SessionState],
         NEW w \in Windows
  PROVE  /\ StateIn(view, screens)[w] \in WindowState
         /\ w \notin Screens => StateIn(view, screens)[w] # "returned"
         /\ StateIn(view, screens)[w] = "returned" => prev[w] \in Failure
<1>1. CASE w \in Screens
  BY <1>1 DEF StateIn, Classify, WindowState
<1>2. CASE w \notin Screens
  <2> DEFINE b == Broca(w[1])
             s == Classify(b \in view, screens[b], prev[b])
  <2>1. screens[b] \in SessionState
    BY <1>2, LogsBroca
  <2>2. s \in WindowState
    BY <2>1 DEF Classify, WindowState, SessionState
  <2>3. StateIn(view, screens)[w] = IF s = "returned" THEN "running" ELSE s
    BY <1>2 DEF StateIn
  <2> HIDE DEF s
  <2> QED
    BY <1>2, <2>2, <2>3 DEF WindowState
<1> QED
  BY <1>1, <1>2

\* A screen that was failing and no longer is, without having returned, is a
\* Broca without a cron line.
LEMMA SilentRecovery ==
  ASSUME NEW view \in SUBSET Screens, NEW screens \in [Screens -> SessionState],
         NEW w \in Screens, prev[w] \in Failure,
         StateIn(view, screens)[w] \notin Failure \cup {"returned"}
  PROVE  w[2] = "broca" /\ w \notin view
<1>1. StateIn(view, screens)[w] = Classify(w \in view \/ w[2] = "system", screens[w], prev[w])
  BY DEF StateIn, Windows
<1>2. screens[w] \in SessionState
  OBVIOUS
<1>3. ~ (w \in view \/ w[2] = "system")
  BY <1>1, <1>2 DEF Classify, Failure, SessionState
<1> QED
  BY <1>3, ScreenKinds

\* One snapshot, whatever the two readings brought, preserves the invariant.
LEMMA SnapshotKeeps ==
  ASSUME Noted, NEW view \in SUBSET Screens, NEW screens \in [Screens -> SessionState],
         SnapshotOf(view, screens)
  PROVE  Noted'
<1> DEFINE listed == Listed(view, screens)
           state == StateIn(view, screens)
<1>1. /\ cron' = view /\ session' = session /\ crontab' = crontab
      /\ shown' = [w \in Windows |-> IF w \in listed THEN state[w] ELSE "absent"]
      /\ last' = [w \in Windows |->
                    IF w \notin listed THEN last[w]
                    ELSE IF Dies(prev[w], state[w]) THEN "died"
                    ELSE IF ComesBack(prev[w], state[w]) THEN "back" ELSE last[w]]
      /\ prev' = [w \in Windows |-> IF w \in listed THEN Remembered(state[w]) ELSE prev[w]]
      /\ upOnce' = upOnce \cup {w \in listed : state[w] \notin Failure}
      /\ lapsed' = (lapsed \cup {w \in Screens : w[2] = "broca" /\ w \notin view})
                     \ {w \in listed : Dies(prev[w], state[w])}
  BY DEF SnapshotOf
<1>2. listed \subseteq Windows
  BY HostAssumption DEF Listed, Windows, Screens
<1>3. \A w \in Windows : /\ state[w] \in WindowState
                         /\ w \notin Screens => state[w] # "returned"
                         /\ state[w] = "returned" => prev[w] \in Failure
  BY StateTypes
<1>4. \A w \in Screens : prev[w] \in Failure /\ state[w] \notin Failure \cup {"returned"}
                           => w[2] = "broca" /\ w \notin view
  BY SilentRecovery
<1>5. Screens \subseteq Windows
  BY DEF Windows
<1> HIDE DEF listed, state
<1>6. TypeOK'
  BY <1>1, <1>2, <1>3, <1>5 DEF Noted, TypeOK, Remembered, WindowState
<1>7. Met'
  BY <1>1, <1>2, <1>3 DEF Noted, Met, TypeOK, Remembered, WindowState
<1>8. ShownIsPrev'
  BY <1>1, <1>2, <1>3 DEF Noted, ShownIsPrev, TypeOK, WindowState
<1>9. OutageNoted'
  <2> SUFFICES ASSUME NEW w \in Windows, prev'[w] \in Failure, w \in upOnce'
               PROVE  last'[w] = "died"
    BY DEF OutageNoted
  <2>1. CASE w \notin listed
    BY <1>1, <2>1 DEF Noted, OutageNoted
  <2>2. CASE w \in listed
    <3>1. state[w] \in Failure /\ w \in upOnce
      BY <1>1, <2>2 DEF Remembered, Failure
    <3>2. prev[w] # "unseen"
      BY <3>1 DEF Noted, Met
    <3>3. CASE prev[w] \in Failure
      BY <1>1, <2>2, <3>1, <3>3 DEF Noted, OutageNoted, Dies, ComesBack, Failure
    <3>4. CASE prev[w] \notin Failure
      BY <1>1, <2>2, <3>1, <3>2, <3>4 DEF Dies
    <3> QED
      BY <3>3, <3>4
  <2> QED
    BY <2>1, <2>2
<1>10. RecoveryNoted'
  <2> SUFFICES ASSUME NEW w \in Screens, last'[w] = "died", prev'[w] \notin Failure
               PROVE  w \in lapsed'
    BY DEF RecoveryNoted
  <2>0. w \in Windows
    BY <1>5
  <2>1. CASE w \notin listed
    BY <1>1, <2>0, <2>1 DEF Noted, RecoveryNoted
  <2>2. CASE w \in listed
    <3>1. state[w] \notin Failure
      BY <1>1, <2>0, <2>2 DEF Remembered, Failure
    <3>2. ~ Dies(prev[w], state[w])
      BY <3>1 DEF Dies
    <3>3. last[w] = "died" /\ ~ ComesBack(prev[w], state[w])
      BY <1>1, <2>0, <2>2, <3>2
    <3>4. CASE prev[w] \in Failure
      BY <1>1, <1>4, <2>2, <3>1, <3>2, <3>3, <3>4 DEF ComesBack
    <3>5. CASE prev[w] \notin Failure
      BY <1>1, <3>2, <3>3, <3>5 DEF Noted, RecoveryNoted
    <3> QED
      BY <3>4, <3>5
  <2> QED
    BY <2>1, <2>2
<1> QED
  BY <1>6, <1>7, <1>8, <1>9, <1>10 DEF Noted

-----------------------------------------------------------------------------

\* The readings are screens and their states.
LEMMA Readings ==
  ASSUME TypeOK
  PROVE  /\ session \in [Screens -> SessionState]
         /\ NoScreens \in [Screens -> SessionState]
         /\ cron \in SUBSET Screens /\ crontab \in SUBSET Screens
BY DEF TypeOK, SessionState, NoScreens

\* The invariant holds at the start ...
LEMMA InitNoted == Init => Noted
<1> SUFFICES ASSUME Init PROVE Noted
  OBVIOUS
<1>1. TypeOK
  BY DEF Init, TypeOK
<1>2. Met /\ ShownIsPrev /\ OutageNoted
  BY DEF Init, Met, ShownIsPrev, OutageNoted
<1>3. RecoveryNoted
  BY DEF Init, RecoveryNoted, Windows
<1> QED
  BY <1>1, <1>2, <1>3 DEF Noted

\* ... and in every step.
LEMMA NextNoted == Noted /\ [Next]_vars => Noted'
<1> SUFFICES ASSUME Noted, [Next]_vars PROVE Noted'
  OBVIOUS
<1>0. TypeOK
  BY DEF Noted
<1>1. CASE SnapshotFresh
  BY <1>0, <1>1, Readings, SnapshotKeeps DEF SnapshotFresh
<1>2. CASE SnapshotDoubtful
  <2>1. PICK view \in {cron, crontab, {}}, screens \in {session, NoScreens} :
          SnapshotOf(view, screens)
    BY <1>2 DEF SnapshotDoubtful
  <2>2. view \in SUBSET Screens /\ screens \in [Screens -> SessionState]
    BY <1>0, Readings
  <2> QED
    BY <2>1, <2>2, SnapshotKeeps
<1>3. ASSUME NEW w \in Screens, SessionChanges(w) PROVE Noted'
  BY <1>3 DEF SessionChanges, notWorld, Noted, TypeOK, Met, ShownIsPrev, OutageNoted,
              RecoveryNoted
<1>4. ASSUME NEW w \in Screens, CrontabEdited(w) PROVE Noted'
  BY <1>4 DEF CrontabEdited, notWorld, Noted, TypeOK, Met, ShownIsPrev, OutageNoted,
              RecoveryNoted
<1>5. CASE UNCHANGED vars
  BY <1>5 DEF vars, Noted, TypeOK, Met, ShownIsPrev, OutageNoted, RecoveryNoted
<1> QED
  BY <1>1, <1>2, <1>3, <1>4, <1>5 DEF Next

\* The invariant, for use below.
LEMMA AlwaysNoted == Spec => []Noted
BY InitNoted, NextNoted, PTL DEF Spec

\* Every variable of HostWindows keeps its type; in particular no window is
\* remembered as "returned" (host.py 539-543), so that flash cannot repeat.
THEOREM TypeCorrect == Spec => []TypeOK
<1>1. Noted => TypeOK
  BY DEF Noted
<1> QED
  BY <1>1, AlwaysNoted, PTL

\* A window of a snapshot that is down, and was once seen up, is one the event
\* strip last said died (host.py 526-533), whatever was cached or failed to be read.
THEOREM OutagesReported == Spec => []OutageReported
<1>1. Noted => OutageReported
  BY DEF Noted, TypeOK, ShownIsPrev, OutageNoted, OutageReported, Remembered, Failure
<1> QED
  BY <1>1, AlwaysNoted, PTL

\* A screen of a snapshot that is up is not one the event strip last said died,
\* unless it lost its cron line in between (host.py 530-533, state.py 30-42).
THEOREM RecoveriesReported == Spec => []RecoveryReported
<1>1. Noted => RecoveryReported
  BY DEF Noted, TypeOK, ShownIsPrev, RecoveryNoted, RecoveryReported, Remembered, Failure,
         Windows
<1> QED
  BY <1>1, AlwaysNoted, PTL

\* One snapshot shows as returned only what it remembered as failing.
LEMMA SnapshotReturns ==
  ASSUME Noted, NEW view \in SUBSET Screens, NEW screens \in [Screens -> SessionState],
         SnapshotOf(view, screens), NEW w \in Screens, shown'[w] = "returned"
  PROVE  shown[w] \in Failure \cup {"absent"}
<1> DEFINE listed == Listed(view, screens)
           state == StateIn(view, screens)
<1>1. w \in Windows
  BY DEF Windows
<1>2. shown' = [v \in Windows |-> IF v \in listed THEN state[v] ELSE "absent"]
  BY DEF SnapshotOf
<1>3. state[w] = "returned"
  <2> HIDE DEF listed, state
  <2> QED
    BY <1>1, <1>2
<1>4. prev[w] \in Failure
  BY <1>1, <1>3, StateTypes
<1> QED
  BY <1>1, <1>4 DEF Noted, ShownIsPrev, Remembered, Failure

\* A screen is shown as returned only right after it was shown failing, or when
\* it comes back to the list (state.py 30-42, host.py 539-543): a window that ran
\* when stop last saw it never flashes, whatever was cached or failed to be read.
THEOREM ReturnsAreReal == Spec => ReturnedFromFailure
<1> DEFINE Real == \A w \in Screens : shown'[w] = "returned" /\ shown[w] # "returned"
                                       => shown[w] \in Failure \cup {"absent"}
<1>1. Noted /\ [Next]_vars => [Real]_vars
  <2> SUFFICES ASSUME Noted, Next, NEW w \in Screens,
                      shown'[w] = "returned", shown[w] # "returned"
               PROVE  shown[w] \in Failure \cup {"absent"}
    OBVIOUS
  <2>0. TypeOK
    BY DEF Noted
  <2>1. CASE SnapshotFresh
    BY <2>0, <2>1, Readings, SnapshotReturns DEF SnapshotFresh
  <2>2. CASE SnapshotDoubtful
    <3>1. PICK view \in {cron, crontab, {}}, screens \in {session, NoScreens} :
            SnapshotOf(view, screens)
      BY <2>2 DEF SnapshotDoubtful
    <3>2. view \in SUBSET Screens /\ screens \in [Screens -> SessionState]
      BY <2>0, Readings
    <3> QED
      BY <3>1, <3>2, SnapshotReturns
  <2>3. CASE \E v \in Screens : SessionChanges(v) \/ CrontabEdited(v)
    BY <2>3 DEF SessionChanges, CrontabEdited, notWorld
  <2> QED
    BY <2>1, <2>2, <2>3 DEF Next
<1> QED
  BY <1>1, AlwaysNoted, PTL DEF Spec, ReturnedFromFailure

-----------------------------------------------------------------------------
(* Sequences of screens.  What a filter keeps is told by the positions it keeps *)

\* A set of positions has a first one.
LEMMA Least ==
  ASSUME NEW n \in Nat, NEW S \in SUBSET (1..n), S # {}
  PROVE  \E x \in S : \A y \in S : x <= y
<1> DEFINE D(x) == {y \in S : y < x}
           F == {D(x) : x \in S}
<1>1. F \subseteq FiniteSubsetsOf(S) /\ F # {}
  <2>1. IsFiniteSet(1..n)
    BY FS_Interval
  <2>2. IsFiniteSet(S)
    BY <2>1, FS_Subset
  <2>3. FiniteSubsetsOf(S) = SUBSET S
    BY <2>2, FS_FiniteSubsetsOfFinite
  <2>4. \A x \in S : D(x) \in SUBSET S
    OBVIOUS
  <2>5. \E x \in S : D(x) \in F
    OBVIOUS
  <2> HIDE DEF D
  <2> QED
    BY <2>3, <2>4, <2>5
<1>2. PICK T \in F : \A U \in F : <<U, T>> \notin StrictSubsetOrdering(S)
  BY <1>1, WFMin, FS_StrictSubsetOrderingWellFounded
<1>3. PICK x \in S : T = D(x)
  BY <1>2
<1>4. ASSUME NEW y \in S, y < x PROVE FALSE
  <2>1. \A z \in S : z \in Int
    OBVIOUS
  <2>2. D(y) \subseteq D(x) /\ y \in D(x) /\ y \notin D(y)
    <3>1. y \in D(x) /\ y \notin D(y)
      BY <1>4, <2>1
    <3>2. \A z \in S : z < y => z < x
      BY <1>4, <2>1
    <3> QED
      BY <3>1, <3>2
  <2>3. <<D(y), D(x)>> \in StrictSubsetOrdering(S)
    <3>1. D(y) \in SUBSET S /\ D(x) \in SUBSET S /\ D(y) # D(x)
      BY <2>2
    <3> HIDE DEF D
    <3> QED
      BY <2>2, <3>1 DEF StrictSubsetOrdering
  <2> QED
    BY <1>2, <1>3, <2>3
<1>5. \A y \in S : x <= y
  BY <1>4
<1> QED
  BY <1>5

\* Among a set of positions each has its rank, and every rank is taken.
LEMMA Ranks ==
  ASSUME NEW n \in Nat, NEW at \in SUBSET (1..n)
  PROVE  /\ IsFiniteSet(at) /\ Cardinality(at) \in 0..n
         /\ \A i, k \in at : i < k =>
              Cardinality({l \in at : l < i}) < Cardinality({l \in at : l < k})
         /\ \A i \in at : Cardinality({l \in at : l < i}) \in 0..(Cardinality(at) - 1)
         /\ \A j \in 1..Cardinality(at) :
              \E i \in at : Cardinality({l \in at : l < i}) = j - 1
<1> DEFINE B(i) == {l \in at : l < i}
           f == [i \in at |-> Cardinality(B(i)) + 1]
<1>1. IsFiniteSet(at) /\ Cardinality(at) \in 0..n
  <2>1. IsFiniteSet(1..n) /\ Cardinality(1..n) = n
    BY FS_Interval
  <2>2. IsFiniteSet(at) /\ Cardinality(at) <= n
    BY <2>1, FS_Subset
  <2>3. Cardinality(at) \in Nat
    BY <2>2, FS_CardinalityType
  <2> QED
    BY <2>2, <2>3
<1>2. \A i \in at : IsFiniteSet(B(i)) /\ Cardinality(B(i)) \in Nat
  BY <1>1, FS_Subset, FS_CardinalityType
<1>3. ASSUME NEW i \in at, NEW T \in SUBSET at, B(i) \subseteq T, i \in T
      PROVE  Cardinality(B(i)) + 1 <= Cardinality(T)
  <2>1. i \notin B(i)
    OBVIOUS
  <2>2. Cardinality(B(i) \cup {i}) = Cardinality(B(i)) + 1
    BY <1>2, <2>1, FS_AddElement
  <2>3. B(i) \cup {i} \in SUBSET T /\ IsFiniteSet(T)
    BY <1>1, <1>3, FS_Subset
  <2> QED
    BY <2>2, <2>3, FS_Subset
<1>4. \A i, k \in at : i < k => Cardinality(B(i)) < Cardinality(B(k))
  <2> SUFFICES ASSUME NEW i \in at, NEW k \in at, i < k
               PROVE  Cardinality(B(i)) < Cardinality(B(k))
    OBVIOUS
  <2>1. B(k) \in SUBSET at /\ B(i) \subseteq B(k) /\ i \in B(k)
    <3>1. \A l \in at : l \in Int
      OBVIOUS
    <3>2. \A l \in at : l < i => l < k
      BY <3>1
    <3> QED
      BY <3>2
  <2> QED
    BY <1>2, <1>3, <2>1
<1>5. \A i \in at : Cardinality(B(i)) + 1 \in 1..Cardinality(at)
  <2> TAKE i \in at
  <2>1. at \in SUBSET at /\ B(i) \subseteq at /\ i \in at
    OBVIOUS
  <2>2. Cardinality(B(i)) + 1 <= Cardinality(at)
    BY <1>3, <2>1
  <2> QED
    BY <1>1, <1>2, <2>2
<1>6. f \in Injection(at, 1..Cardinality(at))
  <2> HIDE DEF B
  <2>1. f \in [at -> 1..Cardinality(at)]
    BY <1>5
  <2>2. ASSUME NEW i \in at, NEW k \in at, f[i] = f[k] PROVE i = k
    <3>1. Cardinality(B(i)) = Cardinality(B(k))
      BY <1>2, <2>2
    <3>2. i \in Int /\ k \in Int
      OBVIOUS
    <3>3. ~(i < k) /\ ~(k < i)
      BY <1>2, <1>4, <3>1
    <3> QED
      BY <3>2, <3>3
  <2> QED
    BY <2>1, <2>2 DEF Injection, IsInjective
<1>7. f \in Surjection(at, 1..Cardinality(at))
  <2>1. IsFiniteSet(1..Cardinality(at)) /\ Cardinality(1..Cardinality(at)) = Cardinality(at)
    BY <1>1, FS_Interval
  <2> HIDE DEF f
  <2> QED
    BY <1>6, <2>1, FS_Injection
<1>8. \A j \in 1..Cardinality(at) : \E i \in at : Cardinality(B(i)) = j - 1
  <2> TAKE j \in 1..Cardinality(at)
  <2>1. PICK i \in at : f[i] = j
    BY <1>7 DEF Surjection
  <2> HIDE DEF B
  <2>2. Cardinality(B(i)) + 1 = j
    BY <2>1
  <2> QED
    BY <1>2, <2>2
<1>9. \A i \in at : Cardinality(B(i)) \in 0..(Cardinality(at) - 1)
  BY <1>1, <1>2, <1>5
<1> QED
  BY <1>1, <1>4, <1>8, <1>9

\* The positions of s that a filter keeps.
Kept(s, S) == {i \in 1..Len(s) : s[i] \in S}

\* What Only returns: s at the positions it keeps, all of them and in order.
LEMMA OnlyIs ==
  ASSUME NEW Q, NEW s \in Seq(Q), NEW S
  PROVE  LET c == Cardinality(Kept(s, S))
         IN  /\ c \in 0..Len(s)
             /\ Only(s, S) \in Seq(Q) /\ Len(Only(s, S)) = c
             /\ \E m \in [1..c -> Kept(s, S)] :
                  /\ \A j \in 1..c : Only(s, S)[j] = s[m[j]]
                  /\ \A j, k \in 1..c : j < k => m[j] < m[k]
                  /\ \A i \in Kept(s, S) : \E j \in 1..c : m[j] = i
<1> DEFINE at == Kept(s, S)
           c == Cardinality(at)
           Before(i) == Cardinality({k \in at : k < i})
           Nth(j) == CHOOSE i \in at : Before(i) = j - 1
           m == [j \in 1..c |-> Nth(j)]
<1>1. /\ Len(s) \in Nat /\ at \in SUBSET (1..Len(s))
      /\ \A i \in at : i \in Int
  BY LenProperties DEF Kept
<1>2. /\ c \in 0..Len(s)
      /\ \A i, k \in at : i < k => Before(i) < Before(k)
      /\ \A i \in at : Before(i) \in 0..(c - 1)
      /\ \A j \in 1..c : \E i \in at : Before(i) = j - 1
  <2> HIDE DEF at
  <2> QED
    BY <1>1, Ranks
<1>3. Only(s, S) = [j \in 1..c |-> s[Nth(j)]]
  BY DEF Only, Kept
<1> HIDE DEF at, Before
<1>4. \A j \in 1..c : Nth(j) \in at /\ Before(Nth(j)) = j - 1
  BY <1>2
<1>5. m \in [1..c -> at] /\ \A j \in 1..c : Before(m[j]) = j - 1
  BY <1>4
<1> HIDE DEF Nth
<1>6. \A j \in 1..c : Only(s, S)[j] = s[m[j]] /\ s[m[j]] \in Q
  <2> TAKE j \in 1..c
  <2>1. m[j] \in 1..Len(s)
    BY <1>1, <1>5
  <2>2. s[m[j]] \in Q
    BY <2>1, ElementOfSeq
  <2> QED
    BY <1>3, <2>2
<1> HIDE DEF m
<1>7. Only(s, S) \in Seq(Q) /\ Len(Only(s, S)) = c
  <2>1. c \in Nat
    BY <1>1, <1>2
  <2>2. \A j \in 1..c : Only(s, S)[j] \in Q
    BY <1>6
  <2>3. Only(s, S) \in [1..c -> Q]
    BY <1>3, <2>2
  <2> QED
    BY <2>1, <2>3
<1>8. ASSUME NEW j \in 1..c, NEW k \in 1..c, j < k PROVE m[j] < m[k]
  <2>1. m[j] \in at /\ m[k] \in at /\ Before(m[j]) = j - 1 /\ Before(m[k]) = k - 1
    BY <1>5
  <2>2. m[j] \in Int /\ m[k] \in Int
    BY <1>1, <2>1
  <2>3. ~(m[k] < m[j]) /\ m[j] # m[k]
    BY <1>2, <1>8, <2>1
  <2> QED
    BY <2>2, <2>3
<1>9. ASSUME NEW i \in at PROVE \E j \in 1..c : m[j] = i
  <2>1. PICK j \in 1..c : j - 1 = Before(i)
    <3>1. Before(i) \in 0..(c - 1) /\ c \in Int
      BY <1>1, <1>2
    <3>2. Before(i) + 1 \in 1..c /\ (Before(i) + 1) - 1 = Before(i)
      BY <3>1
    <3> QED
      BY <3>2
  <2>2. m[j] \in at /\ Before(m[j]) = Before(i)
    BY <1>5, <2>1
  <2>3. m[j] \in Int /\ i \in Int
    BY <1>1, <2>2
  <2>4. ~(m[j] < i) /\ ~(i < m[j])
    BY <1>2, <2>2, <2>3
  <2>5. m[j] = i
    BY <2>3, <2>4
  <2> QED
    BY <2>5
<1>10. \E mm \in [1..c -> at] :
                  /\ \A j \in 1..c : Only(s, S)[j] = s[mm[j]]
                  /\ \A j, k \in 1..c : j < k => mm[j] < mm[k]
                  /\ \A i \in at : \E j \in 1..c : mm[j] = i
  BY <1>5, <1>6, <1>8, <1>9
<1> QED
  BY <1>2, <1>7, <1>10 DEF at

\* The elements of what Only returns, and that it repeats none.
LEMMA OnlyRange ==
  ASSUME NEW Q, NEW s \in Seq(Q), NEW S
  PROVE  /\ Range(Only(s, S)) = Range(s) \cap S
         /\ IsInjective(s) => IsInjective(Only(s, S))
<1> DEFINE c == Cardinality(Kept(s, S))
           o == Only(s, S)
<1>1. PICK m \in [1..c -> Kept(s, S)] :
        /\ \A j \in 1..c : o[j] = s[m[j]]
        /\ \A j, k \in 1..c : j < k => m[j] < m[k]
        /\ \A i \in Kept(s, S) : \E j \in 1..c : m[j] = i
  BY OnlyIs
<1>2. DOMAIN o = 1..c /\ DOMAIN s = 1..Len(s) /\ c \in Nat
  BY OnlyIs, LenProperties
<1>3. Range(o) \subseteq Range(s) \cap S
  BY <1>1, <1>2 DEF Range, Kept
<1>4. ASSUME NEW x \in Range(s) \cap S PROVE x \in Range(o)
  <2>1. PICK i \in 1..Len(s) : s[i] = x
    BY <1>2 DEF Range
  <2>2. i \in Kept(s, S)
    BY <2>1 DEF Kept
  <2>3. PICK j \in 1..c : m[j] = i
    BY <1>1, <2>2
  <2> QED
    BY <1>1, <1>2, <2>1, <2>3 DEF Range
<1>5. ASSUME IsInjective(s), NEW j \in 1..c, NEW k \in 1..c, o[j] = o[k] PROVE j = k
  <2>1. m[j] \in 1..Len(s) /\ m[k] \in 1..Len(s)
    BY DEF Kept
  <2>2. s[m[j]] = s[m[k]]
    BY <1>1, <1>5
  <2>3. m[j] = m[k]
    BY <1>2, <1>5, <2>1, <2>2 DEF IsInjective
  <2>4. ~(j < k) /\ ~(k < j)
    BY <1>1, <2>1, <2>3
  <2> QED
    BY <1>2, <2>4
<1> QED
  BY <1>2, <1>3, <1>4, <1>5 DEF IsInjective

\* The first element that Only returns is the first that it keeps.
LEMMA OnlyFirst ==
  ASSUME NEW Q, NEW s \in Seq(Q), NEW S,
         NEW i \in Kept(s, S), \A k \in Kept(s, S) : i <= k
  PROVE  Len(Only(s, S)) >= 1 /\ Only(s, S)[1] = s[i]
<1> DEFINE c == Cardinality(Kept(s, S))
           o == Only(s, S)
<1>1. PICK m \in [1..c -> Kept(s, S)] :
        /\ \A j \in 1..c : o[j] = s[m[j]]
        /\ \A j, k \in 1..c : j < k => m[j] < m[k]
        /\ \A k \in Kept(s, S) : \E j \in 1..c : m[j] = k
  BY OnlyIs
<1>2. Len(o) = c /\ c \in Nat
  BY OnlyIs, LenProperties
<1>3. PICK j \in 1..c : m[j] = i
  BY <1>1
<1>4. 1 \in 1..c
  BY <1>2, <1>3
<1>5. m[1] \in Kept(s, S) /\ i <= m[1]
  BY <1>4
<1>6. m[1] \in Int /\ i \in Int
  BY <1>5 DEF Kept
<1>7. ~(1 < j)
  BY <1>1, <1>3, <1>4, <1>5, <1>6
<1>8. j = 1
  BY <1>2, <1>3, <1>7
<1> QED
  BY <1>1, <1>2, <1>3, <1>4, <1>8

\* A prefix, and one that is cut to a number of screens.
LEMMA PrefixIs ==
  ASSUME NEW Q, NEW s \in Seq(Q), NEW k \in 0..Len(s)
  PROVE  LET p == SubSeq(s, 1, k)
         IN  /\ p \in Seq(Q) /\ Len(p) = k
             /\ \A i \in 1..k : p[i] = s[i]
             /\ Range(p) \subseteq Range(s)
             /\ IsInjective(s) => IsInjective(p)
<1> DEFINE p == SubSeq(s, 1, k)
<1>1. Len(s) \in Nat /\ DOMAIN s = 1..Len(s) /\ k \in Nat
  BY LenProperties
<1>2. \A i \in 1..k : s[i] \in Q
  BY <1>1, ElementOfSeq
<1>3. p \in Seq(Q) /\ Len(p) = k /\ \A i \in 1..k : p[i] = s[i]
  BY <1>1, <1>2
<1>4. DOMAIN p = 1..k /\ 1..k \subseteq 1..Len(s)
  BY <1>1, <1>3, LenProperties
<1> HIDE DEF p
<1>5. Range(p) \subseteq Range(s)
  BY <1>1, <1>3, <1>4 DEF Range
<1>6. IsInjective(s) => IsInjective(p)
  BY <1>1, <1>3, <1>4 DEF IsInjective
<1> QED
  BY <1>3, <1>5, <1>6 DEF p

LEMMA FirstOfIs ==
  ASSUME NEW Q, NEW s \in Seq(Q), NEW n \in Nat
  PROVE  /\ FirstOf(s, n) \in Seq(Q) /\ Len(FirstOf(s, n)) <= n
         /\ Len(s) >= 1 /\ n >= 1 => Len(FirstOf(s, n)) >= 1 /\ FirstOf(s, n)[1] = s[1]
         /\ Range(FirstOf(s, n)) \subseteq Range(s)
         /\ IsInjective(s) => IsInjective(FirstOf(s, n))
<1> DEFINE k == IF Len(s) < n THEN Len(s) ELSE n
<1>1. Len(s) \in Nat
  BY LenProperties
<1>2. k \in 0..Len(s) /\ k <= n /\ (Len(s) >= 1 /\ n >= 1 => k >= 1)
  BY <1>1
<1>3. FirstOf(s, n) = SubSeq(s, 1, k)
  BY DEF FirstOf
<1> HIDE DEF k
<1> QED
  BY <1>1, <1>2, <1>3, PrefixIs

\* One sequence after another.
LEMMA ConcatIs ==
  ASSUME NEW Q, NEW s \in Seq(Q), NEW t \in Seq(Q)
  PROVE  /\ s \o t \in Seq(Q) /\ Len(s \o t) = Len(s) + Len(t)
         /\ Range(s \o t) = Range(s) \cup Range(t)
         /\ IsInjective(s) /\ IsInjective(t) /\ Range(s) \cap Range(t) = {} => IsInjective(s \o t)
         /\ \A i \in 1..Len(s) : (s \o t)[i] = s[i]
<1>1. /\ Len(s) \in Nat /\ Len(t) \in Nat
      /\ DOMAIN s = 1..Len(s) /\ DOMAIN t = 1..Len(t)
  BY LenProperties
<1>2. /\ s \o t \in Seq(Q) /\ Len(s \o t) = Len(s) + Len(t)
      /\ \A i \in 1..(Len(s) + Len(t)) :
           (s \o t)[i] = IF i <= Len(s) THEN s[i] ELSE t[i - Len(s)]
  BY ConcatProperties
<1> DEFINE u == s \o t
<1>3. DOMAIN u = 1..(Len(s) + Len(t))
  BY <1>2, LenProperties
<1> HIDE DEF u
<1>4. \A i \in 1..Len(s) : i \in DOMAIN u /\ u[i] = s[i]
  BY <1>1, <1>2, <1>3 DEF u
<1>5. \A i \in 1..Len(t) : Len(s) + i \in DOMAIN u /\ u[Len(s) + i] = t[i]
  <2> TAKE i \in 1..Len(t)
  <2>1. Len(s) + i \in 1..(Len(s) + Len(t)) /\ ~(Len(s) + i <= Len(s))
        /\ (Len(s) + i) - Len(s) = i
    BY <1>1
  <2> QED
    BY <1>2, <1>3, <2>1 DEF u
<1>6. \A i \in DOMAIN u : \/ i \in 1..Len(s)
                          \/ \E j \in 1..Len(t) : i = Len(s) + j
  <2> TAKE i \in DOMAIN u
  <2>1. CASE i <= Len(s)
    BY <1>1, <1>3, <2>1
  <2>2. CASE ~(i <= Len(s))
    <3>1. i - Len(s) \in 1..Len(t) /\ i = Len(s) + (i - Len(s))
      BY <1>1, <1>3, <2>2
    <3> QED
      BY <3>1
  <2> QED
    BY <2>1, <2>2
<1>7. Range(u) = Range(s) \cup Range(t)
  <2>1. \A x \in Range(u) : x \in Range(s) \cup Range(t)
    <3> TAKE x \in Range(u)
    <3>1. PICK i \in DOMAIN u : u[i] = x
      BY DEF Range
    <3> QED
      BY <1>1, <1>4, <1>5, <1>6, <3>1 DEF Range
  <2>2. Range(s) \subseteq Range(u)
    BY <1>1, <1>4 DEF Range
  <2>3. Range(t) \subseteq Range(u)
    <3> SUFFICES ASSUME NEW x \in Range(t) PROVE x \in Range(u)
      OBVIOUS
    <3>1. PICK i \in DOMAIN t : t[i] = x
      BY DEF Range
    <3> QED
      BY <1>1, <1>5, <3>1 DEF Range
  <2> QED
    BY <2>1, <2>2, <2>3
<1>8. ASSUME IsInjective(s), IsInjective(t), Range(s) \cap Range(t) = {},
             NEW i \in DOMAIN u, NEW j \in DOMAIN u, u[i] = u[j]
      PROVE  i = j
  <2>1. \A k \in 1..Len(s) : s[k] \in Range(s)
    BY <1>1 DEF Range
  <2>2. \A k \in 1..Len(t) : t[k] \in Range(t)
    BY <1>1 DEF Range
  <2>3. CASE i \in 1..Len(s) /\ j \in 1..Len(s)
    BY <1>1, <1>4, <1>8, <2>3 DEF IsInjective
  <2>4. CASE i \in 1..Len(s) /\ \E l \in 1..Len(t) : j = Len(s) + l
    BY <1>4, <1>5, <1>8, <2>1, <2>2, <2>4
  <2>5. CASE j \in 1..Len(s) /\ \E l \in 1..Len(t) : i = Len(s) + l
    BY <1>4, <1>5, <1>8, <2>1, <2>2, <2>5
  <2>6. ASSUME NEW k \in 1..Len(t), NEW l \in 1..Len(t), i = Len(s) + k, j = Len(s) + l
        PROVE  i = j
    <3>1. t[k] = t[l]
      BY <1>5, <1>8, <2>6
    <3> QED
      BY <1>1, <1>8, <2>6, <3>1 DEF IsInjective
  <2> QED
    BY <1>6, <2>3, <2>4, <2>5, <2>6
<1>9. IsInjective(s) /\ IsInjective(t) /\ Range(s) \cap Range(t) = {} => IsInjective(u)
  BY <1>8 DEF IsInjective
<1> QED
  BY <1>2, <1>4, <1>7, <1>9 DEF u

\* What is left without some screens.
LEMMA WithoutIs ==
  ASSUME NEW Q, NEW s \in Seq(Q), NEW S
  PROVE  /\ Without(s, S) \in Seq(Q)
         /\ Range(Without(s, S)) = Range(s) \ S
         /\ IsInjective(s) => IsInjective(Without(s, S))
         /\ Len(Without(s, S)) = Cardinality({i \in 1..Len(s) : s[i] \notin S})
<1>1. Len(Without(s, S)) = Cardinality(Kept(s, Range(s) \ S)) /\ Without(s, S) \in Seq(Q)
  BY OnlyIs DEF Without
<1>2. Kept(s, Range(s) \ S) = {i \in 1..Len(s) : s[i] \notin S}
  <2>1. \A i \in 1..Len(s) : s[i] \in Range(s)
    BY LenProperties DEF Range
  <2> QED
    BY <2>1 DEF Kept
<1>3. /\ Range(Without(s, S)) = Range(s) \cap (Range(s) \ S)
      /\ IsInjective(s) => IsInjective(Without(s, S))
  BY OnlyRange DEF Without
<1> QED
  BY <1>1, <1>2, <1>3

\* Of a sequence that has no screen twice.
LEMMA WithoutSimple ==
  ASSUME NEW Q, NEW s \in Seq(Q), NEW S, IsInjective(s)
  PROVE  /\ Without(s, S) \in Seq(Q) /\ IsInjective(Without(s, S))
         /\ Range(Without(s, S)) = Range(s) \ S
<1>1. IsInjective(Without(s, S))
  BY WithoutIs
<1>2. Without(s, S) \in Seq(Q)
  BY WithoutIs
<1>3. Range(Without(s, S)) = Range(s) \ S
  BY WithoutIs
<1> QED
  BY <1>1, <1>2, <1>3


\* Without repetition, a sequence is as long as it has elements.
LEMMA LenOfRange ==
  ASSUME NEW Q, NEW s \in Seq(Q), IsInjective(s)
  PROVE  IsFiniteSet(Range(s)) /\ Cardinality(Range(s)) = Len(s)
<1>1. Len(s) \in Nat /\ DOMAIN s = 1..Len(s) /\ s \in [1..Len(s) -> Q]
  BY LenProperties
<1>2. s \in Surjection(1..Len(s), Range(s)) /\ s \in Injection(1..Len(s), Range(s))
  BY <1>1 DEF Surjection, Injection, Range
<1>3. IsFiniteSet(1..Len(s)) /\ Cardinality(1..Len(s)) = Len(s)
  BY <1>1, FS_Interval
<1>4. IsFiniteSet(Range(s))
  BY <1>2, <1>3, FS_Surjection, SMTT(30)
<1>5. Cardinality(Range(s)) = Cardinality(1..Len(s))
  BY <1>2, <1>3, FS_Surjection
<1> QED
  BY <1>3, <1>4, <1>5

-----------------------------------------------------------------------------
(* The probe's walk goes round: remainders *)

\* Division with rest, which is unique.
LEMMA Division ==
  ASSUME NEW x \in Nat, NEW n \in Nat \ {0}
  PROVE  /\ x \div n \in Nat /\ x % n \in 0..(n - 1)
         /\ x = n * (x \div n) + (x % n)
OBVIOUS

LEMMA Rest ==
  ASSUME NEW x \in Nat, NEW n \in Nat \ {0}, NEW q \in Nat, NEW r \in 0..(n - 1),
         x = n * q + r
  PROVE  x % n = r
<1> DEFINE p == x \div n
           s == x % n
<1>1. p \in Nat /\ s \in 0..(n - 1) /\ x = n * p + s
  BY Division
<1> HIDE DEF p, s
<1>2. n * p + s = n * q + r
  BY <1>1
<1>3. ~(p < q)
  <2> SUFFICES ASSUME p < q PROVE FALSE
    OBVIOUS
  <2>1. PICK e \in Nat : q = p + 1 + e
    <3>1. q - p - 1 \in Nat /\ q = p + 1 + (q - p - 1)
      BY <1>1
    <3> QED
      BY <3>1
  <2>2. n * q = n * p + n + n * e
    BY <1>1, <2>1
  <2>3. n * e \in Nat /\ n * p \in Nat
    BY <1>1
  <2> QED
    BY <1>1, <1>2, <2>2, <2>3
<1>4. ~(q < p)
  <2> SUFFICES ASSUME q < p PROVE FALSE
    OBVIOUS
  <2>1. PICK e \in Nat : p = q + 1 + e
    <3>1. p - q - 1 \in Nat /\ p = q + 1 + (p - q - 1)
      BY <1>1
    <3> QED
      BY <3>1
  <2>2. n * p = n * q + n + n * e
    BY <1>1, <2>1
  <2>3. n * e \in Nat /\ n * q \in Nat
    BY <1>1
  <2> QED
    BY <1>1, <1>2, <2>2, <2>3
<1>5. p = q
  BY <1>1, <1>3, <1>4
<1>6. s = r
  <2>1. n * p \in Nat
    BY <1>1
  <2> QED
    BY <1>1, <1>2, <1>5, <2>1
<1> QED
  BY <1>6 DEF s

\* A few steps on from a place on a circle of n.
LEMMA Onward ==
  ASSUME NEW c \in Nat, NEW n \in Nat \ {0}, NEW d \in 0..(n - 1)
  PROVE  (c + d) % n = IF (c % n) + d < n THEN (c % n) + d ELSE (c % n) + d - n
<1> DEFINE q == c \div n
           r == c % n
<1>1. q \in Nat /\ r \in 0..(n - 1) /\ c = n * q + r
  BY Division
<1> HIDE DEF q, r
<1>2. CASE r + d < n
  <2>1. c + d = n * q + (r + d) /\ r + d \in 0..(n - 1) /\ c + d \in Nat
    BY <1>1, <1>2
  <2> QED
    BY <1>1, <1>2, <2>1, Rest DEF r
<1>3. CASE ~(r + d < n)
  <2>1. n * (q + 1) = n * q + n
    BY <1>1
  <2>2. n * q \in Nat
    BY <1>1
  <2>3. c + d = n * (q + 1) + (r + d - n) /\ r + d - n \in 0..(n - 1) /\ c + d \in Nat
        /\ q + 1 \in Nat
    BY <1>1, <1>3, <2>1, <2>2
  <2>4. (c + d) % n = r + d - n
    BY <2>3, Rest
  <2> QED
    BY <1>3, <2>4 DEF r
<1> QED
  BY <1>2, <1>3 DEF r

\* The remainder by a name that the provers can match.
Mod(x, n) == x % n

\* Counting round a multiple of n does not show on a circle of n.
LEMMA Wrapped ==
  ASSUME NEW x \in Nat, NEW n \in Nat \ {0}, NEW t \in Nat \ {0}, Mod(t, n) = 0, NEW d \in Nat
  PROVE  Mod(Mod(x, t) + d, n) = Mod(x + d, n)
<1> DEFINE u == t \div n
           q == x \div t
           r == x % t
           k == (r + d) \div n
           s == (r + d) % n
<1>1. u \in Nat /\ t = n * u
  <2>1. u \in Nat /\ t = n * u + (t % n)
    BY Division
  <2> HIDE DEF u
  <2>2. n * u \in Nat /\ t % n = 0
    BY <2>1 DEF Mod
  <2> QED
    BY <2>1, <2>2
<1>2. q \in Nat /\ r \in Nat /\ x = t * q + r
  <2>1. q \in Nat /\ r \in 0..(t - 1) /\ x = t * q + r
    BY Division
  <2> HIDE DEF q, r
  <2> QED
    BY <2>1
<1> HIDE DEF q, r, u
<1>3. k \in Nat /\ s \in 0..(n - 1) /\ r + d = n * k + s
  <2>1. r + d \in Nat
    BY <1>2
  <2> QED
    BY <2>1, Division
<1> HIDE DEF k
<1>4. t * q = n * (u * q) /\ u * q \in Nat
  BY <1>1, <1>2
<1>5. x + d = t * q + (n * k + s)
  <2>1. t * q \in Nat
    BY <1>2
  <2> HIDE DEF s
  <2> QED
    BY <1>2, <1>3, <2>1
<1>6. n * (u * q) + n * k = n * (u * q + k)
  BY <1>1, <1>2, <1>3, <1>4
<1>7. x + d = n * (u * q + k) + s /\ u * q + k \in Nat
  <2>1. n * (u * q) \in Nat /\ n * k \in Nat
    BY <1>3, <1>4
  <2> HIDE DEF s
  <2> QED
    BY <1>3, <1>4, <1>5, <1>6, <2>1
<1>8. (x + d) % n = s
  <2>1. x + d \in Nat
    OBVIOUS
  <2> HIDE DEF s
  <2> QED
    BY <1>3, <1>7, <2>1, Rest
<1> QED
  BY <1>8 DEF r, s, Mod

-----------------------------------------------------------------------------
(* The batch *)

\* A focus without repetition, and counters that are numbers.
PlanTypes == /\ available \in SUBSET Candidates
             /\ focus \in Seq(Candidates) /\ IsInjective(focus)
             /\ cursor \in Nat
             /\ waiting \in [BrocaScreens -> Nat]

\* The Brocas that run, in the order of their names.
Sampled == Only(Brocas, available)

LEMMA PlanNumbers ==
  /\ MaxScreens \in Nat \ {0} /\ Turn \in Nat \ {0}
  /\ Reserved \in Nat /\ MaxScreens - Reserved \in Nat \ {0}
  /\ Brocas \in Seq(BrocaScreens) /\ IsInjective(Brocas)
<1>1. /\ MaxScreens \in Nat \ {0} /\ Turn \in Nat \ {0} /\ ProbeSlots \in Nat
      /\ Brocas \in Seq(STRING) /\ IsInjective(Brocas)
  BY PlanAssumption
<1>2. Reserved \in Nat /\ MaxScreens - Reserved \in Nat \ {0}
  BY <1>1 DEF Reserved
<1>3. Len(Brocas) \in Nat /\ Brocas \in [1..Len(Brocas) -> STRING]
  BY <1>1, LenProperties
<1>4. Brocas \in [1..Len(Brocas) -> BrocaScreens]
  BY <1>3 DEF BrocaScreens, Range
<1> QED
  BY <1>1, <1>2, <1>3, <1>4

LEMMA SampledIs ==
  /\ Sampled \in Seq(BrocaScreens) /\ IsInjective(Sampled)
  /\ Range(Sampled) = available \cap BrocaScreens
  /\ Len(Sampled) = Running /\ Running \in Nat
  /\ Running # 0 => Turn % Running = 0
<1>1. /\ Sampled \in Seq(BrocaScreens) /\ IsInjective(Sampled)
      /\ Range(Sampled) = BrocaScreens \cap available
      /\ Len(Sampled) \in 0..Len(Brocas)
  BY PlanNumbers, OnlyIs, OnlyRange DEF Sampled, BrocaScreens
<1>2. Len(Sampled) = Running
  BY <1>1, LenOfRange DEF Running
<1>3. Len(Brocas) \in Nat
  BY PlanNumbers, LenProperties
<1>4. \A n \in 1..Len(Brocas) : Turn % n = 0
  BY PlanAssumption
<1>5. Running \in 0..Len(Brocas)
  BY <1>1, <1>2
<1>6. Running # 0 => Running \in 1..Len(Brocas)
  BY <1>3, <1>5
<1> QED
  BY <1>1, <1>2, <1>4, <1>5, <1>6

\* The walk meets every running Broca once, from the cursor on.
LEMMA WalkIs ==
  ASSUME cursor \in Nat
  PROVE  /\ Walk \in Seq(BrocaScreens) /\ IsInjective(Walk) /\ Len(Walk) = Running
         /\ Range(Walk) = available \cap BrocaScreens
         /\ \A d \in 0..(Running - 1) : Walk[d + 1] = Sampled[((cursor + d) % Running) + 1]
<1> DEFINE n == Running
           w == Walk
           place(d) == (cursor + d) % n
<1>1. w = [i \in 1..n |-> Sampled[((cursor + i - 1) % n) + 1]]
  BY SampledIs DEF Walk, Sampled
<1>2. n \in Nat
  BY SampledIs
<1>3. \A d \in 0..(n - 1) : d + 1 \in 1..n /\ cursor + (d + 1) - 1 = cursor + d
  BY <1>2
<1> HIDE DEF w
<1>4. \A d \in 0..(n - 1) : w[d + 1] = Sampled[place(d) + 1]
  BY <1>1, <1>3
<1>5. \A i \in 1..n : i - 1 \in 0..(n - 1) /\ i = (i - 1) + 1
  BY <1>2
<1>6. \A d \in 0..(n - 1) : /\ place(d) \in 0..(n - 1)
                            /\ place(d) = IF (cursor % n) + d < n THEN (cursor % n) + d
                                          ELSE (cursor % n) + d - n
  <2> TAKE d \in 0..(n - 1)
  <2>1. n \in Nat \ {0} /\ cursor + d \in Nat
    BY <1>2
  <2>2. place(d) \in 0..(n - 1)
    BY <2>1, Division
  <2>3. place(d) = IF (cursor % n) + d < n THEN (cursor % n) + d ELSE (cursor % n) + d - n
    BY <2>1, Onward
  <2> QED
    BY <2>2, <2>3
<1>7. n # 0 => cursor % n \in 0..(n - 1)
  BY <1>2, Division
<1> HIDE DEF place
<1>8. \A d, e \in 0..(n - 1) : place(d) = place(e) => d = e
  <2> SUFFICES ASSUME NEW d \in 0..(n - 1), NEW e \in 0..(n - 1), place(d) = place(e)
               PROVE  d = e
    OBVIOUS
  <2> DEFINE r == cursor % n
  <2>1. r \in 0..(n - 1)
    BY <1>2, <1>7
  <2>2. place(d) = (IF r + d < n THEN r + d ELSE r + d - n)
        /\ place(e) = (IF r + e < n THEN r + e ELSE r + e - n)
    BY <1>6
  <2> HIDE DEF r
  <2>3. (IF r + d < n THEN r + d ELSE r + d - n) = (IF r + e < n THEN r + e ELSE r + e - n)
    BY <2>2
  <2>4. n \in Int /\ r \in Int /\ d \in Int /\ e \in Int
        /\ 0 <= d /\ d < n /\ 0 <= e /\ e < n
    BY <1>2, <2>1
  <2> QED
    BY <2>3, <2>4
<1>9. \A p \in 0..(n - 1) : \E d \in 0..(n - 1) : place(d) = p
  <2> TAKE p \in 0..(n - 1)
  <2> DEFINE r == cursor % n
             d == IF r <= p THEN p - r ELSE p - r + n
  <2>1. r \in 0..(n - 1)
    BY <1>2, <1>7
  <2>2. d \in 0..(n - 1) => place(d) = IF r + d < n THEN r + d ELSE r + d - n
    BY <1>6
  <2> HIDE DEF r
  <2>3. d \in 0..(n - 1) /\ (IF r + d < n THEN r + d ELSE r + d - n) = p
    BY <1>2, <2>1
  <2> HIDE DEF d
  <2> QED
    BY <2>2, <2>3
<1>10. \A p \in 0..(n - 1) : Sampled[p + 1] \in available \cap BrocaScreens
  <2> TAKE p \in 0..(n - 1)
  <2>1. p + 1 \in DOMAIN Sampled
    BY <1>2, SampledIs, LenProperties
  <2> QED
    BY <2>1, SampledIs DEF Range
<1>11. w \in [1..n -> available \cap BrocaScreens]
  <2>1. \A i \in 1..n : w[i] \in available \cap BrocaScreens
    <3> TAKE i \in 1..n
    <3>1. i - 1 \in 0..(n - 1) /\ w[(i - 1) + 1] = Sampled[place(i - 1) + 1] /\ i = (i - 1) + 1
      BY <1>4, <1>5
    <3>2. place(i - 1) \in 0..(n - 1)
      BY <1>6, <3>1
    <3> QED
      BY <1>10, <3>1, <3>2
  <2> QED
    BY <1>1, <2>1
<1>12. w \in Seq(BrocaScreens) /\ Len(w) = n
  BY <1>2, <1>11
<1>13. IsInjective(w)
  <2> SUFFICES ASSUME NEW i \in 1..n, NEW j \in 1..n, w[i] = w[j] PROVE i = j
    BY <1>11 DEF IsInjective
  <2>1. w[i] = Sampled[place(i - 1) + 1] /\ w[j] = Sampled[place(j - 1) + 1]
    BY <1>4, <1>5
  <2>2. place(i - 1) + 1 \in DOMAIN Sampled /\ place(j - 1) + 1 \in DOMAIN Sampled
    <3>1. place(i - 1) \in 0..(n - 1) /\ place(j - 1) \in 0..(n - 1)
      BY <1>5, <1>6
    <3> QED
      BY <1>2, <3>1, SampledIs, LenProperties
  <2>3. place(i - 1) + 1 = place(j - 1) + 1
    BY <2>1, <2>2, SampledIs DEF IsInjective
  <2>4. place(i - 1) = place(j - 1)
    <3>1. place(i - 1) \in Int /\ place(j - 1) \in Int
      BY <1>5, <1>6
    <3> QED
      BY <2>3, <3>1
  <2>5. i - 1 = j - 1
    BY <1>5, <1>8, <2>4
  <2> QED
    BY <2>5
<1>14. ASSUME NEW b \in available \cap BrocaScreens PROVE b \in Range(w)
  <2>1. PICK i \in 1..n : Sampled[i] = b
    <3>1. b \in Range(Sampled) /\ DOMAIN Sampled = 1..n
      BY SampledIs, LenProperties
    <3> QED
      BY <3>1 DEF Range
  <2>2. PICK d \in 0..(n - 1) : place(d) = i - 1
    BY <1>5, <1>9
  <2>3. w[d + 1] = b
    BY <1>4, <1>5, <2>1, <2>2
  <2>4. d + 1 \in DOMAIN w
    BY <1>3, <1>11
  <2> QED
    BY <2>3, <2>4 DEF Range
<1>15. Range(w) = available \cap BrocaScreens
  BY <1>11, <1>14 DEF Range
<1> QED
  BY <1>4, <1>12, <1>13, <1>15 DEF w, place

\* The walk ends at the last free slot, or has gone once round.
LEMMA StepsAre ==
  ASSUME cursor \in Nat, NEW seen
  PROVE  /\ Steps(seen) \in 0..Running
         /\ Len(Without(SubSeq(Walk, 1, Steps(seen)), seen)) <= Reserved
         /\ Reserved > 0 /\ Steps(seen) # Running => Steps(seen) >= Reserved
<1> DEFINE n == Running
           new(k) == {i \in 1..k : Walk[i] \notin seen}
           found(k) == Len(Without(SubSeq(Walk, 1, k), seen))
           Full == {k \in 1..n : found(k) = Reserved}
<1>1. n \in Nat /\ Reserved \in Nat /\ Walk \in Seq(BrocaScreens) /\ Len(Walk) = n
  BY SampledIs, PlanNumbers, WalkIs
<1>2. ASSUME NEW k \in 0..n
      PROVE  found(k) = Cardinality(new(k)) /\ IsFiniteSet(new(k)) /\ found(k) \in 0..k
  <2> DEFINE p == SubSeq(Walk, 1, k)
  <2>1. p \in Seq(BrocaScreens) /\ Len(p) = k /\ \A i \in 1..k : p[i] = Walk[i]
    BY <1>1, PrefixIs
  <2> HIDE DEF p
  <2>2. {i \in 1..Len(p) : p[i] \notin seen} = new(k)
    BY <2>1
  <2>3. Len(Without(p, seen)) = Cardinality(new(k))
    BY <2>1, <2>2, WithoutIs
  <2>4. k \in Nat /\ IsFiniteSet(1..k) /\ Cardinality(1..k) = k
    BY <1>1, FS_Interval
  <2>5. IsFiniteSet(new(k)) /\ Cardinality(new(k)) <= k
    BY <2>4, FS_Subset
  <2>6. Cardinality(new(k)) \in Nat
    BY <2>5, FS_CardinalityType
  <2> QED
    BY <2>3, <2>4, <2>5, <2>6 DEF p
<1>3. Steps(seen) = IF Reserved = 0 THEN 0 ELSE IF Full = {} THEN n ELSE Min(Full)
  BY <1>1 DEF Steps
<1> HIDE DEF found
<1>4. ASSUME NEW k \in 1..n PROVE found(k) <= found(k - 1) + 1
  <2>1. k - 1 \in 0..n /\ k \in 0..n
    BY <1>1
  <2>2. new(k) \in SUBSET (new(k - 1) \cup {k})
    <3>1. \A i \in 1..k : i \in 1..(k - 1) \/ i = k
      BY <1>1
    <3> QED
      BY <3>1
  <2>3. IsFiniteSet(new(k - 1)) /\ IsFiniteSet(new(k - 1) \cup {k})
        /\ Cardinality(new(k - 1) \cup {k}) <= Cardinality(new(k - 1)) + 1
    <3>1. IsFiniteSet(new(k - 1)) /\ Cardinality(new(k - 1)) \in Nat
      BY <1>2, <2>1, FS_CardinalityType
    <3> HIDE DEF new
    <3>2. IsFiniteSet(new(k - 1) \cup {k})
      BY <3>1, FS_AddElement
    <3>3. \/ Cardinality(new(k - 1) \cup {k}) = Cardinality(new(k - 1))
          \/ Cardinality(new(k - 1) \cup {k}) = Cardinality(new(k - 1)) + 1
      BY <3>1, FS_AddElement
    <3> QED
      BY <3>1, <3>2, <3>3
  <2>4. Cardinality(new(k)) <= Cardinality(new(k - 1) \cup {k})
    BY <2>2, <2>3, FS_Subset
  <2>5. found(k) = Cardinality(new(k)) /\ found(k - 1) = Cardinality(new(k - 1))
        /\ found(k) \in Nat /\ found(k - 1) \in Nat
    BY <1>2, <2>1
  <2>6. Cardinality(new(k - 1) \cup {k}) \in Nat
    BY <2>3, FS_CardinalityType
  <2> HIDE DEF new
  <2> QED
    BY <2>3, <2>4, <2>5, <2>6
<1>5. \A k \in 0..n : found(k) \in Nat /\ found(k) <= k
  <2> SUFFICES ASSUME NEW k \in 0..n PROVE found(k) \in Nat /\ found(k) <= k
    OBVIOUS
  <2>1. found(k) \in 0..k
    BY <1>2
  <2> QED
    BY <1>1, <2>1
<1>6. found(0) = 0
  <2>1. 0 \in 0..n
    BY <1>1
  <2> QED
    BY <1>5, <2>1
<1>7. CASE Reserved = 0
  BY <1>1, <1>3, <1>6, <1>7 DEF found
<1>8. CASE Reserved # 0 /\ Full # {}
  <2>1. \E k \in Full : \A l \in Full : k <= l
    <3>1. Full \in SUBSET (1..n)
      OBVIOUS
    <3> HIDE DEF Full
    <3> QED
      BY <1>1, <1>8, <3>1, Least
  <2>2. Min(Full) \in Full
    BY <2>1 DEF Min
  <2>3. PICK k \in Full : k = Steps(seen)
    BY <1>3, <1>8, <2>2
  <2>4. k \in 1..n /\ found(k) = Reserved
    OBVIOUS
  <2>5. k \in 0..n /\ found(k) <= k
    BY <1>1, <1>5, <2>4
  <2>6. k >= Reserved
    BY <1>1, <2>4, <2>5
  <2>7. found(k) <= Reserved
    BY <1>1, <2>4
  <2> QED
    BY <2>3, <2>5, <2>6, <2>7 DEF found
<1>9. CASE Reserved # 0 /\ Full = {}
  <2>1. found(n) <= Reserved
    <3> SUFFICES ASSUME ~(found(n) <= Reserved) PROVE FALSE
      OBVIOUS
    <3> DEFINE H == {k \in 1..n : found(k) >= Reserved}
    <3>1. found(n) \in Nat /\ found(n) >= Reserved
      <4>1. n \in 0..n
        BY <1>1
      <4>2. found(n) \in Nat
        BY <1>5, <4>1
      <4> QED
        BY <1>1, <4>2
    <3>2. n # 0
      BY <1>1, <1>6, <1>9, <3>1
    <3>3. n \in H
      BY <1>1, <3>1, <3>2
    <3>4. PICK k \in H : \A l \in H : k <= l
      <4>1. H \in SUBSET (1..n) /\ H # {}
        BY <3>3
      <4> HIDE DEF H
      <4> QED
        BY <1>1, <4>1, Least
    <3>5. k \in 1..n /\ k - 1 \in 0..n /\ k - 1 < k /\ found(k) \in Nat /\ found(k - 1) \in Nat
      <4>1. k \in 1..n /\ k \in 0..n /\ k - 1 \in 0..n /\ k - 1 < k
        BY <1>1
      <4> QED
        BY <1>5, <4>1
    <3>6. k - 1 \notin H
      BY <3>4, <3>5
    <3>7. found(k - 1) < Reserved
      <4>1. CASE k - 1 = 0
        BY <1>1, <1>6, <1>9, <4>1
      <4>2. CASE k - 1 # 0
        BY <1>1, <3>5, <3>6, <4>2
      <4> QED
        BY <4>1, <4>2
    <3>8. found(k) <= found(k - 1) + 1 /\ found(k) >= Reserved
      BY <1>4, <3>5
    <3>9. found(k) = Reserved
      BY <1>1, <3>5, <3>7, <3>8
    <3> QED
      BY <1>9, <3>5, <3>9
  <2> QED
    BY <1>1, <1>3, <1>9, <2>1 DEF found
<1> QED
  BY <1>7, <1>8, <1>9

\* The focus, and every running Broca when it has none, without repetition.
LEMMA OrderIs ==
  ASSUME PlanTypes
  PROVE  Order \in Seq(Candidates) /\ IsInjective(Order)
<1>1. focus \in Seq(Candidates) /\ IsInjective(focus)
  BY DEF PlanTypes
<1>2. CASE Range(focus) \cap BrocaScreens # {}
  BY <1>1, <1>2 DEF Order
<1>3. CASE Range(focus) \cap BrocaScreens = {}
  <2>1. Order = focus \o Sampled
    BY <1>3 DEF Order, Sampled
  <2>2. Sampled \in Seq(Candidates) /\ IsInjective(Sampled) /\ Range(Sampled) \subseteq BrocaScreens
    <3>1. Sampled \in Seq(BrocaScreens) /\ IsInjective(Sampled)
          /\ Range(Sampled) \subseteq BrocaScreens
      BY SampledIs
    <3>2. BrocaScreens \subseteq Candidates
      BY DEF Candidates
    <3> QED
      BY <3>1, <3>2
  <2>3. Range(focus) \cap Range(Sampled) = {}
    BY <1>3, <2>2
  <2> QED
    BY <1>1, <2>1, <2>2, <2>3, ConcatIs
<1> QED
  BY <1>2, <1>3

LEMMA PrimaryIs ==
  ASSUME PlanTypes
  PROVE  /\ Primary \in Seq(Candidates) /\ IsInjective(Primary)
         /\ Range(Primary) \subseteq available
         /\ Len(Primary) <= MaxScreens - Reserved
<1> DEFINE o == Only(Order, available)
<1>1. Order \in Seq(Candidates) /\ IsInjective(Order)
  BY OrderIs
<1>2. o \in Seq(Candidates) /\ IsInjective(o) /\ Range(o) \subseteq available
  BY <1>1, OnlyIs, OnlyRange
<1>3. Primary = FirstOf(o, MaxScreens - Reserved)
  BY DEF Primary, Prioritize
<1>4. MaxScreens - Reserved \in Nat
  BY PlanNumbers
<1> HIDE DEF o
<1> QED
  BY <1>2, <1>3, <1>4, FirstOfIs

LEMMA ProbesAre ==
  ASSUME PlanTypes
  PROVE  /\ Probes \in Seq(Candidates) /\ IsInjective(Probes)
         /\ Range(Probes) \subseteq available \ Range(Primary)
         /\ Len(Probes) <= Reserved
<1> DEFINE k == Steps(Range(Primary))
           p == SubSeq(Walk, 1, k)
<1>1. /\ Walk \in Seq(BrocaScreens) /\ IsInjective(Walk) /\ Len(Walk) = Running
      /\ Range(Walk) = available \cap BrocaScreens
      /\ k \in 0..Running
      /\ Len(Without(p, Range(Primary))) <= Reserved
  BY WalkIs, StepsAre DEF PlanTypes
<1> HIDE DEF k
<1>2. p \in Seq(BrocaScreens) /\ IsInjective(p) /\ Range(p) \subseteq available
  BY <1>1, PrefixIs
<1>3. Probes = Without(p, Range(Primary))
  BY DEF Probes, k
<1>4. BrocaScreens \subseteq Candidates
  BY DEF Candidates
<1> HIDE DEF p
<1>5. /\ Without(p, Range(Primary)) \in Seq(BrocaScreens)
      /\ IsInjective(Without(p, Range(Primary)))
      /\ Range(Without(p, Range(Primary))) = Range(p) \ Range(Primary)
  BY <1>2, WithoutSimple
<1> QED
  BY <1>1, <1>2, <1>3, <1>4, <1>5

\* The batch that the plan comes to.
LEMMA PlanKeepsWithin == PlanTypes => WithinBatch
<1> SUFFICES ASSUME PlanTypes PROVE WithinBatch
  OBVIOUS
<1> DEFINE both == Primary \o Probes
           o == Only(Order, available)
           left == Without(o, Range(both))
           rest == FirstOf(left, MaxScreens - Len(both))
<1>1. /\ Primary \in Seq(Candidates) /\ IsInjective(Primary)
      /\ Range(Primary) \subseteq available /\ Len(Primary) <= MaxScreens - Reserved
      /\ Probes \in Seq(Candidates) /\ IsInjective(Probes)
      /\ Range(Probes) \subseteq available \ Range(Primary) /\ Len(Probes) <= Reserved
  BY PrimaryIs, ProbesAre
<1>2. MaxScreens \in Nat /\ Reserved \in Nat
  BY PlanNumbers
<1>3. /\ both \in Seq(Candidates) /\ Len(both) = Len(Primary) + Len(Probes)
      /\ Range(both) = Range(Primary) \cup Range(Probes)
      /\ IsInjective(both)
  <2>1. Range(Primary) \cap Range(Probes) = {}
    BY <1>1
  <2> QED
    BY <1>1, <2>1, ConcatIs
<1>4. o \in Seq(Candidates) /\ IsInjective(o) /\ Range(o) \subseteq available
  BY OrderIs, OnlyIs, OnlyRange
<1>5. Plan = both \o rest
  BY DEF Plan
<1> HIDE DEF both, o
<1>6. left \in Seq(Candidates) /\ IsInjective(left) /\ Range(left) = Range(o) \ Range(both)
  BY <1>4, WithoutSimple
<1>7. MaxScreens - Len(both) \in Nat
  <2>1. Len(Primary) \in Nat /\ Len(Probes) \in Nat
    BY <1>1, LenProperties
  <2> QED
    BY <1>1, <1>2, <1>3, <2>1
<1> HIDE DEF left
<1>8. /\ rest \in Seq(Candidates) /\ IsInjective(rest) /\ Range(rest) \subseteq Range(left)
      /\ Len(rest) <= MaxScreens - Len(both)
  BY <1>6, <1>7, FirstOfIs
<1> HIDE DEF rest
<1>9. Range(both) \cap Range(rest) = {}
  BY <1>6, <1>8
<1>10. /\ Len(Plan) = Len(both) + Len(rest)
       /\ Range(Plan) = Range(both) \cup Range(rest)
       /\ IsInjective(Plan)
  <2>1. both \in Seq(Candidates) /\ rest \in Seq(Candidates)
        /\ IsInjective(both) /\ IsInjective(rest)
    BY <1>3, <1>8
  <2>2. /\ Len(both \o rest) = Len(both) + Len(rest)
        /\ Range(both \o rest) = Range(both) \cup Range(rest)
        /\ IsInjective(both \o rest)
    BY <1>9, <2>1, ConcatIs
  <2> QED
    BY <1>5, <2>2
<1>11. Len(Plan) <= MaxScreens
  <2>1. Len(both) \in Nat /\ Len(rest) \in Nat
    BY <1>3, <1>8, LenProperties
  <2> QED
    BY <1>2, <1>8, <1>10, <2>1
<1>12. Range(Plan) \subseteq available
  BY <1>1, <1>3, <1>4, <1>6, <1>8, <1>10
<1> QED
  BY <1>10, <1>11, <1>12 DEF WithinBatch

\* What the batch starts with.
LEMMA PlanStartsHot == PlanTypes => FocusFirst
<1> SUFFICES ASSUME PlanTypes, Only(focus, available) # << >>
             PROVE  Plan[1] = Only(focus, available)[1]
  BY DEF FocusFirst
<1> DEFINE o == Only(Order, available)
           both == Primary \o Probes
           rest == FirstOf(Without(o, Range(both)), MaxScreens - Len(both))
<1>1. focus \in Seq(Candidates) /\ Order \in Seq(Candidates) /\ IsInjective(Order)
  BY OrderIs DEF PlanTypes
<1>2. Len(focus) \in Nat
  BY <1>1, LenProperties
<1>3. Kept(focus, available) # {}
  <2> SUFFICES ASSUME Kept(focus, available) = {} PROVE FALSE
    OBVIOUS
  <2>1. Only(focus, available) \in Seq(Candidates) /\ Len(Only(focus, available)) = 0
    BY <1>1, OnlyIs, FS_EmptySet
  <2> QED
    BY <2>1, EmptySeq
<1>4. PICK i \in Kept(focus, available) : \A k \in Kept(focus, available) : i <= k
  <2>1. Kept(focus, available) \in SUBSET (1..Len(focus))
    BY DEF Kept
  <2> QED
    BY <1>2, <1>3, <2>1, Least
<1>5. /\ i \in 1..Len(focus) /\ focus[i] \in available
      /\ Only(focus, available)[1] = focus[i]
  BY <1>1, <1>4, OnlyFirst DEF Kept
<1>6. i \in Kept(Order, available) /\ Order[i] = focus[i]
      /\ \A k \in Kept(Order, available) : i <= k
  <2>1. CASE Order = focus
    BY <1>4, <2>1
  <2>2. CASE Order = focus \o Sampled
    <3>1. Sampled \in Seq(Candidates)
      BY SampledIs DEF Candidates
    <3>2. /\ Len(Order) = Len(focus) + Len(Sampled) /\ Len(Sampled) \in Nat
          /\ \A k \in 1..Len(focus) : Order[k] = focus[k]
      BY <1>1, <2>2, <3>1, ConcatIs, LenProperties
    <3>3. i \in 1..Len(Order) /\ Order[i] = focus[i]
      BY <1>2, <1>5, <3>2
    <3>4. ASSUME NEW k \in Kept(Order, available) PROVE i <= k
      <4>1. k \in Nat /\ k >= 1 /\ Order[k] \in available
        BY DEF Kept
      <4>2. CASE k <= Len(focus)
        <5>1. k \in 1..Len(focus) /\ focus[k] \in available
          BY <1>2, <3>2, <4>1, <4>2
        <5> QED
          BY <1>4, <5>1 DEF Kept
      <4>3. CASE ~(k <= Len(focus))
        BY <1>2, <1>5, <4>1, <4>3
      <4> QED
        BY <4>2, <4>3
    <3> QED
      BY <1>5, <3>3, <3>4 DEF Kept
  <2> QED
    BY <2>1, <2>2 DEF Order, Sampled
<1>7. o \in Seq(Candidates) /\ Len(o) >= 1 /\ o[1] = focus[i]
  BY <1>1, <1>6, OnlyFirst, OnlyIs
<1>8. Primary = FirstOf(o, MaxScreens - Reserved) /\ Plan = both \o rest
  BY DEF Primary, Prioritize, Plan
<1> HIDE DEF o
<1>9. Len(Primary) >= 1 /\ Primary[1] = focus[i]
  <2>1. MaxScreens - Reserved \in Nat /\ MaxScreens - Reserved >= 1
    BY PlanNumbers
  <2> QED
    BY <1>7, <1>8, <2>1, FirstOfIs
<1>10. Primary \in Seq(Candidates) /\ Probes \in Seq(Candidates) /\ Len(Primary) \in Nat
  BY PrimaryIs, ProbesAre, LenProperties
<1>11. /\ both \in Seq(Candidates) /\ Len(both) = Len(Primary) + Len(Probes)
       /\ both[1] = Primary[1]
  BY <1>9, <1>10, ConcatIs
<1>12. MaxScreens - Len(both) \in Nat /\ 1 \in 1..Len(both)
  <2>1. Len(Probes) \in Nat /\ Len(Primary) <= MaxScreens - Reserved /\ Len(Probes) <= Reserved
    BY PrimaryIs, ProbesAre, LenProperties
  <2>2. MaxScreens \in Nat /\ Reserved \in Nat
    BY PlanNumbers
  <2> QED
    BY <1>9, <1>10, <1>11, <2>1, <2>2
<1> HIDE DEF both
<1>13. rest \in Seq(Candidates)
  <2>1. Without(o, Range(both)) \in Seq(Candidates)
    BY <1>7, WithoutIs
  <2> QED
    BY <1>12, <2>1, FirstOfIs
<1> HIDE DEF rest
<1>14. Plan[1] = both[1]
  BY <1>8, <1>11, <1>12, <1>13, ConcatIs
<1> QED
  BY <1>5, <1>9, <1>11, <1>14

-----------------------------------------------------------------------------
(* Steps *)

\* A running Broca that waited for some batches is so near to the cursor that
\* as many slots as these batches had lie behind it: those the cursor went over.
InTurn == Reserved > 0 => \A b \in BrocaScreens :
            \/ b \notin available /\ waiting[b] = 0
            \/ \E d \in 0..(Running - 1) : Walk[d + 1] = b /\ waiting[b] * Reserved + d < Running

PlanInv == PlanTypes /\ InTurn

\* Every running Broca is somewhere ahead of the cursor.
LEMMA Ahead ==
  cursor \in Nat => \A b \in available \cap BrocaScreens :
                      \E d \in 0..(Running - 1) : Walk[d + 1] = b
<1> SUFFICES ASSUME cursor \in Nat, NEW b \in available \cap BrocaScreens
             PROVE  \E d \in 0..(Running - 1) : Walk[d + 1] = b
  OBVIOUS
<1>1. Walk \in Seq(BrocaScreens) /\ Len(Walk) = Running /\ b \in Range(Walk) /\ Running \in Nat
  BY WalkIs, SampledIs
<1>2. PICK i \in 1..Running : Walk[i] = b
  BY <1>1, LenProperties DEF Range
<1>3. i - 1 \in 0..(Running - 1) /\ (i - 1) + 1 = i
  BY <1>1
<1> QED
  BY <1>2, <1>3

\* A batch that starts anew ...
LEMMA Fresh == cursor \in Nat /\ waiting = Nobody => InTurn
<1> SUFFICES ASSUME cursor \in Nat, waiting = Nobody, NEW b \in BrocaScreens
             PROVE  \/ b \notin available /\ waiting[b] = 0
                    \/ \E d \in 0..(Running - 1) :
                         Walk[d + 1] = b /\ waiting[b] * Reserved + d < Running
  BY DEF InTurn
<1>1. waiting[b] = 0 /\ Reserved \in Nat /\ Running \in Nat
  BY PlanNumbers, SampledIs DEF Nobody
<1>2. CASE b \notin available
  BY <1>1, <1>2
<1>3. CASE b \in available
  <2>1. PICK d \in 0..(Running - 1) : Walk[d + 1] = b
    BY <1>3, Ahead
  <2>2. waiting[b] * Reserved + d < Running
    BY <1>1, <2>1
  <2> QED
    BY <2>1, <2>2
<1> QED
  BY <1>2, <1>3

\* ... and the place of a Broca on the walk.
LEMMA Places ==
  cursor \in Nat => \A d \in 0..(Running - 1) :
                      Walk[d + 1] = Sampled[((cursor + d) % Running) + 1]
BY WalkIs

\* They hold after a step as well.
LEMMA After ==
  /\ cursor' \in Nat => \A b \in available' \cap BrocaScreens :
                          \E d \in 0..(Running' - 1) : Walk'[d + 1] = b
  /\ cursor' \in Nat /\ waiting' = Nobody => InTurn'
  /\ cursor' \in Nat => \A d \in 0..(Running' - 1) :
                          Walk'[d + 1] = Sampled'[((cursor' + d) % Running') + 1]
<1>1. (cursor \in Nat => \A b \in available \cap BrocaScreens :
                          \E d \in 0..(Running - 1) : Walk[d + 1] = b)'
  BY Ahead, PTL
<1>2. (cursor \in Nat /\ waiting = Nobody => InTurn)'
  BY Fresh, PTL
<1>3. (cursor \in Nat => \A d \in 0..(Running - 1) :
                          Walk[d + 1] = Sampled[((cursor + d) % Running) + 1])'
  BY Places, PTL
<1>4. Nobody' = Nobody /\ BrocaScreens' = BrocaScreens
  BY DEF Nobody, BrocaScreens
<1> QED
  BY <1>1, <1>2, <1>3, <1>4

LEMMA PlanStart == PlanInit => PlanInv
<1> SUFFICES ASSUME PlanInit PROVE PlanInv
  OBVIOUS
<1>1. cursor \in Nat /\ waiting = Nobody
  BY DEF PlanInit
<1>2. focus \in Seq(Candidates) /\ IsInjective(focus)
  <2>1. focus = << >> /\ << >> \in Seq(Candidates) /\ DOMAIN << >> = {}
    BY EmptySeq, LenProperties DEF PlanInit
  <2> QED
    BY <2>1 DEF IsInjective
<1>3. PlanTypes
  BY <1>1, <1>2 DEF PlanTypes, PlanInit, Nobody
<1> QED
  BY <1>1, <1>3, Fresh DEF PlanInv

\* The walk depends on the Brocas that run and on the cursor only.
LEMMA SameWalk ==
  ASSUME available' \cap BrocaScreens = available \cap BrocaScreens
  PROVE  /\ Sampled' = Sampled /\ Running' = Running
         /\ cursor' = cursor => Walk' = Walk
<1>1. \A i \in 1..Len(Brocas) : Brocas[i] \in BrocaScreens
  BY PlanNumbers, ElementOfSeq
<1>2. {i \in 1..Len(Brocas) : Brocas[i] \in available'}
       = {i \in 1..Len(Brocas) : Brocas[i] \in available}
  BY <1>1
<1>3. Only(Brocas, available') = Only(Brocas, available)
  <2> DEFINE Sub(at) == [j \in 1..Cardinality(at) |->
                          Brocas[CHOOSE i \in at : Cardinality({k \in at : k < i}) = j - 1]]
  <2>1. /\ Only(Brocas, available') = Sub({i \in 1..Len(Brocas) : Brocas[i] \in available'})
        /\ Only(Brocas, available) = Sub({i \in 1..Len(Brocas) : Brocas[i] \in available})
    BY DEF Only
  <2> HIDE DEF Sub
  <2> QED
    BY <1>2, <2>1
<1>4. Running' = Running
  BY DEF Running, BrocaScreens
<1> QED
  BY <1>3, <1>4 DEF Sampled, Walk

LEMMA WorldStep ==
  ASSUME PlanInv, NEW s \in Candidates, Comes(s) \/ Goes(s)
  PROVE  PlanInv'
<1>1. /\ available' \in SUBSET Candidates
      /\ waiting' = IF s \in BrocaScreens THEN Nobody ELSE waiting
      /\ focus' = focus /\ cursor' = cursor
      /\ available' \in {available \cup {s}, available \ {s}}
  BY DEF Comes, Goes, PlanInv, PlanTypes
<1>2. Candidates' = Candidates /\ BrocaScreens' = BrocaScreens
  BY DEF Candidates, BrocaScreens, SystemScreens
<1>3. PlanTypes'
  <2>1. waiting' \in [BrocaScreens -> Nat]
    BY <1>1 DEF PlanInv, PlanTypes, Nobody
  <2> QED
    BY <1>1, <1>2, <2>1 DEF PlanInv, PlanTypes
<1>4. CASE s \in BrocaScreens
  <2>1. cursor' \in Nat /\ waiting' = Nobody
    BY <1>1, <1>4 DEF PlanInv, PlanTypes
  <2> QED
    BY <1>3, <2>1, After DEF PlanInv
<1>5. CASE s \notin BrocaScreens
  <2>1. available' \cap BrocaScreens = available \cap BrocaScreens
    BY <1>1, <1>5
  <2>2. Walk' = Walk /\ Running' = Running /\ Reserved' = Reserved /\ waiting' = waiting
    BY <1>1, <1>5, <2>1, SameWalk DEF Reserved
  <2>3. \A b \in BrocaScreens : b \in available' <=> b \in available
    BY <2>1
  <2>4. InTurn'
    BY <1>2, <2>2, <2>3 DEF PlanInv, InTurn
  <2> QED
    BY <1>3, <2>4 DEF PlanInv
<1> QED
  BY <1>4, <1>5

\* A sequence of one screen, and what of it is kept.
LEMMA One ==
  ASSUME NEW x
  PROVE  <<x>> \in Seq({x}) /\ Range(<<x>>) = {x} /\ IsInjective(<<x>>)
<1>1. <<x>> \in Seq({x}) /\ DOMAIN <<x>> = {1} /\ <<x>>[1] = x
  OBVIOUS
<1> QED
  BY <1>1 DEF Range, IsInjective

LEMMA ScreensOf ==
  ASSUME NEW Q, NEW s \in Seq(Q), NEW S, Range(s) \subseteq S
  PROVE  s \in Seq(S)
<1>1. Len(s) \in Nat /\ DOMAIN s = 1..Len(s) /\ s \in [1..Len(s) -> Q]
  BY LenProperties
<1>2. \A i \in 1..Len(s) : s[i] \in S
  BY <1>1 DEF Range
<1>3. s \in [1..Len(s) -> S]
  BY <1>1, <1>2
<1> QED
  BY <1>1, <1>3

LEMMA FocusStep ==
  ASSUME PlanInv, NEW selected, NEW active, Focus(selected, active)
  PROVE  PlanInv'
<1> DEFINE a == Only(<<selected>>, BrocaScreens)
           shows == Only(<<active>>, Candidates)
           b == Without(shows, {selected} \cap BrocaScreens)
           c == Without(<<"letta">>, {active})
           both == IF selected = "System" THEN <<"smcp">> ELSE << >>
           d == Without(both, {active})
<1>1. focus' = ((a \o b) \o c) \o d
  BY DEF Focus
<1>2. available' = available /\ cursor' = cursor /\ waiting' = waiting
  BY DEF Focus
<1>3. a \in Seq(Candidates) /\ IsInjective(a) /\ Range(a) = {selected} \cap BrocaScreens
  <2>1. a \in Seq({selected}) /\ IsInjective(a) /\ Range(a) = {selected} \cap BrocaScreens
    BY One, OnlyIs, OnlyRange
  <2> HIDE DEF a
  <2> QED
    BY <2>1, ScreensOf DEF Candidates
<1>4. b \in Seq(Candidates) /\ IsInjective(b)
      /\ Range(b) = ({active} \cap Candidates) \ ({selected} \cap BrocaScreens)
  <2>1. shows \in Seq({active}) /\ IsInjective(shows) /\ Range(shows) = {active} \cap Candidates
    BY One, OnlyIs, OnlyRange
  <2> HIDE DEF shows
  <2>2. b \in Seq({active}) /\ IsInjective(b)
        /\ Range(b) = ({active} \cap Candidates) \ ({selected} \cap BrocaScreens)
    <3> DEFINE S == {selected} \cap BrocaScreens
    <3> HIDE DEF S
    <3>1. Without(shows, S) \in Seq({active}) /\ IsInjective(Without(shows, S))
          /\ Range(Without(shows, S)) = Range(shows) \ S
      BY <2>1, WithoutIs
    <3> QED
      BY <2>1, <3>1 DEF S
  <2> HIDE DEF b
  <2> QED
    BY <2>2, ScreensOf
<1>5. c \in Seq(Candidates) /\ IsInjective(c) /\ Range(c) = {"letta"} \ {active}
  <2>1. c \in Seq({"letta"}) /\ IsInjective(c) /\ Range(c) = {"letta"} \ {active}
    <3> DEFINE s == <<"letta">>
               S == {active}
    <3>1. s \in Seq({"letta"}) /\ Range(s) = {"letta"} /\ IsInjective(s)
      BY One
    <3> HIDE DEF s, S
    <3>2. Without(s, S) \in Seq({"letta"}) /\ IsInjective(Without(s, S))
          /\ Range(Without(s, S)) = Range(s) \ S
      BY <3>1, WithoutIs
    <3> QED
      BY <3>1, <3>2 DEF s, S
  <2> HIDE DEF c
  <2> QED
    BY <2>1, ScreensOf DEF Candidates, SystemScreens
<1>6. d \in Seq(Candidates) /\ IsInjective(d) /\ Range(d) \subseteq {"smcp"} \ {active}
  <2>1. both \in Seq({"smcp"}) /\ IsInjective(both) /\ Range(both) \subseteq {"smcp"}
    <3>1. << >> \in Seq({"smcp"}) /\ DOMAIN << >> = {}
      BY EmptySeq, LenProperties
    <3>2. IsInjective(<< >>) /\ Range(<< >>) = {}
      BY <3>1 DEF IsInjective, Range
    <3> QED
      BY <3>1, <3>2, One
  <2> HIDE DEF both
  <2>2. d \in Seq({"smcp"}) /\ IsInjective(d) /\ Range(d) = Range(both) \ {active}
    BY <2>1, WithoutIs
  <2> HIDE DEF d
  <2> QED
    BY <2>1, <2>2, ScreensOf DEF Candidates, SystemScreens
<1> HIDE DEF a, b, c, d
<1>7. "letta" \notin BrocaScreens /\ "smcp" \notin BrocaScreens
  BY PlanAssumption DEF SystemScreens
<1>8. a \o b \in Seq(Candidates) /\ IsInjective(a \o b)
      /\ Range(a \o b) = Range(a) \cup Range(b)
  <2>1. Range(a) \cap Range(b) = {}
    BY <1>3, <1>4
  <2> QED
    BY <1>3, <1>4, <2>1, ConcatIs
<1> DEFINE e == a \o b
<1> HIDE DEF e
<1>9. e \o c \in Seq(Candidates) /\ IsInjective(e \o c)
      /\ Range(e \o c) = Range(e) \cup Range(c)
  <2>1. Range(e) \cap Range(c) = {}
    BY <1>3, <1>4, <1>5, <1>7, <1>8 DEF e
  <2>2. e \in Seq(Candidates) /\ IsInjective(e)
    BY <1>8 DEF e
  <2> QED
    BY <1>5, <2>1, <2>2, ConcatIs
<1> DEFINE f == e \o c
<1> HIDE DEF f
<1>10. f \o d \in Seq(Candidates) /\ IsInjective(f \o d)
  <2>1. "smcp" \notin Range(a) /\ "smcp" \notin Range(c) /\ ("smcp" \in Range(b) => active = "smcp")
    BY <1>3, <1>4, <1>5, <1>7
  <2>2. Range(f) \cap Range(d) = {}
    BY <1>6, <1>8, <1>9, <2>1 DEF e, f
  <2> QED
    BY <1>6, <1>9, <2>2, ConcatIs DEF f
<1>11. PlanTypes'
  BY <1>1, <1>2, <1>10 DEF PlanInv, PlanTypes, Candidates, BrocaScreens, SystemScreens, e, f
<1>12. InTurn'
  <2>1. Walk' = Walk /\ Running' = Running /\ Reserved' = Reserved /\ BrocaScreens' = BrocaScreens
    BY <1>2, SameWalk DEF Reserved, BrocaScreens
  <2> QED
    BY <1>2, <2>1 DEF PlanInv, InTurn
<1> QED
  BY <1>11, <1>12 DEF PlanInv

\* What the cursor goes over comes closer by as many places.
LEMMA Advances ==
  ASSUME PlanInv, Advance, available' = available,
         NEW k, k = Steps(Range(Primary))
  PROVE  /\ cursor' \in Nat /\ k \in 0..Running
         /\ \A d \in 0..(Running - 1) : d >= k => Walk'[(d - k) + 1] = Walk[d + 1]
<1>1. /\ cursor \in Nat /\ Running \in Nat /\ k \in 0..Running /\ k \in Nat
      /\ Turn \in Nat \ {0}
  BY StepsAre, SampledIs, PlanNumbers DEF PlanInv, PlanTypes
<1> DEFINE x == cursor + k
<1>2. x \in Nat
  BY <1>1
<1>3. cursor' = x % Turn
  BY DEF Advance
<1>4. cursor' \in Nat
  <2>1. x % Turn \in 0..(Turn - 1)
    BY <1>1, <1>2, Division
  <2> QED
    BY <1>1, <1>3, <2>1
<1>5. Sampled' = Sampled /\ Running' = Running
  <2>1. available' \cap BrocaScreens = available \cap BrocaScreens
    OBVIOUS
  <2> QED
    BY <2>1, SameWalk
<1>6. ASSUME NEW d \in 0..(Running - 1), d >= k PROVE Walk'[(d - k) + 1] = Walk[d + 1]
  <2> DEFINE e == d - k
             n == Running
  <2>1. e \in 0..(n - 1) /\ e \in Nat /\ n \in Nat \ {0} /\ x + e = cursor + d
    BY <1>1, <1>6
  <2>2. ((x % Turn) + e) % n = (x + e) % n
    <3>1. Turn % n = 0
      BY <2>1, SampledIs
    <3>2. n \in Nat \ {0} /\ e \in Nat /\ Turn \in Nat \ {0} /\ x \in Nat
      BY <1>1, <1>2, <2>1
    <3> HIDE DEF x, e, n
    <3>3. Mod(Turn, n) = 0
      BY <3>1 DEF Mod
    <3>4. Mod(Mod(x, Turn) + e, n) = Mod(x + e, n)
      BY <3>2, <3>3, Wrapped
    <3> QED
      BY <3>4 DEF Mod
  <2> HIDE DEF x, e
  <2>3. Walk'[e + 1] = Sampled[((cursor' + e) % n) + 1]
    BY <1>4, <1>5, <2>1, After
  <2>4. Walk[d + 1] = Sampled[((cursor + d) % n) + 1]
    BY <1>1, Places
  <2> QED
    BY <1>3, <2>1, <2>2, <2>3, <2>4 DEF e
<1> QED
  BY <1>1, <1>4, <1>6

\* A running Broca that the batch leaves out lies beyond what the cursor went
\* over, which held as many others as there are slots for probes.
LEMMA LeftOut ==
  ASSUME PlanInv, NEW b \in BrocaScreens, b \notin Range(Plan),
         NEW d \in 0..(Running - 1), Walk[d + 1] = b
  PROVE  Steps(Range(Primary)) <= d /\ (Reserved > 0 => Steps(Range(Primary)) >= Reserved)
<1> DEFINE seen == Range(Primary)
           k == Steps(seen)
           p == SubSeq(Walk, 1, k)
<1>1. PlanTypes /\ cursor \in Nat /\ Running \in Nat /\ Reserved \in Nat
  BY SampledIs, PlanNumbers DEF PlanInv, PlanTypes
<1>2. Walk \in Seq(BrocaScreens) /\ Len(Walk) = Running
  BY <1>1, WalkIs
<1>3. k \in 0..Running /\ (Reserved > 0 /\ k # Running => k >= Reserved)
  BY <1>1, StepsAre
<1>4. Range(Primary) \cup Range(Probes) \subseteq Range(Plan)
  <2> DEFINE both == Primary \o Probes
             left == Without(Only(Order, available), Range(both))
             rest == FirstOf(left, MaxScreens - Len(both))
  <2>1. /\ Primary \in Seq(Candidates) /\ Len(Primary) <= MaxScreens - Reserved
        /\ Probes \in Seq(Candidates) /\ Len(Probes) <= Reserved
    BY <1>1, PrimaryIs, ProbesAre
  <2>2. both \in Seq(Candidates) /\ Range(both) = Range(Primary) \cup Range(Probes)
        /\ Len(both) = Len(Primary) + Len(Probes)
    BY <2>1, ConcatIs
  <2>3. MaxScreens - Len(both) \in Nat
    <3>1. Len(Primary) \in Nat /\ Len(Probes) \in Nat /\ MaxScreens \in Nat
      BY <2>1, LenProperties, PlanNumbers
    <3> QED
      BY <1>1, <2>1, <2>2, <3>1
  <2>4. left \in Seq(Candidates)
    <3>1. Only(Order, available) \in Seq(Candidates)
      BY <1>1, OrderIs, OnlyIs
    <3> QED
      BY <3>1, WithoutIs
  <2>5. Plan = both \o rest
    BY DEF Plan
  <2> HIDE DEF both, left
  <2>6. rest \in Seq(Candidates)
    BY <2>3, <2>4, FirstOfIs
  <2> HIDE DEF rest
  <2>7. Range(both \o rest) = Range(both) \cup Range(rest)
    BY <2>2, <2>6, ConcatIs
  <2> QED
    BY <2>2, <2>5, <2>7
<1> HIDE DEF k
<1>5. p \in Seq(BrocaScreens) /\ Len(p) = k /\ \A i \in 1..k : p[i] = Walk[i]
  BY <1>2, <1>3, PrefixIs
<1>6. Probes = Without(p, seen)
  BY DEF Probes, k
<1> HIDE DEF p, seen
<1>7. Range(Probes) = Range(p) \ seen
  BY <1>5, <1>6, WithoutIs
<1>8. ~(d < k)
  <2> SUFFICES ASSUME d < k PROVE FALSE
    OBVIOUS
  <2>1. d + 1 \in 1..k
    BY <1>1, <1>3
  <2>2. p[d + 1] = b /\ d + 1 \in DOMAIN p
    BY <1>5, <2>1, LenProperties
  <2>3. b \in Range(p)
    BY <2>2 DEF Range
  <2> QED
    BY <1>4, <1>7, <2>3 DEF seen
<1>9. k <= d /\ k # Running
  BY <1>1, <1>3, <1>8
<1> QED
  BY <1>3, <1>9 DEF k, seen

LEMMA CutStep == PlanInv /\ BatchCut => PlanInv'
<1> SUFFICES ASSUME PlanInv, BatchCut PROVE PlanInv'
  OBVIOUS
<1>1. Advance /\ available' = available /\ focus' = focus /\ waiting' = Nobody
  BY DEF BatchCut
<1>2. cursor' \in Nat
  BY <1>1, Advances
<1>3. PlanTypes'
  BY <1>1, <1>2 DEF PlanInv, PlanTypes, Candidates, BrocaScreens, SystemScreens, Nobody
<1> QED
  BY <1>1, <1>2, <1>3, After DEF PlanInv

LEMMA DoneStep == PlanInv /\ BatchDone => PlanInv'
<1> SUFFICES ASSUME PlanInv, BatchDone PROVE PlanInv'
  OBVIOUS
<1> DEFINE k == Steps(Range(Primary))
<1>1. /\ Advance /\ available' = available /\ focus' = focus
      /\ waiting' = [b \in BrocaScreens |-> IF b \in available /\ b \notin Range(Plan)
                                            THEN waiting[b] + 1 ELSE 0]
  BY DEF BatchDone
<1>2. /\ cursor' \in Nat /\ k \in 0..Running
      /\ \A d \in 0..(Running - 1) : d >= k => Walk'[(d - k) + 1] = Walk[d + 1]
  BY <1>1, Advances
<1>3. /\ waiting \in [BrocaScreens -> Nat]
      /\ Running \in Nat /\ Reserved \in Nat
      /\ Running' = Running /\ Reserved' = Reserved /\ BrocaScreens' = BrocaScreens
  <2>1. available' \cap BrocaScreens = available \cap BrocaScreens
    BY <1>1
  <2> QED
    BY <2>1, SameWalk, SampledIs, PlanNumbers DEF PlanInv, PlanTypes, Reserved, BrocaScreens
<1>4. PlanTypes'
  <2>1. waiting' \in [BrocaScreens -> Nat]
    BY <1>1, <1>3
  <2> QED
    BY <1>1, <1>2, <2>1 DEF PlanInv, PlanTypes, Candidates, BrocaScreens, SystemScreens
<1>5. ASSUME Reserved > 0, NEW b \in BrocaScreens
      PROVE  \/ b \notin available' /\ waiting'[b] = 0
             \/ \E d \in 0..(Running - 1) :
                  Walk'[d + 1] = b /\ waiting'[b] * Reserved + d < Running
  <2>1. CASE b \notin available
    BY <1>1, <2>1
  <2>2. CASE b \in available /\ b \in Range(Plan)
    <3>1. PICK d \in 0..(Running - 1) : Walk'[d + 1] = b
      BY <1>1, <1>2, <1>3, <2>2, After
    <3>2. waiting'[b] = 0
      BY <1>1, <2>2
    <3>3. 0 * Reserved + d < Running
      BY <1>3
    <3> QED
      BY <3>1, <3>2, <3>3
  <2>3. CASE b \in available /\ b \notin Range(Plan)
    <3>1. PICK d \in 0..(Running - 1) : Walk[d + 1] = b /\ waiting[b] * Reserved + d < Running
      BY <1>5, <2>3 DEF PlanInv, InTurn
    <3>2. k <= d /\ k >= Reserved
      BY <1>5, <2>3, <3>1, LeftOut
    <3> HIDE DEF k
    <3>3. d - k \in 0..(Running - 1) /\ Walk'[(d - k) + 1] = b
      BY <1>2, <1>3, <3>1, <3>2
    <3>4. waiting'[b] = waiting[b] + 1 /\ waiting[b] \in Nat
      BY <1>1, <1>3, <2>3
    <3>5. (waiting[b] + 1) * Reserved = waiting[b] * Reserved + Reserved
          /\ waiting[b] * Reserved \in Nat
      BY <1>3, <3>4
    <3>6. (waiting[b] + 1) * Reserved + (d - k) < Running
      BY <1>2, <1>3, <3>1, <3>2, <3>5
    <3> QED
      BY <3>3, <3>4, <3>6
  <2> QED
    BY <2>1, <2>2, <2>3
<1>6. InTurn'
  BY <1>3, <1>5 DEF InTurn
<1> QED
  BY <1>4, <1>6 DEF PlanInv

LEMMA PlanStep == PlanInv /\ [PlanNext]_planVars => PlanInv'
<1> SUFFICES ASSUME PlanInv, [PlanNext]_planVars PROVE PlanInv'
  OBVIOUS
<1>1. CASE \E s \in Candidates : Comes(s) \/ Goes(s)
  BY <1>1, WorldStep
<1>2. CASE \E selected \in BrocaScreens \cup {"System", "none"}, active \in Candidates \cup {"none"} :
             Focus(selected, active)
  BY <1>2, FocusStep
<1>3. CASE BatchDone
  BY <1>3, DoneStep
<1>4. CASE BatchCut
  BY <1>4, CutStep
<1>5. CASE UNCHANGED planVars
  <2>1. /\ available' = available /\ focus' = focus /\ cursor' = cursor /\ waiting' = waiting
    BY <1>5 DEF planVars
  <2>2. /\ Walk' = Walk /\ Running' = Running /\ Reserved' = Reserved
        /\ Candidates' = Candidates /\ BrocaScreens' = BrocaScreens
    BY <2>1, SameWalk DEF Reserved, Candidates, BrocaScreens, SystemScreens
  <2> QED
    BY <2>1, <2>2 DEF PlanInv, PlanTypes, InTurn
<1> QED
  BY <1>1, <1>2, <1>3, <1>4, <1>5 DEF PlanNext

LEMMA AlwaysPlanned == PlanSpec => []PlanInv
BY PlanStart, PlanStep, PTL DEF PlanSpec

\* Batches that had R places each, of fewer than n, are fewer than n / R, rounded up.
LEMMA Batches ==
  ASSUME NEW n \in Nat, NEW R \in Nat \ {0}, NEW w \in Nat, w * R < n
  PROVE  w < (n + R - 1) \div R
<1> DEFINE q == (n + R - 1) \div R
           s == (n + R - 1) % R
<1>1. n + R - 1 \in Nat
  OBVIOUS
<1>2. q \in Nat /\ s \in 0..(R - 1) /\ n + R - 1 = R * q + s
  BY <1>1, Division
<1> HIDE DEF q, s
<1>3. R * q \in Nat /\ n <= R * q
  BY <1>2
<1>4. ~(q <= w)
  <2> SUFFICES ASSUME q <= w PROVE FALSE
    OBVIOUS
  <2>1. PICK e \in Nat : w = q + e
    <3>1. w - q \in Nat /\ w = q + (w - q)
      BY <1>2
    <3> QED
      BY <3>1
  <2>2. w * R = R * q + e * R /\ e * R \in Nat
    BY <1>2, <2>1
  <2> QED
    BY <1>3, <2>2
<1>5. w < q
  BY <1>2, <1>4
<1> QED
  BY <1>5 DEF q

LEMMA InTurnGoesRound == PlanInv => RoundRobin
<1> SUFFICES ASSUME PlanInv, Reserved > 0, NEW b \in BrocaScreens, Running # 0
             PROVE  waiting[b] < Rounds
  BY DEF RoundRobin
<1>1. Reserved \in Nat \ {0} /\ Running \in Nat \ {0} /\ waiting[b] \in Nat
  BY PlanNumbers, SampledIs DEF PlanInv, PlanTypes
<1>2. waiting[b] * Reserved < Running
  <2>1. CASE waiting[b] = 0
    BY <1>1, <2>1
  <2>2. CASE \E d \in 0..(Running - 1) : waiting[b] * Reserved + d < Running
    <3>1. PICK d \in 0..(Running - 1) : waiting[b] * Reserved + d < Running
      BY <2>2
    <3>2. waiting[b] * Reserved \in Nat
      BY <1>1
    <3> QED
      BY <1>1, <3>1, <3>2
  <2> QED
    BY <1>1, <2>1, <2>2 DEF PlanInv, InTurn
<1>3. Rounds = (Running + Reserved - 1) \div Reserved
  BY <1>1 DEF Rounds
<1> QED
  BY <1>1, <1>2, <1>3, Batches

-----------------------------------------------------------------------------
(* Theorems *)

\* LiveHost.snapshot asks for no more than hardcopy_max_screens hardcopies, for
\* none twice and for none of a screen that does not run, whatever the focus,
\* the probes and the slots left over have in common.
THEOREM BatchStaysWithin == PlanSpec => []WithinBatch
<1>1. PlanInv => WithinBatch
  BY PlanKeepsWithin DEF PlanInv
<1> QED
  BY <1>1, AlwaysPlanned, PTL

\* plan_hardcopy_with_probes puts the first running screen of the focus first:
\* a batch that runs out of time has at least that one.
THEOREM FocusIsHot == PlanSpec => []FocusFirst
<1>1. PlanInv => FocusFirst
  BY PlanStartsHot DEF PlanInv
<1> QED
  BY <1>1, AlwaysPlanned, PTL

\* With probe slots, a Broca that keeps running is read once in as many whole
\* batches as it takes to go round, whatever the focus takes meanwhile: the
\* cursor skips none, for any number of Brocas, slots and screens.
THEOREM NoBrocaStarves == PlanSpec => []RoundRobin
BY InTurnGoesRound, AlwaysPlanned, PTL
=============================================================================
