--------------------------- MODULE TurnFeedProofs ---------------------------
(* The text of a turn, for every number, kind and size of the messages, with and   *)
(* without ids, for any limit of what is listed and of what the popup holds.          *)
(* That the text of a finished turn is the run's is about who knows what when: a       *)
(* worker that stops reading, with its turn's time not over, was told that the run     *)
(* is done; all messages are at the messages endpoint then, so that a list fetched     *)
(* after it is the run's; and the poller, joined, writes no more.                      *)
(* That the messages stand in order is about what is known: the stream brings them    *)
(* from the first on, and one it shows is greater than all it showed, for a greater    *)
(* one was shown only after all before it were known.  Of a message without id this    *)
(* does not hold: it is shown again.                                                   *)
EXTENDS TurnFeed, FiniteSetTheorems, SequenceTheorems, WellFoundedInduction, TLAPS

AtEnd == {"join"} \cup Reconciling

Landed == /\ produced \in 0..N /\ landed \in 0..produced
          /\ status \in {"running", "done"}
          /\ status = "done" => landed = N
Reasons == excused \in {"no", "part", "join", "early"} /\ late \in BOOLEAN
ToldDone == pc \in AtEnd /\ ~ late => status = "done"
PollerGone == pc \in Reconciling /\ excused # "join" => poll = "over"
Trusted == excused = "no" \/ (excused = "early" /\ ~ late)
ApiWhole == pc \in {"status", "restatus", "close"} /\ Trusted => api = PollText(Listed(N))

IInv == Landed /\ Reasons /\ ToldDone /\ PollerGone /\ ApiWhole /\ FinishedIsWhole

LEMMA LengthOfRun == N \in Nat \ {0}
  BY FeedAssumption DEF N

\* What is listed of a run has a text.
LEMMA TextOfRun == PollText(Listed(N)) # << >>
<1> DEFINE c == IF N <= Limit THEN N ELSE Limit
<1>1. c \in Nat \ {0} /\ Listed(N) = 1..c
  BY LengthOfRun, FeedAssumption DEF Listed
<1> HIDE DEF c
<1>2. Cardinality(1..c) = c
  BY <1>1, FS_Interval
<1>3. 1 \in DOMAIN PollText(1..c)
  BY <1>1, <1>2 DEF PollText
<1>4. DOMAIN << >> = {}
  OBVIOUS
<1>5. PollText(1..c) # << >>
  BY <1>3, <1>4
<1>6. PollText(Listed(N)) = PollText(1..c)
  BY <1>1
<1> QED
  BY <1>5, <1>6

LEMMA InitOK == Init => IInv
<1> SUFFICES ASSUME Init PROVE IInv
  OBVIOUS
<1>1. produced = 0 /\ landed = 0 /\ status = "running" /\ pc = "greet" /\ late = FALSE /\ excused = "no"
  BY DEF Init
<1>2. 0 \in 0..N /\ 0 \in 0..0
  BY LengthOfRun
<1>3. Landed
  BY <1>1, <1>2 DEF Landed
<1>4. late \in BOOLEAN
  BY <1>1, Zenon
<1>5. Reasons
  BY <1>1, <1>4 DEF Reasons
<1>6. ToldDone /\ PollerGone /\ ApiWhole /\ FinishedIsWhole
  BY <1>1 DEF ToldDone, PollerGone, ApiWhole, FinishedIsWhole, AtEnd, Reconciling
<1> QED
  BY <1>3, <1>5, <1>6 DEF IInv

\* Letta goes on; the worker and the poller do nothing.
LEMMA LettaOK == IInv /\ Letta => IInv'
<1> SUFFICES ASSUME IInv, Letta PROVE IInv'
  OBVIOUS
<1>1. UNCHANGED <<panel, pc, final, poller, late, excused>>
  BY DEF Letta, Produce, Land, LandAsk, Finish
<1>2. Landed' /\ (status = "done" => status' = "done")
  BY LengthOfRun DEF IInv, Landed, Letta, Produce, Land, LandAsk, Finish
<1>3. Reasons' /\ ToldDone' /\ PollerGone' /\ ApiWhole'
  BY <1>1, <1>2 DEF IInv, Reasons, ToldDone, PollerGone, Trusted, ApiWhole, final, poller
<1>4. FinishedIsWhole'
  BY <1>1 DEF IInv, FinishedIsWhole, panel, final
<1> QED
  BY <1>2, <1>3, <1>4 DEF IInv

LEMMA PollerOK == IInv /\ Poller => IInv'
<1> SUFFICES ASSUME IInv, Poller PROVE IInv'
  OBVIOUS
<1>1. poll # "over" /\ UNCHANGED <<run, pc, stream, final, stale, late, excused>>
  BY DEF Poller, PollFetch, PollLook, PollAsk, PollApply, PollOff
<1>2. ~ (pc \in Reconciling /\ excused # "join")
  BY <1>1 DEF IInv, PollerGone
<1>3. Landed' /\ Reasons' /\ ToldDone' /\ PollerGone' /\ ApiWhole'
  BY <1>1, <1>2 DEF IInv, Landed, Reasons, ToldDone, PollerGone, Trusted, ApiWhole, run, final
<1>4. FinishedIsWhole'
  BY <1>1, <1>2 DEF FinishedIsWhole, Reconciling, final
<1> QED
  BY <1>3, <1>4 DEF IInv

\* While the worker reads, it only has to be told that the run is done.
LEMMA ReaderOK == IInv /\ (Reader \/ StaleLeaves) => IInv'
<1> SUFFICES ASSUME IInv, Reader \/ StaleLeaves PROVE IInv'
  OBVIOUS
<1>1. UNCHANGED run
  BY DEF Reader, StaleLeaves, GreetAsk, Open, Line, End, Error, Wall, Greet, CheckEnd, CheckError, Checked
<1>2. pc' \in {"greet", "open", "read", "ended", "error", "join"}
  BY DEF Reader, StaleLeaves, GreetAsk, Open, Line, End, Error, Wall, Greet, CheckEnd, CheckError, Checked
<1>3. excused' = excused /\ late' \in {late, TRUE}
  BY DEF Reader, StaleLeaves, GreetAsk, Open, Line, End, Error, Wall, Greet, CheckEnd, CheckError, Checked
<1>4. ASSUME pc' = "join", ~ late' PROVE status = "done"
  <2>1. \E s \in Statuses : ~ InFlight(s)
    BY <1>4 DEF Reader, StaleLeaves, GreetAsk, Open, Line, End, Error, Wall, Greet, CheckEnd, CheckError, Checked
  <2> QED
    BY <2>1 DEF IInv, Landed, Statuses, InFlight
<1>5. Landed' /\ Reasons'
  BY <1>1, <1>3 DEF IInv, Landed, Reasons, run
<1>6. ToldDone'
  BY <1>1, <1>2, <1>4 DEF ToldDone, AtEnd, Reconciling, run
<1>7. PollerGone' /\ ApiWhole' /\ FinishedIsWhole'
  BY <1>2 DEF PollerGone, ApiWhole, FinishedIsWhole, Reconciling
<1> QED
  BY <1>5, <1>6, <1>7 DEF IInv

\* What is listed when the run is done, is listed of the whole run.
LEMMA WholeFetch ==
  ASSUME IInv, pc \in AtEnd, NEW f \in Fetches, excused' = Judged(f), late' = late, Trusted'
  PROVE  f.got = Listed(N)
<1>1. f.got = Listed(landed)
  BY DEF Trusted, Judged
<1>2. status = "done"
  BY DEF IInv, ToldDone, Trusted, Judged
<1> QED
  BY <1>1, <1>2 DEF IInv, Landed

LEMMA EndingOK == IInv /\ Ending => IInv'
<1> SUFFICES ASSUME IInv, Ending PROVE IInv'
  OBVIOUS
<1>1. CASE Join
  BY <1>1 DEF Join, IInv, Landed, Reasons, ToldDone, PollerGone, Trusted, ApiWhole, FinishedIsWhole, AtEnd, Reconciling,
    run, panel, stream, final, poller
<1>2. CASE WaitOver \/ WaitPanel
  BY <1>2 DEF WaitOver, WaitPanel, IInv, Landed, Reasons, ToldDone, PollerGone, Trusted, ApiWhole, FinishedIsWhole, AtEnd, Reconciling,
    run, panel, stream, final, poller
<1>3. ASSUME NEW f \in Fetches, Rows(f) \/ Refetch(f) PROVE IInv'
  <2>1. /\ pc \in {"rows", "refetch"} /\ pc' \in {"status", "restatus"}
        /\ excused' = Judged(f) /\ api' = PollText(f.got) /\ late' = late
        /\ UNCHANGED <<run, poller>>
    BY <1>3 DEF Rows, Refetch
  <2>2. pc \in AtEnd /\ pc \in Reconciling
    BY <2>1 DEF AtEnd, Reconciling
  <2>3. ApiWhole'
    <3> SUFFICES ASSUME Trusted' PROVE api' = PollText(Listed(N))
      BY DEF ApiWhole
    <3> QED
      BY <2>1, <2>2, WholeFetch
  <2>4. Reasons' /\ (excused' # "join" => excused # "join")
    BY <2>1 DEF IInv, Reasons, Judged
  <2>5. Landed' /\ ToldDone' /\ PollerGone' /\ FinishedIsWhole'
    BY <2>1, <2>2, <2>4 DEF IInv, Landed, ToldDone, PollerGone, FinishedIsWhole, AtEnd, run, poller
  <2> QED
    BY <2>3, <2>4, <2>5 DEF IInv
<1>4. ASSUME NEW f \in Fetches, NEW s \in Statuses, Wait(s, f) PROVE IInv'
  BY <1>4 DEF Wait, IInv, Landed, Reasons, ToldDone, PollerGone, Trusted, ApiWhole, FinishedIsWhole, AtEnd, Reconciling,
    run, poller
<1>5. ASSUME NEW s \in Statuses, Status(s) \/ StatusLate(s) \/ Restatus(s) PROVE IInv'
  BY <1>5 DEF Status, StatusLate, Restatus, IInv, Landed, Reasons, ToldDone, PollerGone, Trusted, ApiWhole, FinishedIsWhole,
    AtEnd, Reconciling, run, panel, stream, poller
<1>6. CASE Close
  <2>1. /\ pc = "close" /\ pc' = "over" /\ text' = Left \o Complete
        /\ UNCHANGED <<run, query, words, over, poller, late, excused>>
    BY <1>6 DEF Close, poller
  <2>2. pc \in AtEnd /\ pc \in Reconciling
    BY <2>1 DEF AtEnd, Reconciling
  <2>3. ASSUME over, Trusted PROVE Left = Bounded(PollText(Listed(N)), query \/ words)
    <3>1. api = PollText(Listed(N)) /\ api # << >>
      BY <2>1, <2>3, TextOfRun DEF IInv, ApiWhole
    <3> QED
      BY <3>1, <2>3 DEF Left
  <2>4. FinishedIsWhole'
    BY <2>1, <2>3 DEF FinishedIsWhole, Complete, Trusted
  <2>5. Landed' /\ Reasons' /\ ToldDone' /\ PollerGone' /\ ApiWhole'
    BY <2>1, <2>2 DEF IInv, Landed, Reasons, ToldDone, PollerGone, ApiWhole, AtEnd, run, poller
  <2> QED
    BY <2>4, <2>5 DEF IInv
<1> QED
  BY <1>1, <1>2, <1>3, <1>4, <1>5, <1>6 DEF Ending

LEMMA FinishedStep == IInv /\ [Next]_vars => IInv'
<1>1. IInv /\ UNCHANGED vars => IInv'
  BY DEF IInv, Landed, Reasons, ToldDone, PollerGone, Trusted, ApiWhole, FinishedIsWhole, vars, run, panel, final, poller
<1> QED
  BY <1>1, LettaOK, PollerOK, ReaderOK, EndingOK DEF Next

\* A turn that ended as done is left with what is listed of the finished run, as much
\* as the popup holds: neither the stream's lines, nor the merges, nor the poller leave
\* anything else (lines 1941 to 2097), for any list, limit and popup.  It is about turns
\* whose poller was joined and whose last fetch is not a part; what is fetched early is
\* fetched after the turn's time.
THEOREM FinishedCorrect == Spec => []FinishedIsWhole
<1>1. IInv => FinishedIsWhole
  BY DEF IInv
<1> QED
  BY InitOK, FinishedStep, <1>1, PTL DEF Spec

-----------------------------------------------------------------------------
(* Recursion and counting: what the texts' operators compute is told by a        *)
(* function on the positions, of which one step is known                          *)

\* A set of numbers from 1 to n has a least one.
LEMMA Least ==
  ASSUME NEW n \in Nat, NEW S \in SUBSET (1..n), S # {}
  PROVE  \E x \in S : \A y \in S : x <= y
<1> DEFINE D(x) == {y \in S : y < x}
           F == {D(x) : x \in S}
<1>1. F \subseteq FiniteSubsetsOf(S) /\ F # {}
  <2>1. IsFiniteSet(1..n)
    BY FS_Interval
  <2>2. IsFiniteSet(S)
    BY <2>1, FS_Subset
  <2>3. FiniteSubsetsOf(S) = SUBSET S
    BY <2>2, FS_FiniteSubsetsOfFinite
  <2>4. \A x \in S : D(x) \in SUBSET S
    OBVIOUS
  <2>5. \E x \in S : D(x) \in F
    OBVIOUS
  <2> HIDE DEF D
  <2> QED
    BY <2>3, <2>4, <2>5
<1>2. PICK T \in F : \A U \in F : <<U, T>> \notin StrictSubsetOrdering(S)
  BY <1>1, WFMin, FS_StrictSubsetOrderingWellFounded
<1>3. PICK x \in S : T = D(x)
  BY <1>2
<1>4. ASSUME NEW y \in S, y < x PROVE FALSE
  <2>1. \A z \in S : z \in Int
    OBVIOUS
  <2>2. D(y) \subseteq D(x) /\ y \in D(x) /\ y \notin D(y)
    <3>1. y \in D(x) /\ y \notin D(y)
      BY <1>4, <2>1
    <3>2. \A z \in S : z < y => z < x
      BY <1>4, <2>1
    <3> QED
      BY <3>1, <3>2
  <2>3. <<D(y), D(x)>> \in StrictSubsetOrdering(S)
    <3>1. D(y) \in SUBSET S /\ D(x) \in SUBSET S /\ D(y) # D(x)
      BY <2>2
    <3> HIDE DEF D
    <3> QED
      BY <2>2, <3>1 DEF StrictSubsetOrdering
  <2> QED
    BY <1>2, <1>3, <2>3
<1>5. \A y \in S : x <= y
  BY <1>4
<1> QED
  BY <1>5

\* What holds of 0, and of each number with the one before, holds up to n.
LEMMA Counting ==
  ASSUME NEW n \in Nat, NEW T, 0 \in T, \A i \in 1..n : i - 1 \in T => i \in T
  PROVE  \A i \in 0..n : i \in T
<1> DEFINE B == {i \in 1..n : i \notin T}
<1>1. B = {}
  <2> SUFFICES ASSUME B # {} PROVE FALSE
    OBVIOUS
  <2>1. PICK x \in B : \A y \in B : x <= y
    <3>1. B \in SUBSET (1..n)
      OBVIOUS
    <3> HIDE DEF B
    <3> QED
      BY <3>1, Least
  <2>2. x \in 1..n /\ x - 1 \in 0..n /\ x - 1 < x /\ x \notin T
    OBVIOUS
  <2>3. x - 1 \notin B
    BY <2>1, <2>2
  <2>4. x - 1 \in T
    BY <2>2, <2>3
  <2> QED
    BY <2>2, <2>4
<1>2. \A i \in 0..n : i = 0 \/ i \in 1..n
  OBVIOUS
<1> QED
  BY <1>1, <1>2

\* f starts with base, and goes on as g tells.
Iterates(f, n, X, base, g) ==
  /\ f \in [0..n -> X] /\ f[0] = base
  /\ \A i \in 1..n : f[i] = g[<<i, f[i - 1]>>]

\* A function may be given by its first value and its step.
LEMMA Recursion ==
  ASSUME NEW n \in Nat, NEW X, NEW base \in X, NEW g \in [(1..n) \X X -> X]
  PROVE  \E f : Iterates(f, n, X, base, g)
<1> DEFINE Good(k, f) == f[0] = base /\ \A i \in 1..k : f[i] = g[<<i, f[i - 1]>>]
           T == {k \in 0..n : \E f \in [0..k -> X] : Good(k, f)}
<1>1. 0 \in T
  <2> DEFINE f0 == [i \in 0..0 |-> base]
  <2>1. f0 \in [0..0 -> X]
    OBVIOUS
  <2>2. f0[0] = base /\ 1..0 = {}
    OBVIOUS
  <2> HIDE DEF f0
  <2>3. Good(0, f0) /\ 0 \in 0..n
    BY <2>2
  <2> HIDE DEF Good
  <2> QED
    BY <2>1, <2>3
<1>2. ASSUME NEW k \in 1..n, k - 1 \in T PROVE k \in T
  <2>1. PICK f \in [0..(k - 1) -> X] : Good(k - 1, f)
    BY <1>2
  <2> DEFINE h == [i \in 0..k |-> IF i = k THEN g[<<k, f[k - 1]>>] ELSE f[i]]
  <2>2. k - 1 \in 0..(k - 1) /\ \A i \in 0..k : i = k \/ i \in 0..(k - 1)
    OBVIOUS
  <2>3. f[k - 1] \in X /\ g[<<k, f[k - 1]>>] \in X
    BY <2>2
  <2>4. h \in [0..k -> X]
    BY <2>2, <2>3
  <2>5. \A i \in 1..k : i - 1 \in 0..(k - 1) /\ i - 1 # k /\ i \in 0..k /\ i - 1 \in 0..k
    OBVIOUS
  <2>6. \A i \in 1..k : h[i - 1] = f[i - 1]
    BY <2>5
  <2>7. \A i \in 1..k : h[i] = g[<<i, h[i - 1]>>]
    <3> TAKE i \in 1..k
    <3>1. CASE i = k
      BY <2>5, <2>6, <3>1
    <3>2. CASE i # k
      <4>1. i \in 1..(k - 1)
        BY <3>2
      <4>2. h[i] = f[i]
        BY <2>5, <3>2
      <4>3. f[i] = g[<<i, f[i - 1]>>]
        BY <2>1, <4>1
      <4> QED
        BY <2>6, <4>2, <4>3
    <3> QED
      BY <3>1, <3>2
  <2>8. h[0] = base
    <3>1. 0 \in 0..k /\ 0 # k
      OBVIOUS
    <3> QED
      BY <2>1, <3>1
  <2> HIDE DEF h
  <2>9. Good(k, h) /\ k \in 0..n
    BY <2>7, <2>8
  <2> QED
    BY <2>4, <2>9
<1>3. n \in T
  <2>1. \A i \in 1..n : i - 1 \in T => i \in T
    BY <1>2
  <2> HIDE DEF T
  <2>2. \A i \in 0..n : i \in T
    BY <1>1, <2>1, Counting
  <2> QED
    BY <2>2
<1> QED
  BY <1>3 DEF Iterates

\* The length of a text, position by position.
LEMMA LengthIs ==
  ASSUME NEW t \in Seq(Piece)
  PROVE  \E f \in [0..Len(t) -> Nat] :
           /\ f[0] = 0 /\ f[Len(t)] = Length(t)
           /\ \A i \in 1..Len(t) : f[i] = f[i - 1] + Size[t[i]]
<1> DEFINE n == Len(t)
           g == [p \in (1..n) \X Nat |-> p[2] + Size[t[p[1]]]]
           Def(f) == f = [i \in 0..n |-> IF i = 0 THEN 0 ELSE f[i - 1] + Size[t[i]]]
           L == CHOOSE f : Def(f)
<1>1. n \in Nat /\ \A i \in 1..n : t[i] \in Piece
  BY LenProperties, ElementOfSeq
<1>2. \A i \in 1..n : Size[t[i]] \in Nat
  BY <1>1, FeedAssumption
<1>3. Length(t) = L[n]
  BY DEF Length
<1> HIDE DEF n
<1>4. g \in [(1..n) \X Nat -> Nat] /\ \A i \in 1..n, x \in Nat : g[<<i, x>>] = x + Size[t[i]]
  <2>1. \A p \in (1..n) \X Nat : p[2] + Size[t[p[1]]] \in Nat
    BY <1>2
  <2>2. g \in [(1..n) \X Nat -> Nat]
    BY <2>1
  <2>3. \A i \in 1..n, x \in Nat : g[<<i, x>>] = x + Size[t[i]]
    OBVIOUS
  <2> QED
    BY <2>2, <2>3
<1> HIDE DEF g
<1>5. PICK f \in [0..n -> Nat] : f[0] = 0 /\ \A i \in 1..n : f[i] = g[<<i, f[i - 1]>>]
  <2>1. n \in Nat /\ 0 \in Nat
    BY <1>1
  <2>2. g \in [(1..n) \X Nat -> Nat]
    BY <1>4
  <2> HIDE DEF Def, L
  <2>3. \E f : Iterates(f, n, Nat, 0, g)
    BY <2>1, <2>2, Recursion
  <2> QED
    BY <2>3 DEF Iterates
<1>6. \A i \in 1..n : i - 1 \in 0..n /\ f[i - 1] \in Nat /\ f[i] = f[i - 1] + Size[t[i]]
  <2> TAKE i \in 1..n
  <2>1. i - 1 \in 0..n
    BY <1>1
  <2>2. f[i - 1] \in Nat
    BY <1>5, <2>1
  <2> QED
    BY <1>4, <1>5, <2>1, <2>2
<1>7. Def(f)
  <2>1. \A i \in 0..n : i = 0 \/ i \in 1..n
    BY <1>1
  <2>2. \A i \in 0..n : f[i] = IF i = 0 THEN 0 ELSE f[i - 1] + Size[t[i]]
    BY <1>1, <1>5, <1>6, <2>1
  <2> QED
    BY <1>5, <2>2
<1> HIDE DEF Def
<1>8. Def(L)
  BY <1>7
<1> HIDE DEF L
<1>9. L \in [0..n -> Nat] /\ L[0] = 0 /\ \A i \in 1..n : L[i] = L[i - 1] + Size[t[i]]
  <2>1. L = [i \in 0..n |-> IF i = 0 THEN 0 ELSE L[i - 1] + Size[t[i]]]
    BY <1>8 DEF Def
  <2>2. DOMAIN L = 0..n /\ 0 \in 0..n /\ L[0] = 0
    BY <1>1, <2>1
  <2>3. \A i \in 1..n : i \in 0..n /\ i # 0
    BY <1>1
  <2>4. \A i \in 1..n : L[i] = L[i - 1] + Size[t[i]]
    BY <2>1, <2>3
  <2> DEFINE T == {i \in 0..n : L[i] \in Nat}
  <2>5. 0 \in T
    BY <2>2
  <2>6. \A i \in 1..n : i - 1 \in T => i \in T
    BY <1>2, <2>3, <2>4
  <2> HIDE DEF T
  <2>7. \A i \in 0..n : i \in T
    BY <1>1, <2>5, <2>6, Counting
  <2>8. \A i \in 0..n : L[i] \in Nat
    BY <2>7 DEF T
  <2> QED
    BY <2>1, <2>2, <2>4, <2>8
<1> QED
  BY <1>3, <1>9 DEF n

\* A part of a text is no longer than the text.
LEMMA LengthWithin ==
  ASSUME NEW a \in Seq(Piece), NEW b \in Seq(Piece), Within(a, b)
  PROVE  Length(a) <= Length(b)
<1>1. Len(a) \in Nat /\ Len(b) \in Nat
      /\ (\A i \in 1..Len(a) : a[i] \in Piece) /\ (\A i \in 1..Len(b) : b[i] \in Piece)
  BY LenProperties, ElementOfSeq
<1>2. \A i \in 1..Len(b) : Size[b[i]] \in Nat
  BY <1>1, FeedAssumption
<1>3. PICK f : /\ f \in [0..Len(a) -> Nat] /\ f[0] = 0 /\ f[Len(a)] = Length(a)
               /\ \A i \in 1..Len(a) : f[i] = f[i - 1] + Size[a[i]]
  BY LengthIs
<1>4. PICK g : /\ g \in [0..Len(b) -> Nat] /\ g[Len(b)] = Length(b)
               /\ \A i \in 1..Len(b) : g[i] = g[i - 1] + Size[b[i]]
  BY LengthIs
<1>5. PICK j \in 0..(Len(b) - Len(a)) : SubSeq(b, j + 1, j + Len(a)) = a
  BY DEF Within
<1>6. ASSUME NEW k \in 1..Len(a)
      PROVE  a[k] = b[j + k] /\ j + k \in 1..Len(b) /\ j + (k - 1) = j + k - 1 /\ k - 1 \in 0..Len(a)
             /\ j + k - 1 \in 0..Len(b) /\ j + k \in 0..Len(b)
  <2>1. j + 1 \in Int /\ j + Len(a) \in Int /\ (j + Len(a)) - (j + 1) + 1 = Len(a)
    BY <1>1
  <2>2. SubSeq(b, j + 1, j + Len(a))[k] = b[(j + 1) + k - 1]
    <3>1. /\ j + 1 \in 1..(Len(b) + 1) /\ j + Len(a) \in 0..Len(b)
          /\ k \in 1..((j + Len(a)) - (j + 1) + 1)
      BY <1>1, <2>1
    <3> QED
      BY <3>1, SubSeqProperties
  <2>3. (j + 1) + k - 1 = j + k
    BY <1>1
  <2>4. a[k] = b[j + k]
    BY <1>5, <2>2, <2>3
  <2>5. /\ j + k \in 1..Len(b) /\ j + (k - 1) = j + k - 1 /\ k - 1 \in 0..Len(a)
        /\ j + k - 1 \in 0..Len(b) /\ j + k \in 0..Len(b)
    BY <1>1
  <2> QED
    BY <2>4, <2>5
<1>7. \A k \in 0..Len(a) : g[j + k] = g[j] + f[k]
  <2> DEFINE T == {k \in 0..Len(a) : g[j + k] = g[j] + f[k]}
  <2>0. j \in 0..Len(b) /\ j + 0 = j
    BY <1>1
  <2>1. g[j] \in Nat
    BY <1>4, <2>0
  <2>2. 0 \in T
    BY <1>1, <1>3, <2>0, <2>1
  <2>3. ASSUME NEW k \in 1..Len(a), k - 1 \in T PROVE k \in T
    <3>1. g[j + k - 1] = g[j] + f[k - 1]
      BY <1>6, <2>3
    <3>2. g[j + k] = g[j + k - 1] + Size[b[j + k]]
      BY <1>4, <1>6
    <3>3. f[k] = f[k - 1] + Size[a[k]]
      BY <1>3
    <3>4. f[k - 1] \in Nat /\ Size[a[k]] \in Nat /\ a[k] = b[j + k]
      BY <1>2, <1>3, <1>6
    <3>5. g[j + k] = g[j] + f[k]
      <4>1. g[j + k] = (g[j] + f[k - 1]) + Size[a[k]]
        BY <3>1, <3>2, <3>4
      <4> QED
        BY <2>1, <3>3, <3>4, <4>1
    <3> QED
      BY <1>1, <3>5
  <2> HIDE DEF T
  <2>4. \A k \in 0..Len(a) : k \in T
    BY <1>1, <2>2, <2>3, Counting
  <2> QED
    BY <2>4 DEF T
<1>8. g[j + Len(a)] <= g[Len(b)]
  <2> DEFINE p == j + Len(a)
             m == Len(b) - p
             T == {k \in 0..m : g[p] <= g[p + k]}
  <2>1. p \in 0..Len(b) /\ m \in Nat /\ p + m = Len(b)
    BY <1>1
  <2> HIDE DEF p, m
  <2>2. ASSUME NEW k \in 0..m PROVE p + k \in 0..Len(b) /\ g[p + k] \in Nat
    <3>1. p + k \in 0..Len(b)
      BY <1>1, <2>1
    <3> QED
      BY <1>4, <3>1
  <2>3. 0 \in T
    <3>1. p + 0 = p /\ 0 \in 0..m
      BY <1>1, <2>1
    <3>2. g[p] \in Nat
      BY <1>4, <2>1
    <3> QED
      BY <3>1, <3>2
  <2>4. ASSUME NEW k \in 1..m, k - 1 \in T PROVE k \in T
    <3>1. k - 1 \in 0..m /\ k \in 0..m /\ p + k \in 1..Len(b) /\ p + k - 1 = p + (k - 1)
      BY <1>1, <2>1
    <3>2. g[p + k] = g[p + (k - 1)] + Size[b[p + k]]
      <4>1. g[p + k] = g[p + k - 1] + Size[b[p + k]]
        <5>1. p \in Int /\ k \in Int /\ p + k \in 1..Len(b)
          BY <1>1, <2>1, <3>1
        <5> QED
          BY <1>4, <5>1
      <4> QED
        BY <3>1, <4>1
    <3>3. g[p] <= g[p + (k - 1)]
      BY <2>4
    <3>4. g[p] \in Nat /\ g[p + (k - 1)] \in Nat /\ Size[b[p + k]] \in Nat
      BY <1>2, <1>4, <2>1, <2>2, <3>1
    <3> QED
      BY <3>1, <3>2, <3>3, <3>4
  <2> HIDE DEF T
  <2>5. \A k \in 0..m : k \in T
    BY <2>1, <2>3, <2>4, Counting
  <2>6. m \in T
    BY <2>1, <2>5
  <2> QED
    BY <2>1, <2>6 DEF T, p
<1>9. f[Len(a)] \in Nat /\ g[j] \in Nat /\ g[j + Len(a)] = g[j] + f[Len(a)]
  <2>1. Len(a) \in 0..Len(a) /\ j \in 0..Len(b)
    BY <1>1
  <2> QED
    BY <1>3, <1>4, <1>7, <2>1
<1> QED
  <2>1. g[Len(b)] \in Nat
    BY <1>1, <1>4
  <2> QED
    BY <1>3, <1>4, <1>8, <1>9, <2>1

LEMMA Lengths ==
  /\ \A t \in Seq(Piece) : Length(t) \in Nat
  /\ Length(<< >>) = 0
<1>1. ASSUME NEW t \in Seq(Piece) PROVE Length(t) \in Nat /\ (t = << >> => Length(t) = 0)
  <2>1. PICK f : f \in [0..Len(t) -> Nat] /\ f[0] = 0 /\ f[Len(t)] = Length(t)
    BY LengthIs
  <2>2. Len(t) \in 0..Len(t) /\ (t = << >> => Len(t) = 0)
    BY LenProperties
  <2> QED
    BY <2>1, <2>2
<1>2. << >> \in Seq(Piece)
  OBVIOUS
<1> QED
  BY <1>1, <1>2

\* merge_turn_bodies: one of the two, and never a shorter text than was there.
LEMMA MergedIs ==
  ASSUME NEW a \in Seq(Piece), NEW b \in Seq(Piece)
  PROVE  Merged(a, b) \in {a, b} /\ Length(Merged(a, b)) >= Length(a)
<1>1. Length(a) \in Nat /\ Length(b) \in Nat /\ (a = << >> => Length(a) = 0)
  BY Lengths
<1>2. Within(a, b) => Length(a) <= Length(b)
  BY LengthWithin
<1> QED
  BY <1>1, <1>2 DEF Merged

-----------------------------------------------------------------------------
(* Texts in order: the messages with ids of a text, each greater than those before it *)

Plain == Messages \cup {Newline}
Said(t) == {t[i] : i \in DOMAIN t} \cap Named
Below(A, B) == \A x \in A, y \in B : x < y
Rising(t) == \A i, j \in DOMAIN t :
               i < j /\ t[i] \in Named /\ t[j] \in Named => t[i] < t[j]

Lines == Seq(Seq(Messages))
Shown(lines) == UNION {Said(lines[q]) : q \in 1..Len(lines)}
LinesRising(lines) == /\ \A q \in 1..Len(lines) : Rising(lines[q])
                      /\ \A q, r \in 1..Len(lines) : q < r => Below(Said(lines[q]), Said(lines[r]))

\* The invariants: what the texts are made of, ...
Texts == /\ text \in Seq(Piece) /\ Rising(text)
         /\ api \in Seq(Plain) /\ Rising(api)
         /\ best \in Seq(Piece) /\ Rising(best)
         /\ rows.got \in SUBSET Messages
         /\ buf \in Lines /\ LinesRising(buf)

\* ... what the stream brought is known, and all that came before what it showed, ...
Heard == pc \in {"greet", "open", "read", "ended", "error"} =>
           /\ sent \in Nat
           /\ 1..sent \subseteq known
           /\ \A m \in Shown(buf) : 1..m \subseteq known

\* ... and the waiting panel comes first.
PanelFirst == pc = "greet" => IsPanel(text) /\ poll = "over"

OInv == Texts /\ Heard /\ PanelFirst

LEMMA Pieces ==
  /\ Messages = 1..N /\ Named \subseteq Messages
  /\ Plain \subseteq Piece /\ Messages \subseteq Plain
  /\ Newline \in Plain /\ Query \in Piece /\ Panel \in Piece /\ Failure \in Piece /\ Marker \in Piece
  /\ {Newline, Query, Panel, Failure, Marker} \cap Messages = {}
  /\ Panel \notin Plain /\ Panel # Query /\ Panel # Failure
<1>1. Messages = 1..N
  BY FeedAssumption, LenProperties DEF Messages, N
<1>2. ASSUME NEW a, NEW b, NEW c, NEW d PROVE Cardinality({a, b, c, d}) <= 4
  <2>1. IsFiniteSet({}) /\ Cardinality({}) = 0
    BY FS_EmptySet
  <2>2. IsFiniteSet({} \cup {a}) /\ Cardinality({} \cup {a}) \in 0..1
    BY <2>1, FS_AddElement
  <2>3. IsFiniteSet(({} \cup {a}) \cup {b}) /\ Cardinality(({} \cup {a}) \cup {b}) \in 0..2
    BY <2>2, FS_AddElement
  <2>4. IsFiniteSet((({} \cup {a}) \cup {b}) \cup {c}) /\ Cardinality((({} \cup {a}) \cup {b}) \cup {c}) \in 0..3
    BY <2>3, FS_AddElement
  <2>5. Cardinality(((({} \cup {a}) \cup {b}) \cup {c}) \cup {d}) \in 0..4
    BY <2>4, FS_AddElement
  <2>6. ((({} \cup {a}) \cup {b}) \cup {c}) \cup {d} = {a, b, c, d}
    OBVIOUS
  <2> QED
    BY <2>5, <2>6
<1>3. ASSUME NEW x \in {Newline, Query, Failure}, Panel = x PROVE FALSE
  <2>1. {Newline, Query, Panel, Failure, Marker} = {Newline, Query, Failure, Marker}
    BY <1>3
  <2>2. Cardinality({Newline, Query, Failure, Marker}) = 5
    BY <2>1, FeedAssumption
  <2>3. Cardinality({Newline, Query, Failure, Marker}) <= 4
    BY <1>2
  <2> QED
    BY <2>2, <2>3
<1>4. {Newline, Query, Panel, Failure, Marker} \cap Messages = {}
  BY FeedAssumption
<1> QED
  BY <1>1, <1>3, <1>4 DEF Plain, Piece, Named

\* Two texts, one after the other.
LEMMA ConcatRises ==
  ASSUME NEW S, NEW a \in Seq(S), NEW b \in Seq(S)
  PROVE  /\ a \o b \in Seq(S)
         /\ Said(a \o b) = Said(a) \cup Said(b)
         /\ Rising(a) /\ Rising(b) /\ Below(Said(a), Said(b)) => Rising(a \o b)
<1> DEFINE u == a \o b
<1>1. /\ u \in Seq(S) /\ Len(u) = Len(a) + Len(b)
      /\ Len(a) \in Nat /\ Len(b) \in Nat
      /\ DOMAIN u = 1..(Len(a) + Len(b)) /\ DOMAIN a = 1..Len(a) /\ DOMAIN b = 1..Len(b)
  BY ConcatProperties, LenProperties
<1>2. \A i \in DOMAIN u : u[i] = IF i <= Len(a) THEN a[i] ELSE b[i - Len(a)]
  BY <1>1, ConcatProperties
<1> HIDE DEF u
<1>3. \A i \in DOMAIN u : \/ i \in DOMAIN a /\ u[i] = a[i]
                          \/ i - Len(a) \in DOMAIN b /\ u[i] = b[i - Len(a)] /\ i \notin DOMAIN a
  BY <1>1, <1>2
<1>4. \A i \in DOMAIN a : i \in DOMAIN u /\ u[i] = a[i]
  BY <1>1, <1>2
<1>5. ASSUME NEW i \in DOMAIN b PROVE i + Len(a) \in DOMAIN u /\ u[i + Len(a)] = b[i]
  <2>1. i + Len(a) \in DOMAIN u /\ ~(i + Len(a) <= Len(a)) /\ i + Len(a) - Len(a) = i
    BY <1>1
  <2> QED
    BY <1>2, <2>1
<1>6. Said(u) = Said(a) \cup Said(b)
  <2>1. ASSUME NEW x \in Said(u) PROVE x \in Said(a) \cup Said(b)
    <3>1. PICK i \in DOMAIN u : x = u[i] /\ x \in Named
      BY DEF Said
    <3>2. CASE i \in DOMAIN a /\ u[i] = a[i]
      BY <3>1, <3>2 DEF Said
    <3>3. CASE i - Len(a) \in DOMAIN b /\ u[i] = b[i - Len(a)]
      BY <3>1, <3>3 DEF Said
    <3> QED
      BY <1>3, <3>1, <3>2, <3>3
  <2>2. ASSUME NEW x \in Said(a) PROVE x \in Said(u)
    BY <1>4 DEF Said
  <2>3. ASSUME NEW x \in Said(b) PROVE x \in Said(u)
    BY <1>5 DEF Said
  <2> QED
    BY <2>1, <2>2, <2>3
<1>7. ASSUME Rising(a), Rising(b), Below(Said(a), Said(b)) PROVE Rising(u)
  <2> SUFFICES ASSUME NEW i \in DOMAIN u, NEW j \in DOMAIN u, i < j, u[i] \in Named, u[j] \in Named
               PROVE  u[i] < u[j]
    BY DEF Rising
  <2>1. CASE i \in DOMAIN a /\ j \in DOMAIN a
    BY <1>4, <1>7, <2>1 DEF Rising
  <2>2. CASE i \notin DOMAIN a /\ j \notin DOMAIN a
    <3>1. /\ i - Len(a) \in DOMAIN b /\ u[i] = b[i - Len(a)]
          /\ j - Len(a) \in DOMAIN b /\ u[j] = b[j - Len(a)]
      BY <1>3, <2>2
    <3>2. i - Len(a) < j - Len(a)
      BY <1>1
    <3> QED
      BY <1>7, <3>1, <3>2 DEF Rising
  <2>3. CASE i \in DOMAIN a /\ j \notin DOMAIN a
    <3>1. u[i] \in Said(a)
      BY <1>4, <2>3 DEF Said
    <3>2. u[j] \in Said(b)
      BY <1>3, <2>3 DEF Said
    <3> QED
      BY <1>7, <3>1, <3>2 DEF Below
  <2>4. ~(i \notin DOMAIN a /\ j \in DOMAIN a)
    BY <1>1
  <2> QED
    BY <2>1, <2>2, <2>3, <2>4
<1> QED
  BY <1>1, <1>6, <1>7 DEF u

\* A text without messages is in order.
LEMMA Silent ==
  ASSUME NEW S, NEW t \in Seq(S), S \cap Messages = {}
  PROVE  Said(t) = {} /\ Rising(t)
<1>1. \A i \in DOMAIN t : t[i] \in S
  BY LenProperties, ElementOfSeq
<1> QED
  BY <1>1, Pieces DEF Said, Rising

\* with_query_header
LEMMA HeadedIs ==
  ASSUME NEW t \in Seq(Piece), Rising(t), NEW q
  PROVE  Headed(t, q) \in Seq(Piece) /\ Rising(Headed(t, q))
<1> DEFINE h == Header
<1>1. h \in Seq({Query, Newline}) /\ h \in Seq(Piece)
  BY Pieces DEF Header
<1> HIDE DEF h
<1>2. Said(h) = {} /\ Rising(h)
  <2>1. {Query, Newline} \cap Messages = {}
    BY Pieces
  <2> QED
    BY <1>1, <2>1, Silent
<1>3. Below(Said(h), Said(t))
  BY <1>2 DEF Below
<1>4. h \o t \in Seq(Piece) /\ Rising(h \o t)
  <2>1. h \o t \in Seq(Piece)
    BY <1>1, ConcatRises
  <2>2. Rising(h \o t)
    BY <1>1, <1>2, <1>3, ConcatRises
  <2> QED
    BY <2>1, <2>2
<1>5. Headed(t, q) \in {t, h \o t}
  BY DEF Headed, h
<1> QED
  BY <1>4, <1>5

\* What is no panel, is no panel with its header.
LEMMA HeadedShows ==
  ASSUME NEW t \in Seq(Piece), NEW q
  PROVE  IsPanel(Headed(t, q)) <=> IsPanel(t)
<1> DEFINE h == Header
           u == h \o t
<1>1. Len(h) = 3 /\ h[1] = Query /\ h[2] = Newline /\ h[3] = Newline /\ h \in Seq(Piece)
  BY Pieces DEF Header
<1> HIDE DEF h
<1>2. /\ Len(t) \in Nat /\ DOMAIN t = 1..Len(t) /\ DOMAIN u = 1..(3 + Len(t))
      /\ \A i \in DOMAIN u : u[i] = IF i <= 3 THEN h[i] ELSE t[i - 3]
  <2>1. Len(t) \in Nat /\ DOMAIN t = 1..Len(t)
    BY LenProperties
  <2>2. /\ u \in Seq(Piece) /\ Len(u) = 3 + Len(t)
        /\ \A i \in 1..(3 + Len(t)) : u[i] = IF i <= 3 THEN h[i] ELSE t[i - 3]
    <3>1. u \in Seq(Piece)
      BY <1>1, ConcatProperties
    <3>2. Len(u) = Len(h) + Len(t)
      BY <1>1, ConcatProperties
    <3>3. \A i \in 1..(Len(h) + Len(t)) : u[i] = IF i <= Len(h) THEN h[i] ELSE t[i - Len(h)]
      BY <1>1, ConcatProperties
    <3> HIDE DEF u
    <3> QED
      BY <1>1, <3>1, <3>2, <3>3
  <2>3. DOMAIN u = 1..(3 + Len(t))
    BY <2>2, LenProperties
  <2> QED
    BY <2>1, <2>2, <2>3
<1> HIDE DEF u
<1>3. Query # Panel /\ Newline # Panel
  BY Pieces
<1>4. ASSUME NEW i \in DOMAIN u, u[i] = Panel PROVE i - 3 \in DOMAIN t /\ t[i - 3] = Panel
  <2>1. ~(i <= 3)
    <3>1. i <= 3 => i \in {1, 2, 3}
      BY <1>2
    <3> QED
      BY <1>1, <1>2, <1>3, <1>4, <3>1
  <2> QED
    BY <1>2, <1>4, <2>1
<1>5. ASSUME NEW i \in DOMAIN t PROVE i + 3 \in DOMAIN u /\ u[i + 3] = t[i]
  <2>1. i + 3 \in DOMAIN u /\ ~(i + 3 <= 3) /\ i + 3 - 3 = i
    BY <1>2
  <2> QED
    BY <1>2, <2>1
<1>6. IsPanel(u) <=> IsPanel(t)
  BY <1>4, <1>5 DEF IsPanel
<1>7. Headed(t, q) \in {t, u}
  BY DEF Headed, u, h
<1> QED
  BY <1>6, <1>7

LEMMA PlainShows == \A t \in Seq(Plain) : t \in Seq(Piece) /\ ~ IsPanel(t)
<1> SUFFICES ASSUME NEW t \in Seq(Plain) PROVE t \in Seq(Piece) /\ ~ IsPanel(t)
  OBVIOUS
<1>1. \A i \in DOMAIN t : t[i] \in Plain
  BY LenProperties, ElementOfSeq
<1>2. t \in Seq(Piece)
  BY Pieces, SeqMonotonic
<1>3. ~ IsPanel(t)
  BY <1>1, Pieces DEF IsPanel
<1> QED
  BY <1>2, <1>3

\* waiting_panel_text
LEMMA WaitingIs ==
  ASSUME NEW q
  PROVE  Waiting(q) \in Seq(Piece) /\ Rising(Waiting(q)) /\ IsPanel(Waiting(q))
<1>1. <<Panel>> \in Seq(Piece) /\ <<Panel>> \in Seq({Panel}) /\ {Panel} \cap Messages = {}
  BY Pieces
<1>2. Rising(<<Panel>>)
  BY <1>1, Silent
<1>3. IsPanel(<<Panel>>)
  BY DEF IsPanel
<1> QED
  BY <1>1, <1>2, <1>3, HeadedIs, HeadedShows DEF Waiting

\* The k-th of a set of messages: each has its rank, and every rank is taken.
LEMMA NthIs ==
  ASSUME NEW S \in SUBSET Messages
  PROVE  /\ Cardinality(S) \in Nat
         /\ \A k \in 1..Cardinality(S) : Nth(S, k) \in S
         /\ \A k, l \in 1..Cardinality(S) : k < l => Nth(S, k) < Nth(S, l)
<1> DEFINE B(m) == {x \in S : x <= m}
           f == [m \in S |-> Cardinality(B(m))]
           c == Cardinality(S)
<1>1. IsFiniteSet(S) /\ c \in Nat /\ \A m \in S : m \in Int
  <2>1. IsFiniteSet(1..N) /\ S \subseteq 1..N
    BY LengthOfRun, Pieces, FS_Interval
  <2>2. IsFiniteSet(S)
    BY <2>1, FS_Subset
  <2>3. c \in Nat
    BY <2>2, FS_CardinalityType
  <2> QED
    BY <2>1, <2>2, <2>3, LengthOfRun
<1>2. \A m \in S : IsFiniteSet(B(m)) /\ Cardinality(B(m)) \in Nat
  BY <1>1, FS_Subset, FS_CardinalityType
<1>3. ASSUME NEW m \in S, NEW n \in S, m < n PROVE Cardinality(B(m)) < Cardinality(B(n))
  <2>1. n \notin B(m) /\ n \in B(n) /\ B(m) \subseteq B(n)
    <3>1. \A x \in S : x <= m => x <= n
      BY <1>1, <1>3
    <3> QED
      BY <1>1, <1>3, <3>1
  <2>2. Cardinality(B(m) \cup {n}) = Cardinality(B(m)) + 1
    BY <1>2, <2>1, FS_AddElement
  <2>3. B(m) \cup {n} \in SUBSET B(n)
    BY <2>1
  <2>4. Cardinality(B(m) \cup {n}) <= Cardinality(B(n))
    BY <1>2, <2>3, FS_Subset
  <2> HIDE DEF B
  <2>5. Cardinality(B(m)) \in Nat /\ Cardinality(B(n)) \in Nat
    BY <1>2
  <2> QED
    BY <2>2, <2>4, <2>5
<1>4. ASSUME NEW m \in S PROVE Cardinality(B(m)) \in 1..c
  <2>1. Cardinality(B(m)) <= c
    <3>1. B(m) \in SUBSET S
      OBVIOUS
    <3> HIDE DEF B
    <3> QED
      BY <1>1, <3>1, FS_Subset
  <2>2. m \in B(m)
    BY <1>1
  <2>3. Cardinality(B(m)) # 0
    BY <1>2, <2>2, FS_EmptySet
  <2> QED
    BY <1>1, <1>2, <2>1, <2>3
<1> HIDE DEF B
<1>5. f \in Injection(S, 1..c)
  <2>1. f \in [S -> 1..c]
    BY <1>4
  <2>2. ASSUME NEW m \in S, NEW n \in S, f[m] = f[n] PROVE m = n
    <3>1. Cardinality(B(m)) = Cardinality(B(n))
      BY <2>2
    <3>2. ~(m < n) /\ ~(n < m)
      BY <1>2, <1>3, <3>1
    <3> QED
      BY <1>1, <3>2
  <2> QED
    BY <2>1, <2>2 DEF Injection, IsInjective
<1>6. f \in Surjection(S, 1..c)
  <2>1. IsFiniteSet(1..c) /\ Cardinality(1..c) = c
    BY <1>1, FS_Interval
  <2> HIDE DEF f
  <2> QED
    BY <1>1, <1>5, <2>1, FS_Injection
<1>7. ASSUME NEW k \in 1..c PROVE Nth(S, k) \in S /\ Cardinality(B(Nth(S, k))) = k
  <2>1. PICK m \in S : f[m] = k
    BY <1>6 DEF Surjection
  <2>2. Cardinality(B(m)) = k
    BY <2>1
  <2> QED
    BY <2>2 DEF Nth, B
<1>8. ASSUME NEW k \in 1..c, NEW l \in 1..c, k < l PROVE Nth(S, k) < Nth(S, l)
  <2> DEFINE m == Nth(S, k)
             n == Nth(S, l)
  <2>1. m \in S /\ n \in S /\ Cardinality(B(m)) = k /\ Cardinality(B(n)) = l
    BY <1>7
  <2> HIDE DEF m, n
  <2>2. ~(n < m) /\ n # m
    BY <1>1, <1>3, <1>8, <2>1
  <2>3. m < n
    BY <1>1, <2>1, <2>2
  <2> QED
    BY <2>3 DEF m, n
<1> QED
  BY <1>1, <1>7, <1>8

\* ordered_unique_message_text
LEMMA PollTextIs ==
  ASSUME NEW S \in SUBSET Messages
  PROVE  PollText(S) \in Seq(Plain) /\ Rising(PollText(S))
<1> DEFINE c == Cardinality(S)
           t == PollText(S)
           n == IF c = 0 THEN 0 ELSE 3 * c - 2
           at(i) == (i + 2) \div 3
<1>1. c \in Nat /\ n \in Nat /\ 1..(3 * c - 2) = 1..n
  BY NthIs
<1>2. ASSUME NEW i \in 1..n, i % 3 = 1 PROVE at(i) \in 1..c /\ 3 * at(i) = i + 2
  BY <1>1, <1>2
<1> HIDE DEF at
<1>3. t = [i \in 1..n |-> IF i % 3 = 1 THEN Nth(S, at(i)) ELSE Newline]
  BY <1>1 DEF PollText, at
<1>4. \A i \in 1..n : t[i] = IF i % 3 = 1 THEN Nth(S, at(i)) ELSE Newline
  BY <1>3
<1>5. t \in [1..n -> Plain]
  <2>1. ASSUME NEW i \in 1..n PROVE (IF i % 3 = 1 THEN Nth(S, at(i)) ELSE Newline) \in Plain
    <3>1. CASE i % 3 = 1
      BY <1>2, <3>1, NthIs, Pieces
    <3> QED
      BY <3>1, Pieces
  <2> HIDE DEF n, t
  <2> QED
    BY <1>3, <2>1
<1> HIDE DEF n, t
<1>6. t \in Seq(Plain)
  BY <1>1, <1>5, SeqDef
<1>7. Rising(t)
  <2> SUFFICES ASSUME NEW i \in 1..n, NEW j \in 1..n, i < j, t[i] \in Named, t[j] \in Named
               PROVE  t[i] < t[j]
    BY <1>5 DEF Rising
  <2>1. i % 3 = 1 /\ j % 3 = 1
    BY <1>4, Pieces
  <2>2. at(i) \in 1..c /\ at(j) \in 1..c /\ 3 * at(i) = i + 2 /\ 3 * at(j) = j + 2
    BY <1>2, <2>1
  <2>3. at(i) < at(j)
    BY <1>1, <2>2
  <2>4. Nth(S, at(i)) < Nth(S, at(j))
    BY <2>2, <2>3, NthIs
  <2> QED
    BY <1>4, <2>1, <2>4
<1> QED
  BY <1>6, <1>7 DEF t

\* What either merge returns is one of the texts.
LEMMA MergedRises ==
  ASSUME NEW a \in Seq(Piece), Rising(a), NEW b \in Seq(Piece), Rising(b)
  PROVE  Merged(a, b) \in Seq(Piece) /\ Rising(Merged(a, b))
<1>1. Merged(a, b) \in {a, b}
  BY MergedIs
<1> QED
  BY <1>1

\* The end of a text that is cut: of the text's pieces, and long enough.
LEMMA RearIs ==
  ASSUME NEW t \in Seq(Piece), NEW room \in Nat \ {0}, Length(t) >= room
  PROVE  /\ Rear(t, room) \in Seq(Piece) /\ Length(Rear(t, room)) >= room
         /\ Rising(t) => Rising(Rear(t, room))
         /\ ~ IsPanel(t) => ~ IsPanel(Rear(t, room))
<1> DEFINE n == Len(t)
           from(i) == SubSeq(t, i, n)
           Starts == {i \in 1..n : Length(from(i + 1)) < room}
           first == CHOOSE i \in Starts : \A j \in Starts : i <= j
           u == from(first)
<1>1. n \in Nat /\ DOMAIN t = 1..n /\ \A i \in 1..n : t[i] \in Piece
  BY LenProperties, ElementOfSeq
<1>2. Rear(t, room) = u
  BY <1>1 DEF Rear
<1>3. from(1) = t /\ from(n + 1) = << >>
  <2>1. n + 1 - n = 1 /\ t \in Seq(Piece)
    BY <1>1
  <2>2. SubSeq(t, 1, n) = t
    BY SubSeqFull
  <2>3. SubSeq(t, n + 1, n) = << >>
    BY <1>1, SubSeqEmpty
  <2> QED
    BY <2>2, <2>3
<1>4. \A i \in 1..n : from(i) \in Seq(Piece)
  BY <1>1
<1> HIDE DEF n, from
<1>5. n # 0
  <2>1. CASE n = 0
    <3>1. t = << >>
      BY <2>1, EmptySeq DEF n
    <3>2. Length(t) = 0
      BY <3>1, Lengths
    <3> QED
      BY <3>2
  <2> QED
    BY <2>1
<1>6. n \in Starts
  <2>1. Length(from(n + 1)) = 0
    BY <1>3, Lengths
  <2>2. n \in 1..n
    BY <1>1, <1>5
  <2> QED
    BY <2>1, <2>2
<1>7. \E i \in Starts : \A j \in Starts : i <= j
  <2>1. Starts \in SUBSET (1..n) /\ Starts # {}
    BY <1>6
  <2> HIDE DEF Starts
  <2> QED
    BY <1>1, <2>1, Least
<1>8. first \in Starts /\ \A j \in Starts : first <= j
  <2> HIDE DEF Starts
  <2> QED
    BY <1>7
<1> HIDE DEF first
<1>9. first \in 1..n
  BY <1>8
<1>10. Length(u) >= room
  <2>1. CASE first = 1
    BY <1>3, <2>1
  <2>2. CASE first # 1
    <3>1. first - 1 \in 1..n /\ ~ (first <= first - 1) /\ first - 1 + 1 = first
      BY <1>1, <1>9, <2>2
    <3>2. first - 1 \notin Starts
      <4> HIDE DEF Starts
      <4> QED
        BY <1>8, <3>1
    <3>3. ~ (Length(from(first)) < room)
      BY <3>1, <3>2
    <3>4. Length(u) \in Nat
      BY <1>4, <1>9, Lengths
    <3> QED
      BY <3>3, <3>4
  <2> QED
    BY <2>1, <2>2
<1>11. u \in Seq(Piece)
  BY <1>4, <1>9
<1>12. DOMAIN u = 1..(n - first + 1) /\ \A i \in DOMAIN u : u[i] = t[first + i - 1] /\ first + i - 1 \in DOMAIN t
  BY <1>1, <1>9, SubSeqProperties DEF from, n
<1> HIDE DEF u
<1>13. ASSUME Rising(t) PROVE Rising(u)
  <2> SUFFICES ASSUME NEW i \in DOMAIN u, NEW j \in DOMAIN u, i < j, u[i] \in Named, u[j] \in Named
               PROVE  u[i] < u[j]
    BY DEF Rising
  <2>1. first + i - 1 < first + j - 1
    BY <1>1, <1>9, <1>12
  <2> QED
    BY <1>12, <1>13, <2>1 DEF Rising
<1>14. ASSUME ~ IsPanel(t) PROVE ~ IsPanel(u)
  BY <1>12, <1>14 DEF IsPanel
<1> QED
  BY <1>2, <1>10, <1>11, <1>13, <1>14

\* A text cut to what the popup holds.
LEMMA LastIs ==
  ASSUME NEW t \in Seq(Piece)
  PROVE  /\ Last(t) \in Seq(Piece)
         /\ Length(Last(t)) >= Length(t) \/ Length(Last(t)) >= Room
         /\ Rising(t) => Rising(Last(t))
         /\ ~ IsPanel(t) => ~ IsPanel(Last(t))
<1>1. Length(t) \in Nat /\ Room \in Nat \ {0}
  <2>1. Size[Query] \in Nat /\ Size[Newline] \in Nat
    BY FeedAssumption, Pieces DEF Piece
  <2> QED
    BY <2>1, Lengths, FeedAssumption
<1>2. CASE Length(t) <= Room
  BY <1>1, <1>2 DEF Last
<1>3. CASE ~ (Length(t) <= Room)
  BY <1>1, <1>3, RearIs DEF Last
<1> QED
  BY <1>2, <1>3

\* _apply_text
LEMMA AppliedIs ==
  ASSUME text \in Seq(Piece), Rising(text), NEW body \in Seq(Plain), Rising(body), NEW q
  PROVE  /\ Applied(body, q) \in Seq(Piece) /\ Rising(Applied(body, q))
         /\ ~ IsPlaceholder(text) => /\ ~ IsPanel(Applied(body, q))
                                     /\ \/ Length(Applied(body, q)) >= Length(text)
                                        \/ Length(Applied(body, q)) >= Room
<1>1. body \in Seq(Piece) /\ ~ IsPanel(body)
  BY PlainShows
<1> DEFINE h == Headed(body, q)
           m == Merged(text, h)
<1>2. h \in Seq(Piece) /\ Rising(h)
  BY <1>1, HeadedIs
<1>3. ~ IsPanel(h)
  BY <1>1, HeadedShows
<1> HIDE DEF h
<1>4. m \in {text, h} /\ Length(m) >= Length(text)
  BY <1>2, MergedIs
<1>5. Length(text) \in Nat /\ Length(m) \in Nat /\ Room \in Nat
  BY <1>2, <1>4, Lengths, FeedAssumption
<1>6. Applied(body, q) \in {text, Last(h), Last(m)} /\ (~ IsPlaceholder(text) => Applied(body, q) \in {text, Last(m)})
  BY DEF Applied, h, m
<1> HIDE DEF m
<1>7. CASE Applied(body, q) = text
  BY <1>5, <1>7 DEF IsPlaceholder
<1>8. CASE Applied(body, q) = Last(h) /\ IsPlaceholder(text)
  BY <1>2, <1>8, LastIs
<1>9. CASE Applied(body, q) = Last(m)
  <2>1. m \in Seq(Piece) /\ Rising(m) /\ (~ IsPlaceholder(text) => ~ IsPanel(m))
    BY <1>2, <1>3, <1>4 DEF IsPlaceholder
  <2>2. Last(m) \in Seq(Piece) /\ Length(Last(m)) \in Nat
    BY <2>1, LastIs, Lengths
  <2>3. Length(Last(m)) >= Length(text) \/ Length(Last(m)) >= Room
    BY <1>4, <1>5, <2>1, <2>2, LastIs
  <2> QED
    BY <1>9, <2>1, <2>2, <2>3, LastIs
<1> QED
  BY <1>6, <1>7, <1>8, <1>9

-----------------------------------------------------------------------------
(* The lines of the stream *)

\* A piece leaves the lines in order if it is greater than all that was shown, or has
\* no id.
LEMMA AppendedIs ==
  ASSUME NEW lines \in Lines, LinesRising(lines), NEW m \in Messages,
         m \in Named => \A x \in Shown(lines) : x < m
  PROVE  /\ Appended(lines, m) \in Lines /\ LinesRising(Appended(lines, m))
         /\ Shown(Appended(lines, m)) \subseteq Shown(lines) \cup ({m} \cap Named)
<1> DEFINE n == Len(lines)
           u == Appended(lines, m)
           one == <<m>>
           own == {m} \cap Named
<1>1. /\ n \in Nat /\ DOMAIN lines = 1..n
      /\ \A q \in 1..n : lines[q] \in Seq(Messages)
      /\ m \in Int
  BY LenProperties, ElementOfSeq, Pieces, LengthOfRun DEF Lines
<1>2. one \in Seq(Messages) /\ Said(one) = own /\ Rising(one)
  <2>1. DOMAIN one = {1} /\ one[1] = m /\ one \in Seq(Messages)
    OBVIOUS
  <2> HIDE DEF one
  <2> QED
    BY <2>1 DEF Said, Rising
<1>3. << >> \in Seq(Messages) /\ Said(<< >>) = {} /\ Rising(<< >>)
  <2>1. DOMAIN << >> = {} /\ << >> \in Seq(Messages)
    OBVIOUS
  <2> QED
    BY <2>1 DEF Said, Rising
<1>4. \A q \in 1..n : Said(lines[q]) \subseteq Shown(lines)
  BY DEF Shown
<1>5. \A q \in 1..n : Below(Said(lines[q]), own)
  BY <1>4 DEF Below
<1>6. CASE Kind[m] = "think"
  <2> DEFINE v == <<one, << >>>>
  <2>1. Len(v) = 2 /\ v[1] = one /\ v[2] = << >> /\ v \in Lines
    BY <1>2, <1>3 DEF Lines
  <2>2. u = lines \o v
    BY <1>6 DEF Appended
  <2> HIDE DEF v
  <2> HIDE DEF u, one
  <2>3. u \in Lines
    BY <2>1, <2>2, ConcatProperties DEF Lines
  <2>4. Len(u) = n + 2
    <3>1. Len(lines \o v) = Len(lines) + Len(v)
      BY <2>1, ConcatProperties DEF Lines
    <3> QED
      BY <2>1, <2>2, <3>1
  <2>5. \A q \in 1..(n + 2) : u[q] = IF q <= n THEN lines[q] ELSE v[q - n]
    <3>1. \A q \in 1..(Len(lines) + Len(v)) :
            (lines \o v)[q] = IF q <= Len(lines) THEN lines[q] ELSE v[q - Len(lines)]
      BY <2>1, ConcatProperties DEF Lines
    <3> QED
      BY <2>1, <2>2, <3>1
  <2> HIDE DEF n
  <2>6. ASSUME NEW q \in 1..(n + 2)
        PROVE  \/ q \in 1..n /\ u[q] = lines[q]
               \/ q = n + 1 /\ u[q] = one
               \/ q = n + 2 /\ u[q] = << >>
    <3>1. q \in 1..n \/ (q = n + 1 /\ q - n = 1 /\ ~(q <= n)) \/ (q = n + 2 /\ q - n = 2 /\ ~(q <= n))
      BY <1>1
    <3> QED
      BY <1>1, <2>1, <2>5, <3>1
  <2>7. LinesRising(u)
    <3>1. ASSUME NEW q \in 1..Len(u) PROVE Rising(u[q])
      <4>1. q \in 1..n => Rising(lines[q])
        BY DEF LinesRising, n
      <4> QED
        BY <1>2, <1>3, <2>4, <2>6, <4>1
    <3>2. ASSUME NEW q \in 1..Len(u), NEW r \in 1..Len(u), q < r PROVE Below(Said(u[q]), Said(u[r]))
      <4>1. CASE r \in 1..n
        <5>1. q \in 1..n
          BY <1>1, <2>4, <3>2, <4>1
        <5>2. u[q] = lines[q] /\ u[r] = lines[r]
          BY <1>1, <2>4, <2>6, <4>1, <5>1
        <5> QED
          BY <3>2, <4>1, <5>1, <5>2 DEF LinesRising, n
      <4>2. CASE r = n + 1
        <5>1. q \in 1..n
          BY <1>1, <2>4, <3>2, <4>2
        <5>2. u[q] = lines[q] /\ u[r] = one
          BY <1>1, <2>4, <2>6, <4>2, <5>1
        <5> QED
          BY <1>2, <1>5, <5>1, <5>2
      <4>3. CASE r = n + 2
        <5>1. u[r] = << >>
          BY <1>1, <2>4, <2>6, <4>3
        <5> QED
          BY <1>3, <5>1 DEF Below
      <4> QED
        BY <2>4, <2>6, <4>1, <4>2, <4>3
    <3> QED
      BY <3>1, <3>2 DEF LinesRising
  <2>8. Shown(u) \subseteq Shown(lines) \cup own
    <3>1. ASSUME NEW q \in 1..(n + 2) PROVE Said(u[q]) \subseteq Shown(lines) \cup own
      BY <1>2, <1>3, <1>4, <2>6
    <3> QED
      BY <2>4, <3>1 DEF Shown
  <2> QED
    BY <2>3, <2>7, <2>8 DEF u
<1>7. CASE Kind[m] = "say" /\ lines # << >>
  <2> DEFINE last == Append(lines[n], m)
  <2>1. n \in 1..n
    BY <1>1, <1>7, EmptySeq DEF Lines
  <2>2. lines[n] \in Seq(Messages)
    BY <1>1, <2>1
  <2>3. last = lines[n] \o one
    BY <2>2, <1>2
  <2>4. u = [lines EXCEPT ![n] = last]
    <3>1. Kind[m] # "think"
      BY <1>7
    <3> QED
      BY <1>7, <3>1 DEF Appended
  <2> HIDE DEF last, one
  <2>5. last \in Seq(Messages)
    BY <1>2, <2>2, <2>3, ConcatRises
  <2>6. Said(last) = Said(lines[n]) \cup own
    BY <1>2, <2>2, <2>3, ConcatRises
  <2>7. Rising(last)
    <3>1. Below(Said(lines[n]), Said(one)) /\ Rising(lines[n])
      BY <1>2, <1>5, <2>1 DEF LinesRising
    <3> QED
      BY <1>2, <2>2, <2>3, <3>1, ConcatRises
  <2> HIDE DEF u
  <2>8. u \in Lines /\ Len(u) = n
    BY <2>1, <2>4, <2>5, ExceptSeq DEF Lines
  <2>9. \A q \in 1..n : u[q] = IF q = n THEN last ELSE lines[q]
    BY <1>1, <2>1, <2>4
  <2> HIDE DEF n
  <2>10. LinesRising(u)
    <3>1. ASSUME NEW q \in 1..Len(u) PROVE Rising(u[q])
      BY <2>7, <2>8, <2>9 DEF LinesRising, n
    <3>2. ASSUME NEW q \in 1..Len(u), NEW r \in 1..Len(u), q < r PROVE Below(Said(u[q]), Said(u[r]))
      <4>1. q \in 1..n /\ r \in 1..n /\ q # n /\ u[q] = lines[q]
        BY <1>1, <2>8, <2>9, <3>2
      <4>2. Below(Said(lines[q]), Said(lines[r]))
        BY <3>2, <4>1 DEF LinesRising, n
      <4>3. CASE r = n
        <5>1. Said(u[r]) = Said(lines[r]) \cup own
          BY <2>6, <2>9, <4>1, <4>3
        <5> QED
          BY <1>5, <4>1, <4>2, <5>1 DEF Below
      <4>4. CASE r # n
        BY <2>9, <4>1, <4>2, <4>4
      <4> QED
        BY <4>3, <4>4
    <3> QED
      BY <3>1, <3>2 DEF LinesRising
  <2>11. Shown(u) \subseteq Shown(lines) \cup own
    <3>1. ASSUME NEW q \in 1..n PROVE Said(u[q]) \subseteq Shown(lines) \cup own
      BY <1>4, <2>6, <2>9
    <3> QED
      BY <2>8, <3>1 DEF Shown
  <2> QED
    BY <2>8, <2>10, <2>11 DEF u
<1>8. CASE ~ (Kind[m] = "think") /\ ~ (Kind[m] = "say" /\ lines # << >>)
  <2>1. u = <<one>>
    BY <1>8 DEF Appended
  <2> HIDE DEF one
  <2>2. Len(u) = 1 /\ u[1] = one /\ u \in Lines
    BY <1>2, <2>1 DEF Lines
  <2> HIDE DEF u
  <2>3. 1..Len(u) = {1}
    BY <2>2
  <2>4. Rising(u[1]) /\ Said(u[1]) = own
    BY <1>2, <2>2
  <2>5. LinesRising(u)
    BY <2>3, <2>4 DEF LinesRising
  <2>6. Shown(u) \subseteq Shown(lines) \cup own
    BY <2>3, <2>4 DEF Shown
  <2> QED
    BY <2>2, <2>5, <2>6 DEF u
<1> QED
  BY <1>6, <1>7, <1>8

\* The lines joined: a text of their messages, in order.
LEMMA JoinedIs ==
  ASSUME NEW lines \in Lines, LinesRising(lines)
  PROVE  Joined(lines) \in Seq(Plain) /\ Rising(Joined(lines))
<1> DEFINE n == Len(lines)
           nl == <<Newline>>
           step(i, x) == CASE i = 1 -> lines[1]
                           [] OTHER -> IF i = n /\ lines[i] = << >> THEN x ELSE x \o nl \o lines[i]
           g == [p \in (1..n) \X Seq(Plain) |-> step(p[1], p[2])]
           Def(f) == f = [i \in 0..n |->
                            CASE i = 0 -> << >> [] i = 1 -> lines[1]
                              [] OTHER -> IF i = n /\ lines[i] = << >> THEN f[i - 1]
                                          ELSE f[i - 1] \o nl \o lines[i]]
           J == CHOOSE f : Def(f)
           ShownTo(i) == UNION {Said(lines[q]) : q \in 1..i}
           T == {i \in 0..n : J[i] \in Seq(Plain) /\ Rising(J[i]) /\ Said(J[i]) \subseteq ShownTo(i)}
<1>1. n \in Nat /\ \A i \in 1..n : lines[i] \in Seq(Messages)
  BY LenProperties, ElementOfSeq DEF Lines
<1>2. \A i \in 1..n : lines[i] \in Seq(Plain)
  BY <1>1, Pieces, SeqMonotonic
<1>3. nl \in Seq(Plain) /\ Said(nl) = {} /\ Rising(nl)
  <2>1. nl \in Seq(Plain) /\ nl \in Seq({Newline}) /\ {Newline} \cap Messages = {}
    BY Pieces
  <2> HIDE DEF nl
  <2> QED
    BY <2>1, Silent
<1>4. Joined(lines) = J[n]
  BY DEF Joined
<1> HIDE DEF n, nl, J
<1>5. ASSUME NEW x \in Seq(Plain), NEW i \in 1..n
      PROVE  x \o nl \in Seq(Plain) /\ x \o nl \o lines[i] \in Seq(Plain)
  <2>1. x \o nl \in Seq(Plain)
    BY <1>3, ConcatProperties
  <2>2. (x \o nl) \o lines[i] \in Seq(Plain)
    BY <1>2, <2>1, ConcatProperties
  <2> QED
    BY <2>1, <2>2
<1>6. \E f : Def(f)
  <2>1. ASSUME NEW i \in 1..n, NEW x \in Seq(Plain) PROVE step(i, x) \in Seq(Plain)
    <3>1. lines[i] \in Seq(Plain) /\ (i = 1 => lines[1] \in Seq(Plain)) /\ x \o nl \o lines[i] \in Seq(Plain)
      BY <1>2, <1>5
    <3> QED
      BY <3>1
  <2> HIDE DEF step
  <2>2. g \in [(1..n) \X Seq(Plain) -> Seq(Plain)]
    BY <2>1
  <2>3. \A i \in 1..n, x \in Seq(Plain) : g[<<i, x>>] = step(i, x)
    OBVIOUS
  <2> HIDE DEF g, Def
  <2>4. << >> \in Seq(Plain)
    OBVIOUS
  <2>5. PICK f : Iterates(f, n, Seq(Plain), << >>, g)
    BY <1>1, <2>2, <2>4, Recursion
  <2>6. f \in [0..n -> Seq(Plain)] /\ f[0] = << >> /\ \A i \in 1..n : f[i] = g[<<i, f[i - 1]>>]
    BY <2>5 DEF Iterates
  <2>7. ASSUME NEW i \in 1..n PROVE f[i] = step(i, f[i - 1])
    <3>1. i - 1 \in 0..n
      BY <1>1
    <3>2. f[i - 1] \in Seq(Plain)
      BY <2>6, <3>1
    <3> QED
      BY <2>3, <2>6, <3>2
  <2>8. ASSUME NEW i \in 0..n
        PROVE  f[i] = CASE i = 0 -> << >> [] i = 1 -> lines[1]
                        [] OTHER -> IF i = n /\ lines[i] = << >> THEN f[i - 1]
                                    ELSE f[i - 1] \o nl \o lines[i]
    <3>1. CASE i = 0
      BY <2>6, <3>1
    <3>2. CASE i # 0
      <4>1. i \in 1..n
        BY <1>1, <3>2
      <4> QED
        BY <2>7, <3>2, <4>1 DEF step
    <3> QED
      BY <3>1, <3>2
  <2>9. Def(f)
    BY <2>6, <2>8 DEF Def
  <2> QED
    BY <2>9
<1> HIDE DEF Def
<1>7. Def(J)
  BY <1>6 DEF J
<1>8. J = [i \in 0..n |->
             CASE i = 0 -> << >> [] i = 1 -> lines[1]
               [] OTHER -> IF i = n /\ lines[i] = << >> THEN J[i - 1]
                           ELSE J[i - 1] \o nl \o lines[i]]
  BY <1>7 DEF Def
<1>9. /\ J[0] = << >>
      /\ \A i \in 1..n : \/ i = 1 /\ J[i] = lines[1]
                         \/ i # 1 /\ J[i] = J[i - 1]
                         \/ i # 1 /\ J[i] = J[i - 1] \o nl \o lines[i]
  <2>1. J[0] = << >>
    BY <1>1, <1>8
  <2>2. ASSUME NEW i \in 1..n PROVE \/ i = 1 /\ J[i] = lines[1]
                                    \/ i # 1 /\ J[i] = J[i - 1]
                                    \/ i # 1 /\ J[i] = J[i - 1] \o nl \o lines[i]
    <3>1. i \in 0..n /\ i # 0
      BY <1>1
    <3> QED
      BY <1>8, <3>1
  <2> QED
    BY <2>1, <2>2
<1>10. 0 \in T
  <2>1. DOMAIN << >> = {} /\ << >> \in Seq(Plain)
    OBVIOUS
  <2>2. Said(<< >>) = {} /\ Rising(<< >>)
    BY <2>1 DEF Said, Rising
  <2>3. 0 \in 0..n
    BY <1>1
  <2>4. J[0] \in Seq(Plain) /\ Rising(J[0]) /\ Said(J[0]) \subseteq ShownTo(0)
    BY <1>9, <2>1, <2>2
  <2> QED
    BY <2>3, <2>4
<1>11. ASSUME NEW i \in 1..n, i - 1 \in T PROVE i \in T
  <2> DEFINE x == J[i - 1]
  <2>1. x \in Seq(Plain) /\ Rising(x) /\ Said(x) \subseteq ShownTo(i - 1)
    BY <1>11
  <2>2. /\ ShownTo(i - 1) \subseteq ShownTo(i) /\ Said(lines[i]) \subseteq ShownTo(i)
        /\ Rising(lines[i]) /\ lines[i] \in Seq(Plain)
    <3>1. \A q \in 1..(i - 1) : q \in 1..i
      BY <1>1
    <3>2. i \in 1..i
      BY <1>1
    <3> QED
      BY <1>2, <3>1, <3>2 DEF LinesRising, n
  <2>3. Below(Said(x), Said(lines[i]))
    <3> SUFFICES ASSUME NEW a \in Said(x), NEW b \in Said(lines[i]) PROVE a < b
      BY DEF Below
    <3>1. PICK q \in 1..(i - 1) : a \in Said(lines[q])
      BY <2>1
    <3>2. q \in 1..n /\ q < i
      BY <1>1
    <3> QED
      BY <3>1, <3>2 DEF LinesRising, Below, n
  <2> HIDE DEF x
  <2>4. /\ x \o nl \in Seq(Plain) /\ Rising(x \o nl) /\ Said(x \o nl) = Said(x)
    <3>1. Below(Said(x), Said(nl))
      BY <1>3 DEF Below
    <3>2. x \in Seq(Plain) /\ nl \in Seq(Plain) /\ Rising(x) /\ Rising(nl)
      BY <1>3, <2>1
    <3>3. Rising(x \o nl)
      BY <3>1, <3>2, ConcatRises
    <3>4. Said(x \o nl) = Said(x) \cup Said(nl)
      BY <3>2, ConcatRises
    <3>5. x \o nl \in Seq(Plain)
      BY <3>2, ConcatRises
    <3> QED
      BY <1>3, <3>3, <3>4, <3>5
  <2> DEFINE y == x \o nl
             z == y \o lines[i]
  <2>5. y \in Seq(Plain) /\ Rising(y) /\ Said(y) = Said(x)
    BY <2>4
  <2>6. z \in Seq(Plain) /\ Rising(z) /\ Said(z) \subseteq ShownTo(i)
    <3> HIDE DEF y
    <3>1. z \in Seq(Plain)
      BY <2>2, <2>5, ConcatRises
    <3>2. Rising(z)
      BY <2>2, <2>3, <2>5, ConcatRises
    <3>3. Said(z) = Said(y) \cup Said(lines[i])
      BY <2>2, <2>5, ConcatRises
    <3> QED
      BY <2>1, <2>2, <2>5, <3>1, <3>2, <3>3
  <2>7. i \in 0..n
    BY <1>1
  <2>8. J[i] \in {lines[i], x, z}
    BY <1>9 DEF x
  <2> HIDE DEF ShownTo, y, z
  <2>9. J[i] \in Seq(Plain) /\ Rising(J[i]) /\ Said(J[i]) \subseteq ShownTo(i)
    BY <2>1, <2>2, <2>6, <2>8
  <2> QED
    BY <2>7, <2>9
<1> HIDE DEF T
<1>12. \A i \in 0..n : i \in T
  BY <1>1, <1>10, <1>11, Counting
<1>13. n \in T
  BY <1>1, <1>12
<1> QED
  BY <1>4, <1>13 DEF T

-----------------------------------------------------------------------------
(* The texts stay in order *)

LEMMA FetchIs == ASSUME Landed, NEW f \in Fetches PROVE f.got \in SUBSET Messages
<1>1. landed \in 0..N
  BY LengthOfRun DEF Landed
<1>2. Listed(landed) \subseteq 1..landed
  BY <1>1, LengthOfRun, FeedAssumption DEF Listed
<1>3. f.got \in SUBSET (1..landed)
  BY <1>2 DEF Fetches
<1>4. 1..landed \subseteq 1..N
  BY <1>1, LengthOfRun
<1> QED
  BY <1>4, <1>3, Pieces

\* The text of a fetch, with the header.
LEMMA FetchText ==
  ASSUME NEW S \in SUBSET Messages, NEW q
  PROVE  Headed(PollText(S), q) \in Seq(Piece) /\ Rising(Headed(PollText(S), q))
<1>1. PollText(S) \in Seq(Plain) /\ Rising(PollText(S))
  BY PollTextIs
<1>2. PollText(S) \in Seq(Piece)
  BY <1>1, PlainShows
<1> QED
  BY <1>1, <1>2, HeadedIs

LEMMA Nowhere == << >> \in Seq(Piece) /\ << >> \in Seq(Plain) /\ << >> \in Lines
                 /\ Rising(<< >>) /\ LinesRising(<< >>) /\ Shown(<< >>) = {}
<1>1. DOMAIN << >> = {} /\ 1..Len(<< >>) = {} /\ << >> \in Seq(Seq(Messages)) /\ << >> \in Seq(Piece) /\ << >> \in Seq(Plain)
  OBVIOUS
<1> QED
  BY <1>1 DEF Rising, LinesRising, Shown, Lines

LEMMA InitOrdered == Init => OInv
<1> SUFFICES ASSUME Init PROVE OInv
  OBVIOUS
<1>1. /\ text = Waiting(query) /\ api = << >> /\ best = << >> /\ buf = << >> /\ known = {}
      /\ sent = 0 /\ poll = "over" /\ pc = "greet" /\ rows.got = {}
  BY DEF Init, Nothing
<1>2. text \in Seq(Piece) /\ Rising(text) /\ IsPanel(text)
  BY <1>1, WaitingIs
<1>3. Texts
  BY <1>1, <1>2, Nowhere DEF Texts
<1>4. 1..sent = {}
  BY <1>1
<1>5. Heard
  BY <1>1, <1>4, Nowhere DEF Heard
<1>6. PanelFirst
  BY <1>1, <1>2 DEF PanelFirst
<1> QED
  BY <1>3, <1>5, <1>6 DEF OInv

\* A line of the stream is newer than all that it showed.
LEMMA LineIs ==
  ASSUME IInv, OInv, Line, ~ Skipped(sent + 1)
  PROVE  /\ buf' \in Lines /\ LinesRising(buf')
         /\ Shown(buf') \subseteq Shown(buf) \cup {sent + 1}
         /\ Joined(buf') \in Seq(Plain) /\ Rising(Joined(buf'))
         /\ text' = Applied(Joined(buf'), query)
<1> DEFINE m == sent + 1
<1>1. /\ pc = "read" /\ sent < produced /\ buf' = Appended(buf, m)
      /\ text' = Applied(Joined(buf'), query)
  BY DEF Line
<1>2. /\ sent \in Nat /\ 1..sent \subseteq known /\ \A x \in Shown(buf) : 1..x \subseteq known
      /\ buf \in Lines /\ LinesRising(buf)
  BY <1>1 DEF OInv, Heard, Texts
<1>3. m \in Messages
  BY <1>1, <1>2, Pieces, LengthOfRun DEF IInv, Landed
<1>4. \A x \in Shown(buf) : x \in 1..N
  BY Pieces DEF Shown, Said, Named
<1>5. ASSUME m \in Named, NEW x \in Shown(buf) PROVE x < m
  <2>1. ~(m \in 1..x)
    BY <1>2, <1>5 DEF Skipped
  <2> QED
    BY <1>2, <1>4, <2>1, LengthOfRun
<1> HIDE DEF m
<1>6. buf' \in Lines /\ LinesRising(buf') /\ Shown(buf') \subseteq Shown(buf) \cup {m}
  <2>1. m \in Named => \A x \in Shown(buf) : x < m
    BY <1>5
  <2>2. Shown(Appended(buf, m)) \subseteq Shown(buf) \cup ({m} \cap Named)
    BY <1>2, <1>3, <2>1, AppendedIs
  <2> QED
    BY <1>1, <1>2, <1>3, <2>1, <2>2, AppendedIs
<1>7. Joined(buf') \in Seq(Plain) /\ Rising(Joined(buf'))
  BY <1>6, JoinedIs
<1> QED
  BY <1>1, <1>6, <1>7 DEF m

LEMMA PollerTexts == IInv /\ OInv /\ Poller => Texts'
<1> SUFFICES ASSUME IInv, OInv, Poller PROVE Texts'
  OBVIOUS
<1> USE DEF OInv, Texts, final, panel, stream
<1>1. ASSUME NEW f \in Fetches, PollFetch(f) PROVE Texts'
  <2>1. f.got \in SUBSET Messages
    BY FetchIs DEF IInv
  <2> QED
    BY <1>1, <2>1 DEF PollFetch
<1>2. CASE PollLook
  BY <1>2 DEF PollLook
<1>3. CASE PollAsk
  BY <1>3, WaitingIs DEF PollAsk
<1>4. CASE PollApply
  <2>1. PollText(rows.got) \in Seq(Plain) /\ Rising(PollText(rows.got))
    BY PollTextIs
  <2>2. Applied(PollText(rows.got), query) \in Seq(Piece) /\ Rising(Applied(PollText(rows.got), query))
    BY <2>1, AppliedIs
  <2> QED
    BY <1>4, <2>2 DEF PollApply, Nothing
<1>5. CASE PollOff
  BY <1>5 DEF PollOff, Nothing
<1> QED
  BY <1>1, <1>2, <1>3, <1>4, <1>5 DEF Poller

LEMMA ReaderTexts == IInv /\ OInv /\ (Reader \/ StaleLeaves) => Texts'
<1> SUFFICES ASSUME IInv, OInv, Reader \/ StaleLeaves PROVE Texts'
  OBVIOUS
<1> USE DEF OInv, Texts, final, panel, stream, poller
<1>1. CASE GreetAsk
  BY <1>1, WaitingIs DEF GreetAsk
<1>2. ASSUME NEW f \in Fetches, Greet(f) PROVE Texts'
  <2>1. f.got \in SUBSET Messages
    BY FetchIs DEF IInv
  <2> DEFINE h == Headed(PollText(f.got), query')
  <2>2. text' \in {Waiting(query'), Last(h)}
    BY <1>2 DEF Greet
  <2>3. h \in Seq(Piece) /\ Rising(h)
    BY <2>1, FetchText
  <2> HIDE DEF h
  <2>4. text' \in Seq(Piece) /\ Rising(text')
    BY <2>2, <2>3, WaitingIs, LastIs
  <2> QED
    BY <1>2, <2>4 DEF Greet
<1>3. CASE Open \/ End \/ Error \/ Wall \/ StaleLeaves
  BY <1>3 DEF Open, End, Error, Wall, StaleLeaves
<1>4. CASE Line
  <2>1. CASE Skipped(sent + 1)
    BY <1>4, <2>1 DEF Line
  <2>2. CASE ~ Skipped(sent + 1)
    <3>1. text' \in Seq(Piece) /\ Rising(text')
      BY <1>4, <2>2, LineIs, AppliedIs
    <3>2. buf' \in Lines /\ LinesRising(buf')
      BY <1>4, <2>2, LineIs
    <3> QED
      BY <1>4, <3>1, <3>2 DEF Line
  <2> QED
    BY <2>1, <2>2
<1>5. ASSUME NEW s \in Statuses, CheckEnd(s) PROVE Texts'
  BY <1>5 DEF CheckEnd, Checked
<1>6. ASSUME NEW s \in Statuses, NEW hard \in BOOLEAN, CheckError(s, hard) PROVE Texts'
  <2>1. text' \in {Waiting(query), Failed, text}
    BY <1>6 DEF CheckError
  <2>2. Failed \in Seq(Piece) /\ Rising(Failed)
    <3>1. Failed \in Seq(Piece) /\ Failed \in Seq({Failure}) /\ {Failure} \cap Messages = {}
      BY Pieces DEF Failed
    <3> QED
      BY <3>1, Silent
  <2>3. text' \in Seq(Piece) /\ Rising(text')
    BY <2>1, <2>2, WaitingIs
  <2> QED
    BY <1>6, <2>3 DEF CheckError, Checked
<1> QED
  BY <1>1, <1>2, <1>3, <1>4, <1>5, <1>6 DEF Reader

\* bounded_turn_text
LEMMA BoundedIs ==
  ASSUME NEW t \in Seq(Piece), Rising(t), NEW q
  PROVE  Bounded(t, q) \in Seq(Piece) /\ Rising(Bounded(t, q))
<1> DEFINE all == Headed(t, q)
           room == Room - Length(Header)
           end == Rear(all, room)
<1>1. all \in Seq(Piece) /\ Rising(all)
  BY HeadedIs
<1> HIDE DEF all
<1>2. Header \in Seq(Piece) /\ Header \in Seq({Query, Newline}) /\ {Query, Newline} \cap Messages = {}
  BY Pieces DEF Header, Plain
<1>3. Length(Header) = Size[Query] + Size[Newline] + Size[Newline]
  <2>1. PICK f \in [0..Len(Header) -> Nat] :
               /\ f[0] = 0 /\ f[Len(Header)] = Length(Header)
               /\ \A i \in 1..Len(Header) : f[i] = f[i - 1] + Size[Header[i]]
    BY <1>2, LengthIs
  <2>2. Len(Header) = 3 /\ Header[1] = Query /\ Header[2] = Newline /\ Header[3] = Newline
    BY DEF Header
  <2>3. f[1] = f[0] + Size[Query] /\ f[2] = f[1] + Size[Newline] /\ f[3] = f[2] + Size[Newline]
    <3>1. 1 \in 1..Len(Header) /\ 2 \in 1..Len(Header) /\ 3 \in 1..Len(Header)
      BY <2>2
    <3>2. f[1] = f[1 - 1] + Size[Header[1]] /\ f[2] = f[2 - 1] + Size[Header[2]] /\ f[3] = f[3 - 1] + Size[Header[3]]
      BY <2>1, <3>1
    <3> QED
      BY <2>2, <3>2
  <2>4. Size[Query] \in Nat /\ Size[Newline] \in Nat
    BY FeedAssumption, Pieces DEF Piece
  <2> QED
    BY <2>1, <2>2, <2>3, <2>4
<1>4. room \in Nat \ {0} /\ Room \in Nat /\ Length(Header) \in Nat
  <2>1. Size[Query] \in Nat /\ Size[Newline] \in Nat
    BY FeedAssumption, Pieces DEF Piece
  <2> QED
    BY <1>3, <2>1, FeedAssumption
<1> HIDE DEF room
<1>5. CASE Length(all) > Room /\ q
  <2>1. Bounded(t, q) = Header \o end
    BY <1>5 DEF Bounded, all, room
  <2>2. Length(all) \in Nat /\ Length(all) >= room
    BY <1>1, <1>4, <1>5, Lengths DEF room
  <2>3. end \in Seq(Piece) /\ Rising(end)
    BY <1>1, <1>4, <2>2, RearIs
  <2> HIDE DEF end
  <2>4. Said(Header) = {} /\ Rising(Header)
    BY <1>2, Silent
  <2>5. Below(Said(Header), Said(end))
    BY <2>4 DEF Below
  <2>6. Header \o end \in Seq(Piece)
    BY <1>2, <2>3, ConcatRises
  <2>7. Rising(Header \o end)
    BY <1>2, <2>3, <2>4, <2>5, ConcatRises
  <2> QED
    BY <2>1, <2>6, <2>7
<1>6. CASE ~ (Length(all) > Room /\ q)
  <2>1. Bounded(t, q) = Last(all)
    BY <1>6 DEF Bounded, all
  <2> QED
    BY <1>1, <2>1, LastIs
<1> QED
  BY <1>5, <1>6

\* What the turn leaves.
LEMMA LeftIs == Texts => Left \in Seq(Piece) /\ Rising(Left)
<1> SUFFICES ASSUME Texts PROVE Left \in Seq(Piece) /\ Rising(Left)
  OBVIOUS
<1> DEFINE q == query \/ words
           m == Merged(best, api)
           now == CASE api # << >> /\ over -> api [] api # << >> /\ ~ over -> m [] OTHER -> best
           h == Headed(now, q)
           both == Merged(text, h)
           own == Bounded(api, q)
<1>1. api \in Seq(Piece) /\ Rising(api)
  BY PlainShows DEF Texts
<1>2. m \in Seq(Piece) /\ Rising(m)
  BY <1>1, MergedRises DEF Texts
<1> HIDE DEF m
<1>3. now \in Seq(Piece) /\ Rising(now)
  BY <1>1, <1>2 DEF Texts
<1> HIDE DEF q, now
<1>4. h \in Seq(Piece) /\ Rising(h)
  BY <1>3, HeadedIs
<1> HIDE DEF h
<1>5. both \in Seq(Piece) /\ Rising(both)
  BY <1>4, MergedRises DEF Texts
<1>6. own \in Seq(Piece) /\ Rising(own)
  BY <1>1, BoundedIs
<1>7. Failed \in Seq(Piece) /\ Rising(Failed)
  <2>1. Failed \in Seq(Piece) /\ Failed \in Seq({Failure}) /\ {Failure} \cap Messages = {}
    BY Pieces DEF Failed
  <2> QED
    BY <2>1, Silent
<1> DEFINE hh == Bounded(both, q)
<1>8. hh \in Seq(Piece) /\ Rising(hh)
  BY <1>5, BoundedIs
<1> HIDE DEF both, own, hh
<1>9. Left \in {own, hh, Failed, text}
  BY DEF Left, own, hh, both, h, now, m, q
<1> QED
  BY <1>6, <1>7, <1>8, <1>9 DEF Texts

LEMMA EndingTexts == IInv /\ OInv /\ Ending => Texts'
<1> SUFFICES ASSUME IInv, OInv, Ending PROVE Texts'
  OBVIOUS
<1> USE DEF OInv, Texts, panel, stream, final, poller
<1>1. CASE Join \/ WaitOver
  BY <1>1 DEF Join, WaitOver
<1>2. ASSUME NEW f \in Fetches PROVE PollText(f.got) \in Seq(Plain) /\ Rising(PollText(f.got))
  <2>1. f.got \in SUBSET Messages
    BY FetchIs DEF IInv
  <2> QED
    BY <2>1, PollTextIs
<1>3. ASSUME NEW f \in Fetches, Rows(f) PROVE Texts'
  <2> DEFINE joined == Joined(buf)
             prior == IF IsPlaceholder(text) THEN << >> ELSE text
             m == Merged(joined, prior)
  <2>1. joined \in Seq(Piece) /\ Rising(joined)
    BY JoinedIs, PlainShows
  <2>2. prior \in Seq(Piece) /\ Rising(prior)
    BY Nowhere
  <2>3. api' \in Seq(Plain) /\ Rising(api') /\ best' = Merged(m, api')
    BY <1>2, <1>3 DEF Rows
  <2> HIDE DEF joined, prior
  <2>4. m \in Seq(Piece) /\ Rising(m)
    BY <2>1, <2>2, MergedRises
  <2> HIDE DEF m
  <2>5. api' \in Seq(Piece)
    BY <2>3, PlainShows
  <2>6. best' \in Seq(Piece) /\ Rising(best')
    BY <2>3, <2>4, <2>5, MergedRises
  <2>7. buf' = << >> /\ UNCHANGED <<text, rows>>
    BY <1>3 DEF Rows
  <2> QED
    BY <2>3, <2>6, <2>7, Nowhere
<1>4. ASSUME NEW s \in Statuses, Status(s) \/ StatusLate(s) \/ Restatus(s) PROVE Texts'
  BY <1>4, Nowhere DEF Status, StatusLate, Restatus
<1>5. ASSUME NEW f \in Fetches, NEW s \in Statuses, Wait(s, f) PROVE Texts'
  <2> DEFINE now == PollText(f.got)
  <2>1. text' = Applied(now, query)
    BY <1>5 DEF Wait
  <2>2. now \in Seq(Plain) /\ Rising(now)
    BY <1>2
  <2> HIDE DEF now
  <2>3. Applied(now, query) \in Seq(Piece) /\ Rising(Applied(now, query))
    BY <2>2, AppliedIs
  <2> QED
    BY <1>5, <2>1, <2>3 DEF Wait
<1>8. CASE WaitPanel
  <2>1. text' \in {text, Waiting(query)}
    BY <1>8 DEF WaitPanel
  <2>2. text' \in Seq(Piece) /\ Rising(text')
    BY <2>1, WaitingIs
  <2> QED
    BY <1>8, <2>2 DEF WaitPanel
<1>6. ASSUME NEW f \in Fetches, Refetch(f) PROVE Texts'
  BY <1>2, <1>6 DEF Refetch
<1>7. CASE Close
  <2>1. Left \in Seq(Piece) /\ Rising(Left)
    BY LeftIs
  <2>2. Complete \in Seq(Piece) /\ Said(Complete) = {} /\ Rising(Complete)
    <3>1. Complete \in Seq(Piece) /\ Complete \in Seq({Marker}) /\ {Marker} \cap Messages = {}
      BY Pieces DEF Complete
    <3> QED
      BY <3>1, Silent
  <2>3. Below(Said(Left), Said(Complete))
    BY <2>2 DEF Below
  <2>4. Left \o Complete \in Seq(Piece) /\ Rising(Left \o Complete)
    <3>1. Left \o Complete \in Seq(Piece)
      BY <2>1, <2>2, ConcatRises
    <3> QED
      BY <2>1, <2>2, <2>3, <3>1, ConcatRises
  <2>5. text' = Left \o Complete /\ api' = << >> /\ best' = << >> /\ UNCHANGED <<buf, rows>>
    BY <1>7 DEF Close
  <2> QED
    BY <2>4, <2>5, Nowhere
<1> QED
  BY <1>1, <1>3, <1>4, <1>5, <1>6, <1>7, <1>8 DEF Ending

\* What the stream brought is known: of the actions only Line, Open and the end
\* of a stream matter.
LEMMA HeardStep == IInv /\ OInv /\ [Next]_vars => Heard'
<1> SUFFICES ASSUME IInv, OInv, [Next]_vars, pc' \in {"greet", "open", "read", "ended", "error"}
             PROVE  /\ sent' \in Nat /\ 1..sent' \subseteq known'
                    /\ \A m \in Shown(buf') : 1..m \subseteq known'
  BY DEF Heard
<1>1. CASE Line
  <2>1. /\ pc = "read" /\ sent' = sent + 1 /\ known' = known \cup {sent + 1}
        /\ (Skipped(sent + 1) => buf' = buf)
    BY <1>1 DEF Line
  <2>2. sent \in Nat /\ 1..sent \subseteq known /\ \A m \in Shown(buf) : 1..m \subseteq known
    BY <2>1 DEF OInv, Heard
  <2>3. \A i \in 1..(sent + 1) : i \in 1..sent \/ i = sent + 1
    BY <2>2
  <2>4. 1..(sent + 1) \subseteq known'
    BY <2>1, <2>2, <2>3
  <2>5. Shown(buf') \subseteq Shown(buf) \cup {sent + 1}
    <3>1. CASE Skipped(sent + 1)
      BY <2>1, <3>1
    <3>2. CASE ~ Skipped(sent + 1)
      BY <1>1, <3>2, LineIs
    <3> QED
      BY <3>1, <3>2
  <2>6. ASSUME NEW m \in Shown(buf') PROVE 1..m \subseteq known'
    <3>1. CASE m \in Shown(buf)
      BY <2>1, <2>2, <3>1
    <3>2. CASE m = sent + 1
      BY <2>4, <3>2
    <3> QED
      BY <2>5, <3>1, <3>2
  <2> QED
    BY <2>1, <2>2, <2>4, <2>6
<1>2. CASE ~ Line
  <2>1. /\ pc \in {"greet", "open", "read", "ended", "error"}
        /\ buf' = buf /\ known \subseteq known' /\ sent' \in {0, sent}
    BY <1>2 DEF Next, vars, panel, stream, Letta, Produce, Land, LandAsk, Finish,
      Poller, PollFetch, PollLook, PollAsk, PollApply, PollOff,
      Reader, GreetAsk, Greet, Open, End, Error, Wall, CheckEnd, CheckError, Checked, StaleLeaves,
      Ending, Join, Rows, Status, StatusLate, Wait, WaitPanel, WaitOver, Refetch, Restatus, Close
  <2>2. sent \in Nat /\ 1..sent \subseteq known /\ \A m \in Shown(buf) : 1..m \subseteq known
    BY <2>1 DEF OInv, Heard
  <2>3. 1..0 = {}
    OBVIOUS
  <2> QED
    BY <2>1, <2>2, <2>3
<1> QED
  BY <1>1, <1>2

\* The panel of the words is set by whoever shows them first.
LEMMA PanelStep == OInv /\ [Next]_vars => PanelFirst'
<1> SUFFICES ASSUME PanelFirst, [Next]_vars PROVE PanelFirst'
  BY DEF OInv
<1>1. \A q : IsPanel(Waiting(q))
  BY WaitingIs
<1>2. CASE GreetAsk
  BY <1>1, <1>2 DEF GreetAsk, PanelFirst, poller
<1>3. CASE ~ GreetAsk
  <2>1. ASSUME pc' = "greet" PROVE pc = "greet" /\ (text' = text \/ poll # "over") /\ (poll' = poll \/ poll # "over")
    BY <1>3, <2>1 DEF Next, vars, panel, stream, poller, final, Letta, Produce, Land, LandAsk, Finish,
      Poller, PollFetch, PollLook, PollAsk, PollApply, PollOff,
      Reader, GreetAsk, Greet, Open, Line, End, Error, Wall, CheckEnd, CheckError, Checked, StaleLeaves,
      Ending, Join, Rows, Status, StatusLate, Wait, WaitPanel, WaitOver, Refetch, Restatus, Close
  <2> QED
    BY <2>1 DEF PanelFirst
<1> QED
  BY <1>2, <1>3

LEMMA AlwaysOrdered == Spec => [](IInv /\ OInv)
<1>1. IInv /\ [Next]_vars => IInv'
  BY FinishedStep
<1>2. IInv /\ OInv /\ [Next]_vars => OInv'
  <2> SUFFICES ASSUME IInv, OInv, [Next]_vars PROVE OInv'
    OBVIOUS
  <2>1. ASSUME Letta \/ UNCHANGED vars PROVE Texts'
    <3>1. UNCHANGED <<text, api, best, rows, buf>>
      BY <2>1 DEF Letta, Produce, Land, LandAsk, Finish, vars, panel, final, stream, poller
    <3> QED
      BY <3>1 DEF OInv, Texts
  <2>2. Texts'
    BY <2>1, PollerTexts, ReaderTexts, EndingTexts DEF Next, OInv
  <2> QED
    BY <2>2, HeardStep, PanelStep DEF OInv
<1> QED
  BY InitOK, InitOrdered, <1>1, <1>2, PTL DEF Spec

\* The messages of the text are in order and none is there twice, however the
\* stream, its replays from the start and the poller overlap (known_ids, buf_lines
\* and merge_turn_bodies): the messages may be of any number, kind and size.
THEOREM OrderKept == Spec => []InOrder
<1>1. OInv => InOrder
  BY DEF OInv, Texts, Rising, InOrder
<1> QED
  BY AlwaysOrdered, <1>1, PTL

\* Of a step that does not end the turn, what becomes of a text that was shown.
LEMMA TextStep ==
  ASSUME IInv, OInv, [Next]_vars, ~ IsPlaceholder(text), pc # "close", ~ PollAsk
  PROVE  ~ IsPanel(text') /\ (Length(text') >= Length(text) \/ Length(text') >= Room)
<1>1. Length(text) \in Nat
  BY Lengths DEF OInv, Texts
<1>2. pc # "greet" /\ ~ IsPanel(text)
  BY DEF OInv, PanelFirst, IsPlaceholder
<1>3. ASSUME NEW body \in Seq(Plain), Rising(body), text' \in {text, Applied(body, query)}
      PROVE  ~ IsPanel(text') /\ (Length(text') >= Length(text) \/ Length(text') >= Room)
  BY <1>1, <1>2, <1>3, AppliedIs DEF OInv, Texts
<1>4. CASE text' = text
  BY <1>1, <1>2, <1>4
<1>5. CASE PollApply
  <2>1. PollText(rows.got) \in Seq(Plain) /\ Rising(PollText(rows.got))
    BY PollTextIs DEF OInv, Texts
  <2> QED
    BY <1>3, <1>5, <2>1 DEF PollApply
<1>6. CASE Line
  <2>1. CASE Skipped(sent + 1)
    BY <1>4, <1>6, <2>1 DEF Line
  <2>2. CASE ~ Skipped(sent + 1)
    BY <1>3, <1>6, <2>2, LineIs
  <2> QED
    BY <2>1, <2>2
<1>7. ASSUME NEW f \in Fetches, NEW s \in Statuses, Wait(s, f)
      PROVE  ~ IsPanel(text') /\ (Length(text') >= Length(text) \/ Length(text') >= Room)
  <2>1. f.got \in SUBSET Messages
    BY FetchIs DEF IInv
  <2>2. PollText(f.got) \in Seq(Plain) /\ Rising(PollText(f.got))
    BY <2>1, PollTextIs
  <2>3. text' = Applied(PollText(f.got), query)
    BY <1>7 DEF Wait
  <2> QED
    BY <1>3, <2>2, <2>3
<1>8. CASE WaitPanel \/ \E s \in Statuses : \E hard \in BOOLEAN : CheckError(s, hard)
  BY <1>4, <1>8 DEF CheckError, WaitPanel
<1>9. \/ text' = text \/ PollApply \/ Line \/ WaitPanel
      \/ \E f \in Fetches : \E s \in Statuses : Wait(s, f)
      \/ \E s \in Statuses : \E hard \in BOOLEAN : CheckError(s, hard)
  BY <1>2 DEF Next, vars, panel, Letta, Produce, Land, LandAsk, Finish,
    Poller, PollFetch, PollLook, PollOff,
    Reader, GreetAsk, Greet, Open, End, Error, Wall, CheckEnd, Checked, StaleLeaves,
    Ending, Join, Rows, Status, StatusLate, WaitOver, Refetch, Restatus, Close
<1> QED
  BY <1>4, <1>5, <1>6, <1>7, <1>8, <1>9

\* While the turn goes on, a text that is not taken for the waiting panel is not
\* replaced by the panel and never gets shorter, until it fills the popup
\* (merge_turn_bodies, and the look at the text of those who set the panel); but the
\* poller's look may be stale (PollAsk).  For all lengths, and messages that quote
\* the panel's words, which make a text be taken for it.
THEOREM TextOnlyGrows == Spec => NeverBackward
<1>1. IInv /\ OInv /\ [Next]_vars =>
        [~ IsPlaceholder(text) /\ pc # "close" /\ ~ PollAsk
           => ~ IsPanel(text') /\ (Length(text') >= Length(text) \/ Length(text') >= Room)]_vars
  BY TextStep
<1> QED
  BY AlwaysOrdered, <1>1, PTL DEF Spec, NeverBackward
=============================================================================
