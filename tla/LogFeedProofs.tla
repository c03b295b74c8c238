---------------------------- MODULE LogFeedProofs ----------------------------
(* For all screens, page lengths and limits: the log has only lines of the window   *)
(* shown, and ends with what the feed believes it ends with.  A text is a text of    *)
(* its screen from the hardcopy on (Sourced); Extend writes what comes after the      *)
(* overlap, so the new text is the end of the log if the old one was.                 *)
EXTENDS LogFeed, SequenceTheorems, FiniteSetTheorems, WellFoundedInduction, TLAPS

-----------------------------------------------------------------------------
(* Sequences *)

\* IsSuffix, element by element.
Ends(s, t) == /\ Len(s) <= Len(t)
              /\ \A i \in 1..Len(s) : s[i] = t[Len(t) - Len(s) + i]

LEMMA SuffixEnds ==
  ASSUME NEW S, NEW s \in Seq(S), NEW t \in Seq(S), Ends(s, t)
  PROVE  IsSuffix(s, t)
<1> DEFINE r == Reverse(s)
           u == Reverse(t)
<1>1. /\ Len(s) \in Nat /\ s \in [1..Len(s) -> S]
      /\ Len(t) \in Nat /\ t \in [1..Len(t) -> S] /\ Len(s) <= Len(t)
  BY LenProperties DEF Ends
<1>2. /\ r \in Seq(S) /\ Len(r) = Len(s) /\ \A i \in 1..Len(s) : r[i] = s[Len(s) - i + 1]
      /\ u \in Seq(S) /\ Len(u) = Len(t) /\ \A i \in 1..Len(t) : u[i] = t[Len(t) - i + 1]
  BY <1>1 DEF Reverse
<1> HIDE DEF r, u
<1>3. \A i \in 1..Len(s) : r[i] = u[i]
  <2> TAKE i \in 1..Len(s)
  <2>1. Len(s) - i + 1 \in 1..Len(s) /\ i \in 1..Len(t)
    BY <1>1
  <2>2. Len(t) - Len(s) + (Len(s) - i + 1) = Len(t) - i + 1
    BY <1>1
  <2>3. s[Len(s) - i + 1] = t[Len(t) - i + 1]
    BY <2>1, <2>2 DEF Ends
  <2> QED
    BY <1>2, <2>1, <2>3
<1>4. SubSeq(r, 1, Len(s)) = SubSeq(u, 1, Len(s))
  BY <1>1, <1>2, <1>3
<1> QED
  BY <1>1, <1>2, <1>4 DEF IsSuffix, IsPrefix, r, u

\* LastOf returns the last n elements, or all.
LEMMA LastOfEnds ==
  ASSUME NEW S, NEW s \in Seq(S), NEW n \in Nat \ {0}
  PROVE  /\ LastOf(s, n) \in Seq(S)
         /\ Len(LastOf(s, n)) = IF Len(s) > n THEN n ELSE Len(s)
         /\ Ends(LastOf(s, n), s)
<1> DEFINE b == IF Len(s) > n THEN Len(s) - n + 1 ELSE 1
<1>1. Len(s) \in Nat /\ b \in Nat /\ 1 <= b /\ b <= Len(s) + 1
  BY LenProperties
<1>2. LastOf(s, n) = SubSeq(s, b, Len(s))
  BY DEF LastOf
<1>3. \A i \in b..Len(s) : s[i] \in S
  BY <1>1, ElementOfSeq
<1> HIDE DEF b
<1>4. /\ SubSeq(s, b, Len(s)) \in Seq(S)
      /\ Len(SubSeq(s, b, Len(s))) = IF b <= Len(s) THEN Len(s) - b + 1 ELSE 0
      /\ \A i \in 1..(Len(s) - b + 1) : SubSeq(s, b, Len(s))[i] = s[b + i - 1]
  BY <1>1, <1>3, SubSeqProperties
<1>5. Len(LastOf(s, n)) = Len(s) - b + 1
  BY <1>1, <1>2, <1>4
<1>6. \A i \in 1..(Len(s) - b + 1) : LastOf(s, n)[i] = s[Len(s) - (Len(s) - b + 1) + i]
  <2> TAKE i \in 1..(Len(s) - b + 1)
  <2>1. Len(s) - (Len(s) - b + 1) + i = b + i - 1
    BY <1>1
  <2> QED
    BY <1>2, <1>4, <2>1
<1>7. Ends(LastOf(s, n), s)
  BY <1>1, <1>5, <1>6 DEF Ends
<1>8. Len(s) - b + 1 = IF Len(s) > n THEN n ELSE Len(s)
  BY <1>1 DEF b
<1>9. Len(LastOf(s, n)) = IF Len(s) > n THEN n ELSE Len(s)
  BY <1>5, <1>8
<1> QED
  BY <1>2, <1>4, <1>7, <1>9

\* The common end is an end of both.
LEMMA EndsOfEnds ==
  ASSUME NEW S, NEW r \in Seq(S), NEW s \in Seq(S), NEW t \in Seq(S),
         Ends(r, t), Ends(s, t), Len(r) <= Len(s)
  PROVE  Ends(r, s)
<1>1. Len(r) \in Nat /\ Len(s) \in Nat /\ Len(t) \in Nat
  BY LenProperties
<1> SUFFICES ASSUME NEW i \in 1..Len(r) PROVE r[i] = s[Len(s) - Len(r) + i]
  BY DEF Ends
<1>2. Len(s) - Len(r) + i \in 1..Len(s)
  BY <1>1
<1>3. s[Len(s) - Len(r) + i] = t[Len(t) - Len(s) + (Len(s) - Len(r) + i)]
  BY <1>2 DEF Ends
<1>4. Len(t) - Len(s) + (Len(s) - Len(r) + i) = Len(t) - Len(r) + i
  BY <1>1
<1> QED
  BY <1>3, <1>4 DEF Ends

\* A set of numbers up to a bound has a greatest one.
LEMMA Greatest ==
  ASSUME NEW b \in Nat, NEW S \in SUBSET (1..b), S # {}
  PROVE  \E x \in S : \A y \in S : y <= x
<1> DEFINE D(x) == {y \in S : x < y}
           F == {D(x) : x \in S}
<1>1. F \subseteq FiniteSubsetsOf(S) /\ F # {}
  <2>1. IsFiniteSet(1..b)
    BY FS_Interval
  <2>2. IsFiniteSet(S)
    BY <2>1, FS_Subset
  <2>3. FiniteSubsetsOf(S) = SUBSET S
    BY <2>2, FS_FiniteSubsetsOfFinite
  <2>4. \A x \in S : D(x) \in SUBSET S
    OBVIOUS
  <2>5. \E x \in S : D(x) \in F
    OBVIOUS
  <2> HIDE DEF D
  <2> QED
    BY <2>3, <2>4, <2>5
<1>2. PICK T \in F : \A U \in F : <<U, T>> \notin StrictSubsetOrdering(S)
  BY <1>1, WFMin, FS_StrictSubsetOrderingWellFounded
<1>3. PICK x \in S : T = D(x)
  BY <1>2
<1>4. ASSUME NEW y \in S, x < y PROVE FALSE
  <2>1. D(y) \subseteq D(x) /\ y \in D(x) /\ y \notin D(y)
    <3>1. \A z \in S : z \in Int
      OBVIOUS
    <3>2. y \in D(x) /\ y \notin D(y)
      BY <1>4, <3>1
    <3>3. \A z \in S : y < z => x < z
      BY <1>4, <3>1
    <3>4. D(y) \subseteq D(x)
      BY <3>3
    <3> QED
      BY <3>2, <3>4
  <2>2. <<D(y), D(x)>> \in StrictSubsetOrdering(S)
    BY <2>1 DEF StrictSubsetOrdering
  <2> QED
    BY <1>2, <1>3, <2>2
<1>5. \A y \in S : ~ (x < y)
  BY <1>4
<1> QED
  BY <1>5

\* What Overlap returns is an overlap.
LEMMA OverlapIs ==
  ASSUME NEW S, NEW old \in Seq(S), NEW new \in Seq(S), Overlap(old, new) > 0
  PROVE  /\ Overlap(old, new) \in 1..Len(old) /\ Overlap(old, new) <= Len(new)
         /\ SubSeq(old, Len(old) - Overlap(old, new) + 1, Len(old)) = SubSeq(new, 1, Overlap(old, new))
<1> DEFINE Both == {n \in 1..Len(old) : /\ n <= Len(new)
                                        /\ SubSeq(old, Len(old) - n + 1, Len(old)) = SubSeq(new, 1, n)}
<1>1. Overlap(old, new) = IF Both = {} THEN 0 ELSE CHOOSE n \in Both : \A m \in Both : m <= n
  BY DEF Overlap
<1>2. Both # {}
  BY <1>1
<1>3. \E n \in Both : \A m \in Both : m <= n
  BY <1>2, Greatest, LenProperties
<1> QED
  BY <1>1, <1>2, <1>3

\* The log that ended with the old lines ends, extended, with the new ones.
LEMMA ExtendedEnds ==
  ASSUME NEW S, NEW old \in Seq(S), NEW new \in Seq(S), NEW t \in Seq(S),
         Ends(old, t), Overlap(old, new) > 0
  PROVE  Ends(new, t \o SubSeq(new, Overlap(old, new) + 1, Len(new)))
         /\ SubSeq(new, Overlap(old, new) + 1, Len(new)) \in Seq(S)
<1> DEFINE n == Overlap(old, new)
           rest == SubSeq(new, n + 1, Len(new))
<1>1. /\ n \in 1..Len(old) /\ n <= Len(new)
      /\ SubSeq(old, Len(old) - n + 1, Len(old)) = SubSeq(new, 1, n)
  BY OverlapIs
<1>2. Len(old) \in Nat /\ Len(new) \in Nat /\ Len(t) \in Nat /\ Len(old) <= Len(t)
  BY LenProperties DEF Ends
<1> HIDE DEF n
<1>3. /\ rest \in Seq(S) /\ Len(rest) = Len(new) - n
      /\ \A i \in 1..(Len(new) - n) : rest[i] = new[n + i]
  <2>1. \A i \in (n + 1)..Len(new) : new[i] \in S
    BY <1>1, <1>2, ElementOfSeq
  <2>2. \A i \in 1..(Len(new) - n) : n + 1 + i - 1 = n + i
    BY <1>1, <1>2
  <2> QED
    BY <1>1, <1>2, <2>1, <2>2, SubSeqProperties
<1>4. \A i \in 1..n : new[i] = old[Len(old) - n + i]
  <2> TAKE i \in 1..n
  <2>1. SubSeq(new, 1, n)[i] = new[i]
    BY <1>1, <1>2
  <2>2. SubSeq(old, Len(old) - n + 1, Len(old))[i] = old[Len(old) - n + i]
    BY <1>1, <1>2
  <2> QED
    BY <1>1, <2>1, <2>2
<1> HIDE DEF rest
<1>5. /\ t \o rest \in Seq(S) /\ Len(t \o rest) = Len(t) + (Len(new) - n)
      /\ \A i \in 1..(Len(t) + (Len(new) - n)) :
            (t \o rest)[i] = IF i <= Len(t) THEN t[i] ELSE rest[i - Len(t)]
  BY <1>3, ConcatProperties
<1>6. ASSUME NEW i \in 1..Len(new)
      PROVE  new[i] = (t \o rest)[Len(t \o rest) - Len(new) + i]
  <2> DEFINE k == Len(t) - n + i
  <2>1. k = Len(t \o rest) - Len(new) + i /\ k \in 1..(Len(t) + (Len(new) - n))
    BY <1>1, <1>2, <1>5
  <2>2. CASE i <= n
    <3>1. Len(old) - n + i \in 1..Len(old) /\ k <= Len(t) /\ i \in 1..n
      BY <1>1, <1>2, <2>2
    <3>2. Len(t) - Len(old) + (Len(old) - n + i) = k
      BY <1>1, <1>2
    <3>3. old[Len(old) - n + i] = t[k]
      BY <3>1, <3>2 DEF Ends
    <3> QED
      BY <1>4, <1>5, <2>1, <3>1, <3>3
  <2>3. CASE ~ (i <= n)
    <3>1. i - n \in 1..(Len(new) - n) /\ ~ (k <= Len(t)) /\ k - Len(t) = i - n /\ n + (i - n) = i
      BY <1>1, <1>2, <2>3
    <3> HIDE DEF k
    <3>2. rest[i - n] = new[i]
      BY <1>3, <3>1
    <3>3. (t \o rest)[k] = rest[k - Len(t)]
      BY <1>5, <2>1, <3>1
    <3> QED
      BY <2>1, <3>1, <3>2, <3>3
  <2> QED
    BY <2>2, <2>3
<1>7. Len(new) <= Len(t) + (Len(new) - n)
  BY <1>1, <1>2
<1>8. Ends(new, t \o rest)
  BY <1>5, <1>6, <1>7 DEF Ends
<1> QED
  BY <1>3, <1>8 DEF n, rest

-----------------------------------------------------------------------------
(* The invariant *)

Of(s) == {s} \X Nat

\* A screen's texts are made of its own lines.
Sourced == \A s \in Screens : /\ content[s] \in Seq(Of(s)) /\ Len(content[s]) <= Page
                              /\ text[s] \in Seq(Of(s)) /\ Len(text[s]) <= Page

Maps == /\ alive \subseteq Screens /\ slow \in BOOLEAN /\ made \in [Screens -> Nat]
        /\ content = [s \in Screens |-> content[s]] /\ text = [s \in Screens |-> text[s]]

\* The pane shows the selected window's lines and ends with the feed's.
PaneOK == /\ selected \in Screens \cup {None} /\ key = selected
          /\ selected = None => lines = << >> /\ log = << >>
          /\ lines \in Seq(Of(selected)) /\ Len(lines) <= Page
          /\ log \in Seq(Of(selected)) /\ Len(log) <= Kept
          /\ Ends(lines, log)

IInv == Maps /\ Sourced /\ PaneOK

\* Replace and Extend leave an end of what was written.
LEMMA WrittenEnds ==
  ASSUME NEW S, NEW old \in Seq(S), NEW rest \in Seq(S), NEW new \in Seq(S),
         Ends(new, old \o rest), Len(new) <= Page
  PROVE  /\ Written(old, rest) \in Seq(S) /\ Len(Written(old, rest)) <= Kept
         /\ Ends(new, Written(old, rest))
<1>1. Kept \in Nat \ {0} /\ Page \in Nat /\ Page <= Kept
  BY LogAssumption
<1>2. old \o rest \in Seq(S)
  BY ConcatProperties
<1>3. Len(new) \in Nat /\ Len(old \o rest) \in Nat /\ Len(new) <= Len(old \o rest)
  BY <1>2, LenProperties DEF Ends
<1>4. /\ Written(old, rest) \in Seq(S)
      /\ Len(Written(old, rest)) = IF Len(old \o rest) > Kept THEN Kept ELSE Len(old \o rest)
      /\ Ends(Written(old, rest), old \o rest)
  BY <1>1, <1>2, LastOfEnds DEF Written
<1>5. Len(new) <= Len(Written(old, rest)) /\ Len(Written(old, rest)) <= Kept
  BY <1>1, <1>3, <1>4
<1>6. Ends(new, Written(old, rest))
  BY <1>2, <1>4, <1>5, EndsOfEnds
<1> QED
  BY <1>4, <1>5, <1>6

LEMMA ReplaceKeeps ==
  ASSUME NEW S, NEW new \in Seq(S), Len(new) <= Page, Replace(new)
  PROVE  /\ lines' \in Seq(S) /\ Len(lines') <= Page
         /\ log' \in Seq(S) /\ Len(log') <= Kept
         /\ Ends(lines', log')
<1>1. << >> \in Seq(S) /\ << >> \o new = new /\ Len(new) \in Nat
  BY ConcatEmptySeq, LenProperties, EmptySeq
<1>2. Ends(new, << >> \o new)
  BY <1>1 DEF Ends
<1> QED
  BY <1>1, <1>2, WrittenEnds DEF Replace

LEMMA ExtendKeeps ==
  ASSUME NEW S, NEW new \in Seq(S), Len(new) <= Page,
         lines \in Seq(S), log \in Seq(S), Ends(lines, log),
         Overlap(lines, new) > 0, Extend(new, Overlap(lines, new))
  PROVE  /\ lines' \in Seq(S) /\ Len(lines') <= Page
         /\ log' \in Seq(S) /\ Len(log') <= Kept
         /\ Ends(lines', log')
<1> DEFINE rest == SubSeq(new, Overlap(lines, new) + 1, Len(new))
<1>1. Ends(new, log \o rest) /\ rest \in Seq(S)
  BY ExtendedEnds
<1>2. lines' = new /\ log' = Written(log, rest)
  BY DEF Extend
<1> HIDE DEF rest
<1> QED
  BY <1>1, <1>2, WrittenEnds

\* Sync with a text of the window leaves a pane of the window.
LEMMA SyncKeeps ==
  ASSUME PaneOK, NEW w \in Screens, NEW new \in Seq(Of(w)), Len(new) <= Page,
         Sync(w, new), selected' = w
  PROVE  PaneOK'
<1>1. key' = w /\ w # None
  BY LogAssumption DEF Sync
<1>2. /\ lines' \in Seq(Of(w)) /\ Len(lines') <= Page
      /\ log' \in Seq(Of(w)) /\ Len(log') <= Kept
      /\ Ends(lines', log')
  <2>1. CASE key # w \/ lines = << >>
    <3>1. Replace(new)
      BY <2>1 DEF Sync
    <3> QED
      BY <3>1, ReplaceKeeps
  <2>2. CASE key = w /\ lines # << >>
    <3>1. /\ lines \in Seq(Of(w)) /\ Len(lines) <= Page
          /\ log \in Seq(Of(w)) /\ Len(log) <= Kept /\ Ends(lines, log)
      BY <2>2 DEF PaneOK
    <3>2. CASE new = << >> \/ ShortTail(lines, new)
      <4>1. lines' = lines /\ log' = log
        BY <2>2, <3>2 DEF Sync
      <4> QED
        BY <3>1, <4>1
    <3>3. CASE ~ (new = << >> \/ ShortTail(lines, new))
      <4>1. IF Overlap(lines, new) > 0 THEN Extend(new, Overlap(lines, new)) ELSE Replace(new)
        BY <2>2, <3>3 DEF Sync
      <4>2. CASE Overlap(lines, new) > 0
        BY <3>1, <4>1, <4>2, ExtendKeeps
      <4>3. CASE ~ (Overlap(lines, new) > 0)
        BY <4>1, <4>3, ReplaceKeeps
      <4> QED
        BY <4>2, <4>3
    <3> QED
      BY <3>2, <3>3
  <2> QED
    BY <2>1, <2>2
<1> QED
  BY <1>1, <1>2 DEF PaneOK

\* A reading is a text of the screen, no longer than a page.
LEMMA ReadingOf ==
  ASSUME IInv, NEW s \in Screens, NEW t \in Readings(s)
  PROVE  t \in Seq(Of(s)) /\ Len(t) <= Page
<1>1. /\ content[s] \in Seq(Of(s)) /\ Len(content[s]) <= Page
      /\ text[s] \in Seq(Of(s)) /\ Len(text[s]) <= Page /\ Page \in Nat
  BY LogAssumption DEF IInv, Sourced
<1>2. \A d : Read(text[s], d) \in {text[s], d}
  BY DEF Read
<1>3. \A n \in 1..Len(content[s]) : /\ SubSeq(content[s], 1, n) \in Seq(Of(s))
                                    /\ Len(SubSeq(content[s], 1, n)) <= Page
  <2> TAKE n \in 1..Len(content[s])
  <2>1. Len(content[s]) \in Nat /\ n \in Nat /\ 1 <= n + 1 /\ n <= Len(content[s])
    BY <1>1, LenProperties
  <2>2. \A i \in 1..n : content[s][i] \in Of(s)
    BY <1>1, <2>1, ElementOfSeq
  <2>3. SubSeq(content[s], 1, n) \in Seq(Of(s)) /\ Len(SubSeq(content[s], 1, n)) = n
    BY <2>1, <2>2, SubSeqProperties
  <2> QED
    BY <1>1, <2>1, <2>3
<1>4. t \in {text[s], content[s]} \/ \E n \in 1..Len(content[s]) : t \in {text[s], SubSeq(content[s], 1, n)}
  <2>1. t = Read(text[s], content[s]) \/ t = text[s]
        \/ \E n \in 1..Len(content[s]) : t = Read(text[s], SubSeq(content[s], 1, n))
    BY DEF Readings
  <2> QED
    BY <1>2, <2>1
<1> QED
  BY <1>1, <1>3, <1>4

-----------------------------------------------------------------------------
(* The steps *)

LEMMA InitInv == Init => IInv
<1> SUFFICES ASSUME Init PROVE IInv
  OBVIOUS
<1>1. << >> \in Seq(Of(None)) /\ \A s \in Screens : << >> \in Seq(Of(s))
  BY EmptySeq
<1>2. 0 <= Page /\ 0 <= Kept /\ Page \in Nat /\ Kept \in Nat
  BY LogAssumption
<1>3. Ends(<< >>, << >>)
  BY DEF Ends
<1>4. Maps
  BY DEF Init, Maps
<1>5. Sourced
  BY <1>1, <1>2 DEF Init, Sourced
<1>6. PaneOK
  BY <1>1, <1>2, <1>3 DEF Init, PaneOK
<1> QED
  BY <1>4, <1>5, <1>6 DEF IInv

\* The steps that leave the texts and the pane alone.
LEMMA HostKeeps ==
  ASSUME IInv, NEW s \in Screens, Starts(s) \/ Stops(s) \/ Writes(s) \/ Wipes(s) \/ SlowChanges
  PROVE  IInv'
<1>1. UNCHANGED <<text, selected, key, lines, log>>
  BY DEF Starts, Stops, Writes, Wipes, SlowChanges, pane
<1>2. PaneOK'
  BY <1>1 DEF IInv, PaneOK
<1>3. Page \in Nat \ {0} /\ << >> \in Seq(Of(s)) /\ Len(<< >>) = 0
  BY LogAssumption, EmptySeq
<1>4. CASE UNCHANGED content /\ (Stops(s) \/ SlowChanges)
  BY <1>1, <1>2, <1>4 DEF IInv, Maps, Sourced, Stops, SlowChanges
<1>5. CASE Starts(s) \/ Wipes(s)
  <2>1. content' = [content EXCEPT ![s] = << >>] /\ UNCHANGED <<made, slow>>
    BY <1>5 DEF Starts, Wipes
  <2>2. alive' \subseteq Screens
    BY <1>5 DEF Starts, Wipes, IInv, Maps
  <2>3. Maps'
    BY <1>1, <2>1, <2>2 DEF IInv, Maps
  <2>4. Sourced'
    BY <1>1, <1>3, <2>1 DEF IInv, Maps, Sourced
  <2> QED
    BY <1>2, <2>3, <2>4 DEF IInv
<1>6. CASE Writes(s)
  <2> DEFINE new == Append(content[s], <<s, made'[s]>>)
  <2>1. made' \in [Screens -> Nat] /\ made'[s] \in Nat
    BY <1>6 DEF Writes, IInv, Maps
  <2>2. <<s, made'[s]>> \in Of(s)
    BY <2>1 DEF Of
  <2>3. content[s] \in Seq(Of(s))
    BY DEF IInv, Sourced
  <2>4. new \in Seq(Of(s)) /\ Len(new) \in Nat
    BY <2>2, <2>3, AppendProperties, LenProperties
  <2> HIDE DEF new
  <2>5. LastOf(new, Page) \in Seq(Of(s)) /\ Len(LastOf(new, Page)) <= Page
    BY <1>3, <2>4, LastOfEnds
  <2>6. content' = [content EXCEPT ![s] = LastOf(new, Page)]
    BY <1>6 DEF Writes, new
  <2>7. Sourced'
    BY <1>1, <2>5, <2>6 DEF IInv, Maps, Sourced
  <2>8. Maps'
    BY <1>1, <1>6, <2>1, <2>6 DEF IInv, Maps, Writes
  <2> QED
    BY <1>2, <2>7, <2>8 DEF IInv
<1> QED
  BY <1>4, <1>5, <1>6 DEF Stops, SlowChanges

LEMMA SnapshotKeeps ==
  ASSUME IInv, NEW batch \in SUBSET alive, Snapshot(batch)
  PROVE  IInv'
<1>1. UNCHANGED <<alive, made, content, slow, selected, key, lines, log>>
  BY DEF Snapshot, host, pane
<1>2. PaneOK'
  BY <1>1 DEF IInv, PaneOK
<1>3. DOMAIN text' = Screens /\ text' = [s \in Screens |-> text'[s]]
  BY DEF Snapshot
<1>4. Maps'
  BY <1>1, <1>3 DEF IInv, Maps
<1>5. ASSUME NEW s \in Screens PROVE text'[s] \in Seq(Of(s)) /\ Len(text'[s]) <= Page
  <2>1. text'[s] = << >> \/ text'[s] \in Readings(s) \/ text'[s] = text[s]
    BY DEF Snapshot
  <2>2. << >> \in Seq(Of(s)) /\ Len(<< >>) = 0 /\ 0 <= Page
    BY LogAssumption, EmptySeq
  <2> QED
    BY <2>1, <2>2, ReadingOf DEF IInv, Sourced
<1>6. Sourced'
  BY <1>1, <1>5 DEF IInv, Sourced
<1> QED
  BY <1>2, <1>4, <1>6 DEF IInv

LEMMA PaneKeeps ==
  ASSUME IInv, Paint \/ Deselect \/ \E s \in Screens : Select(s)
  PROVE  IInv'
<1>1. UNCHANGED <<alive, made, content, slow, text>>
  BY DEF Paint, Select, Deselect, host
<1>2. Maps' /\ Sourced'
  BY <1>1 DEF IInv, Maps, Sourced
<1>3. CASE Paint
  <2>1. selected \in Screens /\ selected' = selected /\ Sync(selected, text[selected])
    BY <1>3 DEF Paint, IInv, PaneOK
  <2>2. text[selected] \in Seq(Of(selected)) /\ Len(text[selected]) <= Page
    BY <2>1 DEF IInv, Sourced
  <2>3. PaneOK'
    BY <2>1, <2>2, SyncKeeps DEF IInv
  <2> QED
    BY <1>2, <2>3 DEF IInv
<1>4. CASE \E s \in Screens : Select(s)
  <2>1. PICK s \in Screens : Select(s)
    BY <1>4
  <2>2. selected' = s /\ Sync(s, text[s])
    BY <2>1 DEF Select
  <2>3. text[s] \in Seq(Of(s)) /\ Len(text[s]) <= Page
    BY DEF IInv, Sourced
  <2>4. PaneOK'
    BY <2>2, <2>3, SyncKeeps DEF IInv
  <2> QED
    BY <1>2, <2>4 DEF IInv
<1>5. CASE Deselect
  <2>1. << >> \in Seq(Of(None)) /\ Len(<< >>) = 0 /\ 0 <= Page /\ 0 <= Kept
    BY LogAssumption, EmptySeq
  <2>2. Ends(<< >>, << >>)
    BY DEF Ends
  <2>3. PaneOK'
    BY <1>5, <2>1, <2>2 DEF Deselect, PaneOK
  <2> QED
    BY <1>2, <2>3 DEF IInv
<1> QED
  BY <1>3, <1>4, <1>5

LEMMA NextInv == IInv /\ [Next]_vars => IInv'
<1> SUFFICES ASSUME IInv, [Next]_vars PROVE IInv'
  OBVIOUS
<1>1. CASE \E s \in Screens : Starts(s) \/ Stops(s) \/ Writes(s) \/ Wipes(s)
  BY <1>1, HostKeeps
<1>2. CASE SlowChanges
  <2>1. Maps' /\ Sourced' /\ PaneOK'
    BY <1>2 DEF SlowChanges, pane, IInv, Maps, Sourced, PaneOK
  <2> QED
    BY <2>1 DEF IInv
<1>3. CASE \E batch \in SUBSET alive : Snapshot(batch)
  BY <1>3, SnapshotKeeps
<1>4. CASE Paint \/ Deselect \/ \E s \in Screens : Select(s)
  BY <1>4, PaneKeeps
<1>5. CASE UNCHANGED vars
  BY <1>5 DEF vars, host, pane, IInv, Maps, Sourced, PaneOK
<1> QED
  BY <1>1, <1>2, <1>3, <1>4, <1>5 DEF Next

LEMMA SpecInv == Spec => []IInv
<1> QED
  BY InitInv, NextInv, PTL DEF Spec

-----------------------------------------------------------------------------
(* The theorems *)

LEMMA SeqOfLines ==
  ASSUME NEW s \in Screens, NEW t \in Seq(Of(s))
  PROVE  t \in Seq(Line)
<1>1. Of(s) \subseteq Line
  BY DEF Of, Line
<1>2. /\ Len(t) \in Nat /\ t = [i \in 1..Len(t) |-> t[i]]
      /\ \A i \in 1..Len(t) : t[i] \in Of(s)
  BY LenProperties, ElementOfSeq
<1> QED
  BY <1>1, <1>2, IsASeq

\* The hosts' texts are lines, no more of them than a reading keeps, and the log
\* stays within its limit.
THEOREM TypeCorrect == Spec => []TypeOK
<1>1. IInv => TypeOK
  <2> SUFFICES ASSUME IInv PROVE TypeOK
    OBVIOUS
  <2>1. /\ content \in [Screens -> Seq(Line)] /\ text \in [Screens -> Seq(Line)]
        /\ \A s \in Screens : Len(content[s]) <= Page /\ Len(text[s]) <= Page
    BY SeqOfLines DEF IInv, Maps, Sourced
  <2>2. lines \in Seq(Line) /\ log \in Seq(Line)
    <3>1. CASE selected = None
      BY <3>1, EmptySeq DEF IInv, PaneOK
    <3>2. CASE selected \in Screens
      BY <3>2, SeqOfLines DEF IInv, PaneOK
    <3> QED
      BY <3>1, <3>2 DEF IInv, PaneOK
  <2> QED
    BY <2>1, <2>2 DEF TypeOK, IInv, Maps, PaneOK
<1> QED
  BY <1>1, SpecInv, PTL

\* LiveLogFeed's memory is right: whatever hardcopies fail, are cut short or come
\* from a restarted screen, the log ends with the lines the feed compares with.
THEOREM EndsCorrect == Spec => []EndsWithFeed
<1>1. IInv => EndsWithFeed
  BY SuffixEnds DEF IInv, PaneOK, EndsWithFeed
<1> QED
  BY <1>1, SpecInv, PTL

\* No line of another window is ever on the log of the window shown.
THEOREM OwnLinesCorrect == Spec => []OwnLines
<1>1. IInv => OwnLines
  <2> SUFFICES ASSUME IInv, NEW i \in 1..Len(log) PROVE log[i][1] = selected
    BY DEF OwnLines
  <2>1. log[i] \in Of(selected)
    BY ElementOfSeq DEF IInv, PaneOK
  <2> QED
    BY <2>1 DEF Of
<1> QED
  BY <1>1, SpecInv, PTL

-----------------------------------------------------------------------------
(* The log is one piece                                                      *)

\* The numbers of the lines of t follow each other.
OnePiece(t) == \A i \in 1..(Len(t) - 1) : t[i + 1][2] = t[i][2] + 1

\* What a screen holds ends with the line it wrote last.
Latest == \A s \in Screens : content[s] # << >> => content[s][Len(content[s])] = <<s, made[s]>>

Pieces == /\ \A s \in Screens : OnePiece(content[s]) /\ OnePiece(text[s])
          /\ OnePiece(lines) /\ OnePiece(log)

Whole == IInv /\ Latest /\ Pieces

\* An end of a piece is a piece.
LEMMA EndIsPiece ==
  ASSUME NEW S, NEW s \in Seq(S), NEW t \in Seq(S), Ends(s, t), OnePiece(t)
  PROVE  OnePiece(s)
<1>1. Len(s) \in Nat /\ Len(t) \in Nat /\ Len(s) <= Len(t)
  BY LenProperties DEF Ends
<1> SUFFICES ASSUME NEW i \in 1..(Len(s) - 1) PROVE s[i + 1][2] = s[i][2] + 1
  BY DEF OnePiece
<1> DEFINE k == Len(t) - Len(s) + i
<1>2. /\ i \in 1..Len(s) /\ i + 1 \in 1..Len(s) /\ k \in 1..(Len(t) - 1)
      /\ Len(t) - Len(s) + (i + 1) = k + 1
  BY <1>1
<1>3. s[i] = t[k] /\ s[i + 1] = t[k + 1]
  BY <1>2 DEF Ends
<1>4. t[k + 1][2] = t[k][2] + 1
  BY <1>2 DEF OnePiece
<1> QED
  BY <1>3, <1>4

\* What a dump cut short has is a piece.
LEMMA BeginIsPiece ==
  ASSUME NEW S, NEW t \in Seq(S), OnePiece(t), NEW n \in 1..Len(t)
  PROVE  OnePiece(SubSeq(t, 1, n))
<1>1. Len(t) \in Nat /\ n <= Len(t)
  BY LenProperties
<1>2. /\ Len(SubSeq(t, 1, n)) = n
      /\ \A i \in 1..n : SubSeq(t, 1, n)[i] = t[i]
  BY <1>1
<1>3. \A i \in 1..(n - 1) : i \in 1..n /\ i + 1 \in 1..n /\ i \in 1..(Len(t) - 1)
  BY <1>1
<1> QED
  BY <1>2, <1>3 DEF OnePiece

LEMMA EmptyIsPiece == OnePiece(<< >>)
BY DEF OnePiece

\* Two pieces make one if the second goes on where the first ends.
LEMMA JoinedPieces ==
  ASSUME NEW S, NEW s \in Seq(S), NEW t \in Seq(S), OnePiece(s), OnePiece(t),
         s # << >> /\ t # << >> => t[1][2] = s[Len(s)][2] + 1
  PROVE  OnePiece(s \o t)
<1>1. /\ Len(s) \in Nat /\ Len(t) \in Nat
      /\ Len(s) = 0 => s = << >>
      /\ Len(t) = 0 => t = << >>
  BY LenProperties, EmptySeq
<1>2. /\ Len(s \o t) = Len(s) + Len(t)
      /\ \A i \in 1..(Len(s) + Len(t)) : (s \o t)[i] = IF i <= Len(s) THEN s[i] ELSE t[i - Len(s)]
  BY ConcatProperties
<1> SUFFICES ASSUME NEW i \in 1..(Len(s) + Len(t) - 1)
             PROVE  (s \o t)[i + 1][2] = (s \o t)[i][2] + 1
  BY <1>2 DEF OnePiece
<1>3. i \in 1..(Len(s) + Len(t)) /\ i + 1 \in 1..(Len(s) + Len(t))
  BY <1>1
<1>4. CASE i + 1 <= Len(s)
  <2>1. i \in 1..(Len(s) - 1) /\ i <= Len(s)
    BY <1>1, <1>4
  <2> QED
    BY <1>2, <1>3, <1>4, <2>1 DEF OnePiece
<1>5. CASE i = Len(s)
  <2>1. s # << >> /\ t # << >> /\ ~ (i + 1 <= Len(s)) /\ i + 1 - Len(s) = 1 /\ i <= Len(s)
    BY <1>1, <1>5, EmptySeq
  <2> QED
    BY <1>2, <1>3, <1>5, <2>1
<1>6. CASE i > Len(s)
  <2> DEFINE k == i - Len(s)
  <2>1. k \in 1..(Len(t) - 1) /\ i + 1 - Len(s) = k + 1 /\ ~ (i <= Len(s)) /\ ~ (i + 1 <= Len(s))
    BY <1>1, <1>6
  <2>2. (s \o t)[i] = t[k] /\ (s \o t)[i + 1] = t[k + 1]
    BY <1>2, <1>3, <2>1
  <2> HIDE DEF k
  <2> QED
    BY <2>1, <2>2 DEF OnePiece
<1> QED
  BY <1>1, <1>4, <1>5, <1>6

-----------------------------------------------------------------------------

\* What is written after the overlap goes on where the log ends.
LEMMA ExtendedPiece ==
  ASSUME NEW S, NEW old \in Seq(S), NEW new \in Seq(S), NEW t \in Seq(S),
         Ends(old, t), Overlap(old, new) > 0, OnePiece(t), OnePiece(new)
  PROVE  OnePiece(t \o SubSeq(new, Overlap(old, new) + 1, Len(new)))
<1> DEFINE n == Overlap(old, new)
           rest == SubSeq(new, n + 1, Len(new))
<1>1. /\ n \in 1..Len(old) /\ n <= Len(new)
      /\ SubSeq(old, Len(old) - n + 1, Len(old)) = SubSeq(new, 1, n)
  BY OverlapIs
<1>2. Len(old) \in Nat /\ Len(new) \in Nat /\ Len(t) \in Nat /\ Len(old) <= Len(t)
  BY LenProperties DEF Ends
<1>3. rest \in Seq(S)
  BY ExtendedEnds
<1> HIDE DEF n
<1>4. /\ Len(rest) = Len(new) - n
      /\ \A i \in 1..(Len(new) - n) : rest[i] = new[n + i]
  BY <1>1, <1>2
<1>5. new[n] = t[Len(t)]
  <2>1. SubSeq(new, 1, n)[n] = new[n]
    BY <1>1, <1>2
  <2>2. SubSeq(old, Len(old) - n + 1, Len(old))[n] = old[Len(old)]
    <3> DEFINE m == Len(old) - n + 1
    <3>1. m \in 1..Len(old) /\ n \in 1..(Len(old) - m + 1) /\ m + n - 1 = Len(old)
      BY <1>1, <1>2
    <3> HIDE DEF m
    <3>2. SubSeq(old, m, Len(old))[n] = old[m + n - 1]
      BY <1>1, <1>2, <3>1
    <3> QED
      BY <3>1, <3>2 DEF m
  <2>3. old[Len(old)] = t[Len(t) - Len(old) + Len(old)]
    <3>1. Len(old) \in 1..Len(old)
      BY <1>1, <1>2
    <3> QED
      BY <3>1 DEF Ends
  <2> QED
    BY <1>1, <1>2, <2>1, <2>2, <2>3
<1>6. OnePiece(rest)
  <2>1. \A i \in 1..(Len(new) - n - 1) : /\ i \in 1..(Len(new) - n) /\ i + 1 \in 1..(Len(new) - n)
                                         /\ n + i \in 1..(Len(new) - 1) /\ n + (i + 1) = (n + i) + 1
    BY <1>1, <1>2
  <2> HIDE DEF rest
  <2> SUFFICES ASSUME NEW i \in 1..(Len(rest) - 1) PROVE rest[i + 1][2] = rest[i][2] + 1
    BY DEF OnePiece
  <2>2. i \in 1..(Len(new) - n - 1) /\ i \in Int
    BY <1>4
  <2>3. rest[i] = new[n + i] /\ rest[i + 1] = new[n + (i + 1)]
    BY <1>4, <2>1, <2>2
  <2>4. new[(n + i) + 1][2] = new[n + i][2] + 1
    BY <2>1, <2>2 DEF OnePiece
  <2> QED
    BY <2>1, <2>2, <2>3, <2>4
<1>7. rest # << >> => rest[1][2] = t[Len(t)][2] + 1
  <2> SUFFICES ASSUME rest # << >> PROVE rest[1][2] = t[Len(t)][2] + 1
    OBVIOUS
  <2>1. Len(new) - n > 0
    BY <1>1, <1>2, <1>3, <1>4, EmptySeq
  <2>2. n \in 1..(Len(new) - 1) /\ 1 \in 1..(Len(new) - n)
    BY <1>1, <1>2, <2>1
  <2>3. new[n + 1][2] = new[n][2] + 1
    BY <2>2 DEF OnePiece
  <2> QED
    BY <1>4, <1>5, <2>2, <2>3
<1> HIDE DEF rest
<1>8. OnePiece(t \o rest)
  BY <1>3, <1>6, <1>7, JoinedPieces
<1> QED
  BY <1>8 DEF rest, n

\* What stays of a piece, when the log is full, is a piece.
LEMMA WrittenPiece ==
  ASSUME NEW S, NEW old \in Seq(S), NEW rest \in Seq(S), OnePiece(old \o rest)
  PROVE  OnePiece(Written(old, rest))
<1>1. old \o rest \in Seq(S)
  BY ConcatProperties
<1>2. LastOf(old \o rest, Kept) \in Seq(S) /\ Ends(LastOf(old \o rest, Kept), old \o rest)
  BY <1>1, LogAssumption, LastOfEnds
<1> QED
  BY <1>1, <1>2, EndIsPiece DEF Written

LEMMA SyncPiece ==
  ASSUME Whole, NEW w \in Screens, NEW new \in Seq(Of(w)), OnePiece(new), Sync(w, new)
  PROVE  OnePiece(lines') /\ OnePiece(log')
<1>r. ASSUME Replace(new) PROVE OnePiece(lines') /\ OnePiece(log')
  <2>1. << >> \in Seq(Of(w)) /\ << >> \o new = new
    BY ConcatEmptySeq, EmptySeq
  <2>2. OnePiece(Written(<< >>, new))
    BY <2>1, WrittenPiece
  <2> QED
    BY <1>r, <2>2 DEF Replace
<1>1. CASE key # w \/ lines = << >>
  BY <1>1, <1>r DEF Sync
<1>2. CASE key = w /\ lines # << >>
  <2>1. lines \in Seq(Of(w)) /\ log \in Seq(Of(w)) /\ Ends(lines, log) /\ OnePiece(log)
    BY <1>2 DEF Whole, IInv, PaneOK, Pieces
  <2>2. CASE new = << >> \/ ShortTail(lines, new)
    BY <1>2, <2>2 DEF Sync, Whole, Pieces
  <2>3. CASE ~ (new = << >> \/ ShortTail(lines, new))
    <3>1. IF Overlap(lines, new) > 0 THEN Extend(new, Overlap(lines, new)) ELSE Replace(new)
      BY <1>2, <2>3 DEF Sync
    <3>2. CASE Overlap(lines, new) > 0
      <4> DEFINE rest == SubSeq(new, Overlap(lines, new) + 1, Len(new))
      <4>1. rest \in Seq(Of(w)) /\ OnePiece(log \o rest)
        BY <2>1, <3>2, ExtendedEnds, ExtendedPiece
      <4>2. log' = Written(log, rest) /\ lines' = new
        BY <3>1, <3>2 DEF Extend
      <4> HIDE DEF rest
      <4> QED
        BY <2>1, <4>1, <4>2, WrittenPiece
    <3>3. CASE ~ (Overlap(lines, new) > 0)
      BY <1>r, <3>1, <3>3
    <3> QED
      BY <3>2, <3>3
  <2> QED
    BY <2>2, <2>3
<1> QED
  BY <1>1, <1>2

-----------------------------------------------------------------------------
(* The steps, once more                                                      *)

LEMMA WritesLatest ==
  ASSUME Whole, NEW s \in Screens, Writes(s)
  PROVE  Latest' /\ Pieces'
<1> DEFINE new == Append(content[s], <<s, made'[s]>>)
<1>1. /\ content[s] \in Seq(Of(s)) /\ OnePiece(content[s])
      /\ content[s] # << >> => content[s][Len(content[s])] = <<s, made[s]>>
  BY DEF Whole, IInv, Sourced, Latest, Pieces
<1>2. /\ made \in [Screens -> Nat] /\ made' = [made EXCEPT ![s] = @ + 1]
      /\ content = [r \in Screens |-> content[r]]
      /\ content' = [content EXCEPT ![s] = LastOf(new, Page)]
      /\ UNCHANGED <<text, lines, log>>
  BY DEF Whole, IInv, Maps, Writes, pane
<1>3. made'[s] = made[s] + 1 /\ <<s, made'[s]>> \in Of(s)
  BY <1>2 DEF Of
<1>4. /\ new \in Seq(Of(s)) /\ Len(new) = Len(content[s]) + 1 /\ Len(content[s]) \in Nat
      /\ new[Len(new)] = <<s, made'[s]>>
      /\ \A i \in 1..Len(content[s]) : new[i] = content[s][i]
  BY <1>1, <1>3, AppendProperties, LenProperties
<1> HIDE DEF new
<1>5. OnePiece(new)
  <2> SUFFICES ASSUME NEW i \in 1..Len(content[s]) PROVE new[i + 1][2] = new[i][2] + 1
    BY <1>4 DEF OnePiece
  <2>1. CASE i = Len(content[s])
    <3>1. content[s] # << >>
      BY <1>4, <2>1, EmptySeq
    <3>2. new[i][2] = made[s] /\ new[i + 1][2] = made'[s]
      BY <1>1, <1>4, <2>1, <3>1
    <3> QED
      BY <1>3, <3>2
  <2>2. CASE i # Len(content[s])
    <3>1. i \in 1..(Len(content[s]) - 1) /\ i + 1 \in 1..Len(content[s])
      BY <1>4, <2>2
    <3> QED
      BY <1>1, <1>4, <3>1 DEF OnePiece
  <2> QED
    BY <2>1, <2>2
<1>6. /\ LastOf(new, Page) \in Seq(Of(s)) /\ Ends(LastOf(new, Page), new)
      /\ Len(LastOf(new, Page)) \in Nat \ {0}
  <2>1. Page \in Nat \ {0} /\ Len(new) \in Nat \ {0}
    BY <1>4, LogAssumption
  <2> QED
    BY <1>4, <2>1, LastOfEnds
<1>7. OnePiece(LastOf(new, Page))
  BY <1>4, <1>5, <1>6, EndIsPiece
<1>8. LastOf(new, Page)[Len(LastOf(new, Page))] = <<s, made'[s]>>
  <2> DEFINE l == Len(LastOf(new, Page))
  <2>1. l \in 1..l /\ Len(new) - l + l = Len(new)
    BY <1>4, <1>6
  <2>2. LastOf(new, Page)[l] = new[Len(new) - l + l]
    BY <1>6, <2>1 DEF Ends
  <2> QED
    BY <1>4, <2>1, <2>2
<1>9. \A r \in Screens : /\ r # s => content'[r] = content[r] /\ made'[r] = made[r]
                         /\ content'[s] = LastOf(new, Page)
  BY <1>2
<1>10. Latest'
  BY <1>8, <1>9 DEF Latest, Whole
<1>11. Pieces'
  BY <1>2, <1>7, <1>9 DEF Pieces, Whole
<1> QED
  BY <1>10, <1>11

LEMMA ReadingPiece ==
  ASSUME Whole, NEW s \in Screens, NEW t \in Readings(s)
  PROVE  OnePiece(t)
<1>1. content[s] \in Seq(Of(s)) /\ OnePiece(content[s]) /\ OnePiece(text[s])
  BY DEF Whole, IInv, Sourced, Pieces
<1>2. \A d : Read(text[s], d) \in {text[s], d}
  BY DEF Read
<1>3. \A n \in 1..Len(content[s]) : OnePiece(SubSeq(content[s], 1, n))
  BY <1>1, BeginIsPiece
<1>4. t \in {text[s], content[s]} \/ \E n \in 1..Len(content[s]) : t \in {text[s], SubSeq(content[s], 1, n)}
  <2>1. t = Read(text[s], content[s]) \/ t = text[s]
        \/ \E n \in 1..Len(content[s]) : t = Read(text[s], SubSeq(content[s], 1, n))
    BY DEF Readings
  <2> QED
    BY <1>2, <2>1
<1> QED
  BY <1>1, <1>3, <1>4

LEMMA InitWhole == Init => Latest /\ Pieces
BY EmptyIsPiece DEF Init, Latest, Pieces

LEMMA NextWhole == Whole /\ [Next]_vars => (Latest /\ Pieces)'
<1> SUFFICES ASSUME Whole, [Next]_vars PROVE (Latest /\ Pieces)'
  OBVIOUS
<1>1. ASSUME NEW s \in Screens, Starts(s) \/ Wipes(s) PROVE (Latest /\ Pieces)'
  <2>1. content' = [content EXCEPT ![s] = << >>] /\ UNCHANGED <<made, text, lines, log>>
    BY <1>1 DEF Starts, Wipes, pane
  <2>2. content = [r \in Screens |-> content[r]]
    BY DEF Whole, IInv, Maps
  <2>3. \A r \in Screens : content'[r] = IF r = s THEN << >> ELSE content[r]
    BY <2>1, <2>2
  <2> QED
    BY <2>1, <2>3, EmptyIsPiece DEF Whole, Latest, Pieces
<1>2. ASSUME NEW s \in Screens, Stops(s) PROVE (Latest /\ Pieces)'
  BY <1>2 DEF Stops, pane, Whole, Latest, Pieces
<1>3. CASE \E s \in Screens : Writes(s)
  BY <1>3, WritesLatest
<1>4. CASE SlowChanges
  BY <1>4 DEF SlowChanges, pane, Whole, Latest, Pieces
<1>5. ASSUME NEW batch \in SUBSET alive, Snapshot(batch) PROVE (Latest /\ Pieces)'
  <2>1. UNCHANGED <<made, content, lines, log>>
    BY <1>5 DEF Snapshot, host, pane
  <2>2. \A s \in Screens : text'[s] = << >> \/ text'[s] \in Readings(s) \/ text'[s] = text[s]
    BY <1>5 DEF Snapshot
  <2>3. \A s \in Screens : OnePiece(text'[s])
    BY <2>2, EmptyIsPiece, ReadingPiece DEF Whole, Pieces
  <2> QED
    BY <2>1, <2>3 DEF Whole, Latest, Pieces
<1>6. CASE Paint
  <2>1. UNCHANGED <<made, content, text>> /\ Sync(selected, text[selected]) /\ selected \in Screens
    BY <1>6 DEF Paint, host, Whole, IInv, PaneOK
  <2>2. text[selected] \in Seq(Of(selected)) /\ OnePiece(text[selected])
    BY <2>1 DEF Whole, IInv, Sourced, Pieces
  <2>3. OnePiece(lines') /\ OnePiece(log')
    BY <2>1, <2>2, SyncPiece
  <2> QED
    BY <2>1, <2>3 DEF Whole, Latest, Pieces
<1>7. ASSUME NEW s \in Screens, Select(s) PROVE (Latest /\ Pieces)'
  <2>1. UNCHANGED <<made, content, text>> /\ Sync(s, text[s])
    BY <1>7 DEF Select, host
  <2>2. text[s] \in Seq(Of(s)) /\ OnePiece(text[s])
    BY DEF Whole, IInv, Sourced, Pieces
  <2>3. OnePiece(lines') /\ OnePiece(log')
    BY <2>1, <2>2, SyncPiece
  <2> QED
    BY <2>1, <2>3 DEF Whole, Latest, Pieces
<1>8. CASE Deselect
  BY <1>8, EmptyIsPiece DEF Deselect, host, Whole, Latest, Pieces
<1>9. CASE UNCHANGED vars
  BY <1>9 DEF vars, host, pane, Whole, Latest, Pieces
<1> QED
  BY <1>1, <1>2, <1>3, <1>4, <1>5, <1>6, <1>7, <1>8, <1>9 DEF Next

\* A failed, cut, cached or repeated hardcopy never makes the log skip or repeat
\* a line of the window shown, whatever the lengths of pages and of the log.
THEOREM PieceCorrect == Spec => []Unbroken
<1>1. Whole => Unbroken
  BY DEF Whole, Pieces, OnePiece, Unbroken
<1>2. Init => Whole
  BY InitInv, InitWhole DEF Whole
<1>3. Whole /\ [Next]_vars => Whole'
  BY NextInv, NextWhole DEF Whole
<1> QED
  BY <1>1, <1>2, <1>3, PTL DEF Spec
=============================================================================
