--------------------------- MODULE TurnPaintProofs ---------------------------
(* What TurnPaint promises, for any number of threads and of changes.        *)
EXTENDS TurnPaint, TLAPS

\* Every state is well typed.
THEOREM TypeCorrect == Spec => []TypeOK
<1>1. Init => TypeOK
  <2> SUFFICES ASSUME Init PROVE TypeOK
    OBVIOUS
  <2>1. version \in Nat /\ painted \in Nat /\ timers \in Nat
    BY DEF Init
  <2>2. coalesce \in BOOLEAN /\ dirty \in BOOLEAN /\ onUpdate \in BOOLEAN
    BY DEF Init
  <2>3. pc \in [Threads -> ThreadPC] /\ ui \in UIPC
    BY DEF Init, ThreadPC, UIPC
  <2> QED BY <2>1, <2>2, <2>3 DEF TypeOK
<1>2. TypeOK /\ [Next]_vars => TypeOK'
  <2> SUFFICES ASSUME TypeOK, [Next]_vars PROVE TypeOK'
    OBVIOUS
  <2>1. CASE Next
    <3>1. ASSUME NEW t \in Threads,
                 ThreadStarts(t) \/ ThreadEnds(t) \/ Change(t) \/ ThreadStep(t)
                   \/ Schedule(t)
          PROVE  TypeOK'
      <4>1. pc' \in [Threads -> ThreadPC]
        BY <3>1 DEF TypeOK, ThreadPC, ThreadStarts, ThreadEnds, Change, ThreadStep,
           Schedule, Notify, CheckFlag, MarkDirty, ClaimFlag, Post, PostFails, Go
      <4>2. version' \in Nat /\ timers' \in Nat
        BY <3>1 DEF TypeOK, ThreadStarts, ThreadEnds, Change, ThreadStep,
           Schedule, Notify, CheckFlag, MarkDirty, ClaimFlag, Post, PostFails
      <4>4. coalesce' \in BOOLEAN /\ dirty' \in BOOLEAN
        BY <3>1 DEF TypeOK, ThreadStarts, ThreadEnds, Change, ThreadStep,
           Schedule, Notify, CheckFlag, MarkDirty, ClaimFlag, Post, PostFails
      <4>3. UNCHANGED <<painted, ui, onUpdate>>
        BY <3>1 DEF ThreadStarts, ThreadEnds, Change, ThreadStep,
           Schedule, Notify, CheckFlag, MarkDirty, ClaimFlag, Post, PostFails
      <4> QED BY <4>1, <4>2, <4>3, <4>4 DEF TypeOK
    <3>2. ASSUME UIStep \/ Handle \/ Quit PROVE TypeOK'
      <4> USE <3>2 DEF UIStep, TimerFires, FlushPaints, FlushLooks, FlushCleans, FlushArms,
          HandleJoined, HandleChecks, HandleMarks, HandleClaims, HandleRefused,
          HandlePaints, QuitJoined, Handle, Quit
      <4>1. pc' = pc
        OBVIOUS
      <4>2. version' \in Nat /\ painted' \in Nat /\ timers' \in Nat
        BY DEF TypeOK
      <4>3. coalesce' \in BOOLEAN /\ dirty' \in BOOLEAN /\ onUpdate' \in BOOLEAN
        BY DEF TypeOK
      <4>4. ui' \in UIPC
        BY DEF UIAt, UIPC, WillPaint
      <4> QED BY <4>1, <4>2, <4>3, <4>4 DEF TypeOK
    <3> QED BY <2>1, <3>1, <3>2 DEF Next
  <2>2. CASE UNCHANGED vars
    BY <2>2 DEF vars, TypeOK
  <2> QED BY <2>1, <2>2
<1> QED BY <1>1, <1>2, PTL DEF Spec

\* Once cleared, on_update stays cleared, and the app's loop ends only then.
Gone == ui \in {"quit", "gone"} => ~onUpdate

Inv == TypeOK /\ Gone /\ FlagBacked /\ PaintOwed

-----------------------------------------------------------------------------
(* A step of a thread *)

\* A thread that leaves the set of those who will ask for a paint does so
\* because it found a raised flag, which is backed, or got its timer.
LEMMA ThreadKeeps ==
  ASSUME Inv, NEW t \in Threads,
         ThreadStarts(t) \/ ThreadEnds(t) \/ Change(t) \/ ThreadStep(t) \/ Schedule(t)
  PROVE  Gone' /\ FlagBacked' /\ PaintOwed'
<1> USE DEF Inv, Go
<1>t. pc \in [Threads -> ThreadPC] /\ timers \in Nat
  BY DEF TypeOK
<1>a. \A u \in Threads : u # t => pc'[u] = pc[u]
  BY <1>t DEF ThreadStarts, ThreadEnds, Change, ThreadStep, Schedule, Notify,
     CheckFlag, MarkDirty, ClaimFlag, Post, PostFails
<1>b. UNCHANGED <<ui, onUpdate, painted>>
  BY DEF ThreadStarts, ThreadEnds, Change, ThreadStep, Schedule, Notify,
     CheckFlag, MarkDirty, ClaimFlag, Post, PostFails
<1>g. Gone'
  BY <1>b DEF Gone
\* It is enough to look at t: what other threads do for the flag stays.
<1>q. SUFFICES ASSUME onUpdate
               PROVE  FlagBacked' /\ PaintOwed'
  BY <1>b, <1>g DEF FlagBacked, PaintOwed
<1>l. ui \notin {"quit", "gone"}
  BY <1>q DEF Gone
<1>1. CASE ThreadStarts(t) \/ ThreadEnds(t)
  BY <1>1, <1>a, <1>b, <1>t DEF ThreadStarts, ThreadEnds, FlagBacked, PaintOwed
<1>2. CASE Change(t)
  BY <1>2, <1>a, <1>b, <1>t DEF Change, FlagBacked, PaintOwed
<1>3. CASE Notify(t)
  BY <1>3, <1>a, <1>b, <1>t, <1>q DEF Notify, FlagBacked, PaintOwed
<1>4. CASE CheckFlag(t)
  <2>1. UNCHANGED <<version, coalesce, timers>> /\ pc[t] = "check"
    BY <1>4 DEF CheckFlag
  <2>2. FlagBacked'
    BY <2>1, <1>a, <1>b, <1>t DEF FlagBacked
  <2>3. CASE coalesce
    BY <2>1, <2>2, <2>3, <1>b, <1>q DEF FlagBacked, PaintOwed, WillPaint
  <2>4. CASE ~coalesce
    <3>1. pc'[t] = "claim"
      BY <1>4, <2>4, <1>t DEF CheckFlag
    <3> QED BY <3>1, <2>2 DEF PaintOwed
  <2> QED BY <2>2, <2>3, <2>4
<1>5. CASE MarkDirty(t)
  BY <1>5, <1>a, <1>b, <1>t DEF MarkDirty, FlagBacked, PaintOwed
<1>6. CASE ClaimFlag(t)
  <2>1. pc'[t] = "post"
    BY <1>6, <1>t DEF ClaimFlag
  <2> QED BY <2>1 DEF FlagBacked, PaintOwed
<1>7. CASE Post(t)
  <2>1. pc'[t] = "blocked"
    BY <1>7, <1>t DEF Post
  <2> QED BY <2>1 DEF FlagBacked, PaintOwed
<1>8. CASE PostFails(t)
  BY <1>8, <1>l DEF PostFails
<1>9. CASE Schedule(t)
  <2>1. timers' > 0
    BY <1>9, <1>t DEF Schedule
  <2> QED BY <2>1 DEF FlagBacked, PaintOwed
<1> QED BY <1>1, <1>2, <1>3, <1>4, <1>5, <1>6, <1>7, <1>8, <1>9 DEF ThreadStep

-----------------------------------------------------------------------------
(* A step of the Textual thread *)

LEMMA UIKeeps ==
  ASSUME Inv, UIStep \/ Handle \/ Quit
  PROVE  Gone' /\ FlagBacked' /\ PaintOwed'
<1> USE DEF Inv, UIAt, Gone, FlagBacked, PaintOwed, WillPaint
<1>t. timers \in Nat /\ coalesce \in BOOLEAN
  BY DEF TypeOK
<1>1. CASE TimerFires    BY <1>1 DEF TimerFires
<1>2. CASE FlushPaints   BY <1>2 DEF FlushPaints
<1>3. CASE FlushLooks    BY <1>3 DEF FlushLooks
<1>4. CASE FlushCleans   BY <1>4 DEF FlushCleans
<1>5. CASE FlushArms     BY <1>5, <1>t DEF FlushArms
<1>6. CASE HandleJoined  BY <1>6 DEF HandleJoined
<1>7. CASE HandleChecks  BY <1>7 DEF HandleChecks
<1>8. CASE HandleMarks   BY <1>8 DEF HandleMarks
<1>9. CASE HandleClaims  BY <1>9 DEF HandleClaims
<1>10. CASE HandleRefused BY <1>10 DEF HandleRefused
<1>11. CASE HandlePaints  BY <1>11 DEF HandlePaints
<1>12. CASE QuitJoined    BY <1>12 DEF QuitJoined
<1>13. CASE Handle        BY <1>13 DEF Handle
<1>14. CASE Quit          BY <1>14 DEF Quit
<1> QED BY <1>1, <1>2, <1>3, <1>4, <1>5, <1>6, <1>7, <1>8, <1>9, <1>10, <1>11, <1>12,
           <1>13, <1>14 DEF UIStep

-----------------------------------------------------------------------------

LEMMA Inductive == Spec => []Inv
<1>1. Init => Gone /\ FlagBacked /\ PaintOwed
  BY DEF Init, Gone, FlagBacked, PaintOwed
<1>2. Inv /\ [Next]_vars => Gone' /\ FlagBacked' /\ PaintOwed'
  <2> SUFFICES ASSUME Inv, [Next]_vars PROVE Gone' /\ FlagBacked' /\ PaintOwed'
    OBVIOUS
  <2>1. CASE Next
    BY <2>1, ThreadKeeps, UIKeeps DEF Next
  <2>2. CASE UNCHANGED vars
    BY <2>2 DEF Inv, Gone, FlagBacked, PaintOwed, vars
  <2> QED BY <2>1, <2>2
<1> QED BY <1>1, <1>2, TypeCorrect, PTL DEF Spec, Inv

\* A raised flag always has a paint behind it.
THEOREM FlagIsBacked == Spec => []FlagBacked
BY Inductive, PTL DEF Inv

\* No change of the popup is ever left with nobody to paint it.
THEOREM PaintIsOwed == Spec => []PaintOwed
BY Inductive, PTL DEF Inv
=============================================================================
