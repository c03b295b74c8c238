-------------------------- MODULE CollectorProofs --------------------------
(* For any number of threads and requests: collections never overlap, no     *)
(* request waits for the poll, what is shown never gets older, and the       *)
(* threads implement SnapshotService.                                        *)
EXTENDS Collector, TLAPS

USE CollectorAssumption

\* busy is held by exactly the worker that is collecting.
BusyHeld == /\ OneCollection
            /\ busy <=> \E w \in Workers : pc[w] \in Working

\* Snapshots are as old as the collections they came from, in order.
Ordered == /\ shown <= latest /\ latest <= claimed /\ claimed <= asked
           /\ pending <=> claimed < asked
           /\ \A w \in Workers : pc[w] \in Working => asOf[w] = claimed

IInv == TypeOK /\ BusyHeld /\ Ordered /\ RequestKeepsWake

-----------------------------------------------------------------------------

LEMMA InitType == Init => TypeOK
<1> SUFFICES ASSUME Init PROVE TypeOK
  OBVIOUS
<1>1. painted \in Int
  BY DEF Init
<1>2. stop \in BOOLEAN
  BY DEF Init
<1>3. pc \in [Workers -> WorkerPC]
  BY DEF Init, WorkerPC
<1>4. thread \in Workers \cup {NoThread} /\ ui \in UIPC
  BY DEF Init, UIPC
<1> QED
  BY <1>1, <1>2, <1>3, <1>4 DEF Init, TypeOK

\* Every variable of the collector keeps its type, for every set of threads.
THEOREM TypeCorrect == Spec => []TypeOK
<1>1. Init => TypeOK
  BY InitType
<1>2. TypeOK /\ [Next]_vars => TypeOK'
  <2> SUFFICES ASSUME TypeOK, [Next]_vars PROVE TypeOK'
    OBVIOUS
  <2> USE DEF TypeOK, WorkerPC, Working, UIPC, shared, screen, Go
  <2>1. ASSUME NEW w \in Workers, LoopHead(w) PROVE TypeOK'
    BY <2>1 DEF LoopHead
  <2>2. ASSUME NEW w \in Workers, EnterWait(w) PROVE TypeOK'
    BY <2>2 DEF EnterWait
  <2>3. ASSUME NEW w \in Workers, WaitTimeout(w) PROVE TypeOK'
    BY <2>3 DEF WaitTimeout
  <2>4. ASSUME NEW w \in Workers, ClearWake(w) PROVE TypeOK'
    BY <2>4 DEF ClearWake
  <2>5. ASSUME NEW w \in Workers, TestStop(w) PROVE TypeOK'
    BY <2>5 DEF TestStop
  <2>6. ASSUME NEW w \in Workers, Skip(w) PROVE TypeOK'
    BY <2>6 DEF Skip
  <2>7. ASSUME NEW w \in Workers, Claim(w) PROVE TypeOK'
    BY <2>7 DEF Claim
  <2>8. ASSUME NEW w \in Workers, NEW ok \in BOOLEAN, Publish(w, ok) PROVE TypeOK'
    BY <2>8 DEF Publish
  <2>9. ASSUME NEW w \in Workers, Notify(w) PROVE TypeOK'
    BY <2>9 DEF Notify
  <2>10. ASSUME NEW w \in Workers, NotifyFails(w) PROVE TypeOK'
    BY <2>10 DEF NotifyFails
  <2>11. ASSUME NEW w \in Workers, Finish(w) PROVE TypeOK'
    BY <2>11 DEF Finish, Released
  <2>12. ASSUME NEW w \in Workers, Start(w) PROVE TypeOK'
    BY <2>12 DEF Start
  <2>13. ASSUME NEW w \in Workers, ServeUpdate(w) PROVE TypeOK'
    BY <2>13 DEF ServeUpdate, PaintNew
  <2>14. CASE RequestPending
    BY <2>14 DEF RequestPending
  <2>15. CASE RequestWake
    BY <2>15 DEF RequestWake, Released
  <2>16. CASE PaintAfterRequest
    BY <2>16 DEF PaintAfterRequest, PaintNew
  <2>17. CASE StopSet
    BY <2>17 DEF StopSet
  <2>18. CASE StopWake
    BY <2>18 DEF StopWake, Released
  <2>19. CASE StopJoined
    BY <2>19 DEF StopJoined
  <2>20. CASE UNCHANGED vars
    BY <2>20 DEF vars
  <2> QED
    BY <2>1, <2>2, <2>3, <2>4, <2>5, <2>6, <2>7, <2>8, <2>9, <2>10, <2>11, <2>12,
       <2>13, <2>14, <2>15, <2>16, <2>17, <2>18, <2>19, <2>20 DEF Next, WorkerStep
<1> QED
  BY <1>1, <1>2, PTL DEF Spec

-----------------------------------------------------------------------------

LEMMA InitInv == Init => BusyHeld /\ Ordered /\ RequestKeepsWake
  BY DEF Init, BusyHeld, Ordered, RequestKeepsWake, OneCollection, Working

\* The inductive step, action by action.  Only Claim and Finish move busy, and
\* OneCollection is what lets Finish release it.
LEMMA NextInv == TypeOK /\ TypeOK' /\ BusyHeld /\ Ordered /\ RequestKeepsWake
                   /\ [Next]_vars => BusyHeld' /\ Ordered' /\ RequestKeepsWake'
<1> SUFFICES ASSUME TypeOK, TypeOK', BusyHeld, Ordered, RequestKeepsWake, [Next]_vars
             PROVE  BusyHeld' /\ Ordered' /\ RequestKeepsWake'
  OBVIOUS
<1> DEFINE Goal == BusyHeld' /\ Ordered' /\ RequestKeepsWake'
<1> USE DEF TypeOK, BusyHeld, Ordered, RequestKeepsWake, OneCollection, Working,
            shared, screen, Go
<1>1. ASSUME NEW w \in Workers, LoopHead(w) PROVE Goal
  BY <1>1 DEF LoopHead
<1>2. ASSUME NEW w \in Workers, EnterWait(w) PROVE Goal
  BY <1>2 DEF EnterWait
<1>3. ASSUME NEW w \in Workers, WaitTimeout(w) PROVE Goal
  BY <1>3 DEF WaitTimeout
<1>4. ASSUME NEW w \in Workers, ClearWake(w) PROVE Goal
  BY <1>4 DEF ClearWake
<1>5. ASSUME NEW w \in Workers, TestStop(w) PROVE Goal
  BY <1>5 DEF TestStop
<1>6. ASSUME NEW w \in Workers, Skip(w) PROVE Goal
  BY <1>6 DEF Skip
<1>7. ASSUME NEW w \in Workers, Claim(w) PROVE Goal
  BY <1>7 DEF Claim
<1>8. ASSUME NEW w \in Workers, NEW ok \in BOOLEAN, Publish(w, ok) PROVE Goal
  BY <1>8 DEF Publish
<1>9. ASSUME NEW w \in Workers, Notify(w) PROVE Goal
  BY <1>9 DEF Notify
<1>10. ASSUME NEW w \in Workers, NotifyFails(w) PROVE Goal
  BY <1>10 DEF NotifyFails
<1>11. ASSUME NEW w \in Workers, Finish(w) PROVE Goal
  BY <1>11 DEF Finish, Released
<1>12. ASSUME NEW w \in Workers, Start(w) PROVE Goal
  BY <1>12 DEF Start
<1>13. ASSUME NEW w \in Workers, ServeUpdate(w) PROVE Goal
  BY <1>13 DEF ServeUpdate, PaintNew
<1>14. CASE RequestPending
  BY <1>14 DEF RequestPending
<1>15. CASE RequestWake
  BY <1>15 DEF RequestWake, Released
<1>16. CASE PaintAfterRequest
  BY <1>16 DEF PaintAfterRequest, PaintNew
<1>17. CASE StopSet
  BY <1>17 DEF StopSet
<1>18. CASE StopWake
  BY <1>18 DEF StopWake, Released
<1>19. CASE StopJoined
  BY <1>19 DEF StopJoined
<1>20. CASE UNCHANGED vars
  BY <1>20 DEF vars
<1> QED
  BY <1>1, <1>2, <1>3, <1>4, <1>5, <1>6, <1>7, <1>8, <1>9, <1>10, <1>11, <1>12,
     <1>13, <1>14, <1>15, <1>16, <1>17, <1>18, <1>19, <1>20 DEF Next, WorkerStep

LEMMA Inductive == Spec => []IInv
<1>1. Init => IInv
  BY InitInv, InitType DEF IInv
<1>2. TypeOK /\ TypeOK' /\ IInv /\ [Next]_vars => IInv'
  BY NextInv DEF IInv
<1> QED
  BY <1>1, <1>2, TypeCorrect, PTL DEF Spec

\* No two collections overlap, however many workers outlive their stop().
THEOREM OneCollectionHolds == Spec => []OneCollection
<1>1. IInv => OneCollection
  BY DEF IInv, BusyHeld
<1> QED
  BY <1>1, Inductive, PTL

\* A request that waits to be taken has the event or a running thread behind it.
THEOREM RequestKeepsWakeHolds == Spec => []RequestKeepsWake
<1>1. IInv => RequestKeepsWake
  BY DEF IInv
<1> QED
  BY <1>1, Inductive, PTL

\* Neither _latest nor the screen ever goes back to an older view of the host.
THEOREM NeverGoesBackHolds == Spec => NeverGoesBack
<1>1. IInv /\ [Next]_vars => [latest' >= latest /\ shown' >= shown]_vars
  <2> SUFFICES ASSUME IInv, Next PROVE latest' >= latest /\ shown' >= shown
    BY DEF vars
  <2> DEFINE Newer == latest' >= latest /\ shown' >= shown
  <2> USE DEF IInv, TypeOK, Ordered, shared, screen
  <2>1. ASSUME NEW w \in Workers, WorkerStep(w) PROVE Newer
    BY <2>1 DEF WorkerStep, LoopHead, EnterWait, WaitTimeout, ClearWake, TestStop,
                Skip, Claim, Publish, Notify, NotifyFails, Finish, Working
  <2>2. ASSUME NEW w \in Workers, Start(w) PROVE Newer
    BY <2>2 DEF Start
  <2>3. ASSUME NEW w \in Workers, ServeUpdate(w) PROVE Newer
    BY <2>3 DEF ServeUpdate, PaintNew
  <2>4. ASSUME RequestPending \/ RequestWake \/ PaintAfterRequest PROVE Newer
    BY <2>4 DEF RequestPending, RequestWake, PaintAfterRequest, PaintNew
  <2>5. ASSUME StopSet \/ StopWake \/ StopJoined PROVE Newer
    <3>1. latest' = latest /\ shown' = shown
      BY <2>5, Zenon DEF StopSet, StopWake, StopJoined
    <3> QED
      BY <3>1
  <2> HIDE DEF Newer, IInv, TypeOK, Ordered
  <2>6. Newer
    BY <2>1, <2>2, <2>3, <2>4, <2>5 DEF Next
  <2> QED
    BY <2>6 DEF Newer
<1> QED
  BY <1>1, Inductive, PTL DEF Spec, NeverGoesBack

-----------------------------------------------------------------------------

\* The threads implement the service: a claim begins its collection, the
\* publication under the lock ends it, releasing busy frees it for the next.
THEOREM Implements == Spec => ImplementsService
<1>1. Init => Service!Init
  BY DEF Init, Service!Init, Working
<1>2. IInv /\ IInv' /\ [Next]_vars => [Service!Next]_(Service!vars)
  <2> SUFFICES ASSUME IInv, IInv', [Next]_vars PROVE [Service!Next]_(Service!vars)
    OBVIOUS
  <2> USE DEF IInv, TypeOK, BusyHeld, Ordered, OneCollection, shared, screen, Go
  <2> DEFINE Step == [Service!Next]_(Service!vars)
  <2>1. ASSUME NEW w \in Workers, LoopHead(w) \/ EnterWait(w) \/ WaitTimeout(w)
                 \/ ClearWake(w) \/ TestStop(w) \/ Skip(w)
        PROVE Step
    BY <2>1 DEF LoopHead, EnterWait, WaitTimeout, ClearWake, TestStop, Skip,
                Working, Service!vars
  <2>2. ASSUME NEW w \in Workers, Claim(w) PROVE Step
    BY <2>2 DEF Claim, Working, Service!Next, Service!Begin
  <2>3. ASSUME NEW w \in Workers, NEW ok \in BOOLEAN, Publish(w, ok) PROVE Step
    BY <2>3 DEF Publish, Working, Service!Next, Service!Publish
  <2>4. ASSUME NEW w \in Workers, Notify(w) \/ NotifyFails(w) \/ ServeUpdate(w)
        PROVE Step
    BY <2>4 DEF Notify, NotifyFails, ServeUpdate, PaintNew, Working, Service!vars
  <2>5. ASSUME NEW w \in Workers, Finish(w) PROVE Step
    BY <2>5 DEF Finish, Released, Working, Service!Next, Service!End
  <2>6. ASSUME NEW w \in Workers, Start(w) PROVE Step
    BY <2>6 DEF Start, Working, Service!vars
  <2>7. ASSUME RequestPending PROVE Step
    BY <2>7 DEF RequestPending, Working, Service!Next, Service!Ask
  <2>8. ASSUME RequestWake \/ StopWake PROVE Step
    BY <2>8 DEF RequestWake, StopWake, Released, Working, Service!vars
  <2>9. ASSUME PaintAfterRequest \/ StopSet \/ StopJoined \/ UNCHANGED vars
        PROVE Step
    BY <2>9 DEF PaintAfterRequest, PaintNew, StopSet, StopJoined, vars, Working,
                Service!vars
  <2> HIDE DEF Step, IInv, TypeOK, BusyHeld, Ordered, OneCollection
  <2>10. Step
    BY <2>1, <2>2, <2>3, <2>4, <2>5, <2>6, <2>7, <2>8, <2>9 DEF Next, WorkerStep
  <2> QED
    BY <2>10 DEF Step
<1> QED
  BY <1>1, <1>2, Inductive, PTL DEF Spec, ImplementsService, Service!Spec
=============================================================================
