----------------------------- MODULE Collector -----------------------------
(* HostCollector (src/src/stop/collector.py): the worker thread that owns    *)
(* host.snapshot(), the Textual thread that starts it, stops it, asks it and *)
(* paints what it publishes (app.py refresh_host, _paint_from_collector,     *)
(* on_unmount).  A worker that outlives stop()'s bounded join keeps running, *)
(* so several workers can be alive.  The content of a snapshot is abstracted *)
(* to the number of the newest request made before its collection began.     *)
EXTENDS Integers, FiniteSets

CONSTANTS Workers,        \* threads start() can create
          NoThread,       \* _thread is None
          MaxRequests     \* bound on requests

ASSUME CollectorAssumption == /\ NoThread \notin Workers
                              /\ MaxRequests \in Nat

VARIABLES stop, wake,     \* the two threading.Events
          pending, busy, revision, error,   \* fields under _lock
          latest,         \* _latest: the request it covers, 0 for None
          pc,             \* where each worker stands
          asOf,           \* the request the worker's collection covers
          thread,         \* _thread
          ui,             \* where the Textual thread stands
          onUpdate,       \* on_update is set
          painted, shown, \* _painted_rev and _snap of the app
          asked, claimed, answered   \* history: newest request made, covered
                                     \* by a begun and by a published collection

shared == <<pending, busy, revision, error, latest>>
screen == <<painted, shown>>
vars == <<stop, wake, pending, busy, revision, error, latest, pc, asOf, thread,
          ui, onUpdate, painted, shown, asked, claimed, answered>>

\* The worker is between taking busy and releasing it.
Working == {"snap", "notify", "blocked", "finish"}
WorkerPC == {"off", "head", "enter", "waiting", "clear", "test", "claim"} \cup Working
UIPC == {"idle", "startReq", "startWake", "reqWake", "paint", "stopWake", "join"}

Init == /\ stop = FALSE /\ wake = FALSE
        /\ pending = FALSE /\ busy = FALSE /\ revision = 0 /\ error = FALSE
        /\ latest = 0
        /\ pc = [w \in Workers |-> "off"]
        /\ asOf = [w \in Workers |-> 0]
        /\ thread = NoThread
        /\ ui = "idle"
        /\ onUpdate = TRUE
        /\ painted = -1 /\ shown = 0
        /\ asked = 0 /\ claimed = 0 /\ answered = 0

\* Event.set releases every thread inside Event.wait.
Released(at) == [w \in Workers |-> IF at[w] = "waiting" THEN "clear" ELSE at[w]]

-----------------------------------------------------------------------------
(* The worker: _run *)

Go(w, to) == pc' = [pc EXCEPT ![w] = to]

LoopHead(w) == /\ pc[w] = "head"
               /\ Go(w, IF stop THEN "off" ELSE "enter")
               /\ UNCHANGED <<stop, wake, shared, asOf, thread, ui, onUpdate,
                              screen, asked, claimed, answered>>

EnterWait(w) == /\ pc[w] = "enter"
                /\ Go(w, IF wake THEN "clear" ELSE "waiting")
                /\ UNCHANGED <<stop, wake, shared, asOf, thread, ui, onUpdate,
                               screen, asked, claimed, answered>>

WaitTimeout(w) == /\ pc[w] = "waiting"
                  /\ Go(w, "clear")
                  /\ UNCHANGED <<stop, wake, shared, asOf, thread, ui, onUpdate,
                                 screen, asked, claimed, answered>>

ClearWake(w) == /\ pc[w] = "clear"
                /\ wake' = FALSE
                /\ Go(w, "test")
                /\ UNCHANGED <<stop, shared, asOf, thread, ui, onUpdate,
                               screen, asked, claimed, answered>>

TestStop(w) == /\ pc[w] = "test"
               /\ Go(w, IF stop THEN "off" ELSE "claim")
               /\ UNCHANGED <<stop, wake, shared, asOf, thread, ui, onUpdate,
                              screen, asked, claimed, answered>>

Skip(w) == /\ pc[w] = "claim"
           /\ ~pending \/ busy
           /\ Go(w, "head")
           /\ UNCHANGED <<stop, wake, shared, asOf, thread, ui, onUpdate,
                          screen, asked, claimed, answered>>

\* Mutant: the busy flag is not looked at.
ClaimUnguarded(w) == /\ pc[w] = "claim" /\ pending
                     /\ pending' = FALSE
                     /\ busy' = TRUE
                     /\ asOf' = [asOf EXCEPT ![w] = asked]
                     /\ claimed' = asked
                     /\ Go(w, "snap")
                     /\ UNCHANGED <<stop, wake, revision, error, latest, thread,
                                    ui, onUpdate, screen, asked, answered>>

Claim(w) == /\ pc[w] = "claim"
            /\ pending /\ ~busy
            /\ pending' = FALSE
            /\ busy' = TRUE
            /\ asOf' = [asOf EXCEPT ![w] = asked]
            /\ claimed' = asked
            /\ Go(w, "snap")
            /\ UNCHANGED <<stop, wake, revision, error, latest, thread, ui,
                           onUpdate, screen, asked, answered>>

\* Mutants: a failure resets _latest to None;
\* only a good snapshot gets a revision.
PublishWith(w, ok, rev, onFailure) ==
  /\ pc[w] = "snap"
  /\ latest' = IF ok THEN asOf[w] ELSE onFailure
  /\ error' = ~ok
  /\ revision' = rev
  /\ answered' = asOf[w]
  /\ Go(w, "notify")
  /\ UNCHANGED <<stop, wake, pending, busy, asOf, thread, ui, onUpdate, screen,
                 asked, claimed>>
PublishEmpty(w, ok) == PublishWith(w, ok, revision + 1, 0)
PublishGoodOnly(w, ok) == PublishWith(w, ok, IF ok THEN revision + 1 ELSE revision, latest)

\* snapshot() returned, or raised and only the error is published.
Publish(w, ok) == /\ pc[w] = "snap"
                  /\ latest' = IF ok THEN asOf[w] ELSE latest
                  /\ error' = ~ok
                  /\ revision' = revision + 1
                  /\ answered' = asOf[w]
                  /\ Go(w, "notify")
                  /\ UNCHANGED <<stop, wake, pending, busy, asOf, thread, ui,
                                 onUpdate, screen, asked, claimed>>

\* Mutant: the callback is never called.
NotifyNobody(w) == /\ pc[w] = "notify"
                   /\ Go(w, "finish")
                   /\ UNCHANGED <<stop, wake, shared, asOf, thread, ui, onUpdate,
                                  screen, asked, claimed, answered>>

\* call_from_thread blocks the worker until the Textual thread has run it.
Notify(w) == /\ pc[w] = "notify"
             /\ Go(w, IF onUpdate THEN "blocked" ELSE "finish")
             /\ UNCHANGED <<stop, wake, shared, asOf, thread, ui, onUpdate,
                            screen, asked, claimed, answered>>

\* Mutant: the worker waits on for an app that is gone.
NotifyWaits(w) == pc[w] = "blocked" /\ ~onUpdate /\ ui = "idle" /\ UNCHANGED vars

\* The app's loop has ended: call_from_thread raises and is swallowed.
NotifyFails(w) == /\ pc[w] = "blocked"
                  /\ ~onUpdate /\ ui = "idle"
                  /\ Go(w, "finish")
                  /\ UNCHANGED <<stop, wake, shared, asOf, thread, ui, onUpdate,
                                 screen, asked, claimed, answered>>

\* Mutants: the event is not set again; busy is not released.
FinishAsleep(w) == /\ pc[w] = "finish"
                   /\ busy' = FALSE
                   /\ Go(w, "head")
                   /\ UNCHANGED <<stop, wake, pending, revision, error, latest, asOf,
                                  thread, ui, onUpdate, screen, asked, claimed,
                                  answered>>
FinishBusy(w) == /\ pc[w] = "finish"
                 /\ Go(w, "head")
                 /\ UNCHANGED <<stop, wake, shared, asOf, thread, ui, onUpdate,
                                screen, asked, claimed, answered>>

Finish(w) == /\ pc[w] = "finish"
             /\ busy' = FALSE
             /\ IF pending /\ ~stop
                THEN /\ wake' = TRUE
                     /\ pc' = Released([pc EXCEPT ![w] = "head"])
                ELSE /\ wake' = wake
                     /\ Go(w, "head")
             /\ UNCHANGED <<stop, pending, revision, error, latest, asOf, thread,
                            ui, onUpdate, screen, asked, claimed, answered>>

WorkerStep(w) == \/ LoopHead(w) \/ EnterWait(w) \/ WaitTimeout(w)
                 \/ ClearWake(w) \/ TestStop(w) \/ Skip(w) \/ Claim(w)
                 \/ \E ok \in BOOLEAN : Publish(w, ok)
                 \/ Notify(w) \/ NotifyFails(w) \/ Finish(w)

-----------------------------------------------------------------------------
(* The Textual thread *)

Alive(t) == t # NoThread /\ pc[t] # "off"

\* start(): a no-op while the thread it knows is alive.
Start(w) == /\ ui = "idle"
            /\ ~Alive(thread)
            /\ pc[w] = "off"
            /\ asked < MaxRequests
            /\ stop' = FALSE
            /\ thread' = w
            /\ Go(w, "head")
            /\ ui' = "startReq"
            /\ UNCHANGED <<wake, shared, asOf, onUpdate, screen, asked, claimed,
                           answered>>

\* request(): pending under the lock, then the event.
RequestPending == /\ \/ ui = "startReq" /\ ui' = "startWake"
                     \/ ui = "idle" /\ asked < MaxRequests /\ ui' = "reqWake"
                  /\ pending' = TRUE
                  /\ asked' = asked + 1
                  /\ UNCHANGED <<stop, wake, busy, revision, error, latest, pc,
                                 asOf, thread, onUpdate, screen, claimed, answered>>

\* refresh_host goes on to paint what is there; start() returns.
RequestWake == /\ \/ ui = "startWake" /\ ui' = "idle"
                  \/ ui = "reqWake" /\ ui' = "paint"
               /\ wake' = TRUE
               /\ pc' = Released(pc)
               /\ UNCHANGED <<stop, shared, asOf, thread, onUpdate, screen,
                              asked, claimed, answered>>

\* _paint_from_collector
PaintNew == IF latest = 0 \/ revision = painted
            THEN UNCHANGED screen
            ELSE painted' = revision /\ shown' = latest

PaintAfterRequest == /\ ui = "paint"
                     /\ PaintNew
                     /\ ui' = "idle"
                     /\ UNCHANGED <<stop, wake, shared, pc, asOf, thread,
                                    onUpdate, asked, claimed, answered>>

\* The callback a blocked worker posted runs.
ServeUpdate(w) == /\ ui = "idle" /\ onUpdate
                  /\ pc[w] = "blocked"
                  /\ PaintNew
                  /\ Go(w, "finish")
                  /\ UNCHANGED <<stop, wake, shared, asOf, thread, ui, onUpdate,
                                 asked, claimed, answered>>

\* stop(), after on_update is cleared when it comes from on_unmount.
StopSet == /\ ui = "idle"
           /\ stop' = TRUE
           /\ onUpdate' \in {onUpdate, FALSE}
           /\ ui' = "stopWake"
           /\ UNCHANGED <<wake, shared, pc, asOf, thread, screen, asked, claimed,
                          answered>>

StopWake == /\ ui = "stopWake"
            /\ wake' = TRUE
            /\ pc' = Released(pc)
            /\ ui' = "join"
            /\ UNCHANGED <<stop, shared, asOf, thread, onUpdate, screen, asked,
                           claimed, answered>>

\* join(timeout) returns because the worker ended or because time ran out.
StopJoined == /\ ui = "join"
              /\ thread' = NoThread
              /\ ui' = "idle"
              /\ UNCHANGED <<stop, wake, shared, pc, asOf, onUpdate, screen,
                             asked, claimed, answered>>

UIBusyStep == \/ ui = "startReq" /\ RequestPending
              \/ RequestWake \/ PaintAfterRequest \/ StopWake \/ StopJoined

Next == \/ \E w \in Workers : WorkerStep(w) \/ Start(w) \/ ServeUpdate(w)
        \/ RequestPending \/ RequestWake \/ PaintAfterRequest
        \/ StopSet \/ StopWake \/ StopJoined

\* Threads are scheduled; the Textual loop runs posted callbacks in order, so
\* one that is possible again and again is run.  Nothing forces a start, a
\* stop or a refresh.
Fairness == /\ \A w \in Workers : WF_vars(WorkerStep(w)) /\ SF_vars(ServeUpdate(w))
            /\ \A w \in Workers : SF_vars(NotifyFails(w))
            /\ WF_vars(UIBusyStep)

Spec == Init /\ [][Next]_vars
FairSpec == Spec /\ Fairness

-----------------------------------------------------------------------------
(* Properties *)

TypeOK == /\ stop \in BOOLEAN /\ wake \in BOOLEAN
          /\ pending \in BOOLEAN /\ busy \in BOOLEAN
          /\ revision \in Nat /\ error \in BOOLEAN /\ latest \in Nat
          /\ pc \in [Workers -> WorkerPC]
          /\ asOf \in [Workers -> Nat]
          /\ thread \in Workers \cup {NoThread}
          /\ ui \in UIPC
          /\ onUpdate \in BOOLEAN
          /\ painted \in Int /\ shown \in Nat
          /\ asked \in Nat /\ claimed \in Nat /\ answered \in Nat

\* "One serialized worker that owns host.snapshot()": even when a worker
\* outlives stop() and start() adds another, no two collections overlap.
OneCollection == \A v, w \in Workers :
                   pc[v] \in Working /\ pc[w] \in Working => v = w

\* No request depends on the half-second poll: while one waits to be taken, the
\* event is set, or a thread is on a path that takes it or sets the event.
RequestKeepsWake ==
  pending /\ ~stop /\ thread # NoThread =>
     \/ wake
     \/ ui \in {"startReq", "startWake", "reqWake"}
     \/ \E w \in Workers : pc[w] \in {"test", "claim"} \cup Working

\* A later revision never shows an older view of the host than an earlier one,
\* neither in _latest nor on the screen.
NeverGoesBack == [][latest' >= latest /\ shown' >= shown]_vars

\* A request made of a started collector is answered by a collection that
\* began after it, or the collector is stopped.
RequestAnswered == \A n \in 1..MaxRequests :
                     (asked >= n /\ thread # NoThread /\ ~stop) ~> (answered >= n \/ stop)

\* Every published revision gets to the screen, unless the app is closing.
RevisionPainted == \A n \in 1..MaxRequests :
                     (latest > 0 /\ revision >= n) ~> (painted >= n \/ ~onUpdate)

\* stop() ends every worker, also those it did not wait for, unless start()
\* clears the flag before they look at it.
StopEndsWorkers == stop ~> (~stop \/ \A w \in Workers : pc[w] = "off")

\* The service the threads implement.
Service == INSTANCE SnapshotService WITH
             covers <- claimed,
             good <- latest,
             phase <- IF \E w \in Workers : pc[w] = "snap" THEN "collecting"
                      ELSE IF \E w \in Workers : pc[w] \in Working THEN "published"
                      ELSE "idle"

ImplementsService == Service!Spec
=============================================================================
