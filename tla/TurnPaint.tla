------------------------------ MODULE TurnPaint ------------------------------
(* How a change of the turn popup gets to the screen: the notifications of   *)
(* TurnStreamWorker's threads (_notify) and of its tick, coalesced by        *)
(* StopApp._on_turn_update with two flags no lock protects, and the 70 ms    *)
(* timer that paints.  The popup's state is abstracted to how many changes   *)
(* it has seen.  The Textual thread also joins those threads: at a mode key, *)
(* at a preempt, and when the app quits.                                     *)
EXTENDS Naturals, FiniteSets

CONSTANTS Threads,       \* turn worker, message pollers, probe
          MaxChanges     \* bound on changes of the popup

ASSUME TurnPaintAssumption == MaxChanges \in Nat

VARIABLES version,       \* changes of the popup so far
          painted,       \* the change last shown
          coalesce, dirty,   \* _turn_coalesce, _turn_dirty
          timers,        \* flush timers that have not fired
          pc,            \* where each thread stands in _on_turn_update
          ui,            \* where the Textual thread stands
          onUpdate       \* the worker's on_update is set

vars == <<version, painted, coalesce, dirty, timers, pc, ui, onUpdate>>

ThreadPC == {"off", "run", "notify", "check", "mark", "claim", "post", "blocked"}
\* A handler of the Textual thread that ends in show_turn.
WillPaint == {"join", "check", "mark", "claim", "post", "paint", "flush"}
UIPC == {"idle", "dirty", "clean", "arm", "quit", "gone"} \cup WillPaint

Init == /\ version = 0 /\ painted = 0
        /\ coalesce = FALSE /\ dirty = FALSE /\ timers = 0
        /\ pc = [t \in Threads |-> "off"]
        /\ ui = "idle" /\ onUpdate = TRUE

-----------------------------------------------------------------------------
(* A thread of the worker *)

Go(t, to) == pc' = [pc EXCEPT ![t] = to]

ThreadStarts(t) == /\ pc[t] = "off" /\ ui # "gone"
                   /\ Go(t, "run")
                   /\ UNCHANGED <<version, painted, coalesce, dirty, timers, ui,
                                  onUpdate>>

ThreadEnds(t) == /\ pc[t] = "run"
                 /\ Go(t, "off")
                 /\ UNCHANGED <<version, painted, coalesce, dirty, timers, ui,
                                onUpdate>>

Change(t) == /\ pc[t] = "run" /\ version < MaxChanges
             /\ version' = version + 1
             /\ Go(t, "notify")
             /\ UNCHANGED <<painted, coalesce, dirty, timers, ui, onUpdate>>

\* _notify
Notify(t) == /\ pc[t] = "notify"
             /\ Go(t, IF onUpdate THEN "check" ELSE "run")
             /\ UNCHANGED <<version, painted, coalesce, dirty, timers, ui, onUpdate>>

\* _on_turn_update: the flag is read, then written.
CheckFlag(t) == /\ pc[t] = "check"
                /\ Go(t, IF coalesce THEN "mark" ELSE "claim")
                /\ UNCHANGED <<version, painted, coalesce, dirty, timers, ui,
                               onUpdate>>

MarkDirty(t) == /\ pc[t] = "mark"
                /\ dirty' = TRUE
                /\ Go(t, "run")
                /\ UNCHANGED <<version, painted, coalesce, timers, ui, onUpdate>>

\* Mutant: the flag is raised, the paint is not asked for.
ClaimOnly(t) == /\ pc[t] = "claim"
                /\ coalesce' = TRUE
                /\ Go(t, "run")
                /\ UNCHANGED <<version, painted, dirty, timers, ui, onUpdate>>

ClaimFlag(t) == /\ pc[t] = "claim"
                /\ coalesce' = TRUE
                /\ Go(t, "post")
                /\ UNCHANGED <<version, painted, dirty, timers, ui, onUpdate>>

\* call_from_thread: the caller waits until the Textual thread has run it.
Post(t) == /\ pc[t] = "post" /\ ui # "gone"
           /\ Go(t, "blocked")
           /\ UNCHANGED <<version, painted, coalesce, dirty, timers, ui, onUpdate>>

\* The app's loop is over: call_from_thread raises.
PostFails(t) == /\ pc[t] \in {"post", "blocked"} /\ ui = "gone"
                /\ coalesce' = FALSE
                /\ Go(t, "run")
                /\ UNCHANGED <<version, painted, dirty, timers, ui, onUpdate>>

ThreadStep(t) == \/ Notify(t) \/ CheckFlag(t) \/ MarkDirty(t) \/ ClaimFlag(t)
                 \/ Post(t) \/ PostFails(t)

-----------------------------------------------------------------------------
(* The Textual thread *)

UIAt(to) == ui' = to

\* _schedule_turn_paint, posted by a thread.
Schedule(t) == /\ ui = "idle" /\ pc[t] = "blocked"
               /\ timers' = timers + 1
               /\ Go(t, "run")
               /\ UNCHANGED <<version, painted, coalesce, dirty, ui, onUpdate>>

\* Mutant: the flag stays up while the flush paints.
TimerFiresFlagged == /\ ui = "idle" /\ timers > 0
                     /\ timers' = timers - 1
                     /\ UIAt("flush")
                     /\ UNCHANGED <<version, painted, coalesce, dirty, pc, onUpdate>>

\* _flush_turn_paint: first the flag, so that whoever comes later asks again,
TimerFires == /\ ui = "idle" /\ timers > 0
              /\ timers' = timers - 1
              /\ coalesce' = FALSE
              /\ UIAt("flush")
              /\ UNCHANGED <<version, painted, dirty, pc, onUpdate>>

\* then the paint,
FlushPaints == /\ ui = "flush"
               /\ painted' = version
               /\ UIAt("dirty")
               /\ UNCHANGED <<version, coalesce, dirty, timers, pc, onUpdate>>

\* then one more timer for those who found the flag up.
FlushLooks == /\ ui = "dirty"
              /\ UIAt(IF dirty THEN "clean" ELSE "idle")
              /\ UNCHANGED <<version, painted, coalesce, dirty, timers, pc, onUpdate>>

FlushCleans == /\ ui = "clean"
               /\ dirty' = FALSE
               /\ UIAt("arm")
               /\ UNCHANGED <<version, painted, coalesce, timers, pc, onUpdate>>

FlushArms == /\ ui = "arm"
             /\ coalesce' = TRUE
             /\ timers' = timers + 1
             /\ UIAt("idle")
             /\ UNCHANGED <<version, painted, dirty, pc, onUpdate>>

\* A tick or a mode key: it may change the popup, join threads, and notify.
Handle == /\ ui = "idle"
          /\ version' \in {version, version + 1} /\ version' <= MaxChanges
          /\ \E next \in {"join", "check", "paint"} : UIAt(next)
          /\ UNCHANGED <<painted, coalesce, dirty, timers, pc, onUpdate>>

\* join(timeout) is over, one way or the other; a preempt goes on to seek.
HandleJoined == /\ ui = "join"
                /\ version' \in {version, version + 1} /\ version' <= MaxChanges
                /\ \E next \in {"check", "paint"} : UIAt(next)
                /\ UNCHANGED <<painted, coalesce, dirty, timers, pc, onUpdate>>

\* tick's own _notify goes through _on_turn_update as well,
HandleChecks == /\ ui = "check"
                /\ UIAt(IF coalesce THEN "mark" ELSE "claim")
                /\ UNCHANGED <<version, painted, coalesce, dirty, timers, pc, onUpdate>>

HandleMarks == /\ ui = "mark"
               /\ dirty' = TRUE
               /\ UIAt("paint")
               /\ UNCHANGED <<version, painted, coalesce, timers, pc, onUpdate>>

HandleClaims == /\ ui = "claim"
                /\ coalesce' = TRUE
                /\ UIAt("post")
                /\ UNCHANGED <<version, painted, dirty, timers, pc, onUpdate>>

\* where call_from_thread raises on the app's own thread, and the flag drops.
HandleRefused == /\ ui = "post"
                 /\ coalesce' = FALSE
                 /\ UIAt("paint")
                 /\ UNCHANGED <<version, painted, dirty, timers, pc, onUpdate>>

\* Mutant: the handler does not end in show_turn.
HandleNoPaint == /\ ui = "paint"
                 /\ UIAt("idle")
                 /\ UNCHANGED <<version, painted, coalesce, dirty, timers, pc, onUpdate>>

\* show_turn, last thing of the handler.
HandlePaints == /\ ui = "paint"
                /\ painted' = version
                /\ UIAt("idle")
                /\ UNCHANGED <<version, coalesce, dirty, timers, pc, onUpdate>>

\* on_unmount: shutdown() clears on_update and joins.
Quit == /\ ui = "idle"
        /\ onUpdate' = FALSE
        /\ UIAt("quit")
        /\ UNCHANGED <<version, painted, coalesce, dirty, timers, pc>>

QuitJoined == /\ ui = "quit"
              /\ timers' = 0
              /\ UIAt("gone")
              /\ UNCHANGED <<version, painted, coalesce, dirty, pc, onUpdate>>

UIStep == \/ TimerFires \/ FlushPaints \/ FlushLooks \/ FlushCleans \/ FlushArms
          \/ HandleJoined \/ HandleChecks \/ HandleMarks \/ HandleClaims
          \/ HandleRefused \/ HandlePaints \/ QuitJoined

Next == \/ \E t \in Threads : \/ ThreadStarts(t) \/ ThreadEnds(t) \/ Change(t)
                              \/ ThreadStep(t) \/ Schedule(t)
        \/ UIStep \/ Handle \/ Quit

\* Threads run; the Textual loop takes what is posted and its timers in turn.
Fairness == /\ \A t \in Threads : WF_vars(ThreadStep(t)) /\ SF_vars(Schedule(t))
            /\ SF_vars(TimerFires) /\ WF_vars(UIStep)

Spec == Init /\ [][Next]_vars
FairSpec == Spec /\ Fairness

-----------------------------------------------------------------------------
(* Properties *)

TypeOK == /\ version \in Nat /\ painted \in Nat
          /\ coalesce \in BOOLEAN /\ dirty \in BOOLEAN /\ timers \in Nat
          /\ pc \in [Threads -> ThreadPC]
          /\ ui \in UIPC /\ onUpdate \in BOOLEAN

\* A flag that is up has a paint behind it: whoever finds it up may leave.
FlagBacked ==
  coalesce /\ onUpdate =>
    \/ timers > 0
    \/ ui = "post"
    \/ \E t \in Threads : pc[t] \in {"post", "blocked"}

\* No change is left unpainted with nobody to paint it: whatever order threads,
\* timer and handlers run in, a change not yet shown has somebody about to
\* notify, a timer, or a handler that ends in show_turn.
PaintOwed ==
  painted # version /\ onUpdate =>
    \/ timers > 0
    \/ ui \in WillPaint \cup {"arm"}
    \/ \E t \in Threads : pc[t] \in {"notify", "check", "claim", "post", "blocked"}

\* "Worker thread -> UI": every change gets to the screen without waiting for a
\* later change, a key or a refresh, unless the app quits.
ChangesPainted ==
  \A n \in 1..MaxChanges : version >= n ~> (painted >= n \/ ~onUpdate)

=============================================================================
