-------------------------- MODULE SnapshotService --------------------------
(* What the collector promises its callers, apart from threads and events:   *)
(* asks are numbered, one collection runs at a time, a collection covers     *)
(* every ask made before it began, each ends in exactly one new revision,    *)
(* and a failed one leaves the last good snapshot in place.                  *)
EXTENDS Naturals

VARIABLES asked,      \* number of the newest ask
          covers,     \* the newest ask the last begun collection covers
          phase,      \* of that collection: "idle", "collecting", "published"
          revision,   \* revisions published so far
          good        \* the ask the last good snapshot covers, 0: none yet

vars == <<asked, covers, phase, revision, good>>

Init == /\ asked = 0
        /\ covers = 0
        /\ phase = "idle"
        /\ revision = 0
        /\ good = 0

Ask == /\ asked' = asked + 1
       /\ UNCHANGED <<covers, phase, revision, good>>

Begin == /\ phase = "idle"
         /\ covers < asked
         /\ covers' = asked
         /\ phase' = "collecting"
         /\ UNCHANGED <<asked, revision, good>>

Publish == /\ phase = "collecting"
           /\ phase' = "published"
           /\ revision' = revision + 1
           /\ good' \in {good, covers}
           /\ UNCHANGED <<asked, covers>>

End == /\ phase = "published"
       /\ phase' = "idle"
       /\ UNCHANGED <<asked, covers, revision, good>>

Next == Ask \/ Begin \/ Publish \/ End

Spec == Init /\ [][Next]_vars
=============================================================================
