------------------------------- MODULE LogFeed -------------------------------
(* How the output of a GNU screen session reaches the log of the window pane:  *)
(* LiveHost.read_scrollback and its cache (src/src/stop/host.py), and           *)
(* LiveLogFeed.sync with diff_log_lines (src/src/stop/livelog.py) as            *)
(* WindowPane.show_agent (app.py) drives it.  A hardcopy may fail or come out   *)
(* half written, screens restart, and the selection moves.                      *)
(* A line is its screen and its number there, so two lines are never the same   *)
(* text (a Broca log line starts with its time).                                *)
EXTENDS Naturals, Sequences, SequencesExt

CONSTANTS Screens,
          None,       \* no window is selected
          Page,       \* SCROLLBACK_MAX_LINES: lines a reading keeps (120)
          Kept,       \* max_lines of the log (400)
          Guarded,    \* a text with so many lines, or newlines, is not given up for a short one (40)
          Floor,      \* what counts as short whatever the length before (10)
          MaxLine     \* bound: lines each screen ever writes

ASSUME LogAssumption == /\ None \notin Screens
                        /\ {Page, Kept, Guarded, Floor} \subseteq Nat \ {0}
                        /\ MaxLine \in [Screens -> Nat]
                        /\ Page <= Kept

VARIABLES alive,     \* screens of the host
          made,      \* lines each has written
          content,   \* its scrollback, as much as a reading keeps
          slow,      \* hardcopies may fail or be cut short
          text,      \* last_scrollback in the snapshot, and _scroll_cache
          selected,  \* window shown
          key,       \* _source_key of the pane's feed
          lines,     \* _lines of the feed
          log        \* what the RichLog holds

host == <<alive, made, content, slow>>
pane == <<selected, key, lines, log>>
vars == <<host, text, pane>>

LastOf(s, n) == SubSeq(s, IF Len(s) > n THEN Len(s) - n + 1 ELSE 1, Len(s))

\* The rule both read_scrollback and diff_log_lines have against a dump cut short:
\* the one counts newlines, of which a text has one less than lines, the other lines.
Short(old, new) == old >= Guarded /\ (new < Floor \/ new < old \div 3)
Newlines(s) == Len(s) - 1
ShortDump(cached, dump) == cached # << >> /\ Short(Newlines(cached), Newlines(dump))
ShortTail(old, new) == Short(Len(old), Len(new))

Init == /\ alive = {} /\ slow = FALSE
        /\ made = [s \in Screens |-> 0]
        /\ content = [s \in Screens |-> << >>]
        /\ text = content
        /\ selected = None /\ key = None /\ lines = << >> /\ log = << >>

-----------------------------------------------------------------------------
(* The host *)

Starts(s) == /\ s \notin alive
             /\ alive' = alive \cup {s}
             /\ content' = [content EXCEPT ![s] = << >>]
             /\ UNCHANGED <<made, slow, text, pane>>

Stops(s) == /\ alive' = alive \ {s} /\ s \in alive
            /\ UNCHANGED <<made, content, slow, text, pane>>

Writes(s) == /\ s \in alive /\ made[s] < MaxLine[s]
             /\ made' = [made EXCEPT ![s] = @ + 1]
             /\ content' = [content EXCEPT ![s] = LastOf(Append(@, <<s, made'[s]>>), Page)]
             /\ UNCHANGED <<alive, slow, text, pane>>

Wipes(s) == /\ s \in alive /\ content[s] # << >>
            /\ content' = [content EXCEPT ![s] = << >>]
            /\ UNCHANGED <<alive, made, slow, text, pane>>

SlowChanges == slow' = ~ slow /\ UNCHANGED <<alive, made, content, text, pane>>

-----------------------------------------------------------------------------
(* One snapshot *)

\* Mutant: a text is kept until one as long comes.
ReadLongest(cached, dump) == IF Len(dump) < Len(cached) THEN cached ELSE dump

\* read_scrollback for a dump that is there: an empty screen is believed, a
\* short page is not.
Read(cached, dump) == IF dump # << >> /\ ShortDump(cached, dump) THEN cached ELSE dump

\* What a hardcopy brings: when the machine is slow, any part of the page, or
\* nothing, and then the cached text stands.
Readings(s) == {Read(text[s], content[s])} \cup
               IF slow THEN {text[s]} \cup {Read(text[s], SubSeq(content[s], 1, n)) : n \in 1..Len(content[s])}
               ELSE {}

\* snapshot() with a hardcopy of the screens in batch: the others keep their
\* cache, a session that is gone loses it.
Snapshot(batch) == /\ text' \in [Screens -> UNION {Readings(s) : s \in batch} \cup {text[s] : s \in Screens} \cup {<< >>}]
                   /\ \A s \in Screens :
                        CASE s \notin alive -> text'[s] = << >>
                          [] s \in batch -> text'[s] \in Readings(s)
                          [] OTHER -> text'[s] = text[s]
                   /\ UNCHANGED <<host, pane>>

-----------------------------------------------------------------------------
(* The pane *)

\* RichLog.write of each of these lines.
Written(old, new) == LastOf(old \o new, Kept)

\* The longest end of old that new begins with.
Overlap(old, new) ==
  LET Both == {n \in 1..Len(old) : /\ n <= Len(new)
                                   /\ SubSeq(old, Len(old) - n + 1, Len(old)) = SubSeq(new, 1, n)}
  IN IF Both = {} THEN 0 ELSE CHOOSE n \in Both : \A m \in Both : m <= n

\* Mutant: the common line is written again.
ExtendTwice(new, n) == /\ log' = Written(log, SubSeq(new, n, Len(new)))
                       /\ lines' = new

\* Mode "append": only what comes after the first n lines is written.
Extend(new, n) == /\ log' = Written(log, SubSeq(new, n + 1, Len(new)))
                  /\ lines' = new

\* Mode "replace".
Replace(new) == log' = Written(<< >>, new) /\ lines' = new

\* Mutant: a window's text is not told from another's.
SyncAnySource(window, new) ==
  /\ key' = window
  /\ CASE lines = << >> -> Replace(new)
       [] new = << >> \/ ShortTail(lines, new) -> UNCHANGED <<lines, log>>
       [] Overlap(lines, new) > 0 -> Extend(new, Overlap(lines, new))
       [] OTHER -> Replace(new)

\* LiveLogFeed.sync: another source replaces, else diff_log_lines decides; a
\* text that starts with all of the old one is the longest overlap.
Sync(window, new) ==
  /\ key' = window
  /\ CASE key # window \/ lines = << >> -> Replace(new)
       [] key = window /\ lines # << >> /\ (new = << >> \/ ShortTail(lines, new)) -> UNCHANGED <<lines, log>>
       [] OTHER -> IF Overlap(lines, new) > 0 THEN Extend(new, Overlap(lines, new))
                   ELSE Replace(new)

\* A paint of the snapshot shows the selected window.
Paint == /\ selected # None
         /\ Sync(selected, text[selected])
         /\ UNCHANGED <<host, text, selected>>

\* A key or a lost row moves the selection; the pane is painted at once.
Select(s) == /\ selected' = s
             /\ Sync(s, text[s])
             /\ UNCHANGED <<host, text>>

\* Mutant: the log is cleared under the feed.
DeselectLogOnly == /\ selected' = None /\ log' = << >>
                   /\ UNCHANGED <<host, text, key, lines>>

\* A filter that matches nobody: no agent, or none with a window.
Deselect == /\ selected' = None /\ key' = None /\ lines' = << >> /\ log' = << >>
            /\ UNCHANGED <<host, text>>

-----------------------------------------------------------------------------

Next == \/ \E s \in Screens : Starts(s) \/ Stops(s) \/ Writes(s) \/ Wipes(s) \/ Select(s)
        \/ SlowChanges
        \/ \E batch \in SUBSET alive : Snapshot(batch)
        \/ Paint
        \/ Deselect

\* The pane's window is first in the batch, batches keep coming, and each
\* snapshot is painted.
Fairness == /\ WF_vars(\E batch \in SUBSET alive : selected \in batch /\ Snapshot(batch))
            /\ WF_vars(Paint)

Spec == Init /\ [][Next]_vars
FairSpec == Spec /\ Fairness

-----------------------------------------------------------------------------
(* Properties *)

Line == Screens \X Nat

TypeOK == /\ alive \subseteq Screens /\ slow \in BOOLEAN
          /\ made \in [Screens -> Nat]
          /\ content \in [Screens -> Seq(Line)] /\ text \in [Screens -> Seq(Line)]
          /\ \A s \in Screens : Len(content[s]) <= Page /\ Len(text[s]) <= Page
          /\ selected \in Screens \cup {None} /\ key \in Screens \cup {None}
          /\ lines \in Seq(Line) /\ Len(lines) <= Page
          /\ log \in Seq(Line) /\ Len(log) <= Kept

\* The feed compares a new text with what it believes the log ends with; were it
\* wrong, lines would be lost or doubled: the log ends with the feed's lines.
EndsWithFeed == IsSuffix(lines, log)

\* "never leave another agent's lines painted under the newly selected agent's
\* title": every line on the log is the selected window's.
OwnLines == \A i \in 1..Len(log) : log[i][1] = selected

\* Neither a failed, a cut nor a cached hardcopy makes the log skip or repeat a
\* line: what it holds is one unbroken piece of what the screen wrote.
Unbroken == \A i \in 1..(Len(log) - 1) : log[i + 1][2] = log[i][2] + 1

\* The rules against short dumps do not keep an old text for good: once the
\* shown screen rests with a text that is not short, the log ends with it.
LongEnough(s) == Newlines(content[s]) >= Floor /\ Newlines(content[s]) >= Page \div 3
CaughtUp ==
  \A s \in Screens : /\ <>[](selected = s /\ s \in alive /\ ~ slow /\ LongEnough(s))
                     /\ <>[][UNCHANGED content]_vars
                     => <>[](IsSuffix(content[s], log))
=============================================================================
