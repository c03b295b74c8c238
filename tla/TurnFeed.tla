------------------------------ MODULE TurnFeed ------------------------------
(* What the text of a turn's popup is made of (src/src/stop/turn_stream.py):     *)
(* _consume_stream, which reads the event stream of a Letta run, its poller,      *)
(* which fetches the run's messages meanwhile, the merging of the two, and the     *)
(* text left when the run is over.  Letta answers late, in part, or not at all;    *)
(* the stream ends early, is opened again and replays from the start; and a worker *)
(* whose turn was given up may close the response this one reads.                  *)
(* A text is a sequence of messages, newlines and the header of the user's    *)
(* words.  A text that is cut loses whole pieces: one cut through counts as kept.  *)
(* The worker's generation stays current (TurnStream has the rest); messages of    *)
(* equal text are left out.                                                        *)
EXTENDS Naturals, Sequences, FiniteSets

CONSTANTS Kind,      \* Kind[m]: "think" (or a tool) or "say", of the run's messages
          Newline, Query,           \* the other pieces of a text
          Panel, Failure, Marker,   \* the waiting panel, an error, "turn complete"
          Size,      \* characters of a piece
          Unnamed,   \* messages that came without an id
          Quotes,    \* messages, or the user's words, that quote the panel's words
          Limit,     \* messages that a fetch lists (100)
          Room,      \* characters that the popup holds (12,000)
          MaxCopies  \* bound: how often the stream's replays bring an unnamed message

Messages == DOMAIN Kind
N == Len(Kind)
Piece == Messages \cup {Newline, Query, Panel, Failure, Marker}
Named == Messages \ Unnamed
Header == <<Query, Newline, Newline>>

ASSUME FeedAssumption == /\ Kind \in Seq({"think", "say"}) \ {<< >>}
                         /\ Messages \cap {Newline, Query, Panel, Failure, Marker} = {}
                         /\ Cardinality({Newline, Query, Panel, Failure, Marker}) = 5
                         /\ Size \in [Piece -> Nat \ {0}]
                         /\ Unnamed \subseteq Messages /\ Quotes \subseteq Messages \cup {Query}
                         /\ Limit \in Nat \ {0} /\ Room \in Nat /\ MaxCopies \in Nat
                         /\ Room > Size[Query] + Size[Newline] + Size[Newline]

VARIABLES produced,  \* messages the run has made
          landed,    \* of those, the ones the messages endpoint has
          asked,     \* it has the user's words too
          status,    \* of the run: "running" or "done"
          text, query, saw,       \* state.text, state.query (or not), saw_waiting_query
          known, buf,             \* known_ids, buf_lines
          pc,        \* where the worker is
          sent,      \* messages the open stream has brought
          closed,    \* somebody else closed the response it reads
          api, best, words, over, \* api_text, text_now, q and the last status: done?
          poll, rows,             \* where the poller is, and what it fetched
          stale,     \* the worker given up is still there
          late,      \* the turn's 900 seconds are over
          excused    \* history: "no"; or the poller did not "join"; or the last fetch
                     \* brought a "part", or was "early": the run was not done yet

run == <<produced, landed, asked, status>>
panel == <<text, query, saw>>
stream == <<buf, sent, closed>>
final == <<api, best, words, over>>
poller == <<poll, rows>>
vars == <<run, panel, known, pc, stream, final, poller, stale, late, excused>>

Failed == <<Failure>>
Complete == <<Marker>>

-----------------------------------------------------------------------------
(* Texts *)

Length(t) == LET L[i \in 0..Len(t)] == IF i = 0 THEN 0 ELSE L[i - 1] + Size[t[i]] IN L[Len(t)]
Within(a, b) == \E i \in 0..(Len(b) - Len(a)) : SubSeq(b, i + 1, i + Len(a)) = a

\* ordered_unique_message_text: these messages in order, an empty line between two.
Nth(S, k) == CHOOSE m \in S : Cardinality({x \in S : x <= m}) = k
PollText(S) == [i \in 1..(3 * Cardinality(S) - 2) |->
                  IF i % 3 = 1 THEN Nth(S, (i + 2) \div 3) ELSE Newline]

\* with_query_header
Headed(t, q) == IF q /\ (t = << >> \/ Head(t) # Query) THEN Header \o t ELSE t

\* t[-room:], for a text that is longer.
Rear(t, room) == LET Starts == {i \in DOMAIN t : Length(SubSeq(t, i + 1, Len(t))) < room}
                     first == CHOOSE i \in Starts : \A j \in Starts : i <= j
                 IN SubSeq(t, first, Len(t))
Last(t) == IF Length(t) <= Room THEN t ELSE Rear(t, Room)

\* bounded_turn_text: the header is never cut.
Bounded(t, q) == LET all == Headed(t, q)
                 IN IF Length(all) > Room /\ q THEN Header \o Rear(all, Room - Length(Header))
                    ELSE Last(all)

\* Mutant: the newer text wins.
MergedNewer(a, b) == IF b = << >> \/ Within(b, a) THEN a ELSE b

\* merge_turn_bodies
Merged(a, b) == CASE a = << >> -> b
                  [] b = << >> -> a
                  [] a # << >> /\ b # << >> /\ Within(a, b) -> b
                  [] a # << >> /\ b # << >> /\ ~ Within(a, b) /\ Within(b, a) -> a
                  [] OTHER -> IF Length(b) > Length(a) THEN b ELSE a

\* The lines of buf_lines joined, and stripped of the empty line after a thought.
Joined(lines) == LET J[i \in 0..Len(lines)] ==
                       CASE i = 0 -> << >> [] i = 1 -> lines[1]
                         [] OTHER -> IF i = Len(lines) /\ lines[i] = << >> THEN J[i - 1]
                                     ELSE J[i - 1] \o <<Newline>> \o lines[i]
                 IN J[Len(lines)]

\* A piece of the stream: a thought takes two lines, the second empty; what is
\* said goes on at the end of the last line, unless that is a thought.
Appended(lines, m) ==
  CASE Kind[m] = "think" -> lines \o <<<<m>>, << >>>>
    [] Kind[m] = "say" /\ lines # << >> -> [lines EXCEPT ![Len(lines)] = Append(@, m)]
    [] OTHER -> <<<<m>>>>

\* How often a message stands in lines.
Copies(lines, m) == Cardinality({p \in UNION {{q} \X DOMAIN lines[q] : q \in DOMAIN lines} :
                                   lines[p[1]][p[2]] = m})

\* waiting_panel_text
Waiting(q) == Headed(<<Panel>>, q)
IsPanel(t) == \E i \in DOMAIN t : t[i] = Panel

\* _is_placeholder knows the panel by its words, which under the header may stand
\* anywhere, in the header too.
IsPlaceholder(t) == \/ IsPanel(t)
                    \/ t # << >> /\ Head(t) = Query /\ \E i \in DOMAIN t : t[i] \in Quotes

\* _apply_text, for a worker that is current.
Applied(body, q) == LET merged == Merged(text, Headed(body, q))
                    IN CASE body = << >> \/ (~ IsPlaceholder(text) /\ merged = text) -> text
                         [] body # << >> /\ IsPlaceholder(text) -> Last(Headed(body, q))
                         [] OTHER -> Last(merged)

-----------------------------------------------------------------------------
(* Letta *)

Produce == /\ status = "running"
           /\ produced < N
           /\ produced' = produced + 1
           /\ UNCHANGED <<landed, asked, status, panel, known, pc, stream, final, poller, stale, late, excused>>

Land == /\ landed < produced
        /\ landed' = landed + 1
        /\ UNCHANGED <<produced, asked, status, panel, known, pc, stream, final, poller, stale, late, excused>>

LandAsk == /\ ~ asked
           /\ asked' = TRUE
           /\ UNCHANGED <<produced, landed, status, panel, known, pc, stream, final, poller, stale, late, excused>>

\* A run is finished once its messages are all there.
Finish == /\ status = "running"
          /\ produced = N /\ landed = N
          /\ status' = "done"
          /\ UNCHANGED <<produced, landed, asked, panel, known, pc, stream, final, poller, stale, late, excused>>

\* What fetch_run_messages may return: the first messages there are; or, when that
\* list is empty or failed, the messages of the steps that could be fetched.
Listed(n) == 1..(IF n <= Limit THEN n ELSE Limit)
Fetches == [ask : {FALSE, asked}, got : {Listed(landed)} \cup SUBSET (1..landed)]
Judged(f) == CASE excused = "join" -> "join"
               [] excused # "join" /\ f.got # Listed(landed) -> "part"
               [] OTHER -> IF status = "done" THEN "no" ELSE "early"
Nothing == [ask |-> FALSE, got |-> {}]

\* fetch_run_status, empty on failure
Statuses == {status, ""}

\* Mutant: a status that could not be fetched ends the turn.
InFlightKnown(s) == s = "running"

\* run_still_in_flight
InFlight(s) == s \in {"", "running"}

-----------------------------------------------------------------------------
(* The poller (_poll_messages) *)

Reconciling == {"rows", "status", "wait", "waited", "refetch", "restatus", "close", "over"}
Stopped == pc \in {"join"} \cup Reconciling     \* poll_stop is set

\* A poller that is told to stop leaves after its round, or at once when it sleeps.
Again == IF Stopped THEN "over" ELSE "fetch"

PollFetch(f) ==
  /\ poll = "fetch"
  /\ known' = IF Stopped THEN known ELSE known \cup f.got
  /\ rows' = f
  /\ poll' = IF f = Nothing THEN Again ELSE "look"
  /\ UNCHANGED <<run, panel, pc, stream, final, stale, late, excused>>

\* The text is looked at under the lock, and replaced after it: a message that the
\* reader shows in between is hidden again.
AskFirst == rows.ask /\ ~ saw /\ (rows.got = {} \/ IsPlaceholder(text))
PollLook ==
  /\ poll = "look"
  /\ query' = (query \/ rows.ask)
  /\ poll' = CASE AskFirst -> "ask"
               [] ~ AskFirst /\ rows.got # {} -> "apply"
               [] OTHER -> Again
  /\ UNCHANGED <<run, text, saw, known, pc, stream, final, rows, stale, late, excused>>

\* _set_query_and_waiting
PollAsk ==
  /\ poll = "ask"
  /\ text' = Waiting(query) /\ saw' = TRUE
  /\ poll' = IF rows.got = {} THEN Again ELSE "apply"
  /\ UNCHANGED <<run, query, known, pc, stream, final, rows, stale, late, excused>>

PollApply ==
  /\ poll = "apply"
  /\ text' = Applied(PollText(rows.got), query)
  /\ poll' = Again
  /\ rows' = Nothing
  /\ UNCHANGED <<run, query, saw, known, pc, stream, final, stale, late, excused>>

PollOff ==
  /\ poll = "fetch" /\ Stopped
  /\ poll' = "over"
  /\ rows' = Nothing
  /\ UNCHANGED <<run, panel, known, pc, stream, final, stale, late, excused>>

-----------------------------------------------------------------------------
(* The worker: the four seconds before the stream is opened (_seek_and_stream) *)

GreetAsk ==
  /\ pc = "greet"
  /\ asked /\ ~ query
  /\ query' = TRUE /\ saw' = TRUE
  /\ text' = Waiting(TRUE)
  /\ UNCHANGED <<run, known, pc, stream, final, poller, stale, late, excused>>

\* The last fetch of them; the poller starts with the stream.
Greet(f) ==
  /\ pc = "greet"
  /\ query' = (query \/ f.ask) /\ saw' = (saw \/ f.ask)
  /\ text' = IF f.got = {} THEN Waiting(query') ELSE Last(Headed(PollText(f.got), query'))
  /\ pc' = "open" /\ poll' = "fetch"
  /\ UNCHANGED <<run, known, stream, final, rows, stale, late, excused>>

-----------------------------------------------------------------------------
(* The worker: the stream (_consume_stream) *)

\* The stream is asked for from its start each time.
Open == /\ pc = "open"
        /\ sent' = 0 /\ closed' = FALSE
        /\ pc' = "read"
        /\ UNCHANGED <<run, panel, known, buf, final, poller, stale, late, excused>>

\* Mutant: what is known is taken again.
SkippedNone(m) == m \in known /\ m \notin Messages

\* What the poller delivered, or an earlier stream, is skipped, if it has an id.
Skipped(m) == m \in known /\ m \in Named

\* A readline that waits is not disturbed by the close: the next one is at the end.
Line ==
  LET m == sent + 1
  IN /\ pc = "read"
     /\ sent < produced
     /\ m \in Unnamed => Copies(buf, m) < MaxCopies
     /\ sent' = m
     /\ known' = known \cup {m}
     /\ buf' = IF Skipped(m) THEN buf ELSE Appended(buf, m)
     /\ text' = IF Skipped(m) THEN text ELSE Applied(Joined(buf'), query)
     /\ pc' = IF closed THEN "ended" ELSE "read"
     /\ UNCHANGED <<run, query, saw, closed, final, poller, stale, late, excused>>

\* The end of the stream, or [DONE]: Letta's doing, or the response was closed.
End == /\ pc = "read"
       /\ pc' = "ended"
       /\ UNCHANGED <<run, panel, known, stream, final, poller, stale, late, excused>>

\* The socket was idle for 45 seconds, or the request failed.
Error == /\ pc \in {"open", "read"}
         /\ pc' = "error"
         /\ UNCHANGED <<run, panel, known, stream, final, poller, stale, late, excused>>

Checked(s) == /\ pc' = IF InFlight(s) THEN "open" ELSE "join"
              /\ sent' = 0 /\ closed' = FALSE
              /\ UNCHANGED <<run, query, saw, known, buf, final, poller, stale, late, excused>>

CheckEnd(s) == /\ pc = "ended"
               /\ text' = text
               /\ Checked(s)

\* Mutant: after an error the stream is opened again, whatever became of the run.
CheckErrorAgain(s, hard) ==
  /\ pc = "error" /\ text' = text /\ hard \in BOOLEAN
  /\ pc' = "open"
  /\ sent' = 0 /\ closed' = FALSE
  /\ UNCHANGED <<run, query, saw, known, buf, final, poller, stale, late, excused>>

\* Of a hard error of a finished run, the popup tells.
CheckError(s, hard) ==
  /\ pc = "error"
  /\ text' = CASE IsPlaceholder(text) /\ InFlight(s) -> Waiting(query)
               [] IsPlaceholder(text) /\ ~ InFlight(s) /\ hard -> Failed
               [] OTHER -> text
  /\ Checked(s)

\* The turn's 900 seconds are over.
Wall == /\ pc \in {"open", "read"}
        /\ pc' = "join"
        /\ sent' = 0 /\ closed' = FALSE
        /\ late' = TRUE
        /\ UNCHANGED <<run, panel, known, buf, final, poller, stale, excused>>

\* The worker given up leaves: its finally closes what the shared field holds.
StaleLeaves ==
  /\ stale /\ pc = "read"
  /\ stale' = FALSE
  /\ closed' = TRUE
  /\ UNCHANGED <<run, panel, known, pc, buf, sent, final, poller, late, excused>>

-----------------------------------------------------------------------------
(* The worker: the end *)

\* The poller is waited for, one second.
Join ==
  /\ pc = "join"
  /\ pc' = "rows"
  /\ excused' = IF poll = "over" THEN excused ELSE "join"
  /\ known' = {}
  /\ UNCHANGED <<run, panel, stream, final, poller, stale, late>>

Rows(f) ==
  LET joined == Joined(buf)
      prior == IF IsPlaceholder(text) THEN << >> ELSE text
  IN /\ pc = "rows"
     /\ words' = (query \/ f.ask)
     /\ api' = PollText(f.got)
     /\ best' = Merged(Merged(joined, prior), api')
     /\ excused' = Judged(f)
     /\ buf' = << >>
     /\ pc' = "status"
     /\ UNCHANGED <<run, panel, known, sent, closed, over, poller, stale, late>>

\* A run still in flight is waited for, unless the turn's time is over.
Status(s) ==
  /\ pc = "status"
  /\ over' = ~ InFlight(s)
  /\ pc' = IF InFlight(s) /\ ~ late THEN "wait" ELSE "close"
  /\ api' = IF pc' = "wait" THEN << >> ELSE api
  /\ UNCHANGED <<run, panel, known, stream, best, words, poller, stale, late, excused>>

StatusLate(s) ==
  /\ pc = "status" /\ InFlight(s)
  /\ over' = FALSE /\ late' = TRUE
  /\ pc' = "close"
  /\ UNCHANGED <<run, panel, known, stream, api, best, words, poller, stale, excused>>

\* Two minutes at most: the status, then the messages; in flight, a text that may be
\* the panel is set to the panel.
Wait(s, f) ==
  /\ pc = "wait"
  /\ text' = Applied(PollText(f.got), query)
  /\ pc' = IF InFlight(s) THEN "waited" ELSE "refetch"
  /\ UNCHANGED <<run, query, saw, known, stream, final, poller, stale, late, excused>>

WaitPanel ==
  /\ pc = "waited"
  /\ text' = IF IsPlaceholder(text) THEN Waiting(query) ELSE text
  /\ pc' = "wait"
  /\ UNCHANGED <<run, query, saw, known, stream, final, poller, stale, late, excused>>

WaitOver ==
  /\ pc = "wait"
  /\ pc' = "refetch"
  /\ UNCHANGED <<run, panel, known, stream, final, poller, stale, late, excused>>

Refetch(f) ==
  /\ pc = "refetch"
  /\ api' = PollText(f.got)
  /\ excused' = Judged(f)
  /\ pc' = "restatus"
  /\ UNCHANGED <<run, panel, known, stream, best, words, over, poller, stale, late>>

Restatus(s) ==
  /\ pc = "restatus"
  /\ over' = ~ InFlight(s)
  /\ pc' = "close"
  /\ UNCHANGED <<run, panel, known, stream, api, best, words, poller, stale, late, excused>>

\* The messages of a finished run are its text; what else there is, is merged.
Left == LET now == CASE api # << >> /\ over -> api
                     [] api # << >> /\ ~ over -> Merged(best, api)
                     [] OTHER -> best
            q == query \/ words
        IN CASE now # << >> /\ api # << >> /\ over -> Bounded(api, q)
             [] now # << >> /\ ~ (api # << >> /\ over) ->
                  Bounded(Merged(text, Headed(now, q)), q)
             [] now = << >> /\ IsPlaceholder(text) -> Failed
             [] OTHER -> text

Close ==
  /\ pc = "close"
  /\ text' = Left \o Complete
  /\ pc' = "over"
  /\ api' = << >> /\ best' = << >>
  /\ UNCHANGED <<run, query, saw, known, stream, words, over, poller, stale, late, excused>>

-----------------------------------------------------------------------------

Init ==
  /\ produced = 0 /\ landed = 0
  /\ asked = FALSE
  /\ status = "running"
  /\ query \in BOOLEAN /\ saw = query
  /\ text = Waiting(query)
  /\ known = {} /\ buf = << >>
  /\ pc = "greet" /\ sent = 0 /\ closed = FALSE
  /\ api = << >> /\ best = << >> /\ words = FALSE /\ over = FALSE
  /\ poll = "over" /\ rows = Nothing
  /\ stale = TRUE /\ late = FALSE
  /\ excused = "no"

Letta == Produce \/ Land \/ LandAsk \/ Finish
Poller == (\E f \in Fetches : PollFetch(f)) \/ PollLook \/ PollAsk \/ PollApply \/ PollOff
Reader == \/ GreetAsk \/ Open \/ Line \/ End \/ Error \/ Wall
          \/ \E f \in Fetches : Greet(f)
          \/ \E s \in Statuses : CheckEnd(s) \/ \E hard \in BOOLEAN : CheckError(s, hard)
Ending == \/ Join \/ WaitPanel \/ WaitOver \/ Close
          \/ \E f \in Fetches : Rows(f) \/ Refetch(f) \/ \E s \in Statuses : Wait(s, f)
          \/ \E s \in Statuses : Status(s) \/ StatusLate(s) \/ Restatus(s)

Next == Letta \/ Poller \/ Reader \/ Ending \/ StaleLeaves

Spec == Init /\ [][Next]_vars

\* The worker goes on: the socket's timeout ends every read, two minutes end the wait,
\* and the status of the run is not kept back for ever.
GoesOn == Stopped /\ pc # "over" /\ \E to \in Reconciling : pc' = to
Fairness == /\ WF_vars(Reader) /\ WF_pc(GoesOn) /\ SF_pc(WaitOver)
            /\ SF_vars(CheckEnd(status)) /\ SF_vars(\E hard \in BOOLEAN : CheckError(status, hard))
FairSpec == Spec /\ Fairness

-----------------------------------------------------------------------------
(* Properties *)

\* However the stream, its replays and the poller overlap, a message that has an id
\* stands once in the text, and after those it came after.
InOrder == \A i, j \in DOMAIN text :
             i < j /\ text[i] \in Named /\ text[j] \in Named => text[i] < text[j]

\* While the turn goes on, a text that the code does not take for the waiting panel
\* is never replaced by that panel, nor by a shorter text ("Never move backward to a
\* shorter unrelated body", turn_stream.py:1695), unless it fills the popup.  The
\* one exception is the poller that looked at the text before it was shown.
NeverBackward ==
  [][~ IsPlaceholder(text) /\ pc # "close" /\ ~ PollAsk
       => ~ IsPanel(text') /\ (Length(text') >= Length(text) \/ Length(text') >= Room)]_vars

\* A turn that ended as done, its poller joined and its last fetch not a part, has
\* the run's messages for its text, as many as are listed and as the popup holds,
\* and nothing else: within the turn's time the last fetch is never early, and
\* after it if the run was done by then.
FinishedIsWhole ==
  pc = "over" /\ over /\ (excused = "no" \/ (excused = "early" /\ ~ late))
    => text = Bounded(PollText(Listed(N)), query \/ words) \o Complete

\* A run that is done ends its turn: early ends, idle sockets, failed statuses and
\* a response closed by the worker given up only delay it.
Finishes == (status = "done") ~> (pc = "over")

(* What the repository says, and the code does not keep *)

\* A message stands once in the text: what was delivered is skipped when the stream
\* brings it again ("Poll already delivered this message - skip SSE echo",
\* turn_stream.py:1844).
ShownOnce == \A i, j \in DOMAIN text : text[i] \in Messages /\ text[i] = text[j] => i = j

ShowsMessage(t) == \E i \in DOMAIN t : t[i] \in Messages

\* The panel stands only until a message is shown ("Body shown before the first
\* assistant/reasoning step arrives", turn_stream.py:391).
PanelComesFirst == [][ShowsMessage(text) => ~ IsPanel(text')]_vars

\* _apply_text never leaves a shorter text than it found, of those with a message.
NeverShorter == [][ShowsMessage(text) /\ (PollApply \/ Line) => Length(text') >= Length(text)]_vars

HasFinalMessage == \E i \in DOMAIN text : text[i] = N

\* A turn that ended as done has the run's last message in its text ("A completed
\* run's messages endpoint is authoritative", instead of a merge that could "discard a
\* shorter payload that contained the final assistant message", turn_stream.py:2050),
\* if its last fetch was made when the run was done;
KeepsFinalMessage == pc = "over" /\ over /\ excused = "no" => HasFinalMessage

\* or whenever it was made.
LateKeepsFinalMessage == pc = "over" /\ over /\ excused \in {"no", "early"} => HasFinalMessage
=============================================================================
