# Verification of stop

`stop` is a terminal dashboard for a host that runs many agents, each in a GNU
screen session. It lists the agents and the state of their windows, follows the
log of the selected one, and shows a popup with the turn an agent is taking. The
program is small, but it is concurrent: a Textual (UI) thread, a collector
thread, one thread per turn with a message poller of its own, and a recovery
probe share state under a few locks, and some state under none. The outside
world (screen, crontab, Broca and Letta over HTTP) is slow and may fail.

This directory holds TLA+ models of those parts, TLC runs that check them on
small instances, and TLAPS proofs that hold for all instances. Paths below are
relative to `src/`; `turn_stream.py` and so on are in `src/src/stop/`.

## 1. Inventory

### Components

| Component | State it keeps | Operations | Talks to | Models |
|---|---|---|---|---|
| Collector worker (`collector.py`) | `_latest`, `_revision`, `_error`, `_busy`, `_pending` under a lock; two events; the thread it knows | `start`, `stop` (bounded join), `request`, `latest`, the loop | calls `host.snapshot()`; posts `_paint_from_collector` to the UI thread with `call_from_thread`, which blocks it | `Collector`, `SnapshotService` |
| Turn stream worker (`turn_stream.py`) | popup state, generation, stop event, thread, cooldowns, seen runs and turns, under one lock (the last three partly outside) | `tick` in two modes, `toggle`, `toggle_follow`, `shutdown`, seek and stream, message poller, probe | Broca and Letta over HTTP; posts paints to the UI thread | `TurnStream`, `TurnPopup` |
| Popup painting (`app.py`) | `_turn_coalesce`, `_turn_dirty` (no lock), timers | `_on_turn_update`, `_schedule_turn_paint`, `_flush_turn_paint`, handlers that paint | turn threads, UI loop | `TurnPaint` |
| Window states (`host.py`, `state.py`, `discovery.py`) | `_prev_states`, crontab cache in memory and on disk, event list | `snapshot` (inventory, classification, events) | `screen -ls`, `crontab -l` | `HostWindows` |
| Hardcopy plan (`host.py`, `app.py`) | focus order, probe cursor | `set_focus_screens`, `plan_hardcopy_with_probes`, the batch | screen | `HardcopyPlan` |
| Scrollback and live log (`host.py`, `livelog.py`, `app.py`) | `_scroll_cache`, per pane `_lines`, `_source_key` and the log widget | `read_scrollback`, `diff_log_lines`, `sync`, `show_agent` | screen, the pane | `LogFeed` |
| Run choice (`turn_stream.py`) | runs seen, the seek's deadline | `pick_run_id`, `extend_seek_deadline`, the seek loop | Letta's run lists, Broca's bridge | `TurnSeek` |
| Turn text (`turn_stream.py`) | popup text, known message ids, stream lines, `_active_response` | `_consume_stream`, `_poll_messages`, `_apply_text`, `merge_turn_bodies` | Letta's stream, messages and run status | `TurnFeed` |
| Selection (`selection.py`, `app.py`, `activity.py`) | selected name; window id in app and in pane; filter, pin, Active Now | `resolve_*_selection`, keys, filter | snapshots, the host's focus, the turn worker | `Selection` |
| Activity, pulse (`activity.py`, `pulse.py`) | recent events per agent | ranking, glyphs | snapshots | ranking in `Selection` |
| Trace, metrics, scratch (`telemetry.py`, `metrics.py`, `scratch.py`) | bounded ring, counters, files | append, trim, flush | files | trace planned |
| Parsers, models, config, CLI, HTTP policy, meters, fixture host | none that changes | parsing, formatting, one-time reading | | no |
| Launcher and reload scripts (`tools/*.sh`) | the shared screen session | start, reload | screen | planned |

### What is hard in it, and what makes each part correct

* **Collector.** `stop()` gives up on its worker after two seconds and `start()`
  then makes another. Correct means: one collection at a time all the same; a
  request that comes at any point is answered by a collection begun after it; a
  failed collection keeps the last good snapshot; what is shown never gets older.
* **Turn worker.** Threads are cancelled by making them stale (a generation
  number), never by waiting for them. Correct means: only the current generation
  writes the popup, a disabled popup stays empty, it never shows one agent's turn
  under another's name, it follows the state table of `docs/ARCHITECTURE.md`
  49-66, a focused turn is not interrupted, and every popup ends.
* **Painting.** Two flags without a lock decide whether a change gets a paint.
  Correct means: no change stays unpainted, in any order of threads and timers;
  and the UI thread does not wait for a thread that waits for it.
* **Window states.** Each reading may be cached, empty or failed. Correct means:
  each outage shown has its `died` event and each recovery its `back`, once.
* **Hardcopy plan.** Correct means: a batch within its bound and without
  repeats, focus first, every other Broca in turn.
* **Run choice.** Letta lists a run late, its words may not be fetched, rows of
  earlier turns and zombies are in the lists. Correct means: an earlier run gets
  the popup only in the few cases the code means to allow, the turn's own run is
  found, and a seek is not given up early.
* **Turn text.** The same messages come by a stream that replays and by a poller,
  whole or in part, while another worker may close the response. Correct means: a
  message once and in order, text never backward, a finished turn whole (as far as a
  fetch lists and the popup holds), and an end.
* **Selection.** Five copies of the selection, set by keys, ticks and paints that
  may raise half way. Correct means: they agree after a whole paint; only the user
  or a loss moves it; hardcopies and the turn stream follow it; a pin holds.
* **Live log.** Hardcopies are cut or fail, text slides, the selection moves.
  Correct means: the log is an unbroken piece of the selected screen's output,
  ends with what the feed believes it ends with, and catches up.

`PROJECT.json` lists the hazards at their lines with the properties that cover
them, or the reason why none does yet.

## 2. Modules

| Module | What it is |
|---|---|
| `SnapshotService` | abstract: asks, one collection at a time, revisions, last good snapshot |
| `Collector` | the threads, events and fields that implement it, and the UI handlers that use it |
| `CollectorProofs` | theorems about it |
| `TurnPopup` | abstract: the state table of `docs/ARCHITECTURE.md` with mode and agent |
| `TurnStream` | worker, poller, probe, tick, mode keys: implements the table |
| `TurnStreamProofs` | theorems about it |
| `TurnPaint`, `TurnPaintProofs` | coalesced painting of the popup |
| `HostWindows` | inventory, window states, crash events |
| `LogFeed`, `LogFeedProofs` | from a screen's scrollback to the log widget |
| `Selection`, `SelectionProofs` | selected agent and window, filter, pin, Active Now, focus |
| `TurnSeek`, `TurnSeekProofs` | which Letta run a turn's popup is given |
| `TurnFeed`, `TurnFeedProofs` | what its text is made of, to the end of the turn |
| `HardcopyPlan` | which screens a batch reads |
| `HostProofs` | theorems about `HostWindows` and `HardcopyPlan`, the two halves of `host.py` |
| `MC*` | instances for TLC |

Conventions. One action is one region under a lock, or one read or write of
state that has none; what the code reads in one region and uses in the next is a
local in a variable (`tick`, `probe`, `poller`). HTTP answers, files, deadlines
and wall clocks are choices. Definitions marked "Mutant" are plausible bugs that
each property is tried against; they are no part of any specification.

### Collector
`pc[w]` follows `_run` line by line (loop head, wait, clear, stop test, claim,
snapshot, notify, finish). A worker inside `call_from_thread` is `blocked` until
the UI thread serves it (`ServeUpdate`) or is gone (`NotifyFails`). `ui` splits
`request()` into its two writes and `stop()` into set, wake and join; the join
may end with the worker alive. A snapshot is the number of the newest request
made before its collection began, so "older" has a meaning. `asked`, `claimed`
and `answered` are history. `Service` maps the collector to `SnapshotService`.

### TurnStream
A worker thread is named after its generation. `pc[g]` is seek, claim (run found
and remembered, not yet shown), stream, join (waiting for the poller), final.
`poller[g]` says what the poller holds in hand: rows fetched before it looks at
the generation again. `probe` holds the probe thread's locals between its fetch,
its mark, the clearing of the stop event, the guard and the spawn. The UI thread
stands in `ui`: expire, observe, seek, preempt (waiting up to 0.8 s), join, gone.
The popup's text is what kind it is (`waiting`, `partial`, `final`, `note`) and
whose turn it tells (`textOf`). `edges` are the agents with a LIVE line no tick
has seen, which stands for the comparison of scrollbacks. The early query loop
(1596-1636) is merged with the stream: both only replace the waiting panel.

`astray` is history: what has befallen the popup since its seek began. Four things
can, and the code guards against none of them: tick's no-creds error over a popup
that is up (`nocreds`, 1235-1245), a poller that writes after its worker's end
(`late`), a mode switch during a turn (`mode`, 991), and a seek of the probe begun
while a preempt has the stop flag up (`stopped`). They are all in the model and in
the runs. The properties name the ones they cannot hold under, and hold under the
others. Where a mishap contradicts what the repository says, the module also has the
property without the excuse, which TLC refutes (see "Disagreements found").

`TurnPopup` is the table of `docs/ARCHITECTURE.md`. The table has no row for a popup
that the no-creds error or a late poller wrote over; such a popup is `astray` there
until the next seek, preempt or switching off, which bring it back into the table.
Left out: sockets (closing one ends a stream step, which may end anyway), the
follow-up branch (1994-2048, `_followup_agent` is never set), `_probe_after`
(a choice), the error string, and the cap on remembered runs.

### TurnPaint
A change is a number, `version`; `painted` is the last shown. Threads stand
between the test and the write of `_turn_coalesce`, the UI thread between the
steps of the flush. `tick`'s own notification runs on the UI thread, where
`call_from_thread` raises and the flag drops (`HandleRefused`); its handler ends
in `show_turn`, as every handler that changes the popup does.

### HostWindows
`session` and `crontab` are the world, `cron` the host's copy. `SnapshotFresh`
reads both; `SnapshotDoubtful` gets the crontab from a cache or as empty, or the
list of screens as empty. `prev` is `_prev_states`, `shown` the last snapshot,
`last` the newest event per window. `upOnce` and `lapsed` are history.

### LogFeed
A line is its screen and its number, so lines are distinct and "gap" and
"repeat" have a meaning. `text` is the cached scrollback of the snapshot; `slow`
says that hardcopies may fail or be cut. The pane is `selected`, the feed `key`
and `lines`, the widget `log`. The two rules against short texts keep their shape
with small numbers; the host's counts newlines (`ShortDump`), the feed's lines
(`ShortTail`). Real lines may be equal; then an overlap may be taken too
long (`livelog.py:128`), which this model does not show.

### Selection
Everything runs on the UI thread, so an action is a key, a tick or a paint. A
paint has nine steps in the code's order (strip, list, pane identity, pane, its
log, the app's copy, focus, Active Now, turn stream) and `Paint(s, done)` stops
after any of them, as an exception caught at the end of `_paint_from_collector`
does; `torn` counts such paints in a row and is bounded. The configured order of
agents is the constant `Place`; a window's class, time and text for the ranking
are its `heat`, chosen with the snapshot (hits within a class are part of `epoch`).
Every agent has a window, as `build_agents` makes it.

### TurnSeek
`clock` counts steps; the windows of 180, 900 and 8 seconds and the two deadlines
are constants in their order. A round is `Choose` (any part of the rows, any part
of the words fetched, runs listed as running that ended since: the HTTP answers) and
`Extend` (Broca's bridge, which may wrongly say idle); the clock runs while calls
are out. `Raise` is a call that raises what `pick_run_id` and `list_runs_for_agent`
do not catch: it ends the seek, and the runner shows it. Broca may let go of a turn
(`Release`) while Letta's run of it goes on, so an earlier run may still be running
while a later turn is sought. Run 0 is an old row left running. "running" stands for
"created" too, "completed" for "succeeded". Rows of other agents and foreground runs
are skipped by the code and left out. `over` is history: the runs that had ended
when the seek began.

### TurnFeed
A text is a sequence of messages, newlines and the header of the user's words, so
"order" and "twice" have a meaning; `Size` gives lengths, which `merge_turn_bodies`
compares. `Line`, `End`, `Error`, `CheckEnd`, `CheckError`, `Wall` are the reading
loop; `PollFetch`, `PollLook`, `PollAsk`, `PollApply` the poller, with what it holds
between lock regions; `Join` to `Close` the reconciliation. A fetch brings the first
`Limit` messages that landed, nothing, or what the steps fallback could get; a text
longer than `Room` loses its front, but for the header when the turn ends.
`Unnamed` are the messages without an id, which only `Line` treats differently;
`Quotes` the messages, or the user's words, in which the panel's own words stand, so
that under the header the code takes the text for the panel. `StaleLeaves` is the
worker given up, whose `finally` closes the response in the shared field. `excused`
is history: the last fetch was partial, or made before the run was done, or the
poller was not joined. The generation stays current here, since `TurnStream` has what
a change of it does. Left out: two messages of the same text, and a cut in the
middle of a message (it counts as kept).

### HardcopyPlan
Pure operators for the plan, and actions for screens that come and go, the focus
of `_update_focus_screens`, whole batches and batches cut by their two seconds.
The cursor is kept modulo `Turn`, a common multiple of all numbers of Brocas. What
a filter keeps (`Only`) is told by ranks: the j-th position kept is the one with
j - 1 kept before it. The provers can reason about that and not about `SelectSeq`;
`MCHardcopyPlan` has TLC compare the two (`OnlySelects`). `waiting` is history: the
whole batches since each Broca was last in one.

## 3. Runs

| Run | Instance | Distinct states | Shows |
|---|---|---|---|
| `collector` | 2 threads, 2 requests | 57 k | no overlap, no lost request, no older view, every revision painted, workers end after `stop()`; implements `SnapshotService` |
| `turn_safety` | 2 agents (symmetric), 1 turn each, selected mode or a press of `f` before the first seek, credentials may be missing | 3.9 M | text belongs to its agent, no interruption, the state table with preempts and yields |
| `turn_toggle` | 1 agent, 1 turn, `t`, `f` and quit, any 2 presses, credentials may be missing, late pollers | 252 k | off is quiet, stale threads are silent, a popup has a driver, no interruption, the state table, every popup ends |
| `turn_paint` | 2 threads, 3 changes | 18 k | flags are backed, a change is owed a paint and gets it |
| `host_windows` | 1 agent with run log, `smcp` | 15 k | events for outages and recoveries, returns only from failure |
| `log_feed` | screens of 6 and 2 lines, page 4, log 5 | 145 k | log and feed agree, own lines only, unbroken, catches up |
| `hardcopy_plan` | 4 Brocas, 2 system screens, 4 slots, 2 probes | 31 k | bounds, round robin |
| `selection` | 2 agents and System, windows that come and go, 2 filters, 7 snapshots, one torn paint | 37 k | copies agree, focus follows, selection and pin are kept, everything settles |
| `turn_feed` | a thought, and a longer answer without an id that quotes the panel; the popup overflows | 291 k | each named message once and in order, never backward, finished is whole, a turn ends |
| `turn_seek` | 2 turns and the old row, same or other words, clock to 9, raising calls | 759 k | earlier runs only where the code allows them, patience, a run is found |

Why the bounds are enough. Two threads give the one race there is between a
thread and its successor; a third would meet the same flags. Two requests put one
before and one during a collection. With two agents and a turn each there are a
focused turn, a background start, a preempt and a probe for either; the generation
set is large enough for every seek these allow, so no behaviour is cut by it
(`EveryWorkerFits`). Two presses give off and on again, and a switch in either
direction, at any point of a turn; with two agents they do not fit, so `turn_safety`
has one press, before the first seek (the action constraint `ModeFirst`), and
`turn_toggle` has one agent. Linger, cooldown and a second turn of the same agent
are in neither together with the presses; for safety the theorems have any number of
turns, and `PopupEnds` was explored with two turns of one agent and one press. Three changes put one
before, one during and one after a flush. Six lines overflow a log of five and
slide a page of four; the second screen is there to switch to and back. Four
Brocas for two probes make the cursor wrap and skip.

In `selection` an agent whose second window goes, agents that go, and a filter meet
every case of the resolvers, and one torn paint is followed by a whole one or by keys. In `turn_feed`
two messages are the fewest that can be missed, doubled or swapped, and of the two
kinds that `buf_lines` treats differently; other sizes, limits
and kinds of messages were explored for the safety properties without a difference. In `turn_seek` the clock
lets two turns and both deadlines pass and the first run leave the tight window.

Deadlock is checked except where the system does stop: TurnStream after
`shutdown`, TurnFeed when the turn is over, TurnSeek at the end of its clock,
TurnPaint after the app is gone and once its changes are used up.

Symmetry is used in `turn_safety` only, where no liveness is checked.

### Fairness
Threads that can step do step (weak fairness per thread). The Textual loop
serves what is posted in order (strong fairness of each posted callback and of
timers, since handlers come between). In TurnStream deadlines and clocks pass and
the app ticks every second. A run is not assumed to be found, nor a stream to
deliver: `WorkerAdvances` has the steps every deadline forces. In LogFeed the selected screen is in the batch again and
again, which is what `FocusFirst` of HardcopyPlan says
(the theorem `FocusIsHot`), and snapshots are
painted. In Selection a snapshot is painted whole now and then. In TurnFeed the
worker goes on, because each read and wait has its timeout, and the status of a
finished run is fetched now and then (strong fairness); nothing is assumed of
messages, of the stream or of the poller. In TurnSeek calls return, and again and
again with all rows. Nothing forces the user, the agents or the host to do anything.

### Disagreements found
Two runs end in a violation of what the repository itself says:

* `preempt_race`: while a preempt waits for the old worker the probe may start a
  seek of its own, and the newer start is dropped.
* `late_answer`: a poller whose fetch outlasts its one second join puts the
  waiting panel over the finished answer.

Eight more have a property in the module that TLC refutes when it is the only
property of the configuration named:

| Property | Configuration | What happens |
|---|---|---|
| `EveryPopupEnds` | `MCTurnToggle` | `f` during a `t` turn, or the reverse, makes the worker stale but leaves the popup up; it says "streaming" until switched off (`turn_stream.py:991`) |
| `NotEvenWithoutCreds` | `MCTurnStream` | tick writes "no Letta creds" over a seek the probe began since the tick looked (1235), though an in-flight turn is never to be interrupted |
| `PaneNotStolen` | `MCTurnSeek` | while the previous turn's run goes on, it is taken for a turn whose row or words are not listed yet (835-844) |
| `ShownOnce` | `MCTurnFeed` | a message without an id is shown again by each replay (1845) |
| `PanelComesFirst` | `MCTurnFeed` | a message shown between the poller's look and its write is hidden by the waiting panel (1730) |
| `NeverShorter` | `MCTurnFeed` | an answer that quotes the waiting panel's words is taken for that panel and replaced by a shorter text (1667) |
| `KeepsFinalMessage` | `MCTurnFeed`, `Limit = 1` | a run of more messages than a fetch lists (100) ends without its last one (523) |
| `LateKeepsFinalMessage` | `MCTurnFeed` | after the wall clock the messages are fetched before the status, and a run that ends in between is shown without its last message (1946) |

Four are read in the code only, and are in `PROJECT.json` like all others:

* The probe reports missing credentials with a method that does not exist, and the
  popup stays idle (1386).
* The UI thread joins a thread that is waiting in `call_from_thread` for it, until
  the join times out (`app.py:748`).
* `merge_turn_bodies` takes the longer of two unrelated texts, so a shown message
  can disappear for a while (668).
* Closing the response does not unblock its reader: `close()` waits for the
  `readline` it was meant to end (941).

### What the properties do not say
* `PopupEnds` excuses a popup whose mode was switched during its turn, and one whose
  seek the probe began while a preempt had the stop flag up; `EveryPopupEnds` does not.
* `NoEarlierRun` says which runs may be taken; `RunFound` only that one is. A call
  that raises ends the seek, so both are silent about the turn after it.
* `FinishedIsWhole` leaves out a turn whose last fetch lacked a step, or whose
  poller was not joined; it is about what a fetch lists and the popup holds.
* `NeverBackward` leaves out a text that the code takes for the panel, and the
  poller's own write of the panel (`PanelComesFirst`).
* `RecoveryReported` speaks of screens: a run log's recovery has no event
  (`discovery.py:92`), which no property demands. It leaves out (`lapsed`) a recovery
  while the crontab could not be read.
* `OneSelection` is about whole paints; that torn states do not last is `Settles`.

## 4. Proofs

Every theorem is `Spec => ...` for all values of the constants, from the named
assumptions of the modules.

* **Collector.** `IInv` is the type invariant, `BusyHeld` (busy is held by
  exactly the worker that is collecting), `Ordered` (what is shown is not newer
  than what is published, than what was begun, than what was asked; pending means
  a request not yet covered) and `RequestKeepsWake`. `OneCollection` alone is not
  inductive: the claim looks at `busy`, so busy must be tied to the workers.
  `NeverGoesBack` and the refinement of `SnapshotService` follow from `Ordered`.
* **TurnStream.** None of the theorems assumes anything of credentials, keys or late
  answers. `Quiet`: types, no thread has a generation not yet given out (`Unborn`),
  the UI thread cannot toggle inside a tick, threads have a target, and `OffIsQuiet`.
  It gives `OffStaysQuiet` and `StaleStaysSilent`. `Told`: what a tick and a poller
  know when they act. `Orderly` says who drives the popup: on course (no no-creds
  error and no late poller over it since its seek began, `OnCourse`) the only live
  worker of the current generation has the phase that the popup shows (`InFlight`),
  the flags agree with the status, and the text is of the agent named. A popup
  leaves its course by one of the steps that `astray` records and comes back by a
  seek, a preempt or off, each of which sets all that `Orderly` speaks of. It gives
  `TextStaysAgents`, the refinement of the state table, and `FocusedTurnStays`.
  `PopupIsDriven` (seeking or streaming has somebody who will end it) rests on a
  count of the workers not over, and on a potential which every start of a worker
  pays from, presses and tickets of edges and turn keys: `EveryWorkerFits` says that
  a generation is always free for the next start, so the bound `Gen` cuts no
  behaviour, whatever the finite sets of agents and turns.
* **TurnPaint.** `FlagBacked` and `PaintOwed` with two invariants of the steps in
  between; any number of threads.
* **HostWindows.** `Noted`: what was shown is what is remembered, and a window
  remembered as failing that was up before has died as its last event. What is
  shown as returned was remembered as failing, so it was shown so (the action
  property `ReturnedFromFailure`). Any set of agents, also those known by a cron
  line only.
* **HardcopyPlan.** `BatchStaysWithin` and `FocusIsHot` are facts about the plan in
  any state: its three parts have no screen in common, and each is cut to what the
  parts before it left. `NoBrocaStarves` needs an invariant, `InTurn`: a Broca that
  waits is so many places ahead of the cursor on the walk, and each whole batch
  moves the cursor past as many places as it has slots or takes it in; so what it
  waited and what it still has to wait weigh no more than one round. It is for any
  number of Brocas, slots and screens, and Brocas may come and go.
* **Selection.** The list always has the selected row, torn paint or not
  (`RowListed`), and what it lists was published (`Published`); that the other
  holders agree is invariant only from one whole paint to the next torn one. Any
  agents, windows, snapshots, filters, and any number of torn paints.
* **TurnSeek.** `RunsOK` (what had ended when the seek began stays ended), `Since`
  (a seek began before now) and `Patient` (what the deadline is at least).
  `NoEarlierRun` follows because the lists are asked for after the seek began: a row
  taken as running, be it stale, was running then.
* **TurnFeed.** Who knows what when: a worker that stops reading before its wall
  clock was told that the run is done (`ToldDone`); all messages are at the
  endpoint then, so a fetch after it that is whole is the whole run's, as far as it
  is listed (`ApiWhole`); and a poller that was joined writes no more (`PollerGone`).
  `OrderKept` rests on `Texts` (all texts in hand, the lines of the stream among
  them, are of pieces and in order) and on `Heard`: what the open stream brought is
  known, and so is all that came before a message it showed. A line that is not
  known is then greater than all that was shown, and may be appended. `InOrder`
  alone says nothing of what waits in `buf_lines`, in the poller or in `best`.
  `TextOnlyGrows` adds `PanelFirst` (who is about to show the words did not see
  them) and that a part of a text is no longer than the text, which makes
  `merge_turn_bodies` monotone. What `Length` and `Joined` compute is told by one
  step of their recursion and counting (`Recursion`, `Counting`); the counting comes
  from the library's well-foundedness of finite sets, since the induction rules
  themselves cannot be cited.
* **LogFeed.** `Sourced` (a cached text is made of its own screen's lines) and
  `PaneOK` (lines and log are the selected window's, and the log ends with the
  feed's lines). The step is a fact about sequences: a log that ended with the old
  text ends, extended by what follows the overlap, with the new one, even cut to
  its limit. `PieceCorrect` adds that texts and log are pieces of the output, without
  gap or repeat: two pieces that share a line agree in what follows it.

Type correctness is a theorem for every module with proofs, which is why no run
checks it again; of TurnFeed and HardcopyPlan it is part of the invariants (`Texts`,
`PlanTypes`).

Only model-checked is liveness, which the prover cannot derive from fairness since
it has no `ENABLED`: `PopupEnds`, `RequestAnswered`, `RevisionPainted`,
`StopEndsWorkers`, `ChangesPainted`, `CaughtUp`, `Settles`,
`Finishes`, `RunFound`. Every invariant and every action property of the passing
runs is a theorem, and so are both refinements. `FocusFirst` is proved only: it is a
fact about one plan.

## 5. Plan

In this order, the most important behaviour first; 1 to 9 are done.

1. Collector with SnapshotService. 2. TurnStream with TurnPopup. 3. TurnPaint.
4. HostWindows. 5. LogFeed. 6. HardcopyPlan. 7. Selection. 8. TurnFeed, with the
socket. 9. TurnSeek.
10. `TraceRing`, `CrontabCache` (shared copy on disk), `ScreenLifecycle`.

Theorems to come: that `Selection` and `TurnFeed` implement abstract specifications
of their own (one selection; a text that only grows), and the safety part of the
liveness properties (what must hold until each of them is reached).

## 6. Not modelled

Parsing, formatting, drawing, scrolling and layout; what is in an HTTP answer;
HTTP policy; metrics and scratch files, which nothing reads back; configuration,
which is read once; the fixture host and the measuring tools. The cron log pane
never fails and has no events. The seconds a window has been missing and the cap
of 50 events concern display only.

## 7. Running

    tlc -workers 2 -config MCCollector.cfg MCCollector
    tlapm CollectorProofs.tla
