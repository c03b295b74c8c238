------------------------------ MODULE Selection ------------------------------
(* Which agent and which window the screen of the program is about              *)
(* (src/src/stop/app.py, selection.py, activity.py): the row of AgentList, the   *)
(* window of WindowPane, the filter, the pinned window and Active Now, and what   *)
(* of it the host's hardcopies and the turn stream are told.  Everything here     *)
(* runs on the Textual thread; agents and windows come and go with the snapshots, *)
(* and a paint of a snapshot may raise at any widget and leave the rest undone.   *)
(* build_agents gives every agent a window, so no agent here is without one.      *)
EXTENDS Integers, Sequences, FiniteSets, Functions

CONSTANTS Agents, Windows, None,
          Place,      \* the place of an agent in the configured order
          Broca,      \* Broca[a]: the window of a's broca- screen, None without one
          Secondary,  \* Secondary[a]: windows of a with another screen
          Id,         \* the order of window ids, as text
          Filters,    \* texts of the filter box, "" among them
          Matches,    \* agents each matches
          Snapshots,  \* what HostCollector may publish
          MaxTorn     \* bound: paints cut short in a row

Screens == {Broca[a] : a \in Agents} \ {None}

\* A snapshot: its agents, the windows of each in order, and of each Broca
\* whether Active Now may take it, the class of its text, the time of its last
\* meaningful line (and the hits in it), and whether it has any text.
Heat == [eligible : BOOLEAN, kind : 0..2, epoch : Nat, text : BOOLEAN]
SnapshotType == [agents : SUBSET Agents, windows : [Agents -> Seq(Windows)], heat : [Screens -> Heat]]
Empty == [agents |-> {}, windows |-> [a \in Agents |-> << >>],
          heat |-> [b \in Screens |-> [eligible |-> FALSE, kind |-> 0, epoch |-> 0, text |-> FALSE]]]

ASSUME SelectionAssumption ==
  /\ None \notin Agents \cup Windows /\ IsFiniteSet(Agents) /\ IsFiniteSet(Windows)
  /\ Place \in [Agents -> Nat] /\ IsInjective(Place)
  /\ Id \in [Screens -> Nat] /\ IsInjective(Id)
  /\ Broca \in [Agents -> Windows \cup {None}] /\ Secondary \in [Agents -> SUBSET Windows]
  /\ Filters # {} /\ Matches \in [Filters -> SUBSET Agents]
  /\ Snapshots \subseteq SnapshotType /\ MaxTorn \in Nat
  /\ \A s \in Snapshots : \A a \in s.agents : s.windows[a] # << >> /\ IsInjective(s.windows[a])

VARIABLES snap,        \* _snap
          listed,      \* agents of the AgentList: those of _snap, unless a paint was cut short
          filter,      \* _filter
          listFilter,  \* filter of the AgentList
          name,        \* selected_name
          wid,         \* selected_window_id of the app
          paneWid,     \* _selected_window_id of the WindowPane
          at,          \* its _win_index, from 1
          shown,       \* agent and window it shows
          expanded,
          lock,        \* follow_lock_id
          active,      \* what Active Now shows: the window, and LOCKED
          focus,       \* what set_focus_screens was last told
          told,        \* selected agent TurnStreamWorker.tick was last told
          torn         \* history: paints cut short in a row, the last ones

pane == <<paneWid, at, shown>>
vars == <<snap, listed, filter, listFilter, name, wid, pane, expanded, lock, active, focus, told, torn>>

NoFocus == [first |-> None, active |-> None, rest |-> {}]

Init == /\ snap = Empty /\ listed = Empty
        /\ filter \in Filters /\ listFilter = filter /\ Matches[filter] = Agents
        /\ name = None /\ wid = None /\ paneWid = None /\ at = 1 /\ shown = <<None, None>>
        /\ expanded = FALSE
        /\ lock = None /\ active = [window |-> None, locked |-> FALSE]
        /\ focus = NoFocus /\ told = None /\ torn = 0

-----------------------------------------------------------------------------
(* Agents and windows by identity *)

First(S) == CHOOSE a \in S : \A b \in S : Place[a] <= Place[b]
Last(S) == CHOOSE a \in S : \A b \in S : Place[b] <= Place[a]
After(a, S) == {b \in S : Place[a] < Place[b]}
Before(a, S) == {b \in S : Place[b] < Place[a]}

\* AgentList.visible
Visible(s, f) == s.agents \cap Matches[f]

\* AgentList.move, round the visible rows.
Moved(a, S, d) ==
  CASE S = {} -> a
    [] S # {} /\ d = 1 -> IF After(a, S) = {} THEN First(S) ELSE First(After(a, S))
    [] S # {} /\ d = -1 -> IF Before(a, S) = {} THEN Last(S) ELSE Last(Before(a, S))

\* Mutant: the row stays where it is, whatever agent is on it now.
ResolveAgentFirst(S, a) == IF S = {} THEN None ELSE First(S)

\* resolve_agent_selection
ResolveAgent(S, a) == CASE a \in S -> a
                        [] a \notin S /\ S # {} -> First(S)
                        [] OTHER -> None

\* resolve_window_selection
ResolveWindow(ws, w) == IF w \in Range(ws) THEN w ELSE ws[1]
IndexOf(ws, w) == CHOOSE i \in DOMAIN ws : ws[i] = w

\* The window show_agent looks for: the app's, or else the pane's own.
Want(w, p) == IF w # None THEN w ELSE p

-----------------------------------------------------------------------------
(* Active Now *)

Inventory(s) == UNION {Range(s.windows[a]) : a \in s.agents}

\* rank_active_windows: class, then time unless it is noise, then id.
Ahead(s, v, w) ==
  LET hv == s.heat[v] hw == s.heat[w] IN
  \/ hv.kind > hw.kind
  \/ hv.kind = hw.kind /\ hv.kind > 0 /\ hv.epoch > hw.epoch
  \/ hv.kind = hw.kind /\ (hv.kind = 0 \/ hv.epoch = hw.epoch) /\ Id[v] < Id[w]
Top(s, S) == CHOOSE v \in S : \A w \in S \ {v} : Ahead(s, v, w)
Ranked(s) == {b \in Screens \cap Inventory(s) : s.heat[b].eligible}

\* pick_active_now without a lock: the best with a signal, else with a text, else the first.
Hottest(s) ==
  LET Signal == {b \in Ranked(s) : s.heat[b].kind > 0}
      Texts == {b \in Ranked(s) : s.heat[b].text}
  IN CASE Signal # {} -> Top(s, Signal)
       [] Signal = {} /\ Texts # {} -> Top(s, Texts)
       [] Signal = {} /\ Texts = {} /\ Ranked(s) # {} -> Top(s, Ranked(s))
       [] OTHER -> None

\* Mutant: a pinned window must be eligible still.
PickEligible(s, l) == IF l \in Ranked(s) THEN l ELSE Hottest(s)

\* pick_active_now: the pinned window, even one that is not ranked.
Pick(s, l) == IF l \in Inventory(s) THEN l ELSE Hottest(s)

\* follow_lock_still_present
Held(s, l) == IF l \in Inventory(s) THEN l ELSE None

\* _update_focus_screens: the Broca of the selection, Active Now, letta, and the
\* other screens of the selection.
FocusOf(s, a, act) ==
  LET mine == IF a = None THEN {} ELSE Range(s.windows[a])
  IN [first |-> IF a # None /\ Broca[a] \in mine THEN Broca[a] ELSE None,
      active |-> act,
      rest |-> IF a = None THEN {} ELSE (mine \cap Secondary[a]) \ {act}]

-----------------------------------------------------------------------------
(* Paints *)

\* Mutant: the paint leaves the list its filter.
AppliedNot == listFilter

\* The filter the painted list gets.
Applied == filter

\* _paint_from_collector with a newer snapshot s, its first steps of nine: a
\* step that raises ends it, and the revision counts as painted all the same.
Steps == 9
Paint(s, done) ==
  LET a == ResolveAgent(Visible(s, Applied), name)
      w == IF a = None THEN wid ELSE ResolveWindow(s.windows[a], wid)
      held == Held(s, lock)
      act == Pick(s, held)
      Upto(n, new, old) == IF done >= n THEN new ELSE old
  IN /\ done < Steps => torn < MaxTorn
     /\ snap' = s
     /\ listed' = Upto(2, s, listed)
     /\ listFilter' = Upto(2, Applied, listFilter)
     /\ name' = Upto(2, a, name)
     /\ paneWid' = Upto(4, w, Upto(3, wid, paneWid))
     /\ at' = Upto(4, IF a = None THEN at ELSE IndexOf(s.windows[a], w), at)
     /\ shown' = Upto(5, IF a = None THEN <<None, None>> ELSE <<a, w>>, shown)
     /\ wid' = Upto(6, w, wid)
     /\ lock' = Upto(6, held, lock)
     /\ focus' = Upto(7, FocusOf(s, a, act), focus)
     /\ active' = Upto(8, [window |-> act, locked |-> held # None], active)
     /\ told' = Upto(9, a, told)
     /\ torn' = IF done < Steps THEN torn + 1 ELSE 0
     /\ UNCHANGED <<filter, expanded>>

\* Mutant: the tick tells the host nothing.
RefocusNot == UNCHANGED focus

\* refresh_host before it paints: the focus of what the list and _snap have now.
Refocus == focus' = FocusOf(listed', name', Pick(snap', lock'))

\* The timer, when no newer revision is there: nothing is painted.
Tick == /\ UNCHANGED <<snap, listed, filter, listFilter, name, wid, pane, expanded, lock, active, told, torn>>
        /\ Refocus

-----------------------------------------------------------------------------
(* Keys.  The paint at the end of refresh_host is an action of its own: nothing *)
(* runs between the two, and without a newer revision there is none.            *)

\* WindowPane.show_agent, and what of it the app takes over (_sync_windows,
\* action_down): w is the window asked for, a the agent of the list.
Show(a, w) ==
  IF a = None
  THEN shown' = <<None, None>> /\ wid' = paneWid /\ UNCHANGED <<paneWid, at>>
  ELSE LET new == ResolveWindow(listed.windows[a], Want(w, paneWid))
       IN /\ paneWid' = new /\ wid' = new
          /\ at' = IndexOf(listed.windows[a], new)
          /\ shown' = <<a, new>>

\* action_down and action_up, from agent to agent.
MoveAgent(d) ==
  /\ ~ expanded \/ name = None
  /\ name' = Moved(name, Visible(listed, listFilter), d)
  /\ Show(name', None)
  /\ UNCHANGED <<snap, listed, filter, listFilter, expanded, lock, active, told, torn>>
  /\ Refocus

\* Mutant: down in the expanded pane moves a window of the app's, not the pane's.
MoveWindowApp(d) ==
  /\ expanded /\ name # None
  /\ LET ws == listed.windows[name]
         i == (at - 1 + d) % Len(ws)
     IN wid' = ws[i + 1]
  /\ UNCHANGED <<snap, listed, filter, listFilter, name, pane, expanded, lock, active, focus, told, torn>>

\* The same in the expanded pane, from window to window, from the pane's index on.
MoveWindow(d) ==
  /\ expanded /\ name # None
  /\ LET ws == listed.windows[name]
         i == (at - 1 + d) % Len(ws)
     IN Show(name, ws[i + 1])
  /\ UNCHANGED <<snap, listed, filter, listFilter, name, expanded, lock, active, focus, told, torn>>

\* action_expand and action_collapse
Expand(e) == /\ expanded' = e
             /\ Show(name, wid)
             /\ UNCHANGED <<snap, listed, filter, listFilter, name, lock, active, focus, told, torn>>

\* on_input_submitted: the list takes the filter with the next paint only.
SubmitFilter(f) == /\ filter' = f
                   /\ UNCHANGED <<snap, listed, listFilter, name, wid, pane, expanded, lock, active, told, torn>>
                   /\ Refocus

\* action_toggle_active_pin: nothing is pinned any more, or the hottest window of _snap.
Pin == /\ lock' = IF lock # None THEN None ELSE Hottest(snap)
       /\ UNCHANGED <<snap, listed, filter, listFilter, name, wid, pane, expanded, active, told, torn>>
       /\ Refocus

-----------------------------------------------------------------------------

PaintWhole == \E s \in Snapshots : Paint(s, Steps)

Next == \/ \E s \in Snapshots, done \in 1..Steps : Paint(s, done)
        \/ Tick
        \/ \E d \in {1, -1} : MoveAgent(d) \/ MoveWindow(d)
        \/ \E e \in BOOLEAN : Expand(e)
        \/ \E f \in Filters : SubmitFilter(f)
        \/ Pin

\* Every tick asks for a collection, and not every paint raises.
Fairness == WF_vars(PaintWhole)

Spec == Init /\ [][Next]_vars
FairSpec == Spec /\ Fairness

-----------------------------------------------------------------------------
(* Properties *)

Agent == Agents \cup {None}
Window == Windows \cup {None}

TypeOK == /\ snap \in SnapshotType /\ listed \in SnapshotType
          /\ filter \in Filters /\ listFilter \in Filters
          /\ name \in Agent /\ told \in Agent
          /\ wid \in Window /\ paneWid \in Window /\ at \in Nat \ {0}
          /\ shown \in Agent \X Window
          /\ expanded \in BOOLEAN /\ lock \in Window
          /\ active \in [window : Window, locked : BOOLEAN]
          /\ focus \in [first : Window, active : Window, rest : SUBSET Windows]
          /\ torn \in 0..MaxTorn

\* "Selection survives inventory churn by name / window id" (docs/ARCHITECTURE.md):
\* the selected agent changes by a key, or because its row is gone, and never
\* back by itself; and the window of the agent stays as long as it is listed.
KeepsAgent == \/ name' \in {name, None} \/ name \notin Visible(listed', listFilter')
              \/ \E d \in {1, -1} : MoveAgent(d)
KeepsWindow == \/ wid' = wid \/ name = None \/ name' # name
               \/ wid \notin Range(listed'.windows[name])
               \/ \E d \in {1, -1} : MoveAgent(d) \/ MoveWindow(d)
SelectionKept == [][KeepsAgent /\ KeepsWindow]_vars

\* Three places hold the selected window and two the agent.  Unless a paint was
\* cut short they agree: the pane shows the selected agent and the window of it
\* that the app has, with the index the keys count from.
OneSelection ==
  (torn = 0) => /\ listed = snap
                /\ name = ResolveAgent(Visible(listed, listFilter), name)
                /\ shown[1] = name
                /\ (name # None) => /\ shown[2] = wid /\ paneWid = wid
                                    /\ at \in DOMAIN listed.windows[name]
                                    /\ listed.windows[name][at] = wid

\* The hardcopies go first to what the user looks at: after any key, the focus is
\* that of the selection and of Active Now.
FocusFollows == (torn = 0) => focus = FocusOf(listed, name, Pick(snap, lock))

\* A pin holds: Active Now does not leave the window it shows as LOCKED while that
\* is pinned, whatever else talks, and the pin goes by the key or with its window.
PinHeld == [][/\ lock' # lock => lock \notin Inventory(snap') \/ Pin
              /\ (active.locked /\ active.window = lock /\ lock' = lock /\ lock # None)
                   => active' = active]_vars

\* A paint cut short, a filter and a new selection reach the list, the panes and
\* the turn stream with some later paint.
Settles == []<>(torn = 0 /\ listFilter = filter /\ told = name)
=============================================================================
