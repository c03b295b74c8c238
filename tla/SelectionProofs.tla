--------------------------- MODULE SelectionProofs ---------------------------
(* Proofs about Selection for any finite sets of agents and windows, any         *)
(* snapshots and any number of paints cut short.  The inductive invariant says    *)
(* that the list always has the selected row, torn paint or not; that the other    *)
(* holders of the selection agree is invariant only while no paint was cut short.  *)
EXTENDS Selection, FiniteSetTheorems, TLAPS

\* The snapshots painted were published, or none was yet.
Published == snap \in Snapshots \cup {Empty} /\ listed \in Snapshots \cup {Empty}

\* The selected row is one of the list, if it has any.
RowListed == name = ResolveAgent(Visible(listed, listFilter), name)

IInv == TypeOK /\ Published /\ RowListed /\ OneSelection /\ FocusFollows

-----------------------------------------------------------------------------
(* Orders of finite sets *)

\* A strict order of a finite set has a least element.
LEMMA FiniteMinimal ==
  ASSUME NEW S, IsFiniteSet(S), S # {}, NEW R,
         \A x \in S : <<x, x>> \notin R,
         \A x, y, z \in S : <<x, y>> \in R /\ <<y, z>> \in R => <<x, z>> \in R
  PROVE  \E x \in S : \A y \in S : <<y, x>> \notin R
<1> DEFINE D(x) == {y \in S : <<y, x>> \in R}
           F == {D(x) : x \in S}
<1>1. F \subseteq FiniteSubsetsOf(S) /\ F # {}
  <2>1. FiniteSubsetsOf(S) = SUBSET S
    BY FS_FiniteSubsetsOfFinite
  <2>2. \A x \in S : D(x) \in SUBSET S
    OBVIOUS
  <2>3. \E x \in S : D(x) \in F
    OBVIOUS
  <2> HIDE DEF D
  <2> QED
    BY <2>1, <2>2, <2>3
<1>2. PICK T \in F : \A U \in F : <<U, T>> \notin StrictSubsetOrdering(S)
  BY <1>1, WFMin, FS_StrictSubsetOrderingWellFounded
<1>3. PICK x \in S : T = D(x)
  BY <1>2
<1>4. ASSUME NEW y \in S, <<y, x>> \in R PROVE FALSE
  <2>1. D(y) \subseteq D(x) /\ y \in D(x) /\ y \notin D(y)
    BY <1>4
  <2>2. <<D(y), D(x)>> \in StrictSubsetOrdering(S)
    BY <2>1 DEF StrictSubsetOrdering
  <2> QED
    BY <1>2, <1>3, <2>2
<1> QED
  BY <1>4

\* Rows have a first and a last one.
LEMMA FirstLast == ASSUME NEW S \in SUBSET Agents, S # {}
                   PROVE  First(S) \in S /\ Last(S) \in S
<1> DEFINE Up == {p \in S \X S : Place[p[1]] < Place[p[2]]}
           Down == {p \in S \X S : Place[p[2]] < Place[p[1]]}
<1>0. \A a \in S : Place[a] \in Nat
  BY SelectionAssumption
<1>1. IsFiniteSet(S)
  BY SelectionAssumption, FS_Subset
<1>2. PICK a \in S : \A b \in S : <<b, a>> \notin Up
  <2>1. /\ \A x \in S : <<x, x>> \notin Up
        /\ \A x, y, z \in S : <<x, y>> \in Up /\ <<y, z>> \in Up => <<x, z>> \in Up
    BY <1>0
  <2> HIDE DEF Up
  <2> QED
    BY <1>1, <2>1, FiniteMinimal
<1>3. PICK z \in S : \A b \in S : <<b, z>> \notin Down
  <2>1. /\ \A x \in S : <<x, x>> \notin Down
        /\ \A x, y, w \in S : <<x, y>> \in Down /\ <<y, w>> \in Down => <<x, w>> \in Down
    BY <1>0
  <2> HIDE DEF Down
  <2> QED
    BY <1>1, <2>1, FiniteMinimal
<1>4. \A b \in S : Place[a] <= Place[b] /\ Place[b] <= Place[z]
  <2>1. \A b \in S : ~ (Place[b] < Place[a]) /\ ~ (Place[z] < Place[b])
    BY <1>2, <1>3
  <2> QED
    BY <1>0, <2>1
<1> QED
  BY <1>4 DEF First, Last

\* The list never resolves to an agent it does not have.
LEMMA ResolveAgentIn ==
  ASSUME NEW S \in SUBSET Agents, NEW a \in Agent
  PROVE  /\ ResolveAgent(S, a) \in S \cup {None}
         /\ S # {} => ResolveAgent(S, a) \in S
         /\ ResolveAgent(S, a) = ResolveAgent(S, ResolveAgent(S, a))
<1>1. None \notin S
  BY SelectionAssumption
<1> QED
  BY <1>1, FirstLast DEF ResolveAgent, Agent

\* A key moves from a row to a row.
LEMMA MovedIn ==
  ASSUME NEW S \in SUBSET Agents, NEW a \in Agent, NEW d \in {1, -1},
         a = ResolveAgent(S, a)
  PROVE  /\ Moved(a, S, d) \in S \cup {None}
         /\ Moved(a, S, d) = ResolveAgent(S, Moved(a, S, d))
<1>1. After(a, S) \in SUBSET Agents /\ After(a, S) \subseteq S
  BY DEF After
<1>2. Before(a, S) \in SUBSET Agents /\ Before(a, S) \subseteq S
  BY DEF Before
<1>3. CASE S = {}
  <2>1. Moved(a, S, d) = a
    BY <1>3 DEF Moved
  <2> QED
    BY <2>1, ResolveAgentIn
<1>4. CASE S # {}
  <2>1. First(S) \in S /\ Last(S) \in S
    BY <1>4, FirstLast
  <2>2. After(a, S) # {} => First(After(a, S)) \in S
    BY <1>1, FirstLast
  <2>3. Before(a, S) # {} => Last(Before(a, S)) \in S
    BY <1>2, FirstLast
  <2>4. Moved(a, S, d) \in S
    BY <1>4, <2>1, <2>2, <2>3 DEF Moved
  <2> QED
    BY <2>4 DEF ResolveAgent
<1> QED
  BY <1>3, <1>4

\* A window resolved is one of those listed, at its index.
LEMMA ResolveWindowIn ==
  ASSUME NEW ws \in Seq(Windows), ws # << >>, NEW w
  PROVE  LET r == ResolveWindow(ws, w) IN
         /\ r \in Range(ws) /\ r \in Windows
         /\ IndexOf(ws, r) \in DOMAIN ws /\ IndexOf(ws, r) \in Nat \ {0}
         /\ ws[IndexOf(ws, r)] = r
<1> DEFINE r == ResolveWindow(ws, w)
<1>1. 1 \in DOMAIN ws /\ DOMAIN ws = 1..Len(ws) /\ Len(ws) \in Nat
  OBVIOUS
<1>2. r \in Range(ws)
  BY <1>1 DEF ResolveWindow, Range
<1>3. PICK i \in DOMAIN ws : ws[i] = r
  BY <1>2 DEF Range
<1>4. IndexOf(ws, r) \in DOMAIN ws /\ ws[IndexOf(ws, r)] = r
  BY <1>3 DEF IndexOf
<1> QED
  BY <1>1, <1>2, <1>3, <1>4

-----------------------------------------------------------------------------
(* Active Now *)

\* The ranking is a strict total order of the Brocas, so it has a top.
LEMMA TopIn == ASSUME NEW s \in SnapshotType, NEW S \in SUBSET Screens, S # {}
               PROVE  Top(s, S) \in S
<1> DEFINE R == {p \in S \X S : Ahead(s, p[1], p[2])}
<1>1. \A v \in S : /\ s.heat[v].kind \in 0..2 /\ s.heat[v].epoch \in Nat /\ Id[v] \in Nat
  BY SelectionAssumption DEF SnapshotType, Heat
<1>2. \A v, w \in S : v # w => Id[v] # Id[w]
  BY SelectionAssumption DEF IsInjective
<1>3. \A v \in S : ~ Ahead(s, v, v)
  BY <1>1 DEF Ahead
<1>4. \A u, v, w \in S : Ahead(s, u, v) /\ Ahead(s, v, w) => Ahead(s, u, w)
  BY <1>1 DEF Ahead
<1>5. \A v, w \in S : v # w => Ahead(s, v, w) \/ Ahead(s, w, v)
  BY <1>1, <1>2 DEF Ahead
<1>6. IsFiniteSet(S)
  <2>1. Screens \subseteq Windows
    BY SelectionAssumption DEF Screens
  <2> QED
    BY <2>1, SelectionAssumption, FS_Subset
<1>7. PICK v \in S : \A w \in S : <<w, v>> \notin R
  <2>1. /\ \A x \in S : <<x, x>> \notin R
        /\ \A x, y, z \in S : <<x, y>> \in R /\ <<y, z>> \in R => <<x, z>> \in R
    BY <1>3, <1>4
  <2> HIDE DEF R
  <2> QED
    BY <1>6, <2>1, FiniteMinimal
<1>8. \A w \in S \ {v} : Ahead(s, v, w)
  BY <1>5, <1>7
<1> QED
  BY <1>8 DEF Top

LEMMA PickIn == ASSUME NEW s \in SnapshotType, NEW l \in Window
                PROVE  /\ Hottest(s) \in Window /\ Pick(s, l) \in Window /\ Held(s, l) \in Window
<1>1. Ranked(s) \subseteq Screens
  BY DEF Ranked
<1>2. Screens \subseteq Windows
  BY SelectionAssumption DEF Screens
<1>3. \A S \in SUBSET Ranked(s) : S # {} => Top(s, S) \in Window
  BY <1>1, <1>2, TopIn DEF Window
<1>4. Hottest(s) \in Window
  BY <1>3 DEF Hottest, Window
<1> QED
  BY <1>4 DEF Pick, Held, Window

LEMMA FocusType ==
  ASSUME NEW s \in SnapshotType, NEW a \in Agent, NEW w \in Window
  PROVE  FocusOf(s, a, w) \in [first : Window, active : Window, rest : SUBSET Windows]
<1>1. a # None => Broca[a] \in Window /\ Secondary[a] \subseteq Windows
  BY SelectionAssumption DEF Agent, Window
<1> QED
  BY <1>1 DEF FocusOf, Window

\* The agents of a snapshot have windows.
LEMMA ListedWindows ==
  ASSUME NEW s \in Snapshots \cup {Empty}
  PROVE  /\ s \in SnapshotType
         /\ \A f \in Filters : Visible(s, f) \in SUBSET Agents
         /\ \A f \in Filters : \A a \in Visible(s, f) :
              /\ s.windows[a] \in Seq(Windows) /\ s.windows[a] # << >>
<1>1. Empty \in SnapshotType
  BY DEF Empty, SnapshotType, Heat
<1>2. s \in SnapshotType
  BY <1>1, SelectionAssumption
<1>3. s.agents \subseteq Agents /\ \A a \in s.agents : s.windows[a] \in Seq(Windows)
  BY <1>2 DEF SnapshotType
<1>4. \A a \in s.agents : s.windows[a] # << >>
  BY SelectionAssumption DEF Empty
<1> QED
  BY <1>2, <1>3, <1>4 DEF Visible

-----------------------------------------------------------------------------
(* The inductive invariant *)

\* What show_agent does to the pane, for a row of the list.
LEMMA ShowStep ==
  ASSUME IInv, NEW a, a = None \/ a \in Visible(listed, listFilter), NEW w \in Window, Show(a, w)
  PROVE  /\ paneWid' \in Window /\ wid' = paneWid' /\ at' \in Nat \ {0}
         /\ shown' \in Agent \X Window /\ shown'[1] = a
         /\ (a # None) => /\ shown'[2] = wid' /\ wid' = ResolveWindow(listed.windows[a], Want(w, paneWid))
                          /\ at' \in DOMAIN listed.windows[a] /\ listed.windows[a][at'] = wid'
<1>1. CASE a = None
  BY <1>1 DEF Show, IInv, TypeOK, Agent, Window
<1>2. CASE a # None
  <2> DEFINE ws == listed.windows[a]
             new == ResolveWindow(ws, Want(w, paneWid))
  <2>1. a \in Agents /\ ws \in Seq(Windows) /\ ws # << >>
    BY <1>2, ListedWindows DEF IInv, TypeOK, Published
  <2>2. /\ new \in Windows /\ IndexOf(ws, new) \in DOMAIN ws
        /\ IndexOf(ws, new) \in Nat \ {0} /\ ws[IndexOf(ws, new)] = new
    BY <2>1, ResolveWindowIn
  <2>3. paneWid' = new /\ wid' = new /\ at' = IndexOf(ws, new) /\ shown' = <<a, new>>
    BY <1>2 DEF Show
  <2> HIDE DEF new, ws
  <2>4. new = ResolveWindow(listed.windows[a], Want(w, paneWid)) /\ ws = listed.windows[a]
    BY DEF new, ws
  <2> QED
    BY <1>2, <2>1, <2>2, <2>3, <2>4 DEF Agent, Window
<1> QED
  BY <1>1, <1>2

\* The selected row is None or one of the list.
LEMMA SelectedRow == IInv => /\ name = None \/ name \in Visible(listed, listFilter)
                             /\ Visible(listed, listFilter) \in SUBSET Agents
BY ListedWindows, ResolveAgentIn DEF IInv, TypeOK, Published, RowListed

LEMMA PaintStep ==
  ASSUME IInv, NEW s \in Snapshots, NEW done \in 1..Steps, Paint(s, done)
  PROVE  IInv'
<1> DEFINE a == ResolveAgent(Visible(s, Applied), name)
           w == IF a = None THEN wid ELSE ResolveWindow(s.windows[a], wid)
           held == Held(s, lock)
           act == Pick(s, held)
           i == IF a = None THEN at ELSE IndexOf(s.windows[a], w)
           sh == IF a = None THEN <<None, None>> ELSE <<a, w>>
<1>0. TypeOK /\ Published /\ RowListed /\ done \in Nat /\ done <= 9 /\ Applied = filter
  BY DEF IInv, Steps, Applied
<1>1. /\ s \in SnapshotType /\ Visible(s, filter) \in SUBSET Agents
      /\ \A b \in Visible(s, filter) : s.windows[b] \in Seq(Windows) /\ s.windows[b] # << >>
  BY <1>0, ListedWindows DEF TypeOK
<1>2. /\ a \in Agent /\ a \in Visible(s, filter) \cup {None}
      /\ a = ResolveAgent(Visible(s, filter), a)
  BY <1>0, <1>1, ResolveAgentIn DEF TypeOK, Agent
<1>3. a # None => /\ w \in Windows /\ i \in DOMAIN s.windows[a] /\ i \in Nat \ {0}
                  /\ s.windows[a][i] = w
  BY <1>1, <1>2, ResolveWindowIn
<1>4. w \in Window /\ i \in Nat \ {0} /\ sh \in Agent \X Window /\ sh[1] = a
  BY <1>0, <1>2, <1>3 DEF TypeOK, Agent, Window
<1>5. held \in Window /\ act \in Window
  BY <1>0, <1>1, PickIn DEF TypeOK
<1>6. FocusOf(s, a, act) \in [first : Window, active : Window, rest : SUBSET Windows]
  BY <1>1, <1>2, <1>5, FocusType
<1>7. /\ done < 9 => torn < MaxTorn
      /\ snap' = s
      /\ listed' = IF done >= 2 THEN s ELSE listed
      /\ listFilter' = IF done >= 2 THEN filter ELSE listFilter
      /\ name' = IF done >= 2 THEN a ELSE name
      /\ paneWid' = IF done >= 4 THEN w ELSE IF done >= 3 THEN wid ELSE paneWid
      /\ at' = IF done >= 4 THEN i ELSE at
      /\ shown' = IF done >= 5 THEN sh ELSE shown
      /\ wid' = IF done >= 6 THEN w ELSE wid
      /\ lock' = IF done >= 6 THEN held ELSE lock
      /\ focus' = IF done >= 7 THEN FocusOf(s, a, act) ELSE focus
      /\ active' = IF done >= 8 THEN [window |-> act, locked |-> held # None] ELSE active
      /\ told' = IF done >= 9 THEN a ELSE told
      /\ torn' = IF done < 9 THEN torn + 1 ELSE 0
      /\ filter' = filter /\ expanded' = expanded
  BY <1>0 DEF Paint, Steps
<1>8. sh[2] = w \/ a = None
  OBVIOUS
<1> HIDE DEF a, w, held, act, i, sh
<1>9. TypeOK'
  <2>1. torn' \in 0..MaxTorn
    BY <1>0, <1>7, SelectionAssumption DEF TypeOK
  <2>2. /\ snap' \in SnapshotType /\ listed' \in SnapshotType
        /\ filter' \in Filters /\ listFilter' \in Filters /\ expanded' \in BOOLEAN
    BY <1>0, <1>1, <1>7 DEF TypeOK
  <2>3. /\ name' \in Agent /\ told' \in Agent
        /\ wid' \in Window /\ paneWid' \in Window /\ lock' \in Window
    BY <1>0, <1>2, <1>4, <1>5, <1>7 DEF TypeOK
  <2>4. at' \in Nat \ {0} /\ shown' \in Agent \X Window
    BY <1>0, <1>4, <1>7 DEF TypeOK
  <2>5. active' \in [window : Window, locked : BOOLEAN]
    BY <1>0, <1>5, <1>7 DEF TypeOK
  <2>6. focus' \in [first : Window, active : Window, rest : SUBSET Windows]
    BY <1>0, <1>6, <1>7 DEF TypeOK
  <2> QED
    BY <2>1, <2>2, <2>3, <2>4, <2>5, <2>6 DEF TypeOK
<1>10. Published'
  BY <1>0, <1>7 DEF Published
<1>11. RowListed'
  BY <1>0, <1>2, <1>7 DEF RowListed
<1>12. torn' = 0 => done = 9
  BY <1>0, <1>7, SelectionAssumption DEF TypeOK
<1>13. OneSelection'
  BY <1>2, <1>3, <1>4, <1>7, <1>8, <1>12 DEF OneSelection
<1>14. FocusFollows'
  <2>1. done = 9 => act = Pick(snap', lock')
    BY <1>7 DEF act, held
  <2> QED
    BY <1>7, <1>12, <2>1 DEF FocusFollows
<1> QED
  BY <1>9, <1>10, <1>11, <1>13, <1>14 DEF IInv

\* The part of the invariant about the focus, for every handler that refreshes it.
LEMMA RefocusStep ==
  ASSUME snap' \in SnapshotType, listed' \in SnapshotType, name' \in Agent, lock' \in Window, Refocus
  PROVE  /\ focus' \in [first : Window, active : Window, rest : SUBSET Windows]
         /\ FocusFollows'
<1>1. Pick(snap', lock') \in Window
  BY PickIn
<1> QED
  BY <1>1, FocusType DEF Refocus, FocusFollows

LEMMA KeyStep == ASSUME IInv, NEW d \in {1, -1}, MoveAgent(d) \/ MoveWindow(d)
                 PROVE  IInv'
<1>0. TypeOK /\ Published /\ RowListed /\ None \in Window
  BY DEF IInv, Window
<1>1. CASE MoveAgent(d)
  <2>1. /\ name' \in Visible(listed, listFilter) \cup {None}
        /\ name' = ResolveAgent(Visible(listed, listFilter), name')
    BY <1>0, <1>1, SelectedRow, MovedIn DEF MoveAgent, TypeOK, RowListed
  <2>2. Show(name', None)
    BY <1>1 DEF MoveAgent
  <2>3. /\ paneWid' \in Window /\ wid' = paneWid' /\ at' \in Nat \ {0}
        /\ shown' \in Agent \X Window /\ shown'[1] = name'
        /\ (name' # None) => /\ shown'[2] = wid' /\ at' \in DOMAIN listed.windows[name']
                             /\ listed.windows[name'][at'] = wid'
    BY <1>0, <2>1, <2>2, ShowStep
  <2>4. name' \in Agent
    BY <2>1, SelectedRow DEF Agent
  <2>5. UNCHANGED <<snap, listed, filter, listFilter, expanded, lock, active, told, torn>> /\ Refocus
    BY <1>1 DEF MoveAgent
  <2>6. /\ focus' \in [first : Window, active : Window, rest : SUBSET Windows]
        /\ FocusFollows'
    BY <1>0, <2>4, <2>5, RefocusStep DEF TypeOK
  <2>7. TypeOK'
    BY <1>0, <2>3, <2>4, <2>5, <2>6 DEF TypeOK
  <2>8. Published' /\ RowListed'
    BY <1>0, <2>1, <2>5 DEF Published, RowListed
  <2>9. OneSelection'
    BY <2>1, <2>3, <2>5 DEF OneSelection, IInv
  <2> QED
    BY <2>6, <2>7, <2>8, <2>9 DEF IInv
<1>2. CASE MoveWindow(d)
  <2> DEFINE ws == listed.windows[name]
             i == ((at - 1 + d) % Len(ws)) + 1
  <2>1. name # None /\ name \in Visible(listed, listFilter)
    BY <1>2, SelectedRow DEF MoveWindow
  <2>2. ws \in Seq(Windows) /\ ws # << >> /\ at \in Nat
    BY <1>0, <2>1, ListedWindows DEF Published, TypeOK
  <2>3. i \in 1..Len(ws)
    <3>1. Len(ws) \in Nat \ {0} /\ at - 1 + d \in Int
      BY <2>2
    <3> HIDE DEF ws
    <3> QED
      BY <3>1
  <2>4. ws[i] \in Window
    BY <2>2, <2>3 DEF Window
  <2>5. Show(name, ws[i])
    BY <1>2 DEF MoveWindow
  <2> HIDE DEF i
  <2>6. /\ paneWid' \in Window /\ wid' = paneWid' /\ at' \in Nat \ {0}
        /\ shown' \in Agent \X Window /\ shown'[1] = name
        /\ shown'[2] = wid' /\ at' \in DOMAIN listed.windows[name]
        /\ listed.windows[name][at'] = wid'
    BY <1>0, <2>1, <2>4, <2>5, ShowStep
  <2>7. UNCHANGED <<snap, listed, filter, listFilter, name, expanded, lock, active, focus, told, torn>>
    BY <1>2 DEF MoveWindow
  <2>8. TypeOK' /\ Published' /\ RowListed'
    BY <1>0, <2>6, <2>7 DEF TypeOK, Published, RowListed
  <2>9. OneSelection' /\ FocusFollows'
    BY <2>6, <2>7 DEF OneSelection, FocusFollows, IInv
  <2> QED
    BY <2>8, <2>9 DEF IInv
<1> QED
  BY <1>1, <1>2

LEMMA ExpandStep == ASSUME IInv, NEW e \in BOOLEAN, Expand(e) PROVE IInv'
<1>0. TypeOK /\ Published /\ RowListed /\ Show(name, wid)
  BY DEF IInv, Expand
<1>1. UNCHANGED <<snap, listed, filter, listFilter, name, lock, active, focus, told, torn>> /\ expanded' = e
  BY DEF Expand
<1>2. /\ paneWid' \in Window /\ wid' = paneWid' /\ at' \in Nat \ {0}
      /\ shown' \in Agent \X Window /\ shown'[1] = name
      /\ (name # None) => /\ shown'[2] = wid' /\ at' \in DOMAIN listed.windows[name]
                          /\ listed.windows[name][at'] = wid'
  BY <1>0, SelectedRow, ShowStep DEF TypeOK
<1>3. TypeOK' /\ Published' /\ RowListed'
  BY <1>0, <1>1, <1>2 DEF TypeOK, Published, RowListed
<1>4. OneSelection' /\ FocusFollows'
  BY <1>1, <1>2 DEF OneSelection, FocusFollows, IInv
<1> QED
  BY <1>3, <1>4 DEF IInv

\* The handlers that leave the list and the pane alone.
LEMMA AsideStep == ASSUME IInv, Tick \/ Pin \/ \E f \in Filters : SubmitFilter(f)
                   PROVE  IInv'
<1>0. TypeOK /\ Published /\ RowListed
  BY DEF IInv
<1>1. /\ UNCHANGED <<snap, listed, listFilter, name, wid, pane, expanded, active, told, torn>>
      /\ filter' \in Filters /\ Refocus
  BY <1>0 DEF Tick, Pin, SubmitFilter, TypeOK
<1>2. lock' \in Window
  <2>1. CASE Pin
    BY <1>0, <2>1, PickIn DEF Pin, TypeOK, Window
  <2>2. CASE ~ Pin
    BY <1>0, <2>2 DEF Tick, SubmitFilter, TypeOK
  <2> QED
    BY <2>1, <2>2
<1>3. /\ focus' \in [first : Window, active : Window, rest : SUBSET Windows]
      /\ FocusFollows'
  BY <1>0, <1>1, <1>2, RefocusStep DEF TypeOK
<1>4. TypeOK' /\ Published' /\ RowListed'
  BY <1>0, <1>1, <1>2, <1>3 DEF TypeOK, Published, RowListed, pane
<1>5. OneSelection'
  BY <1>1 DEF OneSelection, IInv, pane
<1> QED
  BY <1>3, <1>4, <1>5 DEF IInv

LEMMA InitInv == Init => IInv
<1> SUFFICES ASSUME Init PROVE IInv
  OBVIOUS
<1>1. Empty \in SnapshotType /\ MaxTorn \in Nat
  BY ListedWindows, SelectionAssumption
<1>2. TypeOK
  <2>1. /\ snap \in SnapshotType /\ listed \in SnapshotType
        /\ filter \in Filters /\ listFilter \in Filters
        /\ name \in Agent /\ told \in Agent /\ torn \in 0..MaxTorn
    BY <1>1 DEF Init, Agent
  <2>2. /\ wid \in Window /\ paneWid \in Window /\ at \in Nat \ {0}
        /\ shown \in Agent \X Window /\ lock \in Window
    BY DEF Init, Agent, Window
  <2>3. expanded \in BOOLEAN /\ active \in [window : Window, locked : BOOLEAN]
    BY DEF Init, Window
  <2>4. focus \in [first : Window, active : Window, rest : SUBSET Windows]
    BY DEF Init, Window, NoFocus
  <2> QED
    BY <2>1, <2>2, <2>3, <2>4 DEF TypeOK
<1>3. Visible(listed, listFilter) = {}
  BY DEF Init, Visible, Empty
<1>4. Published /\ RowListed
  BY <1>3 DEF Init, Published, RowListed, ResolveAgent
<1>5. OneSelection
  BY <1>3, <1>4 DEF Init, OneSelection, RowListed
<1>6. FocusFollows
  <2>1. Inventory(snap) = {} /\ Ranked(snap) = {}
    BY DEF Init, Empty, Inventory, Ranked
  <2>2. Pick(snap, lock) = None
    BY <2>1 DEF Pick, Hottest
  <2> QED
    BY <2>2 DEF Init, FocusFollows, FocusOf, NoFocus
<1> QED
  BY <1>2, <1>4, <1>5, <1>6 DEF IInv

LEMMA StepInv == IInv /\ [Next]_vars => IInv'
<1> SUFFICES ASSUME IInv, [Next]_vars PROVE IInv'
  OBVIOUS
<1>1. ASSUME NEW s \in Snapshots, NEW done \in 1..Steps, Paint(s, done) PROVE IInv'
  BY <1>1, PaintStep
<1>2. ASSUME NEW d \in {1, -1}, MoveAgent(d) \/ MoveWindow(d) PROVE IInv'
  BY <1>2, KeyStep
<1>3. ASSUME NEW e \in BOOLEAN, Expand(e) PROVE IInv'
  BY <1>3, ExpandStep
<1>4. CASE Tick \/ Pin \/ \E f \in Filters : SubmitFilter(f)
  BY <1>4, AsideStep
<1>5. CASE UNCHANGED vars
  BY <1>5 DEF vars, pane, IInv, TypeOK, Published, RowListed, OneSelection, FocusFollows
<1> QED
  BY <1>1, <1>2, <1>3, <1>4, <1>5 DEF Next

LEMMA Invariant == Spec => []IInv
BY InitInv, StepInv, PTL DEF Spec

\* Every variable keeps its type.
THEOREM TypeCorrect == Spec => []TypeOK
BY Invariant, PTL DEF IInv

\* The holders of the selection agree unless a paint was cut short.
THEOREM SelectionAgrees == Spec => []OneSelection
BY Invariant, PTL DEF IInv

\* The focus is that of the selection and of Active Now.
THEOREM FocusCorrect == Spec => []FocusFollows
BY Invariant, PTL DEF IInv

-----------------------------------------------------------------------------
(* What a step may do *)

\* Only a key takes the selection away from an agent or a window that is there.
LEMMA KeepStep == IInv /\ [Next]_vars => [KeepsAgent /\ KeepsWindow]_vars
<1> SUFFICES ASSUME IInv, Next PROVE KeepsAgent /\ KeepsWindow
  BY DEF Next
<1>0. TypeOK /\ Published
  BY DEF IInv
<1>1. ASSUME NEW s \in Snapshots, NEW done \in 1..Steps, Paint(s, done)
      PROVE  KeepsAgent /\ KeepsWindow
  <2> DEFINE a == ResolveAgent(Visible(s, Applied), name)
             w == IF a = None THEN wid ELSE ResolveWindow(s.windows[a], wid)
  <2>1. /\ listed' = IF done >= 2 THEN s ELSE listed
        /\ listFilter' = IF done >= 2 THEN Applied ELSE listFilter
        /\ name' = IF done >= 2 THEN a ELSE name
        /\ wid' = IF done >= 6 THEN w ELSE wid
        /\ done \in Nat
    BY <1>1 DEF Paint, Steps
  <2>2. a = name \/ a = None \/ name \notin Visible(s, Applied)
    BY DEF ResolveAgent
  <2>3. KeepsAgent
    BY <2>1, <2>2 DEF KeepsAgent
  <2>4. ASSUME a # None, wid \in Range(s.windows[a]) PROVE w = wid
    BY <2>4 DEF ResolveWindow
  <2> HIDE DEF a, w
  <2>5. KeepsWindow
    BY <2>1, <2>4 DEF KeepsWindow
  <2> QED
    BY <2>3, <2>5
<1>2. ASSUME NEW d \in {1, -1}, MoveAgent(d) \/ MoveWindow(d) PROVE KeepsAgent /\ KeepsWindow
  BY <1>2 DEF KeepsAgent, KeepsWindow, MoveWindow
<1>3. ASSUME NEW e \in BOOLEAN, Expand(e) PROVE KeepsAgent /\ KeepsWindow
  <2>1. name' = name /\ listed' = listed /\ Show(name, wid)
    BY <1>3 DEF Expand
  <2>2. ASSUME name # None, wid \in Range(listed.windows[name]) PROVE wid' = wid
    <3>1. listed.windows[name] \in Seq(Windows)
      BY <1>0, <2>2, SelectedRow, ListedWindows DEF Published, TypeOK
    <3>2. wid \in Windows /\ wid # None
      BY <2>2, <3>1, SelectionAssumption DEF Range
    <3> QED
      BY <2>1, <2>2, <3>2 DEF Show, ResolveWindow, Want
  <2> QED
    BY <2>1, <2>2 DEF KeepsAgent, KeepsWindow
<1>4. CASE Tick \/ Pin \/ \E f \in Filters : SubmitFilter(f)
  <2>1. name' = name /\ wid' = wid
    BY <1>4 DEF Tick, Pin, SubmitFilter
  <2> QED
    BY <2>1 DEF KeepsAgent, KeepsWindow
<1> QED
  BY <1>1, <1>2, <1>3, <1>4 DEF Next

\* "Selection survives inventory churn by name / window id".
THEOREM SelectionIsKept == Spec => SelectionKept
BY Invariant, KeepStep, PTL DEF Spec, SelectionKept

LEMMA PinStep ==
  ASSUME IInv, Next
  PROVE  /\ lock' # lock => lock \notin Inventory(snap') \/ Pin
         /\ (active.locked /\ active.window = lock /\ lock' = lock /\ lock # None)
              => active' = active
<1>0. active = [window |-> active.window, locked |-> active.locked] /\ active.locked \in BOOLEAN
  BY DEF IInv, TypeOK
<1>1. ASSUME NEW s \in Snapshots, NEW done \in 1..Steps, Paint(s, done)
      PROVE  /\ lock' # lock => lock \notin Inventory(snap')
             /\ (active.locked /\ active.window = lock /\ lock' = lock /\ lock # None)
                  => active' = active
  <2> DEFINE held == Held(s, lock)
             act == Pick(s, held)
  <2>1. /\ snap' = s /\ done \in Nat
        /\ lock' = IF done >= 6 THEN held ELSE lock
        /\ active' = IF done >= 8 THEN [window |-> act, locked |-> held # None] ELSE active
    BY <1>1 DEF Paint, Steps
  <2>2. held = lock \/ lock \notin Inventory(s)
    BY DEF Held
  <2>3. held # None => held = lock /\ act = lock
    BY DEF Held, Pick
  <2> HIDE DEF held, act
  <2>4. ASSUME done >= 8, active.locked, active.window = lock, lock' = lock, lock # None
        PROVE  active' = active
    <3>1. held = lock /\ act = lock
      BY <2>1, <2>3, <2>4
    <3>2. active' = [window |-> lock, locked |-> TRUE]
      BY <2>1, <2>4, <3>1
    <3>3. active = [window |-> lock, locked |-> TRUE]
      BY <1>0, <2>4
    <3> QED
      BY <3>2, <3>3
  <2> QED
    BY <2>1, <2>2, <2>4
<1>2. ASSUME NEW d \in {1, -1}, MoveAgent(d) \/ MoveWindow(d) PROVE lock' = lock /\ active' = active
  BY <1>2 DEF MoveAgent, MoveWindow
<1>3. ASSUME NEW e \in BOOLEAN, Expand(e) PROVE lock' = lock /\ active' = active
  BY <1>3 DEF Expand
<1>4. ASSUME Tick \/ \E f \in Filters : SubmitFilter(f) PROVE lock' = lock /\ active' = active
  BY <1>4 DEF Tick, SubmitFilter
<1>5. ASSUME Pin PROVE active' = active
  BY <1>5 DEF Pin
<1> QED
  BY <1>1, <1>2, <1>3, <1>4, <1>5 DEF Next

\* A pin holds whatever else talks, until the key or the window's end.
THEOREM PinIsHeld == Spec => PinHeld
<1>1. IInv /\ [Next]_vars =>
      [/\ lock' # lock => lock \notin Inventory(snap') \/ Pin
       /\ (active.locked /\ active.window = lock /\ lock' = lock /\ lock # None)
            => active' = active]_vars
  BY PinStep
<1> QED
  BY <1>1, Invariant, PTL DEF Spec, PinHeld
=============================================================================
