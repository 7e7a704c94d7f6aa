------------------------ MODULE SessionService_proofs ------------------------
(***************************************************************************)
(* The invariant of SessionService: whatever falls between the turns of an *)
(* opening, the model is consistent, the ids that an opening holds are in  *)
(* no map and no other opening has them, and shells, panes and the notes   *)
(* about command panes belong together.                                    *)
(***************************************************************************)
EXTENDS SessionService, SessionState_proofs

EditorNotes == [PaneId -> [src : PaneId \cup {None}, zoomBack : PaneId \cup {None}]]

\* What an opening holds is handed out and not yet in the maps.
Fresh(n, o) ==
  /\ o.pane \in PaneId /\ o.pane < n.nextP /\ o.pane \notin LivePanes(n)
  /\ o.kind \in {"workspace", "tab"} =>
       o.tab \in TabId /\ o.tab < n.nextT /\ o.tab \notin LiveTabs(n)
  /\ o.kind = "workspace" => o.ws \in WsId /\ o.ws < n.nextW /\ o.ws \notin LiveWs(n)

\* Two openings share no id.
Apart(o, q) ==
  /\ o.pane # q.pane
  /\ o.kind \in {"workspace", "tab"} /\ q.kind \in {"workspace", "tab"} => o.tab # q.tab
  /\ o.kind = "workspace" /\ q.kind = "workspace" => o.ws # q.ws

\* An opening names where it opens.
Located(o) ==
  /\ o.stage # "none" => o.kind # "none"
  /\ o.auto => o.kind = "workspace"
  /\ o.kind = "tab" => o.ws \in WsId
  /\ o.kind \in {"split", "command"} => o.src \in PaneId /\ o.srcTab \in TabId

Openings(pend) ==
  /\ pend \in [Slots -> Op]
  /\ \A s \in Slots : Located(pend[s])
  /\ \A s, u \in Slots :
       s # u /\ pend[s].stage = "spawn" /\ pend[u].stage = "spawn" => Apart(pend[s], pend[u])

SpawnPanes(pend) == {pend[s].pane : s \in {u \in Slots : pend[u].stage = "spawn"}}

\* A state of the service that may go with the openings pend.
Sound(st, pend) ==
  /\ Ok(st.m) /\ CountersStart(st.m)
  /\ st.terminals \subseteq PaneId
  /\ st.terminals \subseteq LivePanes(st.m) \cup SpawnPanes(pend)
  /\ st.editors \in EditorNotes
  /\ \A p \in PaneId : st.editors[p] # NoEditor => p \in LivePanes(st.m)
  /\ \A s \in Slots :
       pend[s].stage = "spawn" => Fresh(st.m, pend[s]) /\ pend[s].pane \in st.terminals

IInv ==
  /\ TypeOK
  /\ Openings(ops)
  /\ Sound(State, ops)
  /\ DeadPaneOnlyAfterSkewedSplit
  /\ EmptyMeansRecreating

-----------------------------------------------------------------------------
(* The openings.                                                           *)

LEMMA OpTypes ==
  /\ NoOp \in Op /\ AutoOp \in Op
  /\ NoOp.stage = "none" /\ NoOp.kind = "none" /\ ~NoOp.auto
  /\ AutoOp.stage = "place" /\ AutoOp.kind = "workspace" /\ AutoOp.auto
BY DEF NoOp, AutoOp, Op

\* A new opening takes a free slot and leaves the others alone.
LEMMA BeginProperties ==
  ASSUME NEW pend \in [Slots -> Op], Free(pend) # {}, NEW o \in Op
  PROVE  \E f \in Slots :
           /\ pend[f] = NoOp
           /\ Begin(pend, o) \in [Slots -> Op]
           /\ \A s \in Slots : Begin(pend, o)[s] = IF s = f THEN o ELSE pend[s]
<1>1. FreeSlot(pend) \in Free(pend)
  BY DEF FreeSlot
<1>2. FreeSlot(pend) \in Slots /\ pend[FreeSlot(pend)] = NoOp
  BY <1>1 DEF Free
<1> QED BY <1>2 DEF Begin

\* An opening that has reserved nothing yet disturbs nothing.
LEMMA BeginKeeps ==
  ASSUME NEW pend, Openings(pend), Free(pend) # {},
         NEW o \in Op, o.stage = "place", Located(o)
  PROVE  /\ Openings(Begin(pend, o))
         /\ \A st : Sound(st, pend) => Sound(st, Begin(pend, o))
         /\ \E f \in Slots : /\ Begin(pend, o)[f] = o /\ pend[f] = NoOp
                             /\ \A s \in Slots \ {f} : Begin(pend, o)[s] = pend[s]
<1> DEFINE b == Begin(pend, o)
<1>1. PICK f \in Slots : /\ pend[f] = NoOp
                         /\ b \in [Slots -> Op]
                         /\ \A s \in Slots : b[s] = IF s = f THEN o ELSE pend[s]
  BY BeginProperties DEF Openings
<1> HIDE DEF b
<1>2. \A s \in Slots : b[s].stage = "spawn" => s # f /\ b[s] = pend[s]
  BY <1>1
<1>3. Openings(b)
  BY <1>1, <1>2 DEF Openings
<1>4. SpawnPanes(b) = SpawnPanes(pend)
  BY <1>1, OpTypes DEF SpawnPanes
<1>5. ASSUME NEW st, Sound(st, pend) PROVE Sound(st, b)
  BY <1>2, <1>4, <1>5 DEF Sound
<1> QED BY <1>1, <1>3, <1>5 DEF b

Ended(pend, s) == [pend EXCEPT ![s] = NoOp]

\* An opening that ends leaves the others.
LEMMA DropSlot ==
  ASSUME NEW pend, Openings(pend), NEW s \in Slots, NEW b, b = Ended(pend, s)
  PROVE  /\ Openings(b)
         /\ \A u \in Slots : b[u] = IF u = s THEN NoOp ELSE pend[u]
         /\ pend[s].stage = "spawn" => SpawnPanes(b) = SpawnPanes(pend) \ {pend[s].pane}
         /\ pend[s].stage # "spawn" => SpawnPanes(b) = SpawnPanes(pend)
<1>1. b \in [Slots -> Op] /\ \A u \in Slots : b[u] = IF u = s THEN NoOp ELSE pend[u]
  BY OpTypes DEF Openings, Ended
<1>2. \A u \in Slots : b[u].stage = "spawn" => u # s /\ b[u] = pend[u]
  BY <1>1, OpTypes
<1>3. Openings(b)
  <2>1. \A u \in Slots : Located(b[u])
    <3>1. Located(NoOp)
      BY OpTypes DEF Located
    <3> QED BY <1>1, <3>1 DEF Openings
  <2> QED BY <1>1, <1>2, <2>1 DEF Openings
<1>4. ASSUME pend[s].stage = "spawn"
      PROVE  SpawnPanes(b) = SpawnPanes(pend) \ {pend[s].pane}
  <2>1. \A u \in Slots \ {s} : pend[u].stage = "spawn" => pend[u].pane # pend[s].pane
    BY <1>4 DEF Openings, Apart
  <2> QED BY <1>1, <1>2, <1>4, <2>1 DEF SpawnPanes
<1>5. ASSUME pend[s].stage # "spawn"
      PROVE  SpawnPanes(b) = SpawnPanes(pend)
  BY <1>1, <1>2, <1>5 DEF SpawnPanes
<1> QED BY <1>1, <1>3, <1>4, <1>5

\* recreateIfEmpty.
LEMMA RecreateKeeps ==
  ASSUME NEW pend, Openings(pend), NEW st, Sound(st, pend), RecreateIfEmpty(st, pend)
  PROVE  /\ Openings(ops') /\ Sound(st, ops')
         /\ IsEmpty(st.m) => \E s \in Slots : ops'[s].auto
<1>1. CASE IsEmpty(st.m)
  <2>1. Free(pend) # {} /\ ops' = Begin(pend, AutoOp)
    BY <1>1 DEF RecreateIfEmpty
  <2>2. Located(AutoOp)
    BY OpTypes DEF Located
  <2> QED BY <2>1, <2>2, OpTypes, BeginKeeps
<1>2. CASE ~IsEmpty(st.m)
  BY <1>2 DEF RecreateIfEmpty
<1> QED BY <1>1, <1>2

-----------------------------------------------------------------------------
(* The parts that the operations are composed of.                          *)

\* No shell of a pane that stays has stopped between the two.
KeepsShells(a, b) == \A p \in LivePanes(a.m) \cap a.terminals : p \in LivePanes(b.m) => p \in b.terminals

\* No note about a command pane was written, and no id was taken back.
KeepsNotes(a, b) ==
  /\ a.m.nextP <= b.m.nextP
  /\ \A p \in PaneId : b.editors[p] \in {a.editors[p], NoEditor}

LEMMA FreshKept ==
  ASSUME NEW a, NEW b, OpensNothing(a, b), NEW o, Fresh(a, o)
  PROVE  Fresh(b, o)
BY DEF Fresh, OpensNothing

\* The shells and notes of the panes that an operation removes go with them.
LEMMA AfterSound ==
  ASSUME NEW st, NEW pend, Sound(st, pend), NEW mm, Ok(mm), CountersStart(mm),
         LivePanes(mm) \subseteq LivePanes(st.m), st.m.nextP <= mm.nextP,
         \A s \in Slots : pend[s].stage = "spawn" => Fresh(mm, pend[s]), NEW e
  PROVE  /\ Sound(After(st, mm, e), pend)
         /\ After(st, mm, e).m = mm
         /\ KeepsShells(st, After(st, mm, e)) /\ KeepsNotes(st, After(st, mm, e))
<1> DEFINE gone == LivePanes(st.m) \ LivePanes(mm)
           r == After(st, mm, e)
<1>1. /\ r.m = mm /\ r.terminals = st.terminals \ gone
      /\ r.editors = [p \in PaneId |-> IF p \in gone THEN NoEditor ELSE st.editors[p]]
  BY DEF After
<1> HIDE DEF r
<1>2. r.terminals \subseteq PaneId /\ r.terminals \subseteq LivePanes(mm) \cup SpawnPanes(pend)
  BY <1>1 DEF Sound
<1>3. r.editors \in EditorNotes /\ \A p \in PaneId : r.editors[p] # NoEditor => p \in LivePanes(mm)
  <2>1. NoEditor \in [src : PaneId \cup {None}, zoomBack : PaneId \cup {None}]
    BY DEF NoEditor
  <2> QED BY <1>1, <2>1 DEF Sound, EditorNotes
<1>4. \A s \in Slots : pend[s].stage = "spawn" => pend[s].pane \in r.terminals
  <2> SUFFICES ASSUME NEW s \in Slots, pend[s].stage = "spawn"
               PROVE  pend[s].pane \in r.terminals
    OBVIOUS
  <2>1. pend[s].pane \in st.terminals /\ pend[s].pane \notin LivePanes(st.m)
    BY DEF Sound, Fresh
  <2> QED BY <1>1, <2>1
<1>5. Sound(r, pend)
  BY <1>1, <1>2, <1>3, <1>4 DEF Sound
<1>6. KeepsShells(st, r) /\ KeepsNotes(st, r)
  BY <1>1 DEF KeepsShells, KeepsNotes
<1> QED BY <1>1, <1>5, <1>6 DEF r

LEMMA QuietSound ==
  ASSUME NEW st, NEW pend, Sound(st, pend), NEW mm, Ok(mm), OpensNothing(st.m, mm), NEW e
  PROVE  /\ Sound(After(st, mm, e), pend)
         /\ After(st, mm, e).m = mm
         /\ KeepsShells(st, After(st, mm, e)) /\ KeepsNotes(st, After(st, mm, e))
<1>1. CountersStart(mm) /\ LivePanes(mm) \subseteq LivePanes(st.m) /\ st.m.nextP <= mm.nextP
  <2>1. mm.nextP \in Nat
    BY ModelTypes DEF Ok
  <2> QED BY <2>1 DEF Sound, OpensNothing, CountersStart
<1>2. \A s \in Slots : pend[s].stage = "spawn" => Fresh(mm, pend[s])
  BY FreshKept DEF Sound
<1> QED BY <1>1, <1>2, AfterSound

\* closePane with what it restores.
LEMMA ClosedPaneSound ==
  ASSUME NEW st, NEW pend, Sound(st, pend), NEW p \in LivePanes(st.m)
  PROVE  /\ Sound(ClosedPane(st, p), pend)
         /\ LivePanes(ClosedPane(st, p).m) \subseteq LivePanes(st.m) \ {p}
         /\ KeepsShells(st, ClosedPane(st, p)) /\ KeepsNotes(st, ClosedPane(st, p))
<1> DEFINE t == st.m.tabOf[p]
           w == st.m.wsOf[t]
           ed == st.editors[p]
           closed == ClosePane(st.m, p, ed.src)
           tabStays == t \in LiveTabs(closed)
           restore == ed.zoomBack # None /\ tabStays /\ closed.tabOf[ed.zoomBack] = t
           mm == IF restore THEN ZoomPane(closed, ed.zoomBack, "on") ELSE closed
           e == [Removals(st.m, mm) EXCEPT
                   !.upT = IF tabStays THEN {t} ELSE {},
                   !.upW = IF ~tabStays /\ w \in LiveWs(mm) THEN {w} ELSE {}]
<1>1. ClosedPane(st, p) = After(st, mm, e)
  BY DEF ClosedPane
<1>2. Ok(st.m) /\ p \in PaneId /\ ed.zoomBack \in PaneId \cup {None}
  BY DEF Sound, LivePanes, EditorNotes
<1>3. Ok(closed) /\ OpensNothing(st.m, closed) /\ p \notin LivePanes(closed)
  BY <1>2, ClosePaneOk, ClosePaneOpensNothing, ClosePaneCloses
<1> HIDE DEF closed
<1>4. Ok(mm) /\ OpensNothing(st.m, mm) /\ p \notin LivePanes(mm)
  <2>1. CASE restore
    <3>1. closed.tabOf[ed.zoomBack] \in LiveTabs(closed) /\ ed.zoomBack \in PaneId
      BY <1>2, <2>1
    <3>2. ed.zoomBack \in LivePanes(closed)
      BY <3>1, IdTypes DEF LivePanes, LiveTabs
    <3>3. Ok(mm)
      BY <1>3, <2>1, <3>2, ZoomPaneOk
    <3>4. /\ LiveWs(mm) = LiveWs(closed) /\ LiveTabs(mm) = LiveTabs(closed)
          /\ LivePanes(mm) = LivePanes(closed)
          /\ mm.nextW = closed.nextW /\ mm.nextT = closed.nextT /\ mm.nextP = closed.nextP
      BY <1>3, <2>1, ZoomPaneKeeps DEF Ok
    <3> HIDE DEF mm
    <3> QED BY <1>3, <3>3, <3>4 DEF OpensNothing
  <2>2. CASE ~restore
    BY <1>3, <2>2
  <2> QED BY <2>1, <2>2
<1> HIDE DEF mm, e
<1>5. /\ Sound(After(st, mm, e), pend) /\ After(st, mm, e).m = mm
      /\ KeepsShells(st, After(st, mm, e)) /\ KeepsNotes(st, After(st, mm, e))
  BY <1>4, QuietSound
<1> QED BY <1>1, <1>4, <1>5 DEF OpensNothing

\* What an invariant state gives to start from.
LEMMA StateSound ==
  ASSUME IInv
  PROVE  /\ Sound(State, ops) /\ Openings(ops) /\ Ok(m) /\ CountersStart(m)
         /\ State.m = m /\ State.terminals = terminals /\ State.editors = editors /\ State.rep = rep
         /\ m \in Model /\ m.nextW \in Nat /\ m.nextT \in Nat /\ m.nextP \in Nat
<1>1. Sound(State, ops) /\ Openings(ops)
  BY DEF IInv
<1>2. State.m = m /\ State.terminals = terminals /\ State.editors = editors /\ State.rep = rep
  BY DEF State
<1>3. Ok(m) /\ CountersStart(m)
  BY <1>1, <1>2 DEF Sound
<1> QED BY <1>1, <1>2, <1>3, ModelTypes DEF Ok

\* A step arrives in a sound state and still keeps its promises.
LEMMA Arrives ==
  ASSUME NEW st, Sound(st, ops'), Openings(ops'),
         m' = st.m, terminals' = st.terminals, editors' = st.editors,
         menu' \in Menus, closing' \in Seq(WsId), recreateFailed' \in BOOLEAN, skewed' \in BOOLEAN,
         skewed' \/ LivePanes(st.m) \subseteq st.terminals,
         IsEmpty(st.m) => recreateFailed' \/ closing' # <<>> \/ \E s \in Slots : ops'[s].auto
  PROVE  IInv'
<1>1. TypeOK'
  BY DEF TypeOK, Sound, Openings, Ok, EditorNotes
<1>2. Sound(State, ops)'
  <2>1. State'.m = st.m /\ State'.terminals = st.terminals /\ State'.editors = st.editors
    BY DEF State
  <2> QED BY <2>1 DEF Sound
<1>3. Openings(ops)' /\ DeadPaneOnlyAfterSkewedSplit' /\ EmptyMeansRecreating'
  BY DEF Openings, DeadPaneOnlyAfterSkewedSplit, EmptyMeansRecreating
<1> QED BY <1>1, <1>2, <1>3 DEF IInv

\* What every operation that runs in one turn does: it settles in a sound state, and
\* stops no shell but those of the panes it removes.
SettlesSoundly ==
  \E st : /\ Settle(st) /\ Sound(st, ops) /\ KeepsShells(State, st) /\ KeepsNotes(State, st)
          /\ LivePanes(st.m) \subseteq LivePanes(m)
          /\ LivePanes(m) \subseteq terminals => LivePanes(st.m) \subseteq st.terminals

LEMMA SettleStep == IInv /\ SettlesSoundly => IInv'
<1> SUFFICES ASSUME IInv, SettlesSoundly PROVE IInv'
  OBVIOUS
<1>0. PICK st : /\ Settle(st) /\ Sound(st, ops)
                /\ LivePanes(m) \subseteq terminals => LivePanes(st.m) \subseteq st.terminals
  BY DEF SettlesSoundly
<1>1. /\ m' = st.m /\ terminals' = st.terminals /\ editors' = st.editors
      /\ menu' = menu /\ closing' = closing /\ recreateFailed' = recreateFailed /\ skewed' = skewed
      /\ RecreateIfEmpty(st, ops)
  BY <1>0 DEF Settle, Become
<1>2. /\ Openings(ops') /\ Sound(st, ops')
      /\ IsEmpty(st.m) => \E s \in Slots : ops'[s].auto
  BY <1>0, <1>1, StateSound, RecreateKeeps
<1>3. skewed \/ LivePanes(m) \subseteq terminals
  BY DEF IInv, DeadPaneOnlyAfterSkewedSplit
<1>4. menu \in Menus /\ closing \in Seq(WsId) /\ recreateFailed \in BOOLEAN /\ skewed \in BOOLEAN
  BY DEF IInv, TypeOK
<1> QED BY <1>0, <1>1, <1>2, <1>3, <1>4, Arrives

\* Operations that open nothing.
LEMMA AfterSettles ==
  ASSUME IInv, NEW mm, Ok(mm), OpensNothing(m, mm), NEW e, Settle(After(State, mm, e))
  PROVE  SettlesSoundly
<1> DEFINE st == After(State, mm, e)
<1>1. Sound(st, ops) /\ st.m = mm /\ KeepsShells(State, st) /\ KeepsNotes(State, st)
  BY StateSound, QuietSound
<1>2. Settle(st)
  OBVIOUS
<1> HIDE DEF st
<1>3. /\ LivePanes(st.m) \subseteq LivePanes(m)
      /\ LivePanes(m) \subseteq terminals => LivePanes(st.m) \subseteq st.terminals
  BY <1>1, StateSound DEF KeepsShells, OpensNothing
<1> QED BY <1>1, <1>2, <1>3 DEF SettlesSoundly

-----------------------------------------------------------------------------
(* Openings: the call, the place, and the ends without a pane.             *)

LEMMA CallOpenStep ==
  ASSUME IInv, NEW o \in Op, Located([o EXCEPT !.stage = "place"]), CallOpen(o)
  PROVE  IInv'
<1> DEFINE op == [o EXCEPT !.stage = "place"]
<1>1. /\ Free(ops) # {} /\ ops' = Begin(ops, op)
      /\ menu' = menu /\ closing' = closing /\ m' = m /\ terminals' = terminals
      /\ editors' = editors /\ recreateFailed' = recreateFailed /\ skewed' = skewed
  BY DEF CallOpen
<1>2. op \in Op /\ op.stage = "place" /\ Located(op)
  BY DEF Op
<1> HIDE DEF op
<1>3. /\ Openings(ops') /\ Sound(State, ops')
      /\ \E f \in Slots : ops'[f] = op /\ ops[f] = NoOp /\ \A s \in Slots \ {f} : ops'[s] = ops[s]
  BY <1>1, <1>2, StateSound, BeginKeeps
<1>4. (\E s \in Slots : ops[s].auto) => \E s \in Slots : ops'[s].auto
  BY <1>3, OpTypes
<1>5. /\ menu \in Menus /\ closing \in Seq(WsId) /\ recreateFailed \in BOOLEAN /\ skewed \in BOOLEAN
      /\ skewed \/ LivePanes(m) \subseteq terminals
      /\ IsEmpty(m) => recreateFailed \/ closing # <<>> \/ \E s \in Slots : ops[s].auto
  BY DEF IInv, TypeOK, DeadPaneOnlyAfterSkewedSplit, EmptyMeansRecreating
<1> QED BY <1>1, <1>3, <1>4, <1>5, StateSound, Arrives

LEMMA CallsStep ==
  ASSUME IInv,
         \/ CallCreateWorkspace
         \/ \E w \in WsId : CallCreateTab(w)
         \/ \E p \in PaneId : CallSplitPane(p) \/ CallCommandPane(p)
  PROVE  IInv'
<1>0. Ok(m)
  BY StateSound
<1>1. CASE CallCreateWorkspace
  <2> DEFINE o == [NoOp EXCEPT !.kind = "workspace"]
  <2>1. o \in Op /\ Located([o EXCEPT !.stage = "place"])
    BY DEF NoOp, Op, Located
  <2> QED BY <1>1, <2>1, CallOpenStep DEF CallCreateWorkspace
<1>2. ASSUME NEW w \in WsId, CallCreateTab(w)
      PROVE  IInv'
  <2> DEFINE o == [NoOp EXCEPT !.kind = "tab", !.ws = w]
  <2>1. o \in Op /\ Located([o EXCEPT !.stage = "place"])
    BY DEF NoOp, Op, Located
  <2> QED BY <1>2, <2>1, CallOpenStep DEF CallCreateTab
<1>3. ASSUME NEW p \in PaneId, CallSplitPane(p)
      PROVE  IInv'
  <2> DEFINE o == [NoOp EXCEPT !.kind = "split", !.src = p, !.srcTab = m.tabOf[p]]
  <2>1. m.tabOf[p] \in TabId
    BY <1>0, <1>3, LivePaneFacts DEF CallSplitPane
  <2>2. o \in Op /\ Located([o EXCEPT !.stage = "place"])
    BY <2>1 DEF NoOp, Op, Located
  <2> QED BY <1>3, <2>2, CallOpenStep DEF CallSplitPane
<1>4. ASSUME NEW p \in PaneId, CallCommandPane(p)
      PROVE  IInv'
  <2> DEFINE o == [NoOp EXCEPT !.kind = "command", !.src = p, !.srcTab = m.tabOf[p],
                               !.zoomBack = m.zoomed[m.tabOf[p]]]
  <2>1. m.tabOf[p] \in TabId /\ m.zoomed[m.tabOf[p]] \in PaneId \cup {None}
    BY <1>0, <1>4, LivePaneFacts, ModelTypes DEF CallCommandPane, Ok
  <2>2. o \in Op /\ Located([o EXCEPT !.stage = "place"])
    BY <2>1 DEF NoOp, Op, Located
  <2> QED BY <1>4, <2>2, CallOpenStep DEF CallCommandPane
<1> QED BY <1>1, <1>2, <1>3, <1>4

\* The ids that an opening reserves are the next ones, which nobody has.
LEMMA PlaceKnownStep == ASSUME IInv, NEW s \in Slots, PlaceKnown(s) PROVE IInv'
<1> DEFINE op == ops[s]
           b == Reserved(op)
           wide == op.kind = "workspace"
           tabbed == op.kind \in {"workspace", "tab"}
<1>0. /\ Openings(ops) /\ Ok(m) /\ CountersStart(m) /\ m \in Model
      /\ m.nextW \in Nat /\ m.nextT \in Nat /\ m.nextP \in Nat
  BY StateSound
<1>1. /\ op \in Op /\ op.stage = "place" /\ Located(op)
      /\ op.kind \in {"workspace", "tab", "split", "command"}
  BY <1>0 DEF PlaceKnown, Openings, Located, Op
<1>2. /\ m.nextP \in PaneId /\ (tabbed => m.nextT \in TabId) /\ (wide => m.nextW \in WsId)
  <2>1. WsBound <= MaxWs /\ WsBound \in Int
    BY BoundsAssumption DEF WsBound
  <2> QED BY <1>0, <2>1, BoundsAssumption DEF PlaceKnown, CountersStart, PaneId, TabId, WsId
<1>3. /\ b \in Op /\ Located(b) /\ b.stage = "spawn" /\ b.kind = op.kind /\ b.auto = op.auto
      /\ b.pane = m.nextP /\ (tabbed => b.tab = m.nextT) /\ (wide => b.ws = m.nextW)
  <2>1. CASE op.kind = "workspace"
    BY <1>1, <1>2, <2>1 DEF Reserved, Op, Located
  <2>2. CASE op.kind = "tab"
    BY <1>1, <1>2, <2>2 DEF Reserved, Op, Located
  <2>3. CASE op.kind \in {"split", "command"}
    BY <1>1, <1>2, <2>3 DEF Reserved, Op, Located
  <2> QED BY <1>1, <2>1, <2>2, <2>3
<1>4. /\ ops' = [ops EXCEPT ![s] = b] /\ terminals' = terminals \cup {m.nextP}
      /\ menu' = menu /\ closing' = closing /\ editors' = editors
      /\ recreateFailed' = recreateFailed /\ skewed' = skewed
  BY DEF PlaceKnown
<1>5. \E dw, dt \in {0, 1} :
        /\ m' = [m EXCEPT !.nextW = m.nextW + dw, !.nextT = m.nextT + dt, !.nextP = m.nextP + 1]
        /\ (wide => dw = 1) /\ (tabbed => dt = 1)
  <2>1. CASE op.kind = "workspace"
    BY <1>0, <2>1 DEF PlaceKnown, ReserveWorkspace, Model
  <2>2. CASE op.kind = "tab"
    <3>1. m' = [m EXCEPT !.nextT = m.nextT + 1, !.nextP = m.nextP + 1]
      BY <1>0, <2>2 DEF PlaceKnown, ReserveTab, Model
    <3>2. m' = [m EXCEPT !.nextW = m.nextW + 0, !.nextT = m.nextT + 1, !.nextP = m.nextP + 1]
      <4>1. m.nextW + 0 = m.nextW
        BY <1>0
      <4> QED BY <1>0, <3>1, <4>1 DEF Model
    <3> QED BY <2>2, <3>2
  <2>3. CASE op.kind \in {"split", "command"}
    <3>1. m' = [m EXCEPT !.nextP = m.nextP + 1]
      BY <1>0, <2>3 DEF PlaceKnown, ReserveNextPaneId, Model
    <3>2. m' = [m EXCEPT !.nextW = m.nextW + 0, !.nextT = m.nextT + 0, !.nextP = m.nextP + 1]
      <4>1. m.nextW + 0 = m.nextW /\ m.nextT + 0 = m.nextT
        BY <1>0
      <4> QED BY <1>0, <3>1, <4>1 DEF Model
    <3> QED BY <2>3, <3>2
  <2> QED BY <1>1, <2>1, <2>2, <2>3
<1> HIDE DEF b, op
<1>6. /\ m' \in Model /\ m'.order = m.order /\ m'.tabIds = m.tabIds /\ m'.active = m.active
      /\ m'.wsOf = m.wsOf /\ m'.leaves = m.leaves /\ m'.focused = m.focused
      /\ m'.zoomed = m.zoomed /\ m'.tabOf = m.tabOf /\ m'.focus = m.focus
      /\ m.nextW <= m'.nextW /\ m.nextT <= m'.nextT /\ m.nextP < m'.nextP
      /\ (tabbed => m.nextT < m'.nextT) /\ (wide => m.nextW < m'.nextW)
      /\ m'.nextW \in Nat /\ m'.nextT \in Nat /\ m'.nextP \in Nat
  <2> PICK dw \in {0, 1}, dt \in {0, 1} :
        /\ m' = [m EXCEPT !.nextW = m.nextW + dw, !.nextT = m.nextT + dt, !.nextP = m.nextP + 1]
        /\ (wide => dw = 1) /\ (tabbed => dt = 1)
    BY <1>5
  <2>1. /\ m.nextW + dw \in Nat /\ m.nextT + dt \in Nat /\ m.nextP + 1 \in Nat
        /\ m.nextW <= m.nextW + dw /\ m.nextT <= m.nextT + dt /\ m.nextP < m.nextP + 1
        /\ (tabbed => m.nextT < m.nextT + dt) /\ (wide => m.nextW < m.nextW + dw)
    BY <1>0
  <2> QED BY <1>0, <2>1 DEF Model
<1>7. /\ Ok(m') /\ LiveWs(m') = LiveWs(m) /\ LiveTabs(m') = LiveTabs(m)
      /\ LivePanes(m') = LivePanes(m) /\ CountersStart(m')
  <2>1. m.nextP <= m'.nextP
    BY <1>0, <1>6
  <2> QED BY <1>0, <1>6, <2>1, CountersMoved DEF CountersStart
<1>8. \A u \in Slots : ops'[u] = IF u = s THEN b ELSE ops[u]
  BY <1>0, <1>4 DEF Openings
<1>9. ASSUME NEW u \in Slots, u # s, ops[u].stage = "spawn"
      PROVE  Fresh(m', ops[u]) /\ Apart(ops[u], b) /\ Apart(b, ops[u]) /\ ops[u].pane \in terminals
  <2> DEFINE q == ops[u]
  <2>1. Fresh(m, q) /\ q.pane \in terminals
    BY <1>9, StateSound DEF Sound
  <2>2. /\ q.pane \in Nat /\ (q.kind \in {"workspace", "tab"} => q.tab \in Nat)
        /\ (q.kind = "workspace" => q.ws \in Nat)
    BY <2>1 DEF Fresh, PaneId, TabId, WsId
  <2> HIDE DEF q
  <2>3. Fresh(m', q)
    BY <1>0, <1>6, <1>7, <2>1, <2>2 DEF Fresh
  <2>4. Apart(q, b) /\ Apart(b, q)
    BY <1>0, <1>3, <2>1, <2>2 DEF Fresh, Apart
  <2> QED BY <2>1, <2>3, <2>4 DEF q
<1>10. Fresh(m', b)
  <2>1. m.nextP \notin LivePanes(m) /\ m.nextT \notin LiveTabs(m) /\ m.nextW \notin LiveWs(m)
    BY <1>0 DEF Ok, Consistent, IdsBelowNext
  <2> QED BY <1>2, <1>3, <1>6, <1>7, <2>1 DEF Fresh
<1>11. Openings(ops')
  <2>1. ops' \in [Slots -> Op] /\ \A u \in Slots : Located(ops'[u])
    BY <1>0, <1>3, <1>4, <1>8 DEF Openings
  <2>2. ASSUME NEW u \in Slots, NEW v \in Slots, u # v, ops'[u].stage = "spawn", ops'[v].stage = "spawn"
        PROVE  Apart(ops'[u], ops'[v])
    BY <1>0, <1>8, <1>9, <2>2 DEF Openings
  <2> QED BY <2>1, <2>2 DEF Openings
<1>12. SpawnPanes(ops') = SpawnPanes(ops) \cup {m.nextP}
  <2>1. ops[s].stage # "spawn"
    BY <1>1 DEF op
  <2> QED BY <1>3, <1>8, <2>1 DEF SpawnPanes
<1> DEFINE st == [State EXCEPT !.m = m', !.terminals = terminals']
<1>13. st.m = m' /\ st.terminals = terminals' /\ st.editors = editors'
  BY <1>4 DEF State
<1> HIDE DEF st
<1>14. Sound(st, ops')
  <2>1. /\ terminals' \subseteq PaneId /\ terminals' \subseteq LivePanes(m') \cup SpawnPanes(ops')
        /\ editors' \in EditorNotes
        /\ \A p \in PaneId : editors'[p] # NoEditor => p \in LivePanes(m')
    BY <1>2, <1>4, <1>7, <1>12, StateSound DEF Sound
  <2>2. ASSUME NEW u \in Slots, ops'[u].stage = "spawn"
        PROVE  Fresh(m', ops'[u]) /\ ops'[u].pane \in terminals'
    BY <1>3, <1>4, <1>8, <1>9, <1>10, <2>2
  <2> QED BY <1>7, <1>13, <2>1, <2>2 DEF Sound
<1>15. IsEmpty(m') => recreateFailed' \/ closing' # <<>> \/ \E u \in Slots : ops'[u].auto
  <2>1. IsEmpty(m) => recreateFailed \/ closing # <<>> \/ \E u \in Slots : ops[u].auto
    BY DEF IInv, EmptyMeansRecreating
  <2>2. ops[s] = op
    BY DEF op
  <2>3. (\E u \in Slots : ops[u].auto) => \E u \in Slots : ops'[u].auto
    BY <1>3, <1>8, <2>2
  <2> QED BY <1>4, <1>6, <2>1, <2>3 DEF IsEmpty
<1>16. /\ menu \in Menus /\ closing \in Seq(WsId) /\ recreateFailed \in BOOLEAN /\ skewed \in BOOLEAN
       /\ skewed \/ LivePanes(m) \subseteq terminals
  BY DEF IInv, TypeOK, DeadPaneOnlyAfterSkewedSplit
<1>17. skewed' \/ LivePanes(st.m) \subseteq st.terminals
  BY <1>4, <1>7, <1>13, <1>16
<1> QED BY <1>4, <1>11, <1>13, <1>14, <1>15, <1>16, <1>17, Arrives

\* The shell of an opening that ends without a pane goes with it.
LEMMA SlotEnds ==
  ASSUME NEW pend, Openings(pend), NEW st, Sound(st, pend), NEW s \in Slots,
         NEW b, b = Ended(pend, s), NEW r, r.m = st.m, r.editors = st.editors,
         r.terminals = IF pend[s].stage = "spawn" THEN st.terminals \ {pend[s].pane}
                       ELSE st.terminals
  PROVE  Openings(b) /\ Sound(r, b)
<1>1. /\ Openings(b)
      /\ \A u \in Slots : b[u] = IF u = s THEN NoOp ELSE pend[u]
      /\ pend[s].stage = "spawn" => SpawnPanes(b) = SpawnPanes(pend) \ {pend[s].pane}
      /\ pend[s].stage # "spawn" => SpawnPanes(b) = SpawnPanes(pend)
  BY DropSlot
<1>2. r.terminals \subseteq PaneId /\ r.terminals \subseteq LivePanes(r.m) \cup SpawnPanes(b)
  BY <1>1 DEF Sound
<1>3. ASSUME NEW u \in Slots, b[u].stage = "spawn"
      PROVE  Fresh(r.m, b[u]) /\ b[u].pane \in r.terminals
  <2>1. u # s /\ b[u] = pend[u]
    BY <1>1, <1>3, OpTypes
  <2>2. Fresh(st.m, pend[u]) /\ pend[u].pane \in st.terminals
    BY <1>3, <2>1 DEF Sound
  <2>3. pend[s].stage = "spawn" => pend[u].pane # pend[s].pane
    BY <1>3, <2>1 DEF Openings, Apart
  <2> QED BY <2>1, <2>2, <2>3
<1> QED BY <1>1, <1>2, <1>3 DEF Sound

\* An opening ends without a pane: no source, no shell, or no place any more.
LEMMA GivenUpStep ==
  ASSUME IInv, NEW s \in Slots, SourceGone(s) \/ SpawnFails(s) \/ SpawnOrphaned(s)
  PROVE  IInv'
<1> DEFINE op == ops[s]
           st == [State EXCEPT !.terminals = terminals']
<1>0. op \in Op /\ Located(op) /\ (op.stage = "spawn" => op.pane \notin LivePanes(m))
  BY StateSound DEF Openings, Sound, Fresh
<1>1. /\ ops' = Ended(ops, s) /\ m' = m /\ editors' = editors
      /\ menu' = menu /\ closing' = closing /\ skewed' = skewed
      /\ terminals' = IF op.stage = "spawn" THEN terminals \ {op.pane} ELSE terminals
  BY DEF SourceGone, SpawnFails, SpawnOrphaned, Ended
<1>2. recreateFailed' \in BOOLEAN /\ (recreateFailed => recreateFailed')
  <2>1. op.auto \in BOOLEAN /\ recreateFailed \in BOOLEAN
    BY <1>0 DEF Op, IInv, TypeOK
  <2>2. recreateFailed' = recreateFailed \/ recreateFailed' = (recreateFailed \/ op.auto)
    BY DEF SourceGone, SpawnFails, SpawnOrphaned
  <2> QED BY <2>1, <2>2
<1>3. op.auto => recreateFailed'
  <2>1. op.auto /\ op.stage \in {"place", "spawn"} => SourceStays(op)
    BY <1>0 DEF Located, SourceStays
  <2> QED BY <2>1 DEF SourceGone, SpawnFails, SpawnOrphaned, CommitFails
<1>4. st.m = m /\ st.editors = editors /\ st.terminals = terminals'
  BY DEF State
<1> HIDE DEF st
<1>5. Openings(ops') /\ Sound(st, ops')
  BY <1>1, <1>4, StateSound, SlotEnds
<1>6. \A u \in Slots : ops[u].auto => u = s \/ ops'[u].auto
  BY <1>1, StateSound, DropSlot
<1>7. /\ menu \in Menus /\ closing \in Seq(WsId) /\ skewed \in BOOLEAN
      /\ skewed \/ LivePanes(m) \subseteq terminals
      /\ IsEmpty(m) => recreateFailed \/ closing # <<>> \/ \E u \in Slots : ops[u].auto
  BY DEF IInv, TypeOK, DeadPaneOnlyAfterSkewedSplit, EmptyMeansRecreating
<1>8. IsEmpty(st.m) => recreateFailed' \/ closing' # <<>> \/ \E u \in Slots : ops'[u].auto
  BY <1>1, <1>2, <1>3, <1>4, <1>6, <1>7
<1>9. skewed' \/ LivePanes(st.m) \subseteq st.terminals
  BY <1>0, <1>1, <1>4, <1>7
<1> QED BY <1>1, <1>2, <1>4, <1>5, <1>7, <1>8, <1>9, Arrives

-----------------------------------------------------------------------------
(* Openings: the shell runs, the pane is opened.                           *)

\* What a commit opens, and that the model is consistent with it.
LEMMA CommittedOk ==
  ASSUME NEW n, n = m, Ok(n), NEW o \in Op, Located(o), o.stage = "spawn",
         Fresh(n, o), ~CommitFails(o), NEW mm, mm = Committed(o)
  PROVE  /\ Ok(mm)
         /\ LivePanes(mm) = LivePanes(n) \cup {o.pane}
         /\ LiveTabs(mm) \subseteq LiveTabs(n) \cup (IF o.kind \in {"workspace", "tab"} THEN {o.tab} ELSE {})
         /\ LiveWs(mm) \subseteq LiveWs(n) \cup (IF o.kind = "workspace" THEN {o.ws} ELSE {})
         /\ o.kind \in {"split", "command"} => LiveTabs(mm) = LiveTabs(n)
         /\ mm.nextW = n.nextW /\ mm.nextT = n.nextT /\ mm.nextP = n.nextP
<1>0. o.kind \in {"workspace", "tab", "split", "command"} /\ o.pane \in PaneId \ LivePanes(n) /\ o.pane < n.nextP
  BY DEF Op, Located, Fresh
<1>1. CASE o.kind = "workspace"
  <2>1. mm = CommitWorkspace(n, o.ws, o.tab, o.pane)
    BY <1>1 DEF Committed
  <2>2. /\ o.ws \in WsId \ LiveWs(n) /\ o.ws < n.nextW
        /\ o.tab \in TabId \ LiveTabs(n) /\ o.tab < n.nextT
    BY <1>1 DEF Fresh
  <2>3. Ok(mm)
    BY <1>0, <2>1, <2>2, CommitWorkspaceOk
  <2>4. /\ LiveWs(mm) = LiveWs(n) \cup {o.ws} /\ LiveTabs(mm) = LiveTabs(n) \cup {o.tab}
        /\ LivePanes(mm) = LivePanes(n) \cup {o.pane}
        /\ mm.nextW = n.nextW /\ mm.nextT = n.nextT /\ mm.nextP = n.nextP
    BY <1>0, <2>1, <2>2, CommitWorkspaceOpens
  <2> QED BY <1>1, <2>3, <2>4
<1>2. CASE o.kind = "tab"
  <2>1. mm = CommitTab(n, o.ws, o.tab, o.pane)
    BY <1>2 DEF Committed
  <2>2. /\ o.ws \in LiveWs(n) /\ o.ws \in WsId
        /\ o.tab \in TabId \ LiveTabs(n) /\ o.tab < n.nextT
    BY <1>2 DEF Fresh, CommitFails, SourceStays, Located
  <2>3. Ok(mm)
    BY <1>0, <2>1, <2>2, CommitTabOk
  <2>4. /\ LiveWs(mm) = LiveWs(n) /\ LiveTabs(mm) = LiveTabs(n) \cup {o.tab}
        /\ LivePanes(mm) = LivePanes(n) \cup {o.pane}
        /\ mm.nextW = n.nextW /\ mm.nextT = n.nextT /\ mm.nextP = n.nextP
    BY <1>0, <2>1, <2>2, CommitTabOpens
  <2> QED BY <1>2, <2>3, <2>4
<1>3. CASE o.kind \in {"split", "command"}
  <2> DEFINE split == SplitPane(n, o.src, o.pane)
  <2>1. mm = IF o.kind = "split" THEN split ELSE ZoomPane(split, o.pane, "on")
    BY <1>3 DEF Committed
  <2>2. o.src \in LivePanes(n)
    BY <1>3 DEF CommitFails, SourceStays
  <2>3. Ok(split)
    BY <1>0, <2>2, SplitPaneOk
  <2>4. /\ LiveWs(split) = LiveWs(n) /\ LiveTabs(split) = LiveTabs(n)
        /\ LivePanes(split) = LivePanes(n) \cup {o.pane}
        /\ split.nextW = n.nextW /\ split.nextT = n.nextT /\ split.nextP = n.nextP
    BY <1>0, <2>2, SplitPaneOpens
  <2> HIDE DEF split
  <2>5. CASE o.kind = "split"
    BY <2>1, <2>3, <2>4, <2>5
  <2>6. CASE o.kind = "command"
    <3>1. mm = ZoomPane(split, o.pane, "on") /\ split \in Model /\ o.pane \in LivePanes(split)
      BY <2>1, <2>3, <2>4, <2>6 DEF Ok
    <3>2. Ok(mm)
      BY <2>3, <3>1, ZoomPaneOk
    <3>3. /\ LiveWs(mm) = LiveWs(split) /\ LiveTabs(mm) = LiveTabs(split) /\ LivePanes(mm) = LivePanes(split)
          /\ mm.nextW = split.nextW /\ mm.nextT = split.nextT /\ mm.nextP = split.nextP
      BY <3>1, ZoomPaneKeeps
    <3> QED BY <2>4, <2>6, <3>2, <3>3
  <2> QED BY <1>3, <2>5, <2>6
<1> QED BY <1>0, <1>1, <1>2, <1>3

\* The opened pane has a shell, unless that has exited.
LEMMA OpenedSound ==
  ASSUME IInv, NEW s \in Slots, ops[s].stage = "spawn", ~CommitFails(ops[s]),
         NEW exited \in BOOLEAN,
         NEW alive, alive = IF exited THEN terminals \ {ops[s].pane} ELSE terminals,
         NEW pend, pend = Ended(ops, s)
  PROVE  LET st == Opened(ops[s], alive)
         IN  /\ Sound(st, pend) /\ st.m = Committed(ops[s]) /\ st.terminals = alive
             /\ LivePanes(st.m) = LivePanes(m) \cup {ops[s].pane}
             /\ ops[s].kind = "split" => LiveTabs(st.m) = LiveTabs(m)
             /\ ops[s].pane \in PaneId \ LivePanes(m)
<1> DEFINE op == ops[s]
           st == Opened(op, alive)
           mm == Committed(op)
           note == [src |-> op.src, zoomBack |-> op.zoomBack]
<1>1. /\ op \in Op /\ Located(op) /\ Fresh(m, op) /\ op.pane \in PaneId \ LivePanes(m)
      /\ op.pane \in terminals /\ op.stage = "spawn"
  BY StateSound DEF Openings, Sound, Fresh
<1>2. /\ st.m = mm /\ st.terminals = alive
      /\ st.editors = IF op.kind = "command" THEN [editors EXCEPT ![op.pane] = note] ELSE editors
  BY DEF Opened
<1> HIDE DEF st
<1>3. /\ Ok(mm)
      /\ LivePanes(mm) = LivePanes(m) \cup {op.pane}
      /\ LiveTabs(mm) \subseteq LiveTabs(m) \cup (IF op.kind \in {"workspace", "tab"} THEN {op.tab} ELSE {})
      /\ LiveWs(mm) \subseteq LiveWs(m) \cup (IF op.kind = "workspace" THEN {op.ws} ELSE {})
      /\ op.kind = "split" => LiveTabs(mm) = LiveTabs(m)
      /\ mm.nextW = m.nextW /\ mm.nextT = m.nextT /\ mm.nextP = m.nextP
  BY <1>1, StateSound, CommittedOk
<1> HIDE DEF mm
<1>4. CountersStart(mm)
  BY <1>3, StateSound DEF CountersStart
<1>5. /\ Openings(pend)
      /\ \A u \in Slots : pend[u] = IF u = s THEN NoOp ELSE ops[u]
      /\ SpawnPanes(pend) = SpawnPanes(ops) \ {op.pane}
  BY <1>1, StateSound, DropSlot
<1>6. alive \subseteq PaneId /\ alive \subseteq LivePanes(mm) \cup SpawnPanes(pend)
  BY <1>3, <1>5, StateSound DEF Sound
<1>7. st.editors \in EditorNotes /\ \A p \in PaneId : st.editors[p] # NoEditor => p \in LivePanes(mm)
  <2>1. note \in [src : PaneId \cup {None}, zoomBack : PaneId \cup {None}]
    BY <1>1 DEF Op
  <2>2. editors \in EditorNotes /\ \A p \in PaneId : editors[p] # NoEditor => p \in LivePanes(m)
    BY StateSound DEF Sound
  <2> HIDE DEF note
  <2> QED BY <1>1, <1>2, <1>3, <2>1, <2>2 DEF EditorNotes
<1>8. ASSUME NEW u \in Slots, pend[u].stage = "spawn"
      PROVE  Fresh(mm, pend[u]) /\ pend[u].pane \in alive
  <2>1. u # s /\ pend[u] = ops[u]
    BY <1>5, <1>8, OpTypes
  <2>2. Fresh(m, ops[u]) /\ ops[u].pane \in terminals
    BY <1>8, <2>1, StateSound DEF Sound
  <2>3. Apart(ops[u], op)
    BY <1>1, <1>8, <2>1, StateSound DEF Openings
  <2> QED BY <1>3, <2>1, <2>2, <2>3 DEF Fresh, Apart
<1>9. Sound(st, pend)
  BY <1>2, <1>3, <1>4, <1>6, <1>7, <1>8 DEF Sound
<1> QED BY <1>1, <1>2, <1>3, <1>9 DEF st, mm

\* What SpawnEnds becomes.
LEMMA SpawnEndsFinal ==
  ASSUME IInv, NEW s \in Slots, NEW exited \in BOOLEAN, SpawnEnds(s, exited)
  PROVE  \E final :
           /\ m' = final.m /\ terminals' = final.terminals /\ editors' = final.editors
           /\ Sound(final, ops') /\ Openings(ops')
           /\ IsEmpty(final.m) => \E u \in Slots : ops'[u].auto
           /\ skewed' \in BOOLEAN
           /\ skewed' \/ (LivePanes(m) \subseteq terminals => LivePanes(final.m) \subseteq final.terminals)
           /\ skewed => skewed'
           /\ KeepsShells(State, final)
<1> DEFINE op == ops[s]
           pend == Ended(ops, s)
           alive == IF exited THEN terminals \ {op.pane} ELSE terminals
           opened == Opened(op, alive)
           closes == exited /\ ~Throws(op, opened.m)
           final == IF closes THEN ClosedPane(opened, op.pane) ELSE opened
           moved == op.kind = "split" /\ m.tabOf[op.src] # op.srcTab
<1>1. /\ op.stage = "spawn" /\ ~CommitFails(op)
      /\ m' = final.m /\ terminals' = final.terminals /\ editors' = final.editors
      /\ RecreateIfEmpty(final, pend)
      /\ skewed' = (skewed \/ moved)
  BY DEF SpawnEnds, Become, Ended
<1>2. /\ Sound(opened, pend) /\ opened.m = Committed(op) /\ opened.terminals = alive
      /\ LivePanes(opened.m) = LivePanes(m) \cup {op.pane}
      /\ op.kind = "split" => LiveTabs(opened.m) = LiveTabs(m)
      /\ op.pane \in PaneId \ LivePanes(m)
  BY <1>1, OpenedSound
<1>3. Openings(pend) /\ op.pane \in terminals
  BY <1>1, StateSound, DropSlot DEF Sound
<1> HIDE DEF opened, pend
<1>4. KeepsShells(State, opened)
  BY <1>2, StateSound DEF KeepsShells
<1>5. CASE closes
  <2>1. /\ final = ClosedPane(opened, op.pane)
        /\ Sound(final, pend)
        /\ LivePanes(final.m) \subseteq LivePanes(opened.m) \ {op.pane}
        /\ KeepsShells(opened, final)
    BY <1>2, <1>5, ClosedPaneSound
  <2> HIDE DEF final
  <2>2. Openings(ops') /\ Sound(final, ops') /\ (IsEmpty(final.m) => \E u \in Slots : ops'[u].auto)
    BY <1>1, <1>3, <2>1, RecreateKeeps
  <2>3. LivePanes(m) \subseteq terminals => LivePanes(final.m) \subseteq final.terminals
    BY <1>2, <2>1 DEF KeepsShells
  <2>4. KeepsShells(State, final)
    BY <1>2, <1>4, <2>1, StateSound DEF KeepsShells
  <2>5. skewed' \in BOOLEAN /\ (skewed => skewed')
    BY <1>1 DEF IInv, TypeOK
  <2> QED BY <1>1, <2>2, <2>3, <2>4, <2>5
<1>6. CASE ~closes
  <2>1. final = opened
    BY <1>6
  <2>2. Openings(ops') /\ Sound(opened, ops') /\ (IsEmpty(opened.m) => \E u \in Slots : ops'[u].auto)
    BY <1>1, <1>2, <1>3, <2>1, RecreateKeeps
  <2>3. skewed' \/ (LivePanes(m) \subseteq terminals => LivePanes(opened.m) \subseteq opened.terminals)
    <3>1. CASE ~exited
      BY <1>2, <1>3, <3>1
    <3>2. CASE exited
      <4>1. op.kind = "split" /\ op.srcTab \notin LiveTabs(m)
        BY <1>2, <1>6, <3>2 DEF Throws
      <4>2. m.tabOf[op.src] \in LiveTabs(m)
        BY <1>1, <4>1, StateSound, LivePaneFacts DEF CommitFails, SourceStays
      <4> QED BY <1>1, <4>1, <4>2
    <3> QED BY <3>1, <3>2
  <2>4. skewed' \in BOOLEAN /\ (skewed => skewed')
    BY <1>1 DEF IInv, TypeOK
  <2> QED BY <1>1, <1>4, <2>1, <2>2, <2>3, <2>4
<1> QED BY <1>5, <1>6

LEMMA SpawnEndsStep ==
  ASSUME IInv, NEW s \in Slots, NEW exited \in BOOLEAN, SpawnEnds(s, exited)
  PROVE  IInv'
<1>1. PICK final :
        /\ m' = final.m /\ terminals' = final.terminals /\ editors' = final.editors
        /\ Sound(final, ops') /\ Openings(ops')
        /\ IsEmpty(final.m) => \E u \in Slots : ops'[u].auto
        /\ skewed' \in BOOLEAN
        /\ skewed' \/ (LivePanes(m) \subseteq terminals => LivePanes(final.m) \subseteq final.terminals)
        /\ skewed => skewed'
        /\ KeepsShells(State, final)
  BY SpawnEndsFinal
<1>2. /\ menu' \in Menus /\ closing' \in Seq(WsId) /\ recreateFailed' \in BOOLEAN
      /\ skewed \/ LivePanes(m) \subseteq terminals
  BY DEF SpawnEnds, IInv, TypeOK, DeadPaneOnlyAfterSkewedSplit
<1> QED BY <1>1, <1>2, Arrives

-----------------------------------------------------------------------------
(* Closing.                                                                *)

\* pane.close, and the exit of a shell.
LEMMA ClosePaneSettles ==
  ASSUME IInv, NEW p \in PaneId, CallClosePane(p) \/ ShellExits(p)
  PROVE  SettlesSoundly
<1>1. CASE CallClosePane(p)
  <2> DEFINE st == ClosedPane(State, p)
  <2>1. p \in LivePanes(State.m) /\ Settle(st)
    BY <1>1, StateSound DEF CallClosePane
  <2>2. /\ Sound(st, ops) /\ LivePanes(st.m) \subseteq LivePanes(m) \ {p}
        /\ KeepsShells(State, st) /\ KeepsNotes(State, st)
    BY <2>1, StateSound, ClosedPaneSound
  <2> HIDE DEF st
  <2>3. LivePanes(m) \subseteq terminals => LivePanes(st.m) \subseteq st.terminals
    BY <2>2, StateSound DEF KeepsShells
  <2> QED BY <2>1, <2>2, <2>3 DEF SettlesSoundly
<1>2. CASE ShellExits(p)
  <2> DEFINE exits == [State EXCEPT !.terminals = terminals \ {p}]
             st == ClosedPane(exits, p)
  <2>1. /\ p \in LivePanes(m) /\ Settle(st)
        /\ exits.m = m /\ exits.editors = editors /\ exits.terminals = terminals \ {p}
    BY <1>2 DEF ShellExits, State
  <2> HIDE DEF exits
  <2>2. Sound(exits, ops)
    <3>1. /\ exits.terminals \subseteq PaneId
          /\ exits.terminals \subseteq LivePanes(exits.m) \cup SpawnPanes(ops)
      BY <2>1, StateSound DEF Sound
    <3>2. \A s \in Slots : ops[s].stage = "spawn" => Fresh(m, ops[s]) /\ ops[s].pane \in exits.terminals
      <4>1. \A s \in Slots : ops[s].stage = "spawn" => Fresh(m, ops[s]) /\ ops[s].pane \in terminals
        BY StateSound DEF Sound
      <4>2. \A s \in Slots : ops[s].stage = "spawn" => ops[s].pane # p
        BY <2>1, <4>1 DEF Fresh
      <4> QED BY <2>1, <4>1, <4>2
    <3> QED BY <2>1, <3>1, <3>2, StateSound DEF Sound
  <2>3. /\ Sound(st, ops) /\ LivePanes(st.m) \subseteq LivePanes(m) \ {p}
        /\ KeepsShells(exits, st) /\ KeepsNotes(exits, st)
    BY <2>1, <2>2, ClosedPaneSound
  <2> HIDE DEF st
  <2>4. KeepsShells(State, st) /\ KeepsNotes(State, st)
    BY <2>1, <2>3, StateSound DEF KeepsShells, KeepsNotes
  <2>5. LivePanes(m) \subseteq terminals => LivePanes(st.m) \subseteq st.terminals
    BY <2>1, <2>3 DEF KeepsShells
  <2> QED BY <2>1, <2>3, <2>4, <2>5 DEF SettlesSoundly
<1> QED BY <1>1, <1>2

\* A workspace of a group is closed, and more are to come.
LEMMA CloseGroupStep ==
  ASSUME IInv, NEW w \in LiveWs(m), NEW st, st = After(State, CloseWorkspace(m, w), Removals(m, CloseWorkspace(m, w))),
         Become(st), closing' \in Seq(WsId),
         \/ closing' # <<>> /\ UNCHANGED ops
         \/ RecreateIfEmpty(st, ops),
         UNCHANGED <<menu, recreateFailed, skewed>>
  PROVE  IInv'
<1> DEFINE mm == CloseWorkspace(m, w)
<1>1. Ok(mm) /\ OpensNothing(m, mm)
  BY StateSound, CloseWorkspaceOk, CloseOpensNothing
<1>2. Sound(st, ops) /\ st.m = mm /\ KeepsShells(State, st)
  <2> HIDE DEF mm
  <2> QED BY <1>1, StateSound, QuietSound DEF mm
<1> HIDE DEF mm
<1>3. LivePanes(m) \subseteq terminals => LivePanes(st.m) \subseteq st.terminals
  BY <1>1, <1>2, StateSound DEF KeepsShells, OpensNothing
<1>4. /\ Openings(ops') /\ Sound(st, ops')
      /\ IsEmpty(st.m) => closing' # <<>> \/ \E s \in Slots : ops'[s].auto
  <2>1. CASE closing' # <<>> /\ UNCHANGED ops
    BY <1>2, <2>1, StateSound
  <2>2. CASE RecreateIfEmpty(st, ops)
    BY <1>2, <2>2, StateSound, RecreateKeeps
  <2> QED BY <2>1, <2>2
<1>5. /\ m' = st.m /\ terminals' = st.terminals /\ editors' = st.editors
      /\ menu' = menu /\ recreateFailed' = recreateFailed /\ skewed' = skewed
  BY DEF Become
<1>6. /\ menu \in Menus /\ recreateFailed \in BOOLEAN /\ skewed \in BOOLEAN
      /\ skewed \/ LivePanes(m) \subseteq terminals
  BY DEF IInv, TypeOK, DeadPaneOnlyAfterSkewedSplit
<1> QED BY <1>3, <1>4, <1>5, <1>6, Arrives

LEMMA TailRest ==
  ASSUME NEW s \in Seq(WsId), s # <<>>
  PROVE  Tail(s) \in Seq(WsId) /\ (Len(s) # 1 => Tail(s) # <<>>)
<1>1. Len(s) \in Nat \ {0} /\ Tail(s) \in Seq(WsId) /\ Len(Tail(s)) = Len(s) - 1
  BY EmptySeq, HeadTailProperties
<1>2. Tail(s) = <<>> => Len(Tail(s)) = 0
  BY EmptySeq
<1> QED BY <1>1, <1>2

\* The calls for a group.
LEMMA GroupStep ==
  ASSUME IInv,
         \/ \E w \in WsId, linked \in Blocks(m) : CallCloseGroup(w, linked)
         \/ GroupCloses
         \/ GroupEndsEarly
  PROVE  IInv'
<1>0. closing \in Seq(WsId) /\ m.order \in Seq(WsId)
  BY StateSound, ModelTypes DEF IInv, TypeOK
<1>1. ASSUME NEW w \in WsId, NEW linked \in Blocks(m), CallCloseGroup(w, linked)
      PROVE  IInv'
  <2>1. PICK n \in 1 .. Len(m.order) : linked \in [1 .. n -> LiveWs(m)]
    BY DEF Blocks
  <2>2. n \in Nat /\ n >= 1 /\ LiveWs(m) \subseteq WsId
    BY <1>0, LenProperties, HeadInRange DEF LiveWs
  <2>3. linked \in Seq(WsId) /\ linked # <<>>
    <3>1. linked \in [1 .. n -> WsId]
      BY <2>1, <2>2
    <3>2. linked \in Seq(WsId)
      BY <2>2, <3>1
    <3>3. 1 \in DOMAIN linked
      BY <2>2, <3>1
    <3> QED BY <3>2, <3>3
  <2> QED BY <1>1, <2>3, CloseGroupStep DEF CallCloseGroup
<1>2. CASE GroupCloses
  <2> DEFINE w == Head(closing)
  <2>1. w \in LiveWs(m) /\ closing # <<>> /\ closing' = Tail(closing) /\ UNCHANGED <<menu, recreateFailed, skewed>>
    BY <1>2 DEF GroupCloses
  <2>2. closing' \in Seq(WsId) /\ (Len(closing) # 1 => closing' # <<>>)
    BY <1>0, <2>1, TailRest
  <2> DEFINE st == After(State, CloseWorkspace(m, w), Removals(m, CloseWorkspace(m, w)))
  <2>3. Become(st) /\ (IF Len(closing) = 1 THEN RecreateIfEmpty(st, ops) ELSE UNCHANGED ops)
    BY <1>2 DEF GroupCloses
  <2>4. (closing' # <<>> /\ UNCHANGED ops) \/ RecreateIfEmpty(st, ops)
    BY <2>2, <2>3
  <2> QED BY <2>1, <2>2, <2>3, <2>4, CloseGroupStep
<1>3. CASE GroupEndsEarly
  <2>1. /\ m' = m /\ terminals' = terminals /\ editors' = editors /\ ops' = ops /\ menu' = menu
        /\ closing' = <<>> /\ skewed' = skewed /\ recreateFailed' = (recreateFailed \/ IsEmpty(m))
    BY <1>3 DEF GroupEndsEarly
  <2>2. /\ menu \in Menus /\ recreateFailed \in BOOLEAN /\ skewed \in BOOLEAN
        /\ skewed \/ LivePanes(m) \subseteq terminals
    BY DEF IInv, TypeOK, DeadPaneOnlyAfterSkewedSplit
  <2>3. closing' \in Seq(WsId)
    BY <2>1
  <2>4. recreateFailed' \in BOOLEAN
    BY <2>1, <2>2 DEF IsEmpty
  <2> QED BY <2>1, <2>2, <2>3, <2>4, StateSound, Arrives
<1> QED BY <1>1, <1>2, <1>3

\* tab.close and workspace.close.
LEMMA CloseSettles ==
  ASSUME IInv, (\E t \in TabId : CallCloseTab(t)) \/ (\E w \in WsId : CallCloseWorkspace(w))
  PROVE  SettlesSoundly
<1>1. ASSUME NEW t \in TabId, CallCloseTab(t)
      PROVE  SettlesSoundly
  <2> DEFINE mm == CloseTab(m, t)
             e == [Removals(m, mm) EXCEPT !.upW = {m.wsOf[t]} \cap LiveWs(mm)]
  <2>1. t \in LiveTabs(m) /\ Settle(After(State, mm, e))
    BY <1>1 DEF CallCloseTab
  <2>2. Ok(mm) /\ OpensNothing(m, mm)
    BY <2>1, StateSound, CloseTabOk, CloseOpensNothing
  <2> HIDE DEF mm, e
  <2> QED BY <2>1, <2>2, AfterSettles
<1>2. ASSUME NEW w \in WsId, CallCloseWorkspace(w)
      PROVE  SettlesSoundly
  <2> DEFINE mm == CloseWorkspace(m, w)
             e == Removals(m, mm)
  <2>1. w \in LiveWs(m) /\ Settle(After(State, mm, e))
    BY <1>2 DEF CallCloseWorkspace
  <2>2. Ok(mm) /\ OpensNothing(m, mm)
    BY <2>1, StateSound, CloseWorkspaceOk, CloseOpensNothing
  <2> HIDE DEF mm, e
  <2> QED BY <2>1, <2>2, AfterSettles
<1> QED BY <1>1, <1>2

-----------------------------------------------------------------------------
(* Moving, arranging, focusing.                                            *)

LEMMA StepSettles ==
  ASSUME IInv, NEW mm, Ok(mm), OpensNothing(m, mm), NEW e, Step(mm, e)
  PROVE  SettlesSoundly
BY AfterSettles DEF Step

\* The moves of a pane to another tab.
LEMMA MoveSettles ==
  ASSUME IInv, NEW p \in PaneId,
         (\E t \in TabId : CallMoveToTab(p, t)) \/ (\E w \in WsId : CallMoveToNewTab(p, w))
  PROVE  SettlesSoundly
<1>1. ASSUME NEW t \in TabId, CallMoveToTab(p, t)
      PROVE  SettlesSoundly
  <2> DEFINE mm == MoveToTab(m, p, t)
             e == [SourceEvents(mm, m.tabOf[p], m.wsOf[m.tabOf[p]]) EXCEPT !.upP = {p}, !.upT = @ \cup {t}]
  <2>1. p \in LivePanes(m) /\ t \in LiveTabs(m) /\ t # m.tabOf[p] /\ Step(mm, e)
    BY <1>1 DEF CallMoveToTab
  <2>2. Ok(mm) /\ OpensNothing(m, mm)
    BY <2>1, StateSound, MoveToTabOk, MoveToTabOpensNothing
  <2> HIDE DEF mm, e
  <2> QED BY <2>1, <2>2, StepSettles
<1>2. ASSUME NEW w \in WsId, CallMoveToNewTab(p, w)
      PROVE  SettlesSoundly
  <2> DEFINE mm == MoveToNewTab(m, p, w)
             e == [SourceEvents(mm, m.tabOf[p], m.wsOf[m.tabOf[p]]) EXCEPT
                     !.upP = {p}, !.upT = @ \cup {m.nextT}, !.upW = @ \cup {w}]
             st == After(State, mm, e)
  <2>1. p \in LivePanes(m) /\ w \in LiveWs(m) /\ m.nextT <= MaxTab /\ Settle(st)
    BY <1>2 DEF CallMoveToNewTab, Step
  <2>2. m.nextT \in TabId /\ m.nextT \in Nat /\ m.nextW \in Nat /\ m.nextP \in Nat
    BY <2>1, StateSound, BoundsAssumption DEF CountersStart, TabId
  <2>3. /\ Ok(mm) /\ LiveWs(mm) \subseteq LiveWs(m)
        /\ LiveTabs(mm) \subseteq LiveTabs(m) \cup {m.nextT}
        /\ LivePanes(mm) \subseteq LivePanes(m)
        /\ mm.nextW = m.nextW /\ mm.nextT = m.nextT + 1 /\ mm.nextP = m.nextP
    BY <2>1, <2>2, StateSound, MoveToNewTabOk, MoveToNewTabOpensOne
  <2> HIDE DEF mm, e
  <2>4. ASSUME NEW s \in Slots, ops[s].stage = "spawn"
        PROVE  Fresh(mm, ops[s])
    <3>1. Fresh(m, ops[s])
      BY <2>4, StateSound DEF Sound
    <3> DEFINE o == ops[s]
    <3>2. o.kind \in {"workspace", "tab"} => o.tab \in Nat
      BY <3>1 DEF Fresh, TabId
    <3> HIDE DEF o
    <3>3. Fresh(m, o)
      BY <3>1 DEF o
    <3>4. Fresh(mm, o)
      BY <2>2, <2>3, <3>2, <3>3 DEF Fresh
    <3> QED BY <3>4 DEF o
  <2>5. CountersStart(mm) /\ m.nextP <= mm.nextP
    BY <2>2, <2>3, StateSound DEF CountersStart
  <2>6. Sound(st, ops) /\ st.m = mm /\ KeepsShells(State, st) /\ KeepsNotes(State, st)
    BY <2>3, <2>4, <2>5, StateSound, AfterSound
  <2> HIDE DEF st
  <2>7. LivePanes(m) \subseteq terminals => LivePanes(st.m) \subseteq st.terminals
    BY <2>3, <2>6, StateSound DEF KeepsShells
  <2> QED BY <2>1, <2>3, <2>6, <2>7 DEF SettlesSoundly
<1> QED BY <1>1, <1>2

\* Arrangements within a tab, and the zoom.
LEMMA ArrangeSettles ==
  ASSUME IInv, NEW p \in PaneId,
         \/ \E q \in PaneId : CallSwapPane(p, q)
         \/ \E q \in PaneId, edge \in {"left", "right"} : CallMoveToEdge(p, q, edge)
         \/ \E q \in PaneId : CallReplacePane(p, q)
         \/ \E mode \in {"toggle", "on", "off"} : CallZoomPane(p, mode)
  PROVE  SettlesSoundly
<1>0. Ok(m)
  BY StateSound
<1>1. ASSUME NEW q \in PaneId, CallSwapPane(p, q)
      PROVE  SettlesSoundly
  <2>1. /\ Ok(SwapPane(m, p, q)) /\ OpensNothing(m, SwapPane(m, p, q))
        /\ Ok(SwapPaneWith(m, p, q)) /\ OpensNothing(m, SwapPaneWith(m, p, q))
    BY <1>0, <1>1, SwapPaneOk, RestOpensNothing DEF CallSwapPane
  <2> QED BY <1>1, <2>1, StepSettles DEF CallSwapPane
<1>2. ASSUME NEW q \in PaneId, NEW edge \in {"left", "right"}, CallMoveToEdge(p, q, edge)
      PROVE  SettlesSoundly
  <2>1. Ok(MoveToEdge(m, p, q, edge)) /\ OpensNothing(m, MoveToEdge(m, p, q, edge))
    BY <1>0, <1>2, MoveToEdgeOk, RestOpensNothing DEF CallMoveToEdge
  <2> QED BY <1>2, <2>1, StepSettles DEF CallMoveToEdge
<1>3. ASSUME NEW q \in PaneId, CallReplacePane(p, q)
      PROVE  SettlesSoundly
  <2> DEFINE mm == ReplacePane(m, p, q)
             e == [Removals(m, mm) EXCEPT !.upT = {m.tabOf[p]}]
  <2>1. SameTab(m, p, q) /\ Step(mm, e)
    BY <1>3 DEF CallReplacePane
  <2>2. Ok(mm) /\ OpensNothing(m, mm)
    BY <1>0, <2>1, ReplacePaneOk, RestOpensNothing
  <2> HIDE DEF mm, e
  <2> QED BY <2>1, <2>2, StepSettles
<1>4. ASSUME NEW mode, CallZoomPane(p, mode)
      PROVE  SettlesSoundly
  <2>1. Ok(ZoomPane(m, p, mode)) /\ OpensNothing(m, ZoomPane(m, p, mode))
    BY <1>0, <1>4, ZoomPaneOk, RestOpensNothing DEF CallZoomPane
  <2> QED BY <1>4, <2>1, StepSettles DEF CallZoomPane
<1> QED BY <1>1, <1>2, <1>3, <1>4

\* The order of tabs and workspaces, and the focus.
LEMMA OrderSettles ==
  ASSUME IInv,
         \/ \E t \in TabId, direction \in {"previous", "next"} : CallMoveTab(t, direction)
         \/ \E w \in WsId, direction \in {"previous", "next"} : CallMoveWorkspace(w, direction)
         \/ \E block, before : CallMoveWorkspacesTo(block, before)
         \/ CallFocus
  PROVE  SettlesSoundly
<1>0. Ok(m)
  BY StateSound
<1>1. ASSUME NEW t \in TabId, NEW direction \in {"previous", "next"}, CallMoveTab(t, direction)
      PROVE  SettlesSoundly
  <2>1. Ok(MoveTab(m, t, direction)) /\ OpensNothing(m, MoveTab(m, t, direction))
    BY <1>0, <1>1, MoveTabOk, RestOpensNothing DEF CallMoveTab
  <2> QED BY <1>1, <2>1, StepSettles DEF CallMoveTab
<1>2. ASSUME NEW w \in WsId, NEW direction \in {"previous", "next"}, CallMoveWorkspace(w, direction)
      PROVE  SettlesSoundly
  <2>1. Ok(MoveWorkspace(m, w, direction)) /\ OpensNothing(m, MoveWorkspace(m, w, direction))
    BY <1>0, <1>2, ReorderOk, RestOpensNothing DEF CallMoveWorkspace
  <2> QED BY <1>2, <2>1, StepSettles DEF CallMoveWorkspace
<1>3. ASSUME NEW block, NEW before, CallMoveWorkspacesTo(block, before)
      PROVE  SettlesSoundly
  <2>1. PICK order \in Reordered(m, block, before) :
          Step(MoveWorkspacesTo(m, order), [NoEvents EXCEPT !.reordered = TRUE])
    BY <1>3 DEF CallMoveWorkspacesTo
  <2>2. order \in Rearrangements(m.order)
    BY DEF Reordered
  <2>3. Ok(MoveWorkspacesTo(m, order)) /\ OpensNothing(m, MoveWorkspacesTo(m, order))
    BY <1>0, <2>2, ReorderOk, RestOpensNothing
  <2> QED BY <2>1, <2>3, StepSettles
<1>4. ASSUME NEW w \in LiveWs(m), Step(FocusWorkspace(m, w), NoEvents)
      PROVE  SettlesSoundly
  BY <1>0, <1>4, FocusWorkspaceOk, RestOpensNothing, StepSettles
<1>5. ASSUME NEW t \in LiveTabs(m), Step(FocusTab(m, t), NoEvents)
      PROVE  SettlesSoundly
  BY <1>0, <1>5, FocusTabOk, RestOpensNothing, StepSettles
<1>6. ASSUME NEW p \in LivePanes(m), Step(FocusPane(m, p), NoEvents)
      PROVE  SettlesSoundly
  BY <1>0, <1>6, FocusPaneOk, RestOpensNothing, StepSettles
<1> QED BY <1>1, <1>2, <1>3, <1>4, <1>5, <1>6 DEF CallFocus

-----------------------------------------------------------------------------
(* Every step.                                                             *)

Calls == \/ CallCreateWorkspace
         \/ \E w \in WsId : CallCreateTab(w)
         \/ \E p \in PaneId : CallSplitPane(p) \/ CallCommandPane(p)

GroupCalls == \/ \E w \in WsId, linked \in Blocks(m) : CallCloseGroup(w, linked)
              \/ GroupCloses
              \/ GroupEndsEarly

LEMMA NextCases ==
  ASSUME IInv, Next
  PROVE  \/ Calls
         \/ \E s \in Slots : PlaceKnown(s)
         \/ \E s \in Slots : SourceGone(s) \/ SpawnFails(s) \/ SpawnOrphaned(s)
         \/ \E s \in Slots, exited \in BOOLEAN : SpawnEnds(s, exited)
         \/ GroupCalls
         \/ SettlesSoundly
<1> DEFINE Goal == \/ Calls
                   \/ \E s \in Slots : PlaceKnown(s)
                   \/ \E s \in Slots : SourceGone(s) \/ SpawnFails(s) \/ SpawnOrphaned(s)
                   \/ \E s \in Slots, exited \in BOOLEAN : SpawnEnds(s, exited)
                   \/ GroupCalls
                   \/ SettlesSoundly
<1>1. ASSUME NEW p \in PaneId, CallClosePane(p) \/ ShellExits(p)
      PROVE  SettlesSoundly
  BY <1>1, ClosePaneSettles
<1>2. (\E t \in TabId : CallCloseTab(t)) \/ (\E w \in WsId : CallCloseWorkspace(w)) => SettlesSoundly
  BY CloseSettles
<1>3. ASSUME NEW p \in PaneId,
             (\E t \in TabId : CallMoveToTab(p, t)) \/ (\E w \in WsId : CallMoveToNewTab(p, w))
      PROVE  SettlesSoundly
  BY <1>3, MoveSettles
<1>4. ASSUME NEW p \in PaneId,
             \/ \E q \in PaneId : CallSwapPane(p, q)
             \/ \E q \in PaneId, edge \in {"left", "right"} : CallMoveToEdge(p, q, edge)
             \/ \E q \in PaneId : CallReplacePane(p, q)
             \/ \E mode \in {"toggle", "on", "off"} : CallZoomPane(p, mode)
      PROVE  SettlesSoundly
  BY <1>4, ArrangeSettles
<1>5. ASSUME \/ \E t \in TabId, direction \in {"previous", "next"} : CallMoveTab(t, direction)
             \/ \E w \in WsId, direction \in {"previous", "next"} : CallMoveWorkspace(w, direction)
             \/ \E block, before : CallMoveWorkspacesTo(block, before)
             \/ CallFocus
      PROVE  SettlesSoundly
  BY <1>5, OrderSettles
<1> HIDE DEF Goal
<1>6. \/ Calls
      \/ \E s \in Slots : PlaceKnown(s)
      \/ \E s \in Slots : SourceGone(s) \/ SpawnFails(s) \/ SpawnOrphaned(s)
      \/ \E s \in Slots, exited \in BOOLEAN : SpawnEnds(s, exited)
      \/ GroupCalls
      => Goal
  BY DEF Goal
<1>7. SettlesSoundly => Goal
  BY DEF Goal
<1>8. Goal
  BY <1>1, <1>2, <1>3, <1>4, <1>5, <1>6, <1>7 DEF Next, Calls, GroupCalls
<1> QED BY <1>8 DEF Goal

LEMMA NextOk == IInv /\ [Next]_vars => IInv'
<1> SUFFICES ASSUME IInv, [Next]_vars PROVE IInv'
  OBVIOUS
<1>1. CASE UNCHANGED vars
  <2>1. /\ State.m = m /\ Sound(State, ops) /\ Openings(ops)
        /\ State.terminals = terminals /\ State.editors = editors
    BY StateSound
  <2>2. /\ menu' = menu /\ m' = m /\ closing' = closing /\ ops' = ops /\ terminals' = terminals
        /\ editors' = editors /\ recreateFailed' = recreateFailed /\ skewed' = skewed
    BY <1>1 DEF vars
  <2>3. /\ menu \in Menus /\ closing \in Seq(WsId) /\ recreateFailed \in BOOLEAN /\ skewed \in BOOLEAN
        /\ skewed \/ LivePanes(m) \subseteq terminals
        /\ IsEmpty(m) => recreateFailed \/ closing # <<>> \/ \E s \in Slots : ops[s].auto
    BY DEF IInv, TypeOK, DeadPaneOnlyAfterSkewedSplit, EmptyMeansRecreating
  <2> QED BY <2>1, <2>2, <2>3, Arrives
<1>2. CASE Calls
  BY <1>2, CallsStep DEF Calls
<1>3. ASSUME NEW s \in Slots, PlaceKnown(s) PROVE IInv'
  BY <1>3, PlaceKnownStep
<1>4. ASSUME NEW s \in Slots, SourceGone(s) \/ SpawnFails(s) \/ SpawnOrphaned(s) PROVE IInv'
  BY <1>4, GivenUpStep
<1>5. ASSUME NEW s \in Slots, NEW exited \in BOOLEAN, SpawnEnds(s, exited) PROVE IInv'
  BY <1>5, SpawnEndsStep
<1>6. CASE GroupCalls
  BY <1>6, GroupStep DEF GroupCalls
<1>7. CASE SettlesSoundly
  BY <1>7, SettleStep
<1> QED BY <1>1, <1>2, <1>3, <1>4, <1>5, <1>6, <1>7, NextCases

\* The server has just started.
LEMMA InitOk == Init => IInv
<1> SUFFICES ASSUME Init PROVE IInv
  OBVIOUS
<1>1. /\ m = EmptyModel /\ closing = <<>> /\ terminals = {} /\ menu \in Menus
      /\ recreateFailed = FALSE /\ skewed = FALSE
      /\ ops = [s \in Slots |-> IF s = 1 THEN AutoOp ELSE NoOp]
      /\ editors = [p \in PaneId |-> NoEditor]
  BY DEF Init
<1>2. 1 \in Slots
  BY MaxOpsAssumption DEF Slots
<1>3. Openings(ops) /\ SpawnPanes(ops) = {} /\ \A s \in Slots : ops[s].stage # "spawn"
  <2>1. Located(NoOp) /\ Located(AutoOp)
    BY OpTypes DEF Located
  <2>2. ops \in [Slots -> Op] /\ \A s \in Slots : ops[s] \in {NoOp, AutoOp}
    BY <1>1, OpTypes
  <2>3. \A s \in Slots : ops[s].stage # "spawn"
    BY <2>2, OpTypes
  <2> QED BY <2>1, <2>2, <2>3 DEF Openings, SpawnPanes
<1>4. editors \in EditorNotes /\ \A p \in PaneId : editors[p] = NoEditor
  BY <1>1 DEF EditorNotes, NoEditor
<1>5. State.m = m /\ State.terminals = terminals /\ State.editors = editors
  BY DEF State
<1>6. Sound(State, ops)
  BY <1>1, <1>3, <1>4, <1>5, EmptyModelOk DEF Sound
<1>7. closing \in Seq(WsId)
  BY <1>1
<1>8. TypeOK
  BY <1>1, <1>3, <1>4, <1>7, EmptyModelOk DEF TypeOK, Openings, Ok, EditorNotes
<1>9. DeadPaneOnlyAfterSkewedSplit /\ EmptyMeansRecreating
  BY <1>1, <1>2, OpTypes, EmptyModelOk DEF DeadPaneOnlyAfterSkewedSplit, EmptyMeansRecreating
<1> QED BY <1>3, <1>6, <1>8, <1>9 DEF IInv

-----------------------------------------------------------------------------
\* The inductive invariant holds of every behaviour.
THEOREM Invariance == Spec => []IInv
BY InitOk, NextOk, PTL DEF Spec

\* Whatever falls between the call of createWorkspace, createTab or splitPane, the
\* start of its shell and the end of the grace period - closes, moves, exits and other
\* openings - the maps of the model agree.
THEOREM StaysConsistent == Spec => []ModelConsistent
<1>1. IInv => ModelConsistent
  BY StateSound DEF IInv, ModelConsistent, Ok
<1> QED BY Invariance, <1>1, PTL

\* No shell runs on without a pane or an opening that answers for it, and no note
\* about a command pane outlives the pane.
THEOREM NoOrphans == Spec => []NothingOrphaned
<1>1. IInv => NothingOrphaned
  BY StateSound DEF Sound, NothingOrphaned, SpawnPanes
<1> QED BY Invariance, <1>1, PTL

\* A pane without a shell is only ever left behind by a split whose source changed
\* its tab meanwhile.
THEOREM NoDeadPanes == Spec => []DeadPaneOnlyAfterSkewedSplit
<1>1. IInv => DeadPaneOnlyAfterSkewedSplit
  BY DEF IInv
<1> QED BY Invariance, <1>1, PTL

\* ensureNotEmpty and recreateIfEmpty: an empty session is about to get a workspace,
\* unless the shell of that one failed or a group call was cut short.
THEOREM NeverLeftEmpty == Spec => []EmptyMeansRecreating
<1>1. IInv => EmptyMeansRecreating
  BY DEF IInv
<1> QED BY Invariance, <1>1, PTL

\* One step stops no shell of a pane that stays open.
LEMMA ShellsSurvive ==
  ASSUME IInv, Next, NEW p \in LivePanes(m) \cap terminals, p \in LivePanes(m')
  PROVE  p \in terminals'
<1>1. CASE Calls
  BY <1>1 DEF Calls, CallCreateWorkspace, CallCreateTab, CallSplitPane, CallCommandPane, CallOpen
<1>2. ASSUME NEW s \in Slots, PlaceKnown(s) PROVE p \in terminals'
  BY <1>2 DEF PlaceKnown
<1>3. ASSUME NEW s \in Slots, SourceGone(s) \/ SpawnFails(s) \/ SpawnOrphaned(s)
      PROVE  p \in terminals'
  <2>1. ops[s].stage = "spawn" => ops[s].pane \notin LivePanes(m)
    BY StateSound DEF Sound, Fresh
  <2> QED BY <1>3, <2>1 DEF SourceGone, SpawnFails, SpawnOrphaned
<1>4. ASSUME NEW s \in Slots, NEW exited \in BOOLEAN, SpawnEnds(s, exited)
      PROVE  p \in terminals'
  <2>1. PICK final : m' = final.m /\ terminals' = final.terminals /\ KeepsShells(State, final)
    BY <1>4, SpawnEndsFinal
  <2> QED BY <2>1, StateSound DEF KeepsShells
<1>5. CASE GroupCalls
  <2>1. CASE GroupEndsEarly
    BY <2>1 DEF GroupEndsEarly
  <2>2. ASSUME NEW w \in LiveWs(m), Become(After(State, CloseWorkspace(m, w), Removals(m, CloseWorkspace(m, w))))
        PROVE  p \in terminals'
    <3> DEFINE mm == CloseWorkspace(m, w)
               st == After(State, mm, Removals(m, mm))
    <3>1. Ok(mm) /\ OpensNothing(m, mm)
      BY StateSound, CloseWorkspaceOk, CloseOpensNothing
    <3>2. m' = st.m /\ terminals' = st.terminals
      BY <2>2 DEF Become
    <3> HIDE DEF mm
    <3>3. KeepsShells(State, st)
      BY <3>1, StateSound, QuietSound
    <3> QED BY <3>2, <3>3, StateSound DEF KeepsShells
  <2>3. CASE GroupCloses
    BY <2>2, <2>3 DEF GroupCloses
  <2>4. ASSUME NEW w \in WsId, NEW linked \in Blocks(m), CallCloseGroup(w, linked)
        PROVE  p \in terminals'
    BY <2>2, <2>4 DEF CallCloseGroup
  <2> QED BY <1>5, <2>1, <2>3, <2>4 DEF GroupCalls
<1>6. CASE SettlesSoundly
  <2>1. PICK st : Settle(st) /\ KeepsShells(State, st)
    BY <1>6 DEF SettlesSoundly
  <2>2. m' = st.m /\ terminals' = st.terminals
    BY <2>1 DEF Settle, Become
  <2> QED BY <2>1, <2>2, StateSound DEF KeepsShells
<1> QED BY <1>1, <1>2, <1>3, <1>4, <1>5, <1>6, NextCases

\* Closing, moving, replacing and swapping dispose of the shells of the panes they
\* remove and of no others.
THEOREM ShellsStay == Spec => SurvivorsKeepTheirShell
<1>1. IInv /\ [Next]_vars => [\A p \in LivePanes(m) \cap terminals : p \in LivePanes(m)' => p \in terminals']_vars
  BY ShellsSurvive
<1> QED BY Invariance, <1>1, PTL DEF Spec, SurvivorsKeepTheirShell

-----------------------------------------------------------------------------
(* What a command pane gives back when it closes.                          *)

\* A command pane returns to another pane: the one it was opened from, and the one
\* that was zoomed then, were there before its id was handed out.
ReturnsElsewhere ==
  /\ \A s \in Slots : ops[s].kind = "command" =>
       /\ ops[s].stage = "place" => ops[s].src < m.nextP /\ ops[s].zoomBack < m.nextP
       /\ ops[s].stage = "spawn" => ops[s].src # ops[s].pane /\ ops[s].zoomBack # ops[s].pane
  /\ \A p \in PaneId : editors[p].src # p /\ editors[p].zoomBack # p

LEMMA IdInts == None = 0 /\ (\A p \in PaneId : p \in Int /\ p > 0) /\ NoEditor.src = 0 /\ NoEditor.zoomBack = 0
BY BoundsAssumption DEF None, PaneId, NoEditor

\* A step that writes no note and begins no opening but an automatic one.
LEMMA NotesStay ==
  ASSUME IInv, ReturnsElsewhere, m.nextP <= m'.nextP, m'.nextP \in Nat,
         \A p \in PaneId : editors'[p] \in {editors[p], NoEditor},
         \A u \in Slots : ops'[u] \in {ops[u], NoOp, AutoOp}
  PROVE  ReturnsElsewhere'
<1>1. \A p \in PaneId : editors'[p].src # p /\ editors'[p].zoomBack # p
  BY IdInts DEF ReturnsElsewhere
<1>2. ASSUME NEW s \in Slots, ops'[s].kind = "command"
      PROVE  /\ ops'[s].stage = "place" => ops'[s].src < m'.nextP /\ ops'[s].zoomBack < m'.nextP
             /\ ops'[s].stage = "spawn" => ops'[s].src # ops'[s].pane /\ ops'[s].zoomBack # ops'[s].pane
  <2>1. ops'[s] = ops[s]
    BY <1>2, OpTypes
  <2>2. ops[s].src \in Int /\ ops[s].zoomBack \in Int
    <3>1. ops[s] \in Op
      BY StateSound DEF Openings
    <3> QED BY <3>1, IdInts DEF Op
  <2> QED BY <1>2, <2>1, <2>2, StateSound DEF ReturnsElsewhere
<1> QED BY <1>1, <1>2 DEF ReturnsElsewhere

\* What recreateIfEmpty does to the openings.
LEMMA Refilled ==
  ASSUME NEW pend, Openings(pend), NEW st, RecreateIfEmpty(st, pend)
  PROVE  \A u \in Slots : ops'[u] \in {pend[u], AutoOp}
<1>1. CASE IsEmpty(st.m)
  <2>1. Free(pend) # {} /\ ops' = Begin(pend, AutoOp)
    BY <1>1 DEF RecreateIfEmpty
  <2>2. PICK f \in Slots : /\ pend[f] = NoOp
                           /\ Begin(pend, AutoOp) \in [Slots -> Op]
                           /\ \A s \in Slots : Begin(pend, AutoOp)[s] = IF s = f THEN AutoOp ELSE pend[s]
    BY <2>1, OpTypes, BeginProperties DEF Openings
  <2> QED BY <2>1, <2>2
<1>2. CASE ~IsEmpty(st.m)
  BY <1>2 DEF RecreateIfEmpty
<1> QED BY <1>1, <1>2

\* The one note that is written: by the command pane that opens, about where it was asked for.
LEMMA OpenedNotes ==
  ASSUME IInv, NEW s \in Slots, NEW exited \in BOOLEAN, SpawnEnds(s, exited)
  PROVE  /\ m.nextP <= m'.nextP /\ m'.nextP \in Nat
         /\ \A p \in PaneId :
              \/ editors'[p] \in {editors[p], NoEditor}
              \/ /\ ops[s].kind = "command" /\ p = ops[s].pane
                 /\ editors'[p] = [src |-> ops[s].src, zoomBack |-> ops[s].zoomBack]
         /\ \A u \in Slots : ops'[u] \in {ops[u], NoOp, AutoOp}
<1> DEFINE op == ops[s]
           pend == Ended(ops, s)
           alive == IF exited THEN terminals \ {op.pane} ELSE terminals
           opened == Opened(op, alive)
           closes == exited /\ ~Throws(op, opened.m)
           final == IF closes THEN ClosedPane(opened, op.pane) ELSE opened
<1>1. /\ op.stage = "spawn" /\ ~CommitFails(op)
      /\ m' = final.m /\ editors' = final.editors /\ RecreateIfEmpty(final, pend)
  BY DEF SpawnEnds, Become, Ended
<1>2. Sound(opened, pend) /\ op.pane \in LivePanes(opened.m) /\ opened.m = Committed(op)
  BY <1>1, OpenedSound
<1>3. opened.m.nextP = m.nextP
  <2>1. op \in Op /\ Located(op) /\ Fresh(m, op)
    BY <1>1, StateSound DEF Openings, Sound
  <2>2. Committed(op).nextP = m.nextP
    BY <1>1, <2>1, StateSound, CommittedOk
  <2> QED BY <1>2, <2>2
<1>4. opened.editors = IF op.kind = "command"
                         THEN [editors EXCEPT ![op.pane] = [src |-> op.src, zoomBack |-> op.zoomBack]]
                         ELSE editors
  BY DEF Opened
<1>5. Openings(pend) /\ \A u \in Slots : pend[u] \in {ops[u], NoOp}
  BY StateSound, DropSlot
<1> HIDE DEF opened, pend
<1>6. /\ opened.m.nextP <= final.m.nextP /\ final.m.nextP \in Nat
      /\ \A p \in PaneId : final.editors[p] \in {opened.editors[p], NoEditor}
  <2>1. opened.m.nextP \in Nat
    BY <1>2, ModelTypes DEF Sound, Ok
  <2>2. CASE closes
    <3>1. final = ClosedPane(opened, op.pane) /\ Sound(final, pend) /\ KeepsNotes(opened, final)
      BY <1>2, <2>2, ClosedPaneSound
    <3> HIDE DEF final
    <3> QED BY <3>1, ModelTypes DEF Sound, Ok, KeepsNotes
  <2>3. CASE ~closes
    <3>1. final = opened
      BY <2>3
    <3> QED BY <2>1, <3>1
  <2> QED BY <2>2, <2>3
<1> HIDE DEF final
<1>7. \A u \in Slots : ops'[u] \in {ops[u], NoOp, AutoOp}
  <2>1. \A u \in Slots : ops'[u] \in {pend[u], AutoOp}
    BY <1>1, <1>5, Refilled
  <2> QED BY <1>5, <2>1
<1>8. editors \in EditorNotes
  BY StateSound DEF Sound
<1>9. ASSUME NEW p \in PaneId
      PROVE  \/ editors'[p] \in {editors[p], NoEditor}
             \/ /\ op.kind = "command" /\ p = op.pane
                /\ editors'[p] = [src |-> op.src, zoomBack |-> op.zoomBack]
  <2>1. opened.editors[p] = IF op.kind = "command" /\ p = op.pane
                              THEN [src |-> op.src, zoomBack |-> op.zoomBack] ELSE editors[p]
    BY <1>4, <1>8 DEF EditorNotes
  <2> QED BY <1>1, <1>6, <2>1
<1> QED BY <1>1, <1>3, <1>6, <1>7, <1>9

LEMMA ReturnsKept == ASSUME IInv, ReturnsElsewhere, Next PROVE ReturnsElsewhere'
<1>0. /\ Openings(ops) /\ Ok(m) /\ m.nextP \in Nat /\ State.m = m /\ State.editors = editors
      /\ Sound(State, ops)
  BY StateSound
<1>1. CASE Calls
  <2>1. ASSUME NEW o \in Op, CallOpen(o),
               o.kind = "command" => o.src \in Int /\ o.zoomBack \in Int
                                     /\ o.src < m.nextP /\ o.zoomBack < m.nextP
        PROVE  ReturnsElsewhere'
    <3> DEFINE op == [o EXCEPT !.stage = "place"]
    <3>1. Free(ops) # {} /\ ops' = Begin(ops, op) /\ m' = m /\ editors' = editors
      BY <2>1 DEF CallOpen
    <3>2. op \in Op /\ op.stage = "place" /\ op.kind = o.kind /\ op.src = o.src /\ op.zoomBack = o.zoomBack
      BY DEF Op
    <3> HIDE DEF op
    <3>3. PICK f \in Slots : /\ ops[f] = NoOp
                             /\ Begin(ops, op) \in [Slots -> Op]
                             /\ \A u \in Slots : Begin(ops, op)[u] = IF u = f THEN op ELSE ops[u]
      BY <1>0, <3>1, <3>2, BeginProperties DEF Openings
    <3> QED BY <2>1, <3>1, <3>2, <3>3 DEF ReturnsElsewhere
  <2>2. CASE CallCreateWorkspace
    <3> DEFINE o == [NoOp EXCEPT !.kind = "workspace"]
    <3>1. o \in Op /\ o.kind # "command"
      BY DEF NoOp, Op
    <3> QED BY <2>1, <2>2, <3>1 DEF CallCreateWorkspace
  <2>3. ASSUME NEW w \in WsId, CallCreateTab(w) PROVE ReturnsElsewhere'
    <3> DEFINE o == [NoOp EXCEPT !.kind = "tab", !.ws = w]
    <3>1. o \in Op /\ o.kind # "command"
      BY DEF NoOp, Op
    <3> QED BY <2>1, <2>3, <3>1 DEF CallCreateTab
  <2>4. ASSUME NEW p \in PaneId, CallSplitPane(p) PROVE ReturnsElsewhere'
    <3> DEFINE o == [NoOp EXCEPT !.kind = "split", !.src = p, !.srcTab = m.tabOf[p]]
    <3>1. m.tabOf[p] \in TabId
      BY <1>0, <2>4, LivePaneFacts DEF CallSplitPane
    <3>2. o \in Op /\ o.kind # "command"
      BY <3>1 DEF NoOp, Op
    <3> QED BY <2>1, <2>4, <3>2 DEF CallSplitPane
  <2>5. ASSUME NEW p \in PaneId, CallCommandPane(p) PROVE ReturnsElsewhere'
    <3> DEFINE o == [NoOp EXCEPT !.kind = "command", !.src = p, !.srcTab = m.tabOf[p],
                                 !.zoomBack = m.zoomed[m.tabOf[p]]]
    <3>1. /\ m.tabOf[p] \in TabId /\ m.zoomed[m.tabOf[p]] \in PaneId \cup {None}
          /\ p \in LivePanes(m) /\ CallOpen(o)
      BY <1>0, <2>5, LivePaneFacts, ModelTypes DEF CallCommandPane, Ok
    <3>2. m.zoomed[m.tabOf[p]] \in LivePanes(m) \cup {None}
      BY <1>0, <3>1, IdTypes DEF Ok, Consistent, FocusedAndZoomedAreLeaves, PanesAreLeaves, LivePanes
    <3>3. p < m.nextP /\ m.zoomed[m.tabOf[p]] < m.nextP
      BY <1>0, <3>1, <3>2, StateSound, IdInts DEF Ok, Consistent, IdsBelowNext, CountersStart
    <3>4. o \in Op /\ o.src = p /\ o.zoomBack = m.zoomed[m.tabOf[p]]
      BY <3>1 DEF NoOp, Op
    <3>5. p \in Int /\ m.zoomed[m.tabOf[p]] \in Int
      BY <3>1, IdInts
    <3> HIDE DEF o
    <3> QED BY <2>1, <3>1, <3>3, <3>4, <3>5
  <2> QED BY <1>1, <2>2, <2>3, <2>4, <2>5 DEF Calls
<1>2. ASSUME NEW s \in Slots, PlaceKnown(s) PROVE ReturnsElsewhere'
  <2> DEFINE op == ops[s]
             b == Reserved(op)
  <2>1. /\ op.stage = "place" /\ ops' = [ops EXCEPT ![s] = b] /\ editors' = editors
        /\ op \in Op
    BY <1>0, <1>2 DEF PlaceKnown, Openings
  <2>2. m'.nextP = m.nextP + 1
    BY <1>0, <1>2, ModelTypes DEF PlaceKnown, ReserveWorkspace, ReserveTab, ReserveNextPaneId, Ok
  <2>3. b.kind = "command" => /\ op.kind = "command" /\ b.stage = "spawn" /\ b.pane = m.nextP
                              /\ b.src = op.src /\ b.zoomBack = op.zoomBack
    BY <2>1 DEF Reserved, Op
  <2> HIDE DEF b
  <2>4. \A u \in Slots : ops'[u] = IF u = s THEN b ELSE ops[u]
    BY <1>0, <2>1 DEF Openings
  <2>5. \A u \in Slots : ops[u].src \in Int /\ ops[u].zoomBack \in Int
    BY <1>0, IdInts DEF Openings, Op
  <2> QED BY <1>0, <2>1, <2>2, <2>3, <2>4, <2>5 DEF ReturnsElsewhere
<1>3. ASSUME NEW s \in Slots, SourceGone(s) \/ SpawnFails(s) \/ SpawnOrphaned(s)
      PROVE  ReturnsElsewhere'
  <2>1. m' = m /\ editors' = editors /\ ops' = Ended(ops, s)
    BY <1>3 DEF SourceGone, SpawnFails, SpawnOrphaned, Ended
  <2>2. \A u \in Slots : ops'[u] \in {ops[u], NoOp}
    BY <1>0, <2>1, DropSlot
  <2> QED BY <1>0, <2>1, <2>2, NotesStay
<1>4. ASSUME NEW s \in Slots, NEW exited \in BOOLEAN, SpawnEnds(s, exited)
      PROVE  ReturnsElsewhere'
  <2>1. /\ m.nextP <= m'.nextP /\ m'.nextP \in Nat
        /\ \A p \in PaneId :
             \/ editors'[p] \in {editors[p], NoEditor}
             \/ /\ ops[s].kind = "command" /\ p = ops[s].pane
                /\ editors'[p] = [src |-> ops[s].src, zoomBack |-> ops[s].zoomBack]
        /\ \A u \in Slots : ops'[u] \in {ops[u], NoOp, AutoOp}
    BY <1>4, OpenedNotes
  <2>2. ops[s].stage = "spawn"
    BY <1>4 DEF SpawnEnds
  <2>3. \A p \in PaneId : editors'[p].src # p /\ editors'[p].zoomBack # p
    BY <2>1, <2>2, IdInts DEF ReturnsElsewhere
  <2>4. ASSUME NEW u \in Slots, ops'[u].kind = "command"
        PROVE  /\ ops'[u] = ops[u] /\ ops[u].src \in Int /\ ops[u].zoomBack \in Int
    <3>1. ops'[u] = ops[u] /\ ops[u] \in Op
      BY <1>0, <2>1, <2>4, OpTypes DEF Openings
    <3> QED BY <3>1, IdInts DEF Op
  <2> QED BY <1>0, <2>1, <2>3, <2>4 DEF ReturnsElsewhere
<1>5. ASSUME NEW st, KeepsNotes(State, st), Sound(st, ops), m' = st.m, editors' = st.editors,
             ops' = ops \/ RecreateIfEmpty(st, ops)
      PROVE  ReturnsElsewhere'
  <2>1. m.nextP <= m'.nextP /\ m'.nextP \in Nat /\ \A p \in PaneId : editors'[p] \in {editors[p], NoEditor}
    BY <1>0, <1>5, ModelTypes DEF KeepsNotes, Sound, Ok
  <2>2. \A u \in Slots : ops'[u] \in {ops[u], AutoOp}
    BY <1>0, <1>5, Refilled
  <2> QED BY <2>1, <2>2, NotesStay
<1>6. CASE GroupCalls
  <2>1. CASE GroupEndsEarly
    BY <1>0, <2>1, NotesStay DEF GroupEndsEarly
  <2>2. ASSUME NEW w \in LiveWs(m),
               NEW st, st = After(State, CloseWorkspace(m, w), Removals(m, CloseWorkspace(m, w))),
               Become(st), ops' = ops \/ RecreateIfEmpty(st, ops)
        PROVE  ReturnsElsewhere'
    <3> DEFINE mm == CloseWorkspace(m, w)
    <3>1. Ok(mm) /\ OpensNothing(m, mm)
      BY <1>0, CloseWorkspaceOk, CloseOpensNothing
    <3> HIDE DEF mm
    <3>2. Sound(st, ops) /\ KeepsNotes(State, st)
      BY <1>0, <2>2, <3>1, QuietSound DEF mm
    <3> QED BY <1>5, <2>2, <3>2 DEF Become
  <2>3. CASE GroupCloses
    BY <2>2, <2>3 DEF GroupCloses
  <2>4. ASSUME NEW w \in WsId, NEW linked \in Blocks(m), CallCloseGroup(w, linked)
        PROVE  ReturnsElsewhere'
    BY <2>2, <2>4 DEF CallCloseGroup
  <2> QED BY <1>6, <2>1, <2>3, <2>4 DEF GroupCalls
<1>7. CASE SettlesSoundly
  <2>1. PICK st : Settle(st) /\ Sound(st, ops) /\ KeepsNotes(State, st)
    BY <1>7 DEF SettlesSoundly
  <2>2. m' = st.m /\ editors' = st.editors /\ RecreateIfEmpty(st, ops)
    BY <2>1 DEF Settle, Become
  <2> QED BY <1>5, <2>1, <2>2
<1> QED BY <1>1, <1>2, <1>3, <1>4, <1>6, <1>7, NextCases

\* A command pane never returns to itself.
LEMMA ReturnsInvariant == Spec => []ReturnsElsewhere
<1>1. Init => ReturnsElsewhere
  BY OpTypes, IdInts DEF Init, ReturnsElsewhere
<1>2. IInv /\ ReturnsElsewhere /\ [Next]_vars => ReturnsElsewhere'
  <2>1. CASE UNCHANGED vars
    BY <2>1 DEF vars, ReturnsElsewhere
  <2> QED BY <2>1, ReturnsKept
<1> QED BY Invariance, <1>1, <1>2, PTL DEF Spec

\* closePane of a command pane, whose note is about other panes than itself.
LEMMA ClosedPaneRestores ==
  ASSUME NEW st, NEW a, a = st.m, Ok(a), NEW p \in LivePanes(a), NEW t, t = a.tabOf[p],
         NEW ed, ed = st.editors[p], ed.zoomBack \in PaneId \cup {None},
         ed.src # p, ed.zoomBack # p,
         NEW n, n = ClosedPane(st, p).m, t \in LiveTabs(n)
  PROVE  /\ a.focused[t] = p /\ ed.src \in Range(a.leaves[t]) => n.focused[t] = ed.src
         /\ ed.zoomBack \in Range(a.leaves[t]) => n.zoomed[t] = ed.zoomBack
<1> DEFINE closed == ClosePane(a, p, ed.src)
           restore == ed.zoomBack # None /\ t \in LiveTabs(closed) /\ closed.tabOf[ed.zoomBack] = t
<1>1. n = IF restore THEN ZoomPane(closed, ed.zoomBack, "on") ELSE closed
  BY DEF ClosedPane, After
<1>2. Ok(closed) /\ ClosedIn(a, closed, t, p, ed.src)
  BY ClosePaneOk, ClosePaneSpares
<1> HIDE DEF closed
<1>3. closed \in Model /\ t \in TabId
  BY <1>2 DEF Ok, LiveTabs
<1>4. Range(a.leaves[t]) \subseteq PaneId
  BY <1>3 DEF Ok, Consistent, PanesAreLeaves
<1>5. CASE restore
  <2>1. /\ n.zoomed[t] = ed.zoomBack /\ n.focused = closed.focused
    BY <1>1, <1>3, <1>5, ZoomOnIs
  <2> QED BY <1>2, <1>5, <2>1 DEF ClosedIn
<1>6. CASE ~restore
  <2>1. n = closed
    BY <1>1, <1>6
  <2>2. ed.zoomBack \notin Range(a.leaves[t])
    BY <1>2, <1>4, <1>6, <2>1, IdTypes DEF ClosedIn
  <2> QED BY <1>2, <2>1, <2>2 DEF ClosedIn
<1> QED BY <1>5, <1>6

\* closePane with the EditorState of a command pane: where the pane was opened from and
\* what was zoomed then get the focus and the zoom back, unless they left the tab.
THEOREM CommandPanesRestore == Spec => CommandPaneRestores
<1> DEFINE Restores(p) ==
             LET t == m.tabOf[p]
                 ed == editors[p]
             IN  ( /\ ed # NoEditor /\ p \notin LivePanes(m') /\ m'.wsOf[t] # None
                   /\ CallClosePane(p) \/ ShellExits(p) ) =>
                   /\ (m.focused[t] = p /\ ed.src \in Range(m.leaves[t])) => m'.focused[t] = ed.src
                   /\ (ed.zoomBack \in Range(m.leaves[t])) => m'.zoomed[t] = ed.zoomBack
<1>1. ASSUME IInv, ReturnsElsewhere, NEW p \in LivePanes(m)
      PROVE  Restores(p)
  <2> SUFFICES ASSUME m'.wsOf[m.tabOf[p]] # None, CallClosePane(p) \/ ShellExits(p)
               PROVE  LET t == m.tabOf[p]
                          ed == editors[p]
                      IN  /\ (m.focused[t] = p /\ ed.src \in Range(m.leaves[t])) => m'.focused[t] = ed.src
                          /\ (ed.zoomBack \in Range(m.leaves[t])) => m'.zoomed[t] = ed.zoomBack
    OBVIOUS
  <2>1. PICK st : st.m = m /\ st.editors = editors /\ m' = ClosedPane(st, p).m
    <3>1. CASE CallClosePane(p)
      <4>1. State.m = m /\ State.editors = editors /\ m' = ClosedPane(State, p).m
        BY <3>1 DEF CallClosePane, Settle, Become, State
      <4> QED BY <4>1
    <3>2. CASE ShellExits(p)
      <4> DEFINE exits == [State EXCEPT !.terminals = terminals \ {p}]
      <4>1. exits.m = m /\ exits.editors = editors /\ m' = ClosedPane(exits, p).m
        BY <3>2 DEF ShellExits, Settle, Become, State
      <4> QED BY <4>1
    <3> QED BY <3>1, <3>2
  <2>2. Ok(m) /\ editors \in EditorNotes
    BY <1>1, StateSound DEF Sound
  <2>3. p \in PaneId /\ m.tabOf[p] \in TabId
    BY <1>1, <2>2, LivePaneFacts
  <2>4. /\ editors[p].zoomBack \in PaneId \cup {None}
        /\ editors[p].src # p /\ editors[p].zoomBack # p
    BY <1>1, <2>2, <2>3 DEF EditorNotes, ReturnsElsewhere
  <2>5. m.tabOf[p] \in LiveTabs(m')
    BY <2>3 DEF LiveTabs
  <2> QED BY <1>1, <2>1, <2>2, <2>4, <2>5, ClosedPaneRestores
<1>2. IInv /\ ReturnsElsewhere => [\A p \in LivePanes(m) : Restores(p)]_vars
  BY <1>1
<1> QED BY Invariance, ReturnsInvariant, <1>2, PTL DEF Spec, CommandPaneRestores

-----------------------------------------------------------------------------
(* The copy that a client keeps from the events.                           *)

\* The event e tells all that is different in b from a.
Announces(a, b, e) ==
  /\ e.delP = LivePanes(a) \ LivePanes(b)
  /\ e.delT = LiveTabs(a) \ LiveTabs(b)
  /\ Spares(a, b, e.upP, e.upT, e.upW)
  /\ e.delW \notin LiveWs(b) /\ LiveWs(a) \subseteq LiveWs(b) \cup {e.delW}
  /\ \/ e.reordered
     \/ ~e.reordered /\ e.upW \subseteq Range(Without(a.order, e.delW)) /\ b.order = Without(a.order, e.delW)
     \/ \E w : /\ ~e.reordered /\ e.upW \ Range(Without(a.order, e.delW)) = {w}
               /\ b.order = Append(Without(a.order, e.delW), w)

\* What has no entry has no list either.
LEMMA GoneIsEmpty ==
  ASSUME NEW b, Ok(b)
  PROVE  /\ \A w \in WsId : w \notin LiveWs(b) <=> b.tabIds[w] = <<>>
         /\ \A t \in TabId : b.wsOf[t] = None => b.leaves[t] = <<>> /\ b.zoomed[t] = None
<1>1. \A w \in WsId : w \notin LiveWs(b) <=> b.tabIds[w] = <<>>
  BY DEF Ok, Consistent, TabsAreListed
<1>2. ASSUME NEW t \in TabId, b.wsOf[t] = None
      PROVE  b.leaves[t] = <<>> /\ b.zoomed[t] = None
  <2>1. b.leaves[t] = <<>> /\ b.zoomed[t] \in Range(b.leaves[t]) \cup {None}
    BY <1>2 DEF Ok, Consistent, PanesAreLeaves, FocusedAndZoomedAreLeaves
  <2> QED BY <2>1 DEF Range
<1> QED BY <1>1, <1>2

\* A client that had the structure has it again when the event has arrived.
LEMMA DeliverShows ==
  ASSUME NEW a, Ok(a), NEW b, Ok(b), NEW e, Announces(a, b, e)
  PROVE  Deliver(View(a), b, e) = View(b)
<1> DEFINE r == View(a)
           d == Deliver(r, b, e)
           kept == Without(r.order, e.delW)
           news == e.upW \ Range(kept)
<1>1. /\ r.order = a.order /\ r.tabIds = a.tabIds /\ r.wsOf = a.wsOf /\ r.leaves = a.leaves
      /\ r.zoomed = a.zoomed /\ r.tabOf = a.tabOf
  BY DEF View
<1>2. /\ a.tabIds \in [WsId -> Seq(TabId)] /\ b.tabIds \in [WsId -> Seq(TabId)]
      /\ b.wsOf \in [TabId -> WsId \cup {None}] /\ b.leaves \in [TabId -> Seq(PaneId)]
      /\ b.zoomed \in [TabId -> PaneId \cup {None}] /\ b.tabOf \in [PaneId -> TabId \cup {None}]
  BY ModelTypes DEF Ok
<1> HIDE DEF r
<1>3. (IF e.reordered THEN b.order ELSE IF news = {} THEN kept ELSE Append(kept, CHOOSE w \in news : TRUE))
        = b.order
  <2>1. CASE e.reordered
    BY <2>1
  <2>2. CASE ~e.reordered /\ e.upW \subseteq Range(kept) /\ b.order = kept
    <3>1. news = {}
      BY <2>2
    <3> QED BY <2>2, <3>1
  <2>3. ASSUME NEW w, ~e.reordered, news = {w}, b.order = Append(kept, w)
        PROVE  ~e.reordered /\ news # {} /\ b.order = Append(kept, CHOOSE v \in news : TRUE)
    <3>1. (CHOOSE v \in news : TRUE) = w
      BY <2>3
    <3> QED BY <2>3, <3>1
  <2> QED BY <1>1, <2>1, <2>2, <2>3 DEF Announces
<1>4. [w \in WsId |-> IF w = e.delW THEN <<>> ELSE IF w \in e.upW THEN b.tabIds[w] ELSE r.tabIds[w]]
        = b.tabIds
  <2>1. ASSUME NEW w \in WsId
        PROVE  (IF w = e.delW THEN <<>> ELSE IF w \in e.upW THEN b.tabIds[w] ELSE r.tabIds[w]) = b.tabIds[w]
    BY <1>1, GoneIsEmpty DEF Announces, Spares
  <2> QED BY <1>2, <2>1
<1>5. ASSUME NEW t \in TabId
      PROVE  /\ t \in e.delT => b.wsOf[t] = None /\ b.leaves[t] = <<>> /\ b.zoomed[t] = None
             /\ t \notin e.delT /\ t \notin e.upT =>
                  a.wsOf[t] = b.wsOf[t] /\ a.leaves[t] = b.leaves[t] /\ a.zoomed[t] = b.zoomed[t]
  <2>1. t \in e.delT => b.wsOf[t] = None
    BY DEF Announces, LiveTabs
  <2>2. ASSUME t \notin e.delT, t \notin e.upT, b.wsOf[t] = None
        PROVE  a.wsOf[t] = None
    BY <2>2 DEF Announces, LiveTabs
  <2> QED BY <2>1, <2>2, GoneIsEmpty DEF Announces, Spares
<1>6. [t \in TabId |-> IF t \in e.delT THEN None ELSE IF t \in e.upT THEN b.wsOf[t] ELSE r.wsOf[t]] = b.wsOf
  <2>1. ASSUME NEW t \in TabId
        PROVE  (IF t \in e.delT THEN None ELSE IF t \in e.upT THEN b.wsOf[t] ELSE r.wsOf[t]) = b.wsOf[t]
    BY <1>1, <1>5
  <2> QED BY <1>2, <2>1
<1>7. [t \in TabId |-> IF t \in e.delT THEN <<>> ELSE IF t \in e.upT THEN b.leaves[t] ELSE r.leaves[t]] = b.leaves
  <2>1. ASSUME NEW t \in TabId
        PROVE  (IF t \in e.delT THEN <<>> ELSE IF t \in e.upT THEN b.leaves[t] ELSE r.leaves[t]) = b.leaves[t]
    BY <1>1, <1>5
  <2> QED BY <1>2, <2>1
<1>8. [t \in TabId |-> IF t \in e.delT THEN None ELSE IF t \in e.upT THEN b.zoomed[t] ELSE r.zoomed[t]] = b.zoomed
  <2>1. ASSUME NEW t \in TabId
        PROVE  (IF t \in e.delT THEN None ELSE IF t \in e.upT THEN b.zoomed[t] ELSE r.zoomed[t]) = b.zoomed[t]
    BY <1>1, <1>5
  <2> QED BY <1>2, <2>1
<1>9. [p \in PaneId |-> IF p \in e.delP THEN None ELSE IF p \in e.upP THEN b.tabOf[p] ELSE r.tabOf[p]] = b.tabOf
  <2>1. ASSUME NEW p \in PaneId
        PROVE  (IF p \in e.delP THEN None ELSE IF p \in e.upP THEN b.tabOf[p] ELSE r.tabOf[p]) = b.tabOf[p]
    BY <1>1 DEF Announces, Spares, LivePanes
  <2> QED BY <1>2, <2>1
<1>10. d = View(b)
  BY <1>3, <1>4, <1>6, <1>7, <1>8, <1>9 DEF Deliver, View
<1> QED BY <1>10 DEF r

\* The copy is the structure.
Shows(st) == st.rep = View(st.m)

LEMMA AfterShows ==
  ASSUME NEW st, Shows(st), NEW a, a = st.m, Ok(a), NEW mm, Ok(mm), NEW e, Announces(a, mm, e)
  PROVE  Shows(After(st, mm, e))
<1>1. After(st, mm, e).rep = Deliver(st.rep, mm, e) /\ After(st, mm, e).m = mm
  BY DEF After
<1>2. Deliver(View(a), mm, e) = View(mm)
  BY DeliverShows
<1> QED BY <1>1, <1>2 DEF Shows

LEMMA NoEventsAre ==
  /\ NoEvents.delP = {} /\ NoEvents.delT = {} /\ NoEvents.delW = None /\ ~NoEvents.reordered
  /\ NoEvents.upP = {} /\ NoEvents.upT = {} /\ NoEvents.upW = {}
BY DEF NoEvents

\* Nothing is removed from list None, which no list has.
LEMMA NoneIsNowhere ==
  ASSUME NEW a, Ok(a)
  PROVE  None \notin LiveWs(a) /\ LiveWs(a) \subseteq WsId /\ Without(a.order, None) = a.order
<1>1. Range(a.order) \subseteq WsId
  BY ModelTypes, HeadInRange DEF Ok
<1>2. None \notin Range(a.order)
  BY <1>1, IdTypes
<1> QED BY <1>1, <1>2 DEF LiveWs, Without

\* The events of an operation that removes, at most one workspace w.
LEMMA RemovalsAnnounce ==
  ASSUME NEW a, Ok(a), NEW b, Ok(b), NEW w \in LiveWs(a), OrderKept(a, b, w),
         NEW P, NEW T, NEW W, Spares(a, b, P, T, W), NEW r, r = Removals(a, b),
         NEW e, e.delP = r.delP, e.delT = r.delT, e.delW = r.delW, ~e.reordered,
         P \cap LivePanes(b) \subseteq e.upP, T \cap LiveTabs(b) \subseteq e.upT,
         W \cap LiveWs(b) \subseteq e.upW, e.upW \subseteq LiveWs(b)
  PROVE  Announces(a, b, e)
<1> DEFINE gone == LiveWs(a) \ LiveWs(b)
<1>1. /\ r.delP = LivePanes(a) \ LivePanes(b) /\ r.delT = LiveTabs(a) \ LiveTabs(b)
      /\ r.delW = IF gone = {} THEN None ELSE CHOOSE v \in gone : TRUE
  <2> DEFINE c == IF gone = {} THEN None ELSE CHOOSE v \in gone : TRUE
  <2> HIDE DEF c
  <2>1. r = [NoEvents EXCEPT !.delP = LivePanes(a) \ LivePanes(b), !.delT = LiveTabs(a) \ LiveTabs(b), !.delW = c]
    BY DEF Removals, c
  <2>2. r.delP = LivePanes(a) \ LivePanes(b) /\ r.delT = LiveTabs(a) \ LiveTabs(b) /\ r.delW = c
    BY <2>1 DEF NoEvents
  <2> QED BY <2>2 DEF c
<1>2. a.order \in Distinct(WsId)
  BY ModelTypes DEF Ok, Consistent, TabsAreListed, Distinct
<1>3. Range(Without(a.order, w)) = LiveWs(a) \ {w}
  BY <1>2, WithoutDistinct DEF LiveWs
<1>4. \/ gone = {} /\ b.order = a.order
      \/ gone = {w} /\ b.order = Without(a.order, w)
  <2>1. CASE b.order = a.order
    BY <2>1 DEF LiveWs
  <2>2. CASE b.order = Without(a.order, w)
    BY <1>3, <2>2 DEF LiveWs
  <2> QED BY <2>1, <2>2 DEF OrderKept
<1>5. /\ e.delW \notin LiveWs(b) /\ LiveWs(a) \subseteq LiveWs(b) \cup {e.delW}
      /\ b.order = Without(a.order, e.delW)
  <2>1. CASE gone = {} /\ b.order = a.order
    BY <1>1, <2>1, NoneIsNowhere
  <2>2. CASE gone = {w} /\ b.order = Without(a.order, w)
    <3>1. (CHOOSE v \in gone : TRUE) = w /\ gone # {}
      <4>1. \A S : S = {w} => (CHOOSE v \in S : TRUE) = w /\ S # {}
        OBVIOUS
      <4> QED BY <2>2, <4>1
    <3>2. e.delW = w
      BY <1>1, <3>1
    <3> QED BY <2>2, <3>2
  <2> QED BY <1>4, <2>1, <2>2
<1>6. Spares(a, b, e.upP, e.upT, e.upW)
  <2>1. \A p \in PaneId \ e.upP : b.tabOf[p] \in {a.tabOf[p], None}
    BY DEF Spares, LivePanes
  <2>2. ASSUME NEW t \in TabId \ e.upT, b.wsOf[t] # None
        PROVE  b.wsOf[t] = a.wsOf[t] /\ b.leaves[t] = a.leaves[t] /\ b.zoomed[t] = a.zoomed[t]
    BY <2>2 DEF Spares, LiveTabs
  <2>3. \A v \in WsId \ e.upW : b.tabIds[v] \in {a.tabIds[v], <<>>}
    BY GoneIsEmpty DEF Spares
  <2> QED BY <2>1, <2>2, <2>3 DEF Spares
<1>7. e.upW \subseteq Range(Without(a.order, e.delW))
  BY <1>5 DEF LiveWs
<1> QED BY <1>1, <1>5, <1>6, <1>7 DEF Announces

\* An operation that removes nothing has no removals to tell.
LEMMA NothingRemoved ==
  ASSUME NEW a, NEW b, b.order = a.order, b.wsOf = a.wsOf, b.tabOf = a.tabOf
  PROVE  Removals(a, b) = NoEvents
<1>1. /\ LiveWs(a) \ LiveWs(b) = {} /\ LiveTabs(a) \ LiveTabs(b) = {}
      /\ LivePanes(a) \ LivePanes(b) = {}
  BY DEF LiveWs, LiveTabs, LivePanes
<1>2. Removals(a, b) = [NoEvents EXCEPT !.delP = {}, !.delT = {}, !.delW = None]
  BY <1>1 DEF Removals
<1> QED BY <1>2 DEF NoEvents

\* What a removal does not say.
LEMMA RemovalsAre ==
  ASSUME NEW a, NEW b, NEW r, r = Removals(a, b)
  PROVE  r = [upW |-> {}, delW |-> r.delW, upT |-> {}, delT |-> r.delT, upP |-> {}, delP |-> r.delP,
              reordered |-> FALSE]
<1> DEFINE gone == LiveWs(a) \ LiveWs(b)
           c == IF gone = {} THEN None ELSE CHOOSE v \in gone : TRUE
<1> HIDE DEF c
<1>1. r = [NoEvents EXCEPT !.delP = LivePanes(a) \ LivePanes(b), !.delT = LiveTabs(a) \ LiveTabs(b), !.delW = c]
  BY DEF Removals, c
<1> QED BY <1>1 DEF NoEvents

\* Operations that only announce what they changed.
LEMMA BecomesShown ==
  ASSUME IInv, rep = View(m), NEW mm, Ok(mm), NEW e, Announces(m, mm, e), Become(After(State, mm, e))
  PROVE  rep' = View(m')
<1> DEFINE st == After(State, mm, e)
<1>1. Shows(State)
  BY StateSound DEF Shows
<1>2. Shows(st)
  BY <1>1, StateSound, AfterShows
<1>3. rep' = st.rep /\ m' = st.m
  BY DEF Become
<1> HIDE DEF st
<1> QED BY <1>2, <1>3 DEF Shows

LEMMA ClosedPaneShows ==
  ASSUME NEW st, Shows(st), NEW a, a = st.m, Ok(a), NEW p \in LivePanes(a),
         st.editors[p].zoomBack \in PaneId \cup {None}
  PROVE  Shows(ClosedPane(st, p))
<1> DEFINE t == a.tabOf[p]
           w == a.wsOf[t]
           ed == st.editors[p]
           closed == ClosePane(a, p, ed.src)
           tabStays == t \in LiveTabs(closed)
           restore == ed.zoomBack # None /\ tabStays /\ closed.tabOf[ed.zoomBack] = t
           mm == IF restore THEN ZoomPane(closed, ed.zoomBack, "on") ELSE closed
           r == Removals(a, mm)
           W == IF tabStays THEN {} ELSE {w}
           e == [r EXCEPT !.upT = IF tabStays THEN {t} ELSE {},
                          !.upW = IF ~tabStays /\ w \in LiveWs(mm) THEN {w} ELSE {}]
<1>1. ClosedPane(st, p) = After(st, mm, e)
  BY DEF ClosedPane
<1>2. t \in LiveTabs(a) /\ w \in LiveWs(a)
  BY LivePaneFacts, LiveTabFacts
<1>3. Ok(closed) /\ Spares(a, closed, {}, {t}, W) /\ OrderKept(a, closed, w)
  BY ClosePaneOk, ClosePaneSpares
<1> HIDE DEF closed
<1>4. /\ Ok(mm) /\ Spares(a, mm, {}, {t}, W) /\ OrderKept(a, mm, w)
      /\ LiveTabs(mm) = LiveTabs(closed)
  <2>1. CASE restore
    <3>1. closed.tabOf[ed.zoomBack] \in LiveTabs(closed) /\ ed.zoomBack \in PaneId
      BY <2>1
    <3>2. ed.zoomBack \in LivePanes(closed) /\ closed.tabOf[ed.zoomBack] = t
      BY <2>1, <3>1, IdTypes DEF LivePanes, LiveTabs
    <3>3. mm = ZoomPane(closed, ed.zoomBack, "on")
      BY <2>1
    <3> HIDE DEF mm
    <3>4. Ok(mm) /\ Spares(closed, mm, {}, {t}, {}) /\ mm.order = closed.order /\ mm.wsOf = closed.wsOf
      BY <1>3, <3>2, <3>3, ZoomPaneOk, ArrangeSpares
    <3>5. Spares(a, mm, {} \cup {}, {t} \cup {t}, W \cup {})
      BY <1>3, <3>4, SparesInTurn
    <3>6. {} \cup {} = {} /\ {t} \cup {t} = {t} /\ W \cup {} = W
      OBVIOUS
    <3> HIDE DEF W
    <3>7. Spares(a, mm, {}, {t}, W)
      BY <3>5, <3>6
    <3> QED BY <1>3, <3>4, <3>7 DEF OrderKept, LiveTabs
  <2>2. CASE ~restore
    <3>1. mm = closed
      BY <2>2
    <3> QED BY <1>3, <3>1
  <2> QED BY <2>1, <2>2
<1> HIDE DEF mm
<1>5. r = [upW |-> {}, delW |-> r.delW, upT |-> {}, delT |-> r.delT, upP |-> {}, delP |-> r.delP,
           reordered |-> FALSE]
  BY RemovalsAre
<1> HIDE DEF r
<1>6. /\ e.delP = r.delP /\ e.delT = r.delT /\ e.delW = r.delW /\ ~e.reordered /\ e.upP = {}
      /\ e.upT = (IF tabStays THEN {t} ELSE {})
      /\ e.upW = (IF ~tabStays /\ w \in LiveWs(mm) THEN {w} ELSE {})
  BY <1>5
<1> HIDE DEF e
<1>7. Announces(a, mm, e)
  <2>1. {} \cap LivePanes(mm) \subseteq e.upP /\ {t} \cap LiveTabs(mm) \subseteq e.upT
    BY <1>4, <1>6
  <2>2. W \cap LiveWs(mm) \subseteq e.upW /\ e.upW \subseteq LiveWs(mm)
    BY <1>6
  <2>3. r = Removals(a, mm)
    BY DEF r
  <2> HIDE DEF W, t, w
  <2> QED BY <1>2, <1>4, <1>6, <2>1, <2>2, <2>3, RemovalsAnnounce
<1> QED BY <1>1, <1>4, <1>7, AfterShows

\* tab.close and workspace.close, also those of a group.
LEMMA CloseTabShows ==
  ASSUME IInv, rep = View(m), NEW t \in TabId, CallCloseTab(t)
  PROVE  rep' = View(m')
<1> DEFINE mm == CloseTab(m, t)
           w == m.wsOf[t]
           r == Removals(m, mm)
           e == [r EXCEPT !.upW = {w} \cap LiveWs(mm)]
<1>1. t \in LiveTabs(m) /\ Become(After(State, mm, e))
  BY DEF CallCloseTab, Settle
<1>2. Ok(m) /\ Ok(mm) /\ Spares(m, mm, {}, {}, {w}) /\ OrderKept(m, mm, w) /\ w \in LiveWs(m)
  BY <1>1, StateSound, CloseTabOk, CloseTabSpares, LiveTabFacts
<1> HIDE DEF mm
<1>3. r = [upW |-> {}, delW |-> r.delW, upT |-> {}, delT |-> r.delT, upP |-> {}, delP |-> r.delP,
           reordered |-> FALSE]
  BY RemovalsAre
<1> HIDE DEF r
<1>4. /\ e.delP = r.delP /\ e.delT = r.delT /\ e.delW = r.delW /\ ~e.reordered
      /\ e.upP = {} /\ e.upT = {} /\ e.upW = {w} \cap LiveWs(mm)
  BY <1>3
<1> HIDE DEF e
<1>5. Announces(m, mm, e)
  <2>1. {} \cap LivePanes(mm) \subseteq e.upP /\ {} \cap LiveTabs(mm) \subseteq e.upT
    OBVIOUS
  <2>2. {w} \cap LiveWs(mm) \subseteq e.upW /\ e.upW \subseteq LiveWs(mm)
    BY <1>4
  <2>3. r = Removals(m, mm)
    BY DEF r
  <2> HIDE DEF w
  <2> QED BY <1>2, <1>4, <2>1, <2>2, <2>3, RemovalsAnnounce
<1> QED BY <1>1, <1>2, <1>5, BecomesShown

LEMMA CloseWorkspaceShows ==
  ASSUME IInv, rep = View(m), NEW w \in LiveWs(m),
         Become(After(State, CloseWorkspace(m, w), Removals(m, CloseWorkspace(m, w))))
  PROVE  rep' = View(m')
<1> DEFINE mm == CloseWorkspace(m, w)
           r == Removals(m, mm)
<1>1. Ok(m) /\ Ok(mm) /\ Spares(m, mm, {}, {}, {}) /\ OrderKept(m, mm, w)
  BY StateSound, CloseWorkspaceOk, CloseWorkspaceSpares
<1>2. Become(After(State, mm, r))
  OBVIOUS
<1> HIDE DEF mm
<1>3. r = [upW |-> {}, delW |-> r.delW, upT |-> {}, delT |-> r.delT, upP |-> {}, delP |-> r.delP,
           reordered |-> FALSE]
  BY RemovalsAre
<1>4. r = Removals(m, mm)
  OBVIOUS
<1> HIDE DEF r
<1>5. ~r.reordered /\ r.upP = {} /\ r.upT = {} /\ r.upW = {}
  BY <1>3
<1>6. /\ {} \cap LivePanes(mm) \subseteq r.upP /\ {} \cap LiveTabs(mm) \subseteq r.upT
      /\ {} \cap LiveWs(mm) \subseteq r.upW /\ r.upW \subseteq LiveWs(mm)
  BY <1>5
<1>7. Announces(m, mm, r)
  BY <1>1, <1>4, <1>5, <1>6, RemovalsAnnounce
<1> QED BY <1>1, <1>2, <1>7, BecomesShown

\* pane.close, and the exit of a shell.
LEMMA ClosePaneShows ==
  ASSUME IInv, rep = View(m), NEW p \in PaneId, CallClosePane(p) \/ ShellExits(p)
  PROVE  rep' = View(m')
<1> DEFINE exits == [State EXCEPT !.terminals = terminals \ {p}]
<1>1. PICK st \in {State, exits} : p \in LivePanes(m) /\ Become(ClosedPane(st, p))
  BY DEF CallClosePane, ShellExits, Settle, State
<1>2. st.m = m /\ st.editors = editors /\ st.rep = rep
  BY <1>1 DEF State
<1>3. Ok(m) /\ editors[p].zoomBack \in PaneId \cup {None}
  BY StateSound DEF Sound, EditorNotes
<1> HIDE DEF exits
<1>4. Shows(ClosedPane(st, p))
  BY <1>1, <1>2, <1>3, ClosedPaneShows DEF Shows
<1> QED BY <1>1, <1>4 DEF Become, Shows

\* The moves of a pane to another tab.
LEMMA MoveToTabAnnounces ==
  ASSUME NEW a, Ok(a), NEW p \in LivePanes(a), NEW t \in LiveTabs(a), NEW s, s = a.tabOf[p], t # s,
         NEW w, w = a.wsOf[s], NEW mm, mm = MoveToTab(a, p, t), NEW r, r = Removals(a, mm), NEW e,
         e.delP = r.delP, e.delT = r.delT, e.delW = r.delW, ~e.reordered, e.upP = {p},
         e.upT = ({s} \cap LiveTabs(mm)) \cup {t},
         e.upW = IF s \in LiveTabs(mm) THEN {} ELSE {w} \cap LiveWs(mm)
  PROVE  Ok(mm) /\ Announces(a, mm, e)
<1> DEFINE V == IF s \in LiveTabs(mm) THEN {} ELSE {w}
           P == {p}
           T == {s, t}
<1>0. P = {p} /\ T = {s, t} /\ V = IF s \in LiveTabs(mm) THEN {} ELSE {a.wsOf[s]}
  OBVIOUS
<1>2. /\ P \cap LivePanes(mm) \subseteq e.upP /\ T \cap LiveTabs(mm) \subseteq e.upT
      /\ V \cap LiveWs(mm) \subseteq e.upW /\ e.upW \subseteq LiveWs(mm)
  OBVIOUS
<1> HIDE DEF P, T, V
<1>1. Ok(mm) /\ w \in LiveWs(a)
  BY MoveToTabOk, LivePaneFacts, LiveTabFacts
<1>3. Spares(a, mm, P, T, V) /\ OrderKept(a, mm, w)
  BY <1>0, MoveToTabSpares
<1> QED BY <1>1, <1>3, <1>2, RemovalsAnnounce

LEMMA MoveToNewTabAnnounces ==
  ASSUME NEW a, Ok(a), NEW p \in LivePanes(a), NEW w \in LiveWs(a), NEW t \in TabId, t = a.nextT,
         NEW s, s = a.tabOf[p], NEW v, v = a.wsOf[s],
         NEW mm, mm = MoveToNewTab(a, p, w), NEW r, r = Removals(a, mm), NEW e,
         e.delP = r.delP, e.delT = r.delT, e.delW = r.delW, ~e.reordered, e.upP = {p},
         e.upT = ({s} \cap LiveTabs(mm)) \cup {t},
         e.upW = (IF s \in LiveTabs(mm) THEN {} ELSE {v} \cap LiveWs(mm)) \cup {w}
  PROVE  Ok(mm) /\ Announces(a, mm, e)
<1> DEFINE P == {p}
           T == {s, t}
           W == {w} \cup (IF s \in LiveTabs(mm) THEN {} ELSE {v})
<1>1. p \in P /\ s \in T /\ a.nextT \in T /\ w \in W /\ (s \in LiveTabs(mm) \/ a.wsOf[s] \in W)
  OBVIOUS
<1>2. w \in LiveWs(mm) => /\ P \cap LivePanes(mm) \subseteq e.upP /\ T \cap LiveTabs(mm) \subseteq e.upT
                          /\ W \cap LiveWs(mm) \subseteq e.upW /\ e.upW \subseteq LiveWs(mm)
  OBVIOUS
<1> HIDE DEF P, T, W
<1>3. Ok(mm) /\ v \in LiveWs(a)
  BY MoveToNewTabOk, LivePaneFacts, LiveTabFacts
<1>4. Spares(a, mm, P, T, W) /\ OrderKept(a, mm, v) /\ mm.wsOf[a.nextT] = w
  BY <1>1, MoveToNewTabSpares
<1>5. w \in LiveWs(mm)
  <2>1. w \in WsId
    BY ModelTypes, HeadInRange DEF Ok, LiveWs
  <2>2. t \in LiveTabs(mm)
    BY <1>4, <2>1, IdTypes DEF LiveTabs
  <2> QED BY <1>3, <1>4, <2>2, LiveTabFacts
<1> QED BY <1>2, <1>3, <1>4, <1>5, RemovalsAnnounce

LEMMA MoveShows ==
  ASSUME IInv, rep = View(m), NEW p \in PaneId,
         (\E t \in TabId : CallMoveToTab(p, t)) \/ (\E w \in WsId : CallMoveToNewTab(p, w))
  PROVE  rep' = View(m')
<1> DEFINE s == m.tabOf[p]
           v == m.wsOf[s]
<1>1. ASSUME NEW t \in TabId, CallMoveToTab(p, t)
      PROVE  rep' = View(m')
  <2> DEFINE mm == MoveToTab(m, p, t)
             e == [SourceEvents(mm, s, v) EXCEPT !.upP = {p}, !.upT = @ \cup {t}]
             r == Removals(m, mm)
  <2>1. p \in LivePanes(m) /\ t \in LiveTabs(m) /\ t # s /\ Become(After(State, mm, e))
    BY <1>1 DEF CallMoveToTab, Step, Settle
  <2>2. mm = MoveToTab(m, p, t)
    OBVIOUS
  <2> HIDE DEF mm
  <2> DEFINE S == {s} \cap LiveTabs(mm)
             V == IF s \in LiveTabs(mm) THEN {} ELSE {v} \cap LiveWs(mm)
             f == [[r EXCEPT !.upT = S, !.upW = V] EXCEPT !.upP = {p}, !.upT = @ \cup {t}]
  <2>3. e = f
    BY Zenon DEF SourceEvents
  <2>4. r = [upW |-> {}, delW |-> r.delW, upT |-> {}, delT |-> r.delT, upP |-> {}, delP |-> r.delP,
             reordered |-> FALSE]
    BY RemovalsAre
  <2> HIDE DEF S, V, r
  <2>5. /\ f.delP = r.delP /\ f.delT = r.delT /\ f.delW = r.delW /\ ~f.reordered /\ f.upP = {p}
        /\ f.upT = S \cup {t} /\ f.upW = V
    BY <2>4
  <2> HIDE DEF e, f
  <2>6. /\ e.delP = r.delP /\ e.delT = r.delT /\ e.delW = r.delW /\ ~e.reordered /\ e.upP = {p}
        /\ e.upT = ({s} \cap LiveTabs(mm)) \cup {t}
        /\ e.upW = IF s \in LiveTabs(mm) THEN {} ELSE {v} \cap LiveWs(mm)
    BY <2>3, <2>5 DEF S, V
  <2>7. r = Removals(m, mm)
    BY DEF r
  <2>8. Ok(mm) /\ Announces(m, mm, e)
    BY <2>1, <2>2, <2>6, <2>7, StateSound, MoveToTabAnnounces
  <2> QED BY <2>1, <2>8, BecomesShown
<1>2. ASSUME NEW w \in WsId, CallMoveToNewTab(p, w)
      PROVE  rep' = View(m')
  <2> DEFINE mm == MoveToNewTab(m, p, w)
             e == [SourceEvents(mm, s, v) EXCEPT !.upP = {p}, !.upT = @ \cup {m.nextT}, !.upW = @ \cup {w}]
             r == Removals(m, mm)
  <2>1. p \in LivePanes(m) /\ w \in LiveWs(m) /\ m.nextT <= MaxTab /\ Become(After(State, mm, e))
    BY <1>2 DEF CallMoveToNewTab, Step, Settle
  <2>2. mm = MoveToNewTab(m, p, w) /\ m.nextT \in TabId
    BY <2>1, StateSound, BoundsAssumption DEF CountersStart, TabId
  <2> HIDE DEF mm
  <2> DEFINE S == {s} \cap LiveTabs(mm)
             V == IF s \in LiveTabs(mm) THEN {} ELSE {v} \cap LiveWs(mm)
             f == [[r EXCEPT !.upT = S, !.upW = V] EXCEPT !.upP = {p}, !.upT = @ \cup {m.nextT}, !.upW = @ \cup {w}]
  <2>3. e = f
    BY Zenon DEF SourceEvents
  <2>4. r = [upW |-> {}, delW |-> r.delW, upT |-> {}, delT |-> r.delT, upP |-> {}, delP |-> r.delP,
             reordered |-> FALSE]
    BY RemovalsAre
  <2> HIDE DEF S, V, r
  <2>5. /\ f.delP = r.delP /\ f.delT = r.delT /\ f.delW = r.delW /\ ~f.reordered /\ f.upP = {p}
        /\ f.upT = S \cup {m.nextT} /\ f.upW = V \cup {w}
    BY <2>4
  <2> HIDE DEF e, f
  <2>6. /\ e.delP = r.delP /\ e.delT = r.delT /\ e.delW = r.delW /\ ~e.reordered /\ e.upP = {p}
        /\ e.upT = ({s} \cap LiveTabs(mm)) \cup {m.nextT}
        /\ e.upW = (IF s \in LiveTabs(mm) THEN {} ELSE {v} \cap LiveWs(mm)) \cup {w}
    BY <2>3, <2>5 DEF S, V
  <2>7. r = Removals(m, mm)
    BY DEF r
  <2>8. Ok(mm) /\ Announces(m, mm, e)
    BY <2>1, <2>2, <2>6, <2>7, StateSound, MoveToNewTabAnnounces
  <2> QED BY <2>1, <2>8, BecomesShown
<1> QED BY <1>1, <1>2

\* Arrangements within a tab, and the zoom.
LEMMA LayoutUpdatedIs ==
  ASSUME NEW t, NEW e, e = LayoutUpdated(m, t)
  PROVE  /\ e.delP = {} /\ e.delT = {} /\ e.delW = None /\ ~e.reordered
         /\ e.upP = {} /\ e.upT = {t} /\ e.upW = {}
BY DEF LayoutUpdated, NoEvents

LEMMA ArrangeAnnounces ==
  ASSUME NEW a, Ok(a), NEW p \in LivePanes(a), NEW t, t = a.tabOf[p], NEW mm, Ok(mm),
         Spares(a, mm, {}, {t}, {}), mm.order = a.order, NEW r, r = Removals(a, mm), NEW e,
         e.delP = r.delP, e.delT = r.delT, e.delW = r.delW, ~e.reordered, e.upP = {},
         e.upT = {t}, e.upW = {}
  PROVE  Announces(a, mm, e)
<1> DEFINE T == {t}
           w == a.wsOf[t]
<1>1. Spares(a, mm, {}, T, {}) /\ T \cap LiveTabs(mm) \subseteq e.upT
  OBVIOUS
<1>2. w \in LiveWs(a)
  BY LivePaneFacts, LiveTabFacts
<1> HIDE DEF T, w
<1>3. OrderKept(a, mm, w)
  BY DEF OrderKept
<1>4. /\ {} \cap LivePanes(mm) \subseteq e.upP /\ {} \cap LiveWs(mm) \subseteq e.upW
      /\ e.upW \subseteq LiveWs(mm)
  OBVIOUS
<1> QED BY <1>1, <1>2, <1>3, <1>4, RemovalsAnnounce

LEMMA ArrangedShows ==
  ASSUME IInv, rep = View(m), NEW p \in LivePanes(m), NEW q, NEW edge, NEW mode, NEW mm, Ok(mm),
         \/ mm \in {SwapPane(m, p, q), SwapPaneWith(m, p, q), MoveToEdge(m, p, q, edge), ZoomPane(m, p, mode)}
            /\ mm.tabOf = m.tabOf /\ Step(mm, LayoutUpdated(m, m.tabOf[p]))
         \/ mm = ReplacePane(m, p, q) /\ Step(mm, [Removals(m, mm) EXCEPT !.upT = {m.tabOf[p]}])
  PROVE  rep' = View(m')
<1> DEFINE t == m.tabOf[p]
           r == Removals(m, mm)
<1>1. Ok(m) /\ Spares(m, mm, {}, {t}, {}) /\ mm.order = m.order /\ mm.wsOf = m.wsOf
  BY StateSound, ArrangeSpares
<1>2. ASSUME mm.tabOf = m.tabOf, Step(mm, LayoutUpdated(m, t))
      PROVE  rep' = View(m')
  <2> DEFINE e == LayoutUpdated(m, t)
  <2>1. r = NoEvents
    BY <1>1, <1>2, NothingRemoved
  <2>2. r = Removals(m, mm) /\ Become(After(State, mm, e))
    BY <1>2 DEF Step, Settle
  <2>3. /\ e.delP = {} /\ e.delT = {} /\ e.delW = None /\ ~e.reordered
        /\ e.upP = {} /\ e.upT = {t} /\ e.upW = {}
    BY LayoutUpdatedIs
  <2> HIDE DEF e, r
  <2>4. e.delP = r.delP /\ e.delT = r.delT /\ e.delW = r.delW
    BY <2>1, <2>3, NoEventsAre
  <2> HIDE DEF t
  <2>5. Announces(m, mm, e)
    BY <1>1, <2>2, <2>3, <2>4, ArrangeAnnounces DEF t
  <2> QED BY <2>2, <2>5, BecomesShown
<1>3. ASSUME Step(mm, [r EXCEPT !.upT = {t}])
      PROVE  rep' = View(m')
  <2> DEFINE e == [r EXCEPT !.upT = {t}]
  <2>1. r = Removals(m, mm) /\ Become(After(State, mm, e))
    BY <1>3 DEF Step, Settle
  <2>2. r = [upW |-> {}, delW |-> r.delW, upT |-> {}, delT |-> r.delT, upP |-> {}, delP |-> r.delP,
             reordered |-> FALSE]
    BY RemovalsAre
  <2> HIDE DEF r
  <2>3. /\ e.delP = r.delP /\ e.delT = r.delT /\ e.delW = r.delW /\ ~e.reordered
        /\ e.upP = {} /\ e.upT = {t} /\ e.upW = {}
    BY <2>2
  <2> HIDE DEF e, t
  <2>4. Announces(m, mm, e)
    BY <1>1, <2>1, <2>3, ArrangeAnnounces DEF t
  <2> QED BY <2>1, <2>4, BecomesShown
<1> QED BY <1>2, <1>3

LEMMA ArrangeShows ==
  ASSUME IInv, rep = View(m), NEW p \in PaneId,
         \/ \E q \in PaneId : CallSwapPane(p, q)
         \/ \E q \in PaneId, edge \in {"left", "right"} : CallMoveToEdge(p, q, edge)
         \/ \E q \in PaneId : CallReplacePane(p, q)
         \/ \E mode \in {"toggle", "on", "off"} : CallZoomPane(p, mode)
  PROVE  rep' = View(m')
<1>0. Ok(m) /\ m \in Model
  BY StateSound
<1>1. ASSUME NEW q \in PaneId, CallSwapPane(p, q)
      PROVE  rep' = View(m')
  <2>1. SameTab(m, p, q) /\ p \in LivePanes(m)
    BY <1>1 DEF CallSwapPane, SameTab
  <2>2. PICK mm \in {SwapPane(m, p, q), SwapPaneWith(m, p, q)} : Step(mm, LayoutUpdated(m, m.tabOf[p]))
    BY <1>1 DEF CallSwapPane
  <2>3. Ok(mm)
    BY <1>0, <2>1, <2>2, SwapPaneOk
  <2>4. SwapPane(m, p, q).tabOf = m.tabOf /\ SwapPaneWith(m, p, q).tabOf = m.tabOf
    BY <1>0 DEF SwapPane, SwapPaneWith, SetFocus, Model
  <2>5. mm.tabOf = m.tabOf
    BY <2>2, <2>4
  <2> QED BY <2>1, <2>2, <2>3, <2>5, ArrangedShows
<1>2. ASSUME NEW q \in PaneId, NEW edge \in {"left", "right"}, CallMoveToEdge(p, q, edge)
      PROVE  rep' = View(m')
  <2> DEFINE mm == MoveToEdge(m, p, q, edge)
  <2>1. SameTab(m, p, q) /\ p \in LivePanes(m) /\ Step(mm, LayoutUpdated(m, m.tabOf[p]))
    BY <1>2 DEF CallMoveToEdge, SameTab
  <2>2. Ok(mm) /\ mm.tabOf = m.tabOf
    BY <1>0, <2>1, MoveToEdgeOk DEF MoveToEdge, SetFocus, Model
  <2>3. mm = MoveToEdge(m, p, q, edge)
    OBVIOUS
  <2> HIDE DEF mm
  <2> QED BY <2>1, <2>2, <2>3, ArrangedShows
<1>3. ASSUME NEW q \in PaneId, CallReplacePane(p, q)
      PROVE  rep' = View(m')
  <2> DEFINE mm == ReplacePane(m, p, q)
  <2>1. SameTab(m, p, q) /\ p \in LivePanes(m) /\ Step(mm, [Removals(m, mm) EXCEPT !.upT = {m.tabOf[p]}])
    BY <1>3 DEF CallReplacePane, SameTab
  <2>2. Ok(mm) /\ mm = ReplacePane(m, p, q)
    BY <1>0, <2>1, ReplacePaneOk
  <2> HIDE DEF mm
  <2> QED BY <2>1, <2>2, ArrangedShows
<1>4. ASSUME NEW mode, CallZoomPane(p, mode)
      PROVE  rep' = View(m')
  <2> DEFINE mm == ZoomPane(m, p, mode)
  <2>1. p \in LivePanes(m) /\ Step(mm, LayoutUpdated(m, m.tabOf[p]))
    BY <1>4 DEF CallZoomPane
  <2>2. Ok(mm) /\ mm.tabOf = m.tabOf
    BY <1>0, <2>1, ZoomPaneOk DEF ZoomPane, Model
  <2>3. mm = ZoomPane(m, p, mode)
    OBVIOUS
  <2> HIDE DEF mm
  <2> QED BY <2>1, <2>2, <2>3, ArrangedShows
<1> QED BY <1>1, <1>2, <1>3, <1>4

\* The order of tabs and workspaces, and the focus.
LEMMA SameAnnounces ==
  ASSUME NEW a, Ok(a), NEW b, Ok(b), b.tabIds = a.tabIds, b.wsOf = a.wsOf, b.leaves = a.leaves,
         b.zoomed = a.zoomed, b.tabOf = a.tabOf, NEW e,
         e.delP = {}, e.delT = {}, e.delW = None, e.upP = {}, e.upT = {}, e.upW = {},
         e.reordered \/ (~e.reordered /\ b.order = a.order)
  PROVE  Announces(a, b, e)
<1>1. /\ LivePanes(a) \ LivePanes(b) = {} /\ LiveTabs(a) \ LiveTabs(b) = {}
      /\ Spares(a, b, {}, {}, {})
  BY DEF LivePanes, LiveTabs, Spares
<1>2. LiveWs(a) \subseteq LiveWs(b) /\ None \notin LiveWs(b)
  <2>1. LiveWs(a) \subseteq WsId /\ None \notin LiveWs(b)
    BY NoneIsNowhere
  <2> QED BY <2>1, GoneIsEmpty
<1>3. Without(a.order, None) = a.order
  BY NoneIsNowhere
<1> QED BY <1>1, <1>2, <1>3 DEF Announces

LEMMA FocusShows ==
  ASSUME IInv, rep = View(m), NEW mm, Ok(mm), SameMaps(m, mm), Step(mm, NoEvents)
  PROVE  rep' = View(m')
<1>1. Become(After(State, mm, NoEvents))
  BY DEF Step, Settle
<1>2. Announces(m, mm, NoEvents)
  BY StateSound, NoEventsAre, SameAnnounces DEF SameMaps
<1> QED BY <1>1, <1>2, BecomesShown

LEMMA ReorderShows ==
  ASSUME IInv, rep = View(m), NEW mm, Ok(mm), mm.tabIds = m.tabIds, mm.wsOf = m.wsOf,
         mm.leaves = m.leaves, mm.zoomed = m.zoomed, mm.tabOf = m.tabOf,
         Step(mm, [NoEvents EXCEPT !.reordered = TRUE])
  PROVE  rep' = View(m')
<1> DEFINE e == [NoEvents EXCEPT !.reordered = TRUE]
<1>1. Become(After(State, mm, e))
  BY DEF Step, Settle
<1>2. /\ e.delP = {} /\ e.delT = {} /\ e.delW = None /\ e.upP = {} /\ e.upT = {} /\ e.upW = {}
      /\ e.reordered
  BY DEF NoEvents
<1> HIDE DEF e
<1>3. Announces(m, mm, e)
  BY <1>2, StateSound, SameAnnounces
<1> QED BY <1>1, <1>3, BecomesShown

LEMMA MoveTabShows ==
  ASSUME IInv, rep = View(m), NEW t \in TabId, NEW direction \in {"previous", "next"},
         CallMoveTab(t, direction)
  PROVE  rep' = View(m')
<1> DEFINE mm == MoveTab(m, t, direction)
           w == m.wsOf[t]
           W == {w}
           e == [NoEvents EXCEPT !.upW = W]
           r == Removals(m, mm)
<1>1. t \in LiveTabs(m) /\ Len(m.tabIds[w]) > 1 /\ Become(After(State, mm, e))
  BY DEF CallMoveTab, Step, Settle
<1>2. Ok(m) /\ m \in Model /\ w \in LiveWs(m)
  BY <1>1, StateSound, LiveTabFacts
<1>3. /\ Ok(mm) /\ Spares(m, mm, {}, {}, W) /\ mm.order = m.order
      /\ mm.wsOf = m.wsOf /\ mm.tabOf = m.tabOf
  BY <1>1, <1>2, MoveTabOk, OrderSpares DEF MoveTab, Model
<1> HIDE DEF mm
<1>4. r = NoEvents
  BY <1>3, NothingRemoved
<1>5. w \in LiveWs(mm) /\ OrderKept(m, mm, w)
  BY <1>2, <1>3 DEF LiveWs, OrderKept
<1>6. /\ e.delP = {} /\ e.delT = {} /\ e.delW = None /\ ~e.reordered
      /\ e.upP = {} /\ e.upT = {} /\ e.upW = W
  BY DEF NoEvents
<1>7. r = Removals(m, mm) /\ W \subseteq LiveWs(mm)
  BY <1>5
<1> HIDE DEF r, e, W, w
<1>8. e.delP = r.delP /\ e.delT = r.delT /\ e.delW = r.delW
  BY <1>4, <1>6, NoEventsAre
<1>9. /\ {} \cap LivePanes(mm) \subseteq e.upP /\ {} \cap LiveTabs(mm) \subseteq e.upT
      /\ W \cap LiveWs(mm) \subseteq e.upW /\ e.upW \subseteq LiveWs(mm)
  BY <1>6, <1>7
<1>10. Announces(m, mm, e)
  BY <1>2, <1>3, <1>5, <1>6, <1>7, <1>8, <1>9, RemovalsAnnounce
<1> QED BY <1>1, <1>3, <1>10, BecomesShown

LEMMA OrderShows ==
  ASSUME IInv, rep = View(m),
         \/ \E t \in TabId, direction \in {"previous", "next"} : CallMoveTab(t, direction)
         \/ \E w \in WsId, direction \in {"previous", "next"} : CallMoveWorkspace(w, direction)
         \/ \E block, before : CallMoveWorkspacesTo(block, before)
         \/ CallFocus
  PROVE  rep' = View(m')
<1>0. Ok(m) /\ m \in Model
  BY StateSound
<1>1. ASSUME NEW w \in WsId, NEW direction \in {"previous", "next"}, CallMoveWorkspace(w, direction)
      PROVE  rep' = View(m')
  <2> DEFINE mm == MoveWorkspace(m, w, direction)
  <2>1. w \in LiveWs(m) /\ Len(m.order) > 1 /\ Step(mm, [NoEvents EXCEPT !.reordered = TRUE])
    BY <1>1 DEF CallMoveWorkspace
  <2>2. /\ Ok(mm) /\ mm.tabIds = m.tabIds /\ mm.wsOf = m.wsOf /\ mm.leaves = m.leaves
        /\ mm.zoomed = m.zoomed /\ mm.tabOf = m.tabOf
    BY <1>0, <2>1, ReorderOk DEF MoveWorkspace, Model
  <2> HIDE DEF mm
  <2> QED BY <2>1, <2>2, ReorderShows
<1>2. ASSUME NEW block, NEW before, CallMoveWorkspacesTo(block, before)
      PROVE  rep' = View(m')
  <2>1. PICK order \in Reordered(m, block, before) :
          Step(MoveWorkspacesTo(m, order), [NoEvents EXCEPT !.reordered = TRUE])
    BY <1>2 DEF CallMoveWorkspacesTo
  <2> DEFINE mm == MoveWorkspacesTo(m, order)
  <2>2. order \in Rearrangements(m.order)
    BY DEF Reordered
  <2>3. /\ Ok(mm) /\ mm.tabIds = m.tabIds /\ mm.wsOf = m.wsOf /\ mm.leaves = m.leaves
        /\ mm.zoomed = m.zoomed /\ mm.tabOf = m.tabOf
    BY <1>0, <2>2, ReorderOk DEF MoveWorkspacesTo, Model
  <2>4. Step(mm, [NoEvents EXCEPT !.reordered = TRUE])
    BY <2>1
  <2> HIDE DEF mm
  <2> QED BY <2>3, <2>4, ReorderShows
<1>3. ASSUME NEW w \in LiveWs(m), Step(FocusWorkspace(m, w), NoEvents)
      PROVE  rep' = View(m')
  BY <1>0, <1>3, FocusWorkspaceOk, OrderSpares, FocusShows
<1>4. ASSUME NEW t \in LiveTabs(m), Step(FocusTab(m, t), NoEvents)
      PROVE  rep' = View(m')
  BY <1>0, <1>4, FocusTabOk, OrderSpares, FocusShows
<1>5. ASSUME NEW p \in LivePanes(m), Step(FocusPane(m, p), NoEvents)
      PROVE  rep' = View(m')
  BY <1>0, <1>5, FocusPaneOk, OrderSpares, FocusShows
<1> QED BY <1>1, <1>2, <1>3, <1>4, <1>5, MoveTabShows DEF CallFocus

-----------------------------------------------------------------------------
(* The copy, and the openings.                                             *)

\* Operations that only add, and at most one workspace w.
LEMMA AdditionsAnnounce ==
  ASSUME NEW a, Ok(a), NEW b, Ok(b), LivePanes(a) \subseteq LivePanes(b),
         LiveTabs(a) \subseteq LiveTabs(b), LiveWs(a) \subseteq LiveWs(b),
         NEW P, NEW T, NEW W, Spares(a, b, P, T, W), NEW w,
         \/ b.order = a.order /\ W \subseteq LiveWs(a)
         \/ b.order = Append(a.order, w) /\ W = {w} /\ w \notin LiveWs(a),
         NEW e, e.delP = {}, e.delT = {}, e.delW = None, ~e.reordered,
         e.upP = P, e.upT = T, e.upW = W
  PROVE  Announces(a, b, e)
<1>1. Without(a.order, e.delW) = a.order /\ e.delW \notin LiveWs(b)
  BY NoneIsNowhere
<1>2. \/ e.upW \subseteq Range(Without(a.order, e.delW)) /\ b.order = Without(a.order, e.delW)
      \/ e.upW \ Range(Without(a.order, e.delW)) = {w} /\ b.order = Append(Without(a.order, e.delW), w)
  BY <1>1 DEF LiveWs
<1>3. LivePanes(a) \ LivePanes(b) = {} /\ LiveTabs(a) \ LiveTabs(b) = {}
  OBVIOUS
<1> QED BY <1>1, <1>2, <1>3 DEF Announces

\* What is published of an opened pane.
LEMMA ListedEventsAre ==
  ASSUME NEW o, NEW mm, NEW e, e = OpenEvents(o, mm), o.kind \in {"workspace", "tab"},
         NEW T, T = {o.tab}, NEW W, W = {o.ws}
  PROVE  e.upT = T /\ e.upW = W
BY DEF OpenEvents, NoEvents

LEMMA SplitEventsAre ==
  ASSUME NEW o, NEW mm, NEW e, e = OpenEvents(o, mm), o.kind \in {"split", "command"},
         ~Throws(o, mm), NEW T, T = {LayoutTab(o, mm)}
  PROVE  e.upT = T /\ e.upW = {}
<1>1. e = [NoEvents EXCEPT !.upP = {o.pane}, !.upT = T]
  BY DEF OpenEvents
<1> QED BY <1>1 DEF NoEvents

\* A commit, unless a split has ended in another tab than the one it had read.
LEMMA CommitAnnounces ==
  ASSUME NEW n, n = m, Ok(n), NEW o \in Op, Located(o), o.stage = "spawn",
         Fresh(n, o), ~CommitFails(o), o.kind = "split" => n.tabOf[o.src] = o.srcTab,
         NEW mm, mm = Committed(o), NEW e, e = OpenEvents(o, mm)
  PROVE  Ok(mm) /\ Announces(n, mm, e)
<1> DEFINE P == {o.pane}
<1>a. P = {o.pane} /\ o.pane \in P
  OBVIOUS
<1> HIDE DEF P
<1>0. o.kind \in {"workspace", "tab", "split", "command"} /\ o.pane \in PaneId \ LivePanes(n) /\ o.pane < n.nextP
  BY DEF Op, Located, Fresh
<1>1. Ok(mm) /\ LivePanes(n) \subseteq LivePanes(mm)
  BY CommittedOk
<1>2. e.delP = {} /\ e.delT = {} /\ e.delW = None /\ ~e.reordered /\ e.upP = P
  <2> DEFINE T == IF Throws(o, mm) THEN {} ELSE {LayoutTab(o, mm)}
  <2>1. CASE o.kind \in {"workspace", "tab"}
    BY <1>a, <2>1 DEF OpenEvents, NoEvents
  <2>2. CASE o.kind \notin {"workspace", "tab"}
    <3>1. e = [NoEvents EXCEPT !.upP = {o.pane}, !.upT = T]
      BY <2>2 DEF OpenEvents
    <3> HIDE DEF T
    <3> QED BY <1>a, <3>1 DEF NoEvents
  <2> QED BY <2>1, <2>2
<1>3. CASE o.kind = "workspace"
  <2> DEFINE T == {o.tab}
             W == {o.ws}
  <2>a. T = {o.tab} /\ W = {o.ws} /\ o.tab \in T /\ o.ws \in W
    OBVIOUS
  <2> HIDE DEF T, W
  <2>1. mm = CommitWorkspace(n, o.ws, o.tab, o.pane)
    BY <1>3 DEF Committed
  <2>2. /\ o.ws \in WsId \ LiveWs(n) /\ o.ws < n.nextW
        /\ o.tab \in TabId \ LiveTabs(n) /\ o.tab < n.nextT
    BY <1>3 DEF Fresh
  <2>3. LiveWs(n) \subseteq LiveWs(mm) /\ LiveTabs(n) \subseteq LiveTabs(mm)
    BY <1>0, <2>1, <2>2, CommitWorkspaceOpens
  <2>4. mm.order = Append(n.order, o.ws)
    BY <2>1, CommitOrder
  <2>5. e.upT = T /\ e.upW = W 
    BY <1>3, <2>a, ListedEventsAre
  <2>6. Spares(n, mm, P, T, W)
    BY <1>0, <1>a, <2>1, <2>2, <2>a, CommitSpares
  <2> QED BY <1>1, <1>2, <2>2, <2>3, <2>4, <2>5, <2>6, <2>a, AdditionsAnnounce
<1>4. CASE o.kind = "tab"
  <2> DEFINE T == {o.tab}
             W == {o.ws}
  <2>a. T = {o.tab} /\ W = {o.ws} /\ o.tab \in T /\ o.ws \in W
    OBVIOUS
  <2> HIDE DEF T, W
  <2>1. mm = CommitTab(n, o.ws, o.tab, o.pane)
    BY <1>4 DEF Committed
  <2>2. /\ o.ws \in LiveWs(n) /\ o.ws \in WsId
        /\ o.tab \in TabId \ LiveTabs(n) /\ o.tab < n.nextT
    BY <1>4 DEF Fresh, CommitFails, SourceStays, Located
  <2>3. LiveWs(n) \subseteq LiveWs(mm) /\ LiveTabs(n) \subseteq LiveTabs(mm)
    BY <1>0, <2>1, <2>2, CommitTabOpens
  <2>4. mm.order = n.order
    BY <2>1, CommitOrder
  <2>5. e.upT = T /\ e.upW = W 
    BY <1>4, <2>a, ListedEventsAre
  <2>6. Spares(n, mm, P, T, W)
    BY <1>0, <1>a, <2>1, <2>2, <2>a, CommitSpares
  <2>7. W \subseteq LiveWs(n)
    BY <2>2, <2>a
  <2> QED BY <1>1, <1>2, <2>3, <2>4, <2>5, <2>6, <2>7, AdditionsAnnounce
<1>5. CASE o.kind \in {"split", "command"}
  <2> DEFINE split == SplitPane(n, o.src, o.pane)
             t == n.tabOf[o.src]
             T == {t}
  <2>a. T = {t} /\ t \in T
    OBVIOUS
  <2> HIDE DEF T
  <2>1. mm = IF o.kind = "split" THEN split ELSE ZoomPane(split, o.pane, "on")
    BY <1>5 DEF Committed
  <2>2. o.src \in LivePanes(n)
    BY <1>5 DEF CommitFails, SourceStays
  <2>3. Ok(split) /\ Spares(n, split, P, T, {}) /\ split.order = n.order /\ split.tabOf[o.pane] = t
    <3>1. Ok(split)
      BY <1>0, <2>2, SplitPaneOk
    <3> HIDE DEF t
    <3> QED BY <1>0, <1>a, <2>2, <2>a, <3>1, SplitPaneSpares DEF t
  <2>4. /\ LiveWs(split) = LiveWs(n) /\ LiveTabs(split) = LiveTabs(n)
        /\ LivePanes(split) = LivePanes(n) \cup {o.pane}
    BY <1>0, <2>2, SplitPaneOpens
  <2>5. t \in LiveTabs(n)
    BY <2>2, LivePaneFacts
  <2> HIDE DEF split, t
  <2>6. /\ Spares(n, mm, P, T, {}) /\ mm.order = n.order /\ mm.tabOf[o.pane] = t
        /\ LiveTabs(mm) = LiveTabs(n)
    <3>1. CASE o.kind = "split"
      BY <2>1, <2>3, <2>4, <3>1
    <3>2. CASE o.kind = "command"
      <4>1. mm = ZoomPane(split, o.pane, "on") /\ o.pane \in LivePanes(split) /\ split \in Model
        BY <2>1, <2>3, <2>4, <3>2 DEF Ok
      <4>2. mm.tabOf = split.tabOf
        BY <4>1 DEF ZoomPane, Model
      <4>3. Spares(split, mm, {}, T, {}) /\ mm.order = split.order /\ mm.wsOf = split.wsOf
        BY <2>3, <4>1, <2>a, ArrangeSpares
      <4>4. Spares(n, mm, P, T, {})
        BY <2>3, <4>3 DEF Spares
      <4> QED BY <2>3, <2>4, <4>2, <4>3, <4>4 DEF LiveTabs
    <3> QED BY <1>5, <3>1, <3>2
  <2>7. e.upT = T /\ e.upW = {}
    <3>1. ~Throws(o, mm) /\ LayoutTab(o, mm) = t
      BY <1>5, <2>5, <2>6 DEF Throws, LayoutTab, t
    <3> QED BY <1>5, <2>a, <3>1, SplitEventsAre
  <2>8. LiveWs(n) \subseteq LiveWs(mm) /\ {} \subseteq LiveWs(n)
    BY <2>6 DEF LiveWs
  <2> QED BY <1>1, <1>2, <2>6, <2>7, <2>8, AdditionsAnnounce
<1> QED BY <1>0, <1>3, <1>4, <1>5, <1>1

\* The end of the grace period: the opening is announced, and the close that follows
\* when the shell has exited meanwhile.
LEMMA SpawnEndsShows ==
  ASSUME IInv, rep = View(m), NEW s \in Slots, NEW exited \in BOOLEAN, SpawnEnds(s, exited)
  PROVE  skewed' \/ rep' = View(m')
<1> DEFINE op == ops[s]
           pend == Ended(ops, s)
           alive == IF exited THEN terminals \ {op.pane} ELSE terminals
           opened == Opened(op, alive)
           closes == exited /\ ~Throws(op, opened.m)
           final == IF closes THEN ClosedPane(opened, op.pane) ELSE opened
           mm == Committed(op)
           e == OpenEvents(op, mm)
           moved == op.kind = "split" /\ m.tabOf[op.src] # op.srcTab
<1>1. /\ op.stage = "spawn" /\ ~CommitFails(op)
      /\ rep' = final.rep /\ m' = final.m
      /\ skewed' = (skewed \/ moved)
  BY DEF SpawnEnds, Become
<1>2. CASE moved
  BY <1>1, <1>2
<1>3. CASE ~moved
  <2>1. /\ Sound(opened, pend) /\ opened.m = mm
        /\ LivePanes(opened.m) = LivePanes(m) \cup {op.pane}
        /\ op.pane \in PaneId
    BY <1>1, OpenedSound
  <2>2. op \in Op /\ Located(op) /\ Fresh(m, op) /\ Ok(m)
    BY <1>1, StateSound DEF Openings, Sound
  <2>3. op.kind = "split" => m.tabOf[op.src] = op.srcTab
    BY <1>3
  <2>4. opened.rep = Deliver(rep, mm, e)
    BY DEF Opened
  <2> DEFINE n == m
  <2>5. mm = Committed(op) /\ e = OpenEvents(op, mm)
    OBVIOUS
  <2> HIDE DEF opened, mm, e, pend
  <2>6. Ok(mm) /\ Announces(n, mm, e)
    BY <1>1, <2>2, <2>3, <2>5, CommitAnnounces
  <2>7. Deliver(View(n), mm, e) = View(mm)
    BY <2>2, <2>6, DeliverShows
  <2>8. Shows(opened)
    BY <2>1, <2>4, <2>7 DEF Shows
  <2>9. CASE closes
    <3>1. opened.editors[op.pane].zoomBack \in PaneId \cup {None}
      BY <2>1 DEF Sound, EditorNotes
    <3>2. op.pane \in LivePanes(mm)
      BY <2>1
    <3>3. Shows(ClosedPane(opened, op.pane))
      BY <2>1, <2>6, <2>8, <3>1, <3>2, ClosedPaneShows
    <3> QED BY <1>1, <2>9, <3>3 DEF Shows
  <2>10. CASE ~closes
    BY <1>1, <2>8, <2>10 DEF Shows
  <2> QED BY <2>9, <2>10
<1> QED BY <1>2, <1>3

\* What reserves ids or starts and stops shells tells the clients nothing.
LEMMA SilentShows ==
  ASSUME IInv, rep = View(m),
         \/ Calls
         \/ \E s \in Slots : PlaceKnown(s) \/ SourceGone(s) \/ SpawnFails(s) \/ SpawnOrphaned(s)
         \/ GroupEndsEarly
  PROVE  rep' = View(m')
<1>1. CASE Calls \/ GroupEndsEarly
  <2>1. rep' = rep /\ m' = m
    BY <1>1 DEF Calls, GroupEndsEarly, CallCreateWorkspace, CallCreateTab, CallSplitPane,
                CallCommandPane, CallOpen
  <2> QED BY <2>1
<1>2. ASSUME NEW s \in Slots, SourceGone(s) \/ SpawnFails(s) \/ SpawnOrphaned(s)
      PROVE  rep' = View(m')
  <2>1. rep' = rep /\ m' = m
    BY <1>2 DEF SourceGone, SpawnFails, SpawnOrphaned
  <2> QED BY <2>1
<1>3. ASSUME NEW s \in Slots, PlaceKnown(s)
      PROVE  rep' = View(m')
  <2>1. rep' = rep /\ m' \in {ReserveWorkspace(m), ReserveTab(m), ReserveNextPaneId(m)}
    BY <1>3 DEF PlaceKnown
  <2>2. View(m') = View(m)
    <3>1. m \in Model
      BY DEF IInv, TypeOK
    <3>2. /\ m'.order = m.order /\ m'.tabIds = m.tabIds /\ m'.wsOf = m.wsOf
          /\ m'.leaves = m.leaves /\ m'.zoomed = m.zoomed /\ m'.tabOf = m.tabOf
      BY <2>1, <3>1 DEF ReserveWorkspace, ReserveTab, ReserveNextPaneId, Model
    <3> QED BY <3>2 DEF View
  <2> QED BY <2>1, <2>2
<1> QED BY <1>1, <1>2, <1>3

LEMMA GroupShows ==
  ASSUME IInv, rep = View(m), GroupCalls
  PROVE  rep' = View(m')
<1>1. ASSUME NEW w \in WsId, NEW linked \in Blocks(m), CallCloseGroup(w, linked)
      PROVE  rep' = View(m')
  BY <1>1, CloseWorkspaceShows DEF CallCloseGroup
<1>2. CASE GroupCloses
  <2> DEFINE w == Head(closing)
  <2>1. w \in LiveWs(m) /\ Become(After(State, CloseWorkspace(m, w), Removals(m, CloseWorkspace(m, w))))
    BY <1>2 DEF GroupCloses
  <2> HIDE DEF w
  <2> QED BY <2>1, CloseWorkspaceShows
<1>3. CASE GroupEndsEarly
  BY <1>3, SilentShows
<1> QED BY <1>1, <1>2, <1>3 DEF GroupCalls

\* Every step tells a client that had the structure what it has changed, but for a
\* split that ends in another tab than the one it had read.
LEMMA EveryStepShows ==
  ASSUME IInv, rep = View(m), Next
  PROVE  skewed' \/ rep' = View(m')
<1> DEFINE Goal == skewed' \/ rep' = View(m')
<1>1. ASSUME NEW s \in Slots, NEW exited \in BOOLEAN, SpawnEnds(s, exited) PROVE Goal
  BY <1>1, SpawnEndsShows
<1>2. ASSUME \/ Calls
             \/ \E s \in Slots : PlaceKnown(s) \/ SourceGone(s) \/ SpawnFails(s) \/ SpawnOrphaned(s)
      PROVE  Goal
  BY <1>2, SilentShows
<1>3. GroupCalls => Goal
  BY GroupShows
<1>4. ASSUME NEW p \in PaneId, CallClosePane(p) \/ ShellExits(p) PROVE Goal
  BY <1>4, ClosePaneShows
<1>5. ASSUME NEW t \in TabId, CallCloseTab(t) PROVE Goal
  BY <1>5, CloseTabShows
<1>6. ASSUME NEW w \in WsId, CallCloseWorkspace(w) PROVE Goal
  BY <1>6, CloseWorkspaceShows DEF CallCloseWorkspace, Settle
<1>7. ASSUME NEW p \in PaneId,
             (\E t \in TabId : CallMoveToTab(p, t)) \/ (\E w \in WsId : CallMoveToNewTab(p, w))
      PROVE  Goal
  BY <1>7, MoveShows
<1>8. ASSUME NEW p \in PaneId,
             \/ \E q \in PaneId : CallSwapPane(p, q)
             \/ \E q \in PaneId, edge \in {"left", "right"} : CallMoveToEdge(p, q, edge)
             \/ \E q \in PaneId : CallReplacePane(p, q)
             \/ \E mode \in {"toggle", "on", "off"} : CallZoomPane(p, mode)
      PROVE  Goal
  BY <1>8, ArrangeShows
<1>9. ASSUME \/ \E t \in TabId, direction \in {"previous", "next"} : CallMoveTab(t, direction)
             \/ \E w \in WsId, direction \in {"previous", "next"} : CallMoveWorkspace(w, direction)
             \/ \E block, before : CallMoveWorkspacesTo(block, before)
             \/ CallFocus
      PROVE  Goal
  BY <1>9, OrderShows
<1> HIDE DEF Goal
<1>10. Goal
  BY <1>1, <1>2, <1>3, <1>4, <1>5, <1>6, <1>7, <1>8, <1>9 DEF Next, Calls, GroupCalls
<1> QED BY <1>10 DEF Goal

\* A split that has ended elsewhere is not forgotten.
LEMMA SkewStays == ASSUME Next, skewed PROVE skewed'
<1> DEFINE Kept == skewed'
<1>1. ASSUME NEW s \in Slots, NEW exited \in BOOLEAN, SpawnEnds(s, exited) PROVE Kept
  BY <1>1 DEF SpawnEnds
<1>2. \A st : Settle(st) => Kept
  BY DEF Settle
<1>3. \A mm, e : Step(mm, e) => Kept
  BY <1>2 DEF Step
<1>4. Calls => Kept
  BY DEF Calls, CallCreateWorkspace, CallCreateTab, CallSplitPane, CallCommandPane, CallOpen
<1>5. ASSUME NEW s \in Slots, PlaceKnown(s) \/ SourceGone(s) \/ SpawnFails(s) \/ SpawnOrphaned(s)
      PROVE  Kept
  BY <1>5 DEF PlaceKnown, SourceGone, SpawnFails, SpawnOrphaned
<1>6. GroupCalls => Kept
  BY DEF GroupCalls, CallCloseGroup, GroupCloses, GroupEndsEarly
<1>7. ASSUME NEW p \in PaneId,
             \/ CallClosePane(p) \/ ShellExits(p)
             \/ \E t \in TabId : CallMoveToTab(p, t)
             \/ \E w \in WsId : CallMoveToNewTab(p, w)
             \/ \E q \in PaneId : CallSwapPane(p, q)
             \/ \E q \in PaneId, edge \in {"left", "right"} : CallMoveToEdge(p, q, edge)
             \/ \E q \in PaneId : CallReplacePane(p, q)
             \/ \E mode \in {"toggle", "on", "off"} : CallZoomPane(p, mode)
      PROVE  Kept
  BY <1>2, <1>3, <1>7 DEF CallClosePane, ShellExits, CallMoveToTab, CallMoveToNewTab, CallSwapPane,
                          CallMoveToEdge, CallReplacePane, CallZoomPane
<1>8. ASSUME \/ \E t \in TabId : CallCloseTab(t)
             \/ \E w \in WsId : CallCloseWorkspace(w)
             \/ \E t \in TabId, direction \in {"previous", "next"} : CallMoveTab(t, direction)
             \/ \E w \in WsId, direction \in {"previous", "next"} : CallMoveWorkspace(w, direction)
             \/ \E block, before : CallMoveWorkspacesTo(block, before)
             \/ CallFocus
      PROVE  Kept
  BY <1>2, <1>3, <1>8 DEF CallCloseTab, CallCloseWorkspace, CallMoveTab, CallMoveWorkspace,
                          CallMoveWorkspacesTo, CallFocus
<1> HIDE DEF Kept
<1>9. Kept
  BY <1>1, <1>4, <1>5, <1>6, <1>7, <1>8 DEF Next, Calls, GroupCalls
<1> QED BY <1>9 DEF Kept

\* A client that connects once and then only follows the events shows the structure the
\* server has, whatever was opened, closed, moved and arranged in whatever order - until
\* a split ends whose source has moved to another tab meanwhile.
THEOREM CopyAgrees == Spec => []ReplicaAgrees
<1>1. Init => ReplicaAgrees
  BY DEF Init, ReplicaAgrees
<1>2. ASSUME IInv, ReplicaAgrees, [Next]_vars
      PROVE  ReplicaAgrees'
  <2>1. CASE UNCHANGED vars
    BY <1>2, <2>1 DEF vars, ReplicaAgrees
  <2>2. CASE Next
    <3>1. CASE skewed
      BY <1>2, <2>2, <3>1, SkewStays DEF ReplicaAgrees
    <3>2. CASE rep = View(m)
      BY <1>2, <2>2, <3>2, EveryStepShows DEF ReplicaAgrees
    <3> QED BY <1>2, <3>1, <3>2 DEF ReplicaAgrees
  <2> QED BY <1>2, <2>1, <2>2
<1> QED BY Invariance, <1>1, <1>2, PTL DEF Spec
=============================================================================
