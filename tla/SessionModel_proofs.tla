------------------------- MODULE SessionModel_proofs -------------------------
(***************************************************************************)
(* The invariant of SessionModel: the model is consistent, and the ids     *)
(* that are reserved are below the counters, in no map and all different.  *)
(***************************************************************************)
EXTENDS SessionModel, SessionState_proofs

\* What a reservation holds is handed out and not yet in the maps.
Fresh(n, r) ==
  /\ r.pane < n.nextP /\ r.pane \notin LivePanes(n)
  /\ IF r.kind = "pane" THEN r.tab = None
     ELSE r.tab \in TabId /\ r.tab < n.nextT /\ r.tab \notin LiveTabs(n)
  /\ r.kind = "workspace" => r.ws \in WsId /\ r.ws < n.nextW /\ r.ws \notin LiveWs(n)

\* Two reservations share no id.
Apart(r, q) ==
  /\ r.pane # q.pane
  /\ r.kind # "pane" /\ q.kind # "pane" => r.tab # q.tab
  /\ r.kind = "workspace" /\ q.kind = "workspace" => r.ws # q.ws

IInv ==
  /\ TypeOK
  /\ Consistent(m)
  /\ CountersStart(m)
  /\ \A r \in reserved : Fresh(m, r)
  /\ \A r, q \in reserved : r # q => Apart(r, q)

-----------------------------------------------------------------------------
(* Every step keeps the invariant.                                         *)

\* A step that reserves nothing, and opens nothing that stays reserved.
LEMMA StepKeeps ==
  ASSUME IInv, Ok(m'), reserved' \subseteq reserved,
         m.nextW <= m'.nextW, m.nextT <= m'.nextT, m.nextP <= m'.nextP,
         \A r \in reserved' : /\ r.pane \notin LivePanes(m')
                              /\ r.kind # "pane" => r.tab \notin LiveTabs(m')
                              /\ r.kind = "workspace" => r.ws \notin LiveWs(m')
  PROVE  IInv'
<1>1. /\ m.nextW \in Nat /\ m.nextT \in Nat /\ m.nextP \in Nat
      /\ m'.nextW \in Nat /\ m'.nextT \in Nat /\ m'.nextP \in Nat
  BY ModelTypes DEF Ok, IInv, TypeOK
<1>2. TypeOK' /\ Consistent(m')
  BY DEF IInv, TypeOK, Ok
<1>3. CountersStart(m')
  BY <1>1 DEF IInv, CountersStart
<1>4. ASSUME NEW r \in reserved'
      PROVE  Fresh(m', r)
  <2>1. r \in reserved /\ r \in Reservation /\ Fresh(m, r)
    BY DEF IInv, TypeOK
  <2>2. r.pane \in Nat /\ (r.kind # "pane" => r.tab \in Nat) /\ (r.kind = "workspace" => r.ws \in Nat)
    BY <2>1 DEF Reservation, Fresh, PaneId, TabId, WsId
  <2> QED BY <1>1, <2>1, <2>2 DEF Fresh
<1>5. \A r, q \in reserved' : r # q => Apart(r, q)
  BY DEF IInv
<1> QED BY <1>2, <1>3, <1>4, <1>5 DEF IInv

\* A step that opens nothing.
LEMMA QuietStep ==
  ASSUME IInv, Ok(m'), OpensNothing(m, m'), UNCHANGED reserved
  PROVE  IInv'
<1>1. m.nextW \in Nat /\ m.nextT \in Nat /\ m.nextP \in Nat
  BY ModelTypes DEF IInv, TypeOK
<1>2. \A r \in reserved : Fresh(m, r)
  BY DEF IInv
<1> QED BY <1>1, <1>2, StepKeeps DEF OpensNothing, Fresh

\* closePane, closeTab, closeWorkspace.
LEMMA CloseStep == ASSUME IInv, CloseSomething, UNCHANGED reserved PROVE IInv'
<1>1. Ok(m)
  BY DEF IInv, TypeOK, Ok
<1>2. ASSUME NEW p \in LivePanes(m), NEW successor \in PaneId \cup {None}, m' = ClosePane(m, p, successor)
      PROVE  IInv'
  BY <1>1, <1>2, ClosePaneOk, ClosePaneOpensNothing, QuietStep
<1>3. ASSUME NEW t \in LiveTabs(m), m' = CloseTab(m, t)
      PROVE  IInv'
  BY <1>1, <1>3, CloseTabOk, CloseOpensNothing, QuietStep
<1>4. ASSUME NEW w \in LiveWs(m), m' = CloseWorkspace(m, w)
      PROVE  IInv'
  BY <1>1, <1>4, CloseWorkspaceOk, CloseOpensNothing, QuietStep
<1> QED BY <1>2, <1>3, <1>4 DEF CloseSomething

\* The moves and arrangements of panes.
LEMMA MoveStep == ASSUME IInv, MoveSomething, UNCHANGED reserved PROVE IInv'
<1>1. Ok(m)
  BY DEF IInv, TypeOK, Ok
<1>2. ASSUME NEW p \in LivePanes(m), NEW t \in LiveTabs(m), m.tabOf[p] # t, m' = MoveToTab(m, p, t)
      PROVE  IInv'
  BY <1>1, <1>2, MoveToTabOk, MoveToTabOpensNothing, QuietStep
<1>3. ASSUME NEW p \in LivePanes(m), NEW w \in LiveWs(m), m.nextT <= MaxTab,
             m' = MoveToNewTab(m, p, w)
      PROVE  IInv'
  <2>1. m.nextT \in TabId /\ m.nextT \in Nat /\ m.nextW \in Nat /\ m.nextP \in Nat
    BY <1>3, ModelTypes, BoundsAssumption DEF IInv, TypeOK, CountersStart, TabId
  <2>2. Ok(m')
    BY <1>1, <1>3, <2>1, MoveToNewTabOk
  <2>3. /\ LiveWs(m') \subseteq LiveWs(m)
        /\ LiveTabs(m') \subseteq LiveTabs(m) \cup {m.nextT}
        /\ LivePanes(m') \subseteq LivePanes(m)
        /\ m'.nextW = m.nextW /\ m'.nextT = m.nextT + 1 /\ m'.nextP = m.nextP
    BY <1>1, <1>3, <2>1, MoveToNewTabOpensOne
  <2>4. ASSUME NEW r \in reserved'
        PROVE  /\ r.pane \notin LivePanes(m')
               /\ r.kind # "pane" => r.tab \notin LiveTabs(m')
               /\ r.kind = "workspace" => r.ws \notin LiveWs(m')
    <3>1. Fresh(m, r)
      BY DEF IInv
    <3> QED BY <2>1, <2>3, <3>1 DEF Fresh
  <2> QED BY <2>1, <2>2, <2>3, <2>4, StepKeeps
<1>4. ASSUME NEW p, NEW q, SameTab(m, p, q), m' = SwapPane(m, p, q)
      PROVE  IInv'
  BY <1>1, <1>4, SwapPaneOk, RestOpensNothing, QuietStep
<1>5. ASSUME NEW p, NEW q, SameTab(m, p, q), m' = SwapPaneWith(m, p, q)
      PROVE  IInv'
  BY <1>1, <1>5, SwapPaneOk, RestOpensNothing, QuietStep
<1>6. ASSUME NEW p, NEW q, SameTab(m, p, q), NEW edge, m' = MoveToEdge(m, p, q, edge)
      PROVE  IInv'
  BY <1>1, <1>6, MoveToEdgeOk, RestOpensNothing, QuietStep
<1>7. ASSUME NEW p, NEW q, SameTab(m, p, q), m' = ReplacePane(m, p, q)
      PROVE  IInv'
  BY <1>1, <1>7, ReplacePaneOk, RestOpensNothing, QuietStep
<1> QED BY <1>2, <1>3, <1>4, <1>5, <1>6, <1>7 DEF MoveSomething

\* Focus and zoom.
LEMMA FocusStep == ASSUME IInv, FocusSomething, UNCHANGED reserved PROVE IInv'
<1>1. Ok(m)
  BY DEF IInv, TypeOK, Ok
<1>2. ASSUME NEW w \in LiveWs(m), m' = FocusWorkspace(m, w)
      PROVE  IInv'
  BY <1>1, <1>2, FocusWorkspaceOk, RestOpensNothing, QuietStep
<1>3. ASSUME NEW t \in LiveTabs(m), m' = FocusTab(m, t)
      PROVE  IInv'
  BY <1>1, <1>3, FocusTabOk, RestOpensNothing, QuietStep
<1>4. ASSUME NEW p \in LivePanes(m), m' = FocusPane(m, p)
      PROVE  IInv'
  BY <1>1, <1>4, FocusPaneOk, RestOpensNothing, QuietStep
<1>5. ASSUME NEW p \in LivePanes(m), NEW mode, m' = ZoomPane(m, p, mode)
      PROVE  IInv'
  BY <1>1, <1>5, ZoomPaneOk, RestOpensNothing, QuietStep
<1> QED BY <1>2, <1>3, <1>4, <1>5 DEF FocusSomething

\* The order of tabs and workspaces.
LEMMA ReorderStep == ASSUME IInv, Reorder, UNCHANGED reserved PROVE IInv'
<1>1. Ok(m)
  BY DEF IInv, TypeOK, Ok
<1>2. ASSUME NEW t \in LiveTabs(m), NEW direction \in {"previous", "next"},
             Len(m.tabIds[m.wsOf[t]]) > 1, m' = MoveTab(m, t, direction)
      PROVE  IInv'
  BY <1>1, <1>2, MoveTabOk, RestOpensNothing, QuietStep
<1>3. ASSUME NEW w \in LiveWs(m), NEW direction \in {"previous", "next"}, Len(m.order) > 1,
             m' = MoveWorkspace(m, w, direction)
      PROVE  IInv'
  BY <1>1, <1>3, ReorderOk, RestOpensNothing, QuietStep
<1>4. ASSUME NEW block, NEW before, NEW order \in Reordered(m, block, before),
             m' = MoveWorkspacesTo(m, order)
      PROVE  IInv'
  <2>1. order \in Rearrangements(m.order)
    BY DEF Reordered
  <2> QED BY <1>1, <1>4, <2>1, ReorderOk, RestOpensNothing, QuietStep
<1> QED BY <1>2, <1>3, <1>4 DEF Reorder

\* A reservation takes the next ids, which no map and no other reservation has.
LEMMA ReserveStep ==
  ASSUME IInv, NEW r \in Reservation, reserved' = reserved \cup {r},
         r.pane = m.nextP,
         IF r.kind = "pane" THEN r.tab = None ELSE r.tab = m.nextT /\ m.nextT \in TabId,
         r.kind = "workspace" => r.ws = m.nextW /\ m.nextW \in WsId,
         NEW dw \in {0, 1}, NEW dt \in {0, 1},
         r.kind # "pane" => dt = 1, r.kind = "workspace" => dw = 1,
         m' = [m EXCEPT !.nextW = m.nextW + dw, !.nextT = m.nextT + dt, !.nextP = m.nextP + 1]
  PROVE  IInv'
<1>1. /\ Ok(m) /\ m \in Model /\ m.nextW \in Nat /\ m.nextT \in Nat /\ m.nextP \in Nat
  BY ModelTypes DEF IInv, TypeOK, Ok
<1>2. /\ m'.order = m.order /\ m'.tabIds = m.tabIds /\ m'.active = m.active /\ m'.wsOf = m.wsOf
      /\ m'.leaves = m.leaves /\ m'.focused = m.focused /\ m'.zoomed = m.zoomed
      /\ m'.tabOf = m.tabOf /\ m'.focus = m.focus
      /\ m'.nextW = m.nextW + dw /\ m'.nextT = m.nextT + dt /\ m'.nextP = m.nextP + 1
  BY <1>1 DEF Model
<1>3. /\ m.nextW <= m'.nextW /\ m.nextT <= m'.nextT /\ m.nextP <= m'.nextP
      /\ m'.nextW \in Nat /\ m'.nextT \in Nat /\ m'.nextP \in Nat
  BY <1>1, <1>2
<1>4. m' \in Model
  <2>1. m.nextW + dw \in Nat /\ m.nextT + dt \in Nat /\ m.nextP + 1 \in Nat
    BY <1>1
  <2> QED BY <1>1, <2>1 DEF Model
<1>5. /\ Ok(m') /\ LiveWs(m') = LiveWs(m) /\ LiveTabs(m') = LiveTabs(m)
      /\ LivePanes(m') = LivePanes(m)
  BY <1>1, <1>2, <1>3, <1>4, CountersMoved
<1>6. ASSUME NEW q \in reserved
      PROVE  /\ Fresh(m', q) /\ q.pane < m.nextP
             /\ q.kind # "pane" => q.tab < m.nextT
             /\ q.kind = "workspace" => q.ws < m.nextW
             /\ q.pane \in Nat /\ (q.kind # "pane" => q.tab \in Nat)
             /\ (q.kind = "workspace" => q.ws \in Nat)
  <2>1. q \in Reservation /\ Fresh(m, q)
    BY DEF IInv, TypeOK
  <2>2. q.pane \in Nat /\ (q.kind # "pane" => q.tab \in Nat) /\ (q.kind = "workspace" => q.ws \in Nat)
    BY <2>1 DEF Reservation, Fresh, PaneId, TabId, WsId
  <2> QED BY <1>1, <1>3, <1>5, <2>1, <2>2 DEF Fresh
<1>7. Fresh(m', r)
  <2>1. m.nextP \notin LivePanes(m) /\ m.nextT \notin LiveTabs(m) /\ m.nextW \notin LiveWs(m)
    BY <1>1 DEF Ok, Consistent, IdsBelowNext
  <2>2. /\ m.nextP < m'.nextP /\ (r.kind # "pane" => m.nextT < m'.nextT)
        /\ (r.kind = "workspace" => m.nextW < m'.nextW)
    BY <1>1, <1>2
  <2> QED BY <1>5, <2>1, <2>2 DEF Fresh
<1>8. ASSUME NEW a \in reserved', NEW b \in reserved', a # b
      PROVE  Apart(a, b)
  <2>1. CASE a \in reserved /\ b \in reserved
    BY <1>8, <2>1 DEF IInv
  <2>2. CASE a = r
    BY <1>1, <1>6, <1>8, <2>2 DEF Apart
  <2>3. CASE b = r
    BY <1>1, <1>6, <1>8, <2>3 DEF Apart
  <2> QED BY <2>1, <2>2, <2>3
<1>9. CountersStart(m')
  BY <1>1, <1>3 DEF IInv, CountersStart
<1>10. TypeOK' /\ Consistent(m')
  BY <1>4, <1>5 DEF IInv, TypeOK, Ok
<1> QED BY <1>6, <1>7, <1>8, <1>9, <1>10 DEF IInv

\* A commit opens what was reserved, which no other reservation has.
LEMMA CommitStep ==
  ASSUME IInv, NEW r \in reserved, reserved' = reserved \ {r}, Ok(m'),
         LivePanes(m') \subseteq LivePanes(m) \cup {r.pane},
         LiveTabs(m') \subseteq LiveTabs(m) \cup (IF r.kind = "pane" THEN {} ELSE {r.tab}),
         LiveWs(m') \subseteq LiveWs(m) \cup (IF r.kind = "workspace" THEN {r.ws} ELSE {}),
         m'.nextW = m.nextW, m'.nextT = m.nextT, m'.nextP = m.nextP
  PROVE  IInv'
<1>1. m.nextW \in Nat /\ m.nextT \in Nat /\ m.nextP \in Nat
  BY ModelTypes DEF IInv, TypeOK
<1>2. ASSUME NEW q \in reserved'
      PROVE  /\ q.pane \notin LivePanes(m')
             /\ q.kind # "pane" => q.tab \notin LiveTabs(m')
             /\ q.kind = "workspace" => q.ws \notin LiveWs(m')
  <2>1. q \in reserved /\ Fresh(m, q) /\ Apart(q, r)
    BY DEF IInv
  <2> QED BY <2>1 DEF Fresh, Apart
<1> QED BY <1>1, <1>2, StepKeeps

\* The first state.
LEMMA InitOk == Init => IInv
<1> SUFFICES ASSUME Init PROVE IInv
  OBVIOUS
<1>1. m = EmptyModel /\ reserved = {}
  BY DEF Init
<1> QED BY <1>1, EmptyModelOk DEF IInv, TypeOK, Ok

\* Every step of SessionModel keeps the invariant.
LEMMA NextOk == IInv /\ [Next]_vars => IInv'
<1> SUFFICES ASSUME IInv, [Next]_vars PROVE IInv'
  OBVIOUS
<1>0. /\ Ok(m) /\ m \in Model /\ m.nextW \in Nat /\ m.nextT \in Nat /\ m.nextP \in Nat
      /\ m.nextW >= 1 /\ m.nextT >= 1 /\ m.nextP >= 1
  BY ModelTypes DEF IInv, TypeOK, Ok, CountersStart
<1>r. ASSUME NEW r \in reserved
      PROVE  /\ r \in Reservation /\ Fresh(m, r) /\ r.pane \in PaneId \ LivePanes(m)
             /\ r.kind # "pane" => r.tab \in TabId \ LiveTabs(m)
             /\ r.kind = "workspace" => r.ws \in WsId \ LiveWs(m)
  BY DEF IInv, TypeOK, Reservation, Fresh
<1>1. CASE CallReserveWorkspace
  <2> DEFINE r == [kind |-> "workspace", ws |-> m.nextW, tab |-> m.nextT, pane |-> m.nextP]
  <2>1. m.nextW \in WsId /\ m.nextT \in TabId /\ m.nextP \in PaneId
    BY <1>0, <1>1, BoundsAssumption DEF CallReserveWorkspace, CanReserve, WsId, TabId, PaneId
  <2>2. r \in Reservation
    BY <2>1 DEF Reservation
  <2>3. m' = [m EXCEPT !.nextW = m.nextW + 1, !.nextT = m.nextT + 1, !.nextP = m.nextP + 1]
    BY <1>0, <1>1 DEF CallReserveWorkspace, ReserveWorkspace, Model
  <2>4. reserved' = reserved \cup {r}
    BY <1>1 DEF CallReserveWorkspace
  <2> QED BY <2>1, <2>2, <2>3, <2>4, ReserveStep
<1>2. ASSUME NEW w \in WsId, CallReserveTab(w)
      PROVE  IInv'
  <2> DEFINE r == [kind |-> "tab", ws |-> w, tab |-> m.nextT, pane |-> m.nextP]
  <2>1. m.nextT \in TabId /\ m.nextP \in PaneId
    BY <1>0, <1>2, BoundsAssumption DEF CallReserveTab, CanReserve, TabId, PaneId
  <2>2. r \in Reservation
    BY <2>1 DEF Reservation
  <2>3. m' = [m EXCEPT !.nextW = m.nextW + 0, !.nextT = m.nextT + 1, !.nextP = m.nextP + 1]
    <3>1. m.nextW + 0 = m.nextW
      BY <1>0
    <3>2. m' = [m EXCEPT !.nextW = m.nextW, !.nextT = m.nextT + 1, !.nextP = m.nextP + 1]
      BY <1>0, <1>2 DEF CallReserveTab, ReserveTab, Model
    <3> QED BY <3>1, <3>2
  <2>4. reserved' = reserved \cup {r}
    BY <1>2 DEF CallReserveTab
  <2> QED BY <2>1, <2>2, <2>3, <2>4, ReserveStep
<1>3. CASE CallReservePane
  <2> DEFINE r == [kind |-> "pane", ws |-> None, tab |-> None, pane |-> m.nextP]
  <2>1. m.nextP \in PaneId
    BY <1>0, <1>3, BoundsAssumption DEF CallReservePane, CanReserve, PaneId
  <2>2. r \in Reservation
    BY <2>1 DEF Reservation
  <2>3. m' = [m EXCEPT !.nextW = m.nextW + 0, !.nextT = m.nextT + 0, !.nextP = m.nextP + 1]
    <3>1. m.nextW + 0 = m.nextW /\ m.nextT + 0 = m.nextT
      BY <1>0
    <3>2. m' = [m EXCEPT !.nextW = m.nextW, !.nextT = m.nextT, !.nextP = m.nextP + 1]
      BY <1>0, <1>3 DEF CallReservePane, ReserveNextPaneId, Model
    <3> QED BY <3>1, <3>2
  <2>4. reserved' = reserved \cup {r}
    BY <1>3 DEF CallReservePane
  <2> QED BY <2>1, <2>2, <2>3, <2>4, ReserveStep
<1>4. ASSUME NEW r \in reserved, GiveUp(r)
      PROVE  IInv'
  <2>1. m' = m /\ reserved' \subseteq reserved
    BY <1>4 DEF GiveUp
  <2>2. ASSUME NEW q \in reserved'
        PROVE  /\ q.pane \notin LivePanes(m')
               /\ q.kind # "pane" => q.tab \notin LiveTabs(m')
               /\ q.kind = "workspace" => q.ws \notin LiveWs(m')
    BY <1>r, <2>1
  <2> QED BY <1>0, <2>1, <2>2, StepKeeps
<1>5. ASSUME NEW r \in reserved, CallCommitWorkspace(r)
      PROVE  IInv'
  <2>1. r.kind = "workspace" /\ m' = CommitWorkspace(m, r.ws, r.tab, r.pane) /\ reserved' = reserved \ {r}
    BY <1>5 DEF CallCommitWorkspace
  <2>2. Fresh(m, r)
    BY <1>r
  <2>3. Ok(m')
    BY <1>0, <1>r, <2>1, <2>2, CommitWorkspaceOk DEF Fresh
  <2>4. /\ LiveWs(m') = LiveWs(m) \cup {r.ws} /\ LiveTabs(m') \subseteq LiveTabs(m) \cup {r.tab}
        /\ LivePanes(m') \subseteq LivePanes(m) \cup {r.pane}
        /\ m'.nextW = m.nextW /\ m'.nextT = m.nextT /\ m'.nextP = m.nextP
    BY <1>0, <1>r, <2>1, CommitWorkspaceOpens
  <2> QED BY <2>1, <2>3, <2>4, CommitStep
<1>6. ASSUME NEW r \in reserved, CallCommitTab(r)
      PROVE  IInv'
  <2>1. /\ r.kind = "tab" /\ r.ws \in LiveWs(m) /\ m' = CommitTab(m, r.ws, r.tab, r.pane)
        /\ reserved' = reserved \ {r} /\ r.ws \in WsId
    BY <1>0, <1>6, ModelTypes, HeadInRange DEF CallCommitTab, LiveWs
  <2>2. Fresh(m, r)
    BY <1>r
  <2>3. Ok(m')
    BY <1>0, <1>r, <2>1, <2>2, CommitTabOk DEF Fresh
  <2>4. /\ LiveWs(m') = LiveWs(m) /\ LiveTabs(m') \subseteq LiveTabs(m) \cup {r.tab}
        /\ LivePanes(m') \subseteq LivePanes(m) \cup {r.pane}
        /\ m'.nextW = m.nextW /\ m'.nextT = m.nextT /\ m'.nextP = m.nextP
    BY <1>0, <1>r, <2>1, CommitTabOpens
  <2> QED BY <2>1, <2>3, <2>4, CommitStep
<1>7. ASSUME NEW r \in reserved, NEW q \in PaneId, CallSplitPane(q, r)
      PROVE  IInv'
  <2>1. /\ r.kind = "pane" /\ q \in LivePanes(m) /\ m' = SplitPane(m, q, r.pane)
        /\ reserved' = reserved \ {r}
    BY <1>7 DEF CallSplitPane
  <2>2. Fresh(m, r)
    BY <1>r
  <2>3. Ok(m')
    BY <1>0, <1>r, <2>1, <2>2, SplitPaneOk DEF Fresh
  <2>4. /\ LiveWs(m') = LiveWs(m) /\ LiveTabs(m') = LiveTabs(m)
        /\ LivePanes(m') \subseteq LivePanes(m) \cup {r.pane}
        /\ m'.nextW = m.nextW /\ m'.nextT = m.nextT /\ m'.nextP = m.nextP
    BY <1>0, <1>r, <2>1, SplitPaneOpens
  <2> QED BY <2>1, <2>3, <2>4, CommitStep
<1>8. CASE CloseSomething /\ UNCHANGED reserved
  BY <1>8, CloseStep
<1>9. CASE MoveSomething /\ UNCHANGED reserved
  BY <1>9, MoveStep
<1>10. CASE FocusSomething /\ UNCHANGED reserved
  BY <1>10, FocusStep
<1>11. CASE Reorder /\ UNCHANGED reserved
  BY <1>11, ReorderStep
<1>12. CASE UNCHANGED vars
  BY <1>12 DEF vars, IInv, TypeOK
<1> QED BY <1>1, <1>2, <1>3, <1>4, <1>5, <1>6, <1>7, <1>8, <1>9, <1>10, <1>11, <1>12 DEF Next

-----------------------------------------------------------------------------
\* The inductive invariant holds of every behaviour.
THEOREM Invariance == Spec => []IInv
BY InitOk, NextOk, PTL DEF Spec

\* The model keeps its types whatever the bounds on the ids.
THEOREM TypeCorrect == Spec => []TypeOK
<1>1. IInv => TypeOK
  BY DEF IInv
<1> QED BY Invariance, <1>1, PTL

\* Whatever the calls and their order, the maps of workspaces, tabs and panes
\* agree, for any number of ids.
THEOREM MapsAgree == Spec => []ModelConsistent
<1>1. IInv => ModelConsistent
  BY DEF IInv, ModelConsistent
<1> QED BY Invariance, <1>1, PTL

\* No id is handed out twice: what is reserved is in none of the maps.
THEOREM ReservedFresh == Spec => []ReservedIsFresh
<1>1. IInv => ReservedIsFresh
  <2> SUFFICES ASSUME IInv, NEW r \in reserved
               PROVE  /\ r.pane \notin LivePanes(m)
                      /\ r.tab \notin LiveTabs(m)
                      /\ r.kind = "workspace" => r.ws \notin LiveWs(m)
    BY DEF ReservedIsFresh
  <2>1. Fresh(m, r)
    BY DEF IInv
  <2>2. r.tab \notin LiveTabs(m)
    <3>1. None \notin LiveTabs(m)
      BY IdTypes DEF LiveTabs
    <3> QED BY <2>1, <3>1 DEF Fresh
  <2> QED BY <2>1, <2>2 DEF Fresh
<1> QED BY Invariance, <1>1, PTL
=============================================================================
