--------------------------- MODULE SessionService ---------------------------
(***************************************************************************)
(* SessionService (packages/server/src/session/SessionService.ts): the     *)
(* operations clients call, around the model of SessionState.  Opening a   *)
(* workspace, a tab or a pane starts a shell and waits for it, so it runs  *)
(* in three turns of the event loop - the call, the start of the shell     *)
(* once the place is known, the end of the grace period - and every other  *)
(* operation, and the exit of any shell, may fall in between.  All other   *)
(* operations run in one turn: model, terminals and events together.       *)
(*                                                                         *)
(* rep is the copy a connected client keeps from the events alone          *)
(* (packages/web/src/store/session.ts; the TUI's model does the same).     *)
(* The bus is synchronous and a connection keeps the order, so an event    *)
(* is applied where it is published.  What focus a client shows is its own *)
(* business; rep has no focus and no active tab.                           *)
(***************************************************************************)
EXTENDS SessionState

CONSTANTS
  MaxOps,    \* bound on the openings under way at once
  Menus,     \* the sets of operations a behaviour may draw its calls from
  Crowded    \* those of them with more than one opening at once

ASSUME MaxOpsAssumption == MaxOps \in Nat \ {0}

Kinds == {"workspace", "tab", "split", "command", "close", "move", "arrange", "zoom",
          "order", "focus", "group"}
ASSUME MenusAssumption == Menus \subseteq SUBSET Kinds /\ Crowded \subseteq Menus

VARIABLES
  menu,            \* the operations the clients of this behaviour call
  m,               \* the SessionModel
  closing,         \* the workspaces that a call for a whole group has still to close
  ops,             \* slot -> the opening under way in it
  terminals,       \* the panes with a running shell (TerminalManager)
  editors,         \* command pane -> what to restore when it closes
  rep,             \* a client's copy
  recreateFailed,  \* an automatic workspace did not start, or a group call ended before it asked for one
  skewed           \* a split ended in another tab than the one it had read

vars == <<menu, m, closing, ops, terminals, editors, rep, recreateFailed, skewed>>

Slots == 1 .. MaxOps
NoOp == [kind |-> "none", stage |-> "none", auto |-> FALSE, ws |-> None, tab |-> None,
         pane |-> None, src |-> None, srcTab |-> None, zoomBack |-> None]
NoEditor == [src |-> None, zoomBack |-> None]

Op == [kind : {"none", "workspace", "tab", "split", "command"},
       stage : {"none", "place", "spawn"}, auto : BOOLEAN,
       ws : WsId \cup {None}, tab : TabId \cup {None}, pane : PaneId \cup {None},
       src : PaneId \cup {None}, srcTab : TabId \cup {None}, zoomBack : PaneId \cup {None}]

View(mm) == [order |-> mm.order, tabIds |-> mm.tabIds, wsOf |-> mm.wsOf,
             leaves |-> mm.leaves, zoomed |-> mm.zoomed, tabOf |-> mm.tabOf]

TypeOK ==
  /\ menu \in Menus
  /\ m \in Model
  /\ closing \in Seq(WsId)
  /\ ops \in [Slots -> Op]
  /\ terminals \in SUBSET PaneId
  /\ editors \in [PaneId -> [src : PaneId \cup {None}, zoomBack : PaneId \cup {None}]]
  /\ recreateFailed \in BOOLEAN
  /\ skewed \in BOOLEAN

\* The server has started with nothing to restore: ensureNotEmpty is under way.
AutoOp == [NoOp EXCEPT !.kind = "workspace", !.stage = "place", !.auto = TRUE]

Init ==
  /\ menu \in Menus
  /\ m = EmptyModel
  /\ closing = <<>>
  /\ ops = [s \in Slots |-> IF s = 1 THEN AutoOp ELSE NoOp]
  /\ terminals = {}
  /\ editors = [p \in PaneId |-> NoEditor]
  /\ rep = View(EmptyModel)
  /\ recreateFailed = FALSE
  /\ skewed = FALSE

-----------------------------------------------------------------------------
(* Events.  Upserts carry the object as it is when they are published.  At *)
(* most one workspace closes in a turn, and at most one opens.             *)

NoEvents == [upW |-> {}, delW |-> None, upT |-> {}, delT |-> {}, upP |-> {}, delP |-> {},
             reordered |-> FALSE]

Deliver(r, mm, e) ==
  LET kept == Without(r.order, e.delW)
      news == e.upW \ Range(kept)
  IN  [order |-> IF e.reordered THEN mm.order
                 ELSE IF news = {} THEN kept
                 ELSE Append(kept, CHOOSE w \in news : TRUE),
       tabIds |-> [w \in WsId |-> IF w = e.delW THEN <<>>
                                  ELSE IF w \in e.upW THEN mm.tabIds[w] ELSE r.tabIds[w]],
       wsOf |-> [t \in TabId |-> IF t \in e.delT THEN None
                                 ELSE IF t \in e.upT THEN mm.wsOf[t] ELSE r.wsOf[t]],
       leaves |-> [t \in TabId |-> IF t \in e.delT THEN <<>>
                                   ELSE IF t \in e.upT THEN mm.leaves[t] ELSE r.leaves[t]],
       zoomed |-> [t \in TabId |-> IF t \in e.delT THEN None
                                   ELSE IF t \in e.upT THEN mm.zoomed[t] ELSE r.zoomed[t]],
       tabOf |-> [p \in PaneId |-> IF p \in e.delP THEN None
                                   ELSE IF p \in e.upP THEN mm.tabOf[p] ELSE r.tabOf[p]]]

\* pane.closed, tab.closed and workspace.closed for what a step removed.
Removals(old, new) ==
  LET gone == LiveWs(old) \ LiveWs(new)
  IN  [NoEvents EXCEPT !.delP = LivePanes(old) \ LivePanes(new),
                       !.delT = LiveTabs(old) \ LiveTabs(new),
                       !.delW = IF gone = {} THEN None ELSE CHOOSE w \in gone : TRUE]

-----------------------------------------------------------------------------
(* A whole state of the service without its pending openings, so that an   *)
(* operation that does two things in one turn can be composed.             *)

State == [m |-> m, terminals |-> terminals, editors |-> editors, rep |-> rep]

Become(st) ==
  /\ m' = st.m
  /\ terminals' = st.terminals
  /\ editors' = st.editors
  /\ rep' = st.rep

\* Mutant: a tab that closes stops every shell it had, a moved pane's too.
AfterDisposingTabs(st, mm, e) ==
  LET gone == {p \in LivePanes(st.m) : st.m.tabOf[p] \notin LiveTabs(mm)}
  IN  [m |-> mm,
       terminals |-> st.terminals \ (gone \cup (LivePanes(st.m) \ LivePanes(mm))),
       editors |-> [p \in PaneId |-> IF p \in gone THEN NoEditor ELSE st.editors[p]],
       rep |-> Deliver(st.rep, mm, e)]

\* dispose() of the removed panes and publishPaneClosed, then the other events.
After(st, mm, e) ==
  LET gone == LivePanes(st.m) \ LivePanes(mm)
  IN  [m |-> mm,
       terminals |-> st.terminals \ gone,
       editors |-> [p \in PaneId |-> IF p \in gone THEN NoEditor ELSE st.editors[p]],
       rep |-> Deliver(st.rep, mm, e)]

\* Mutant: the focus goes back, the zoom does not.
ClosedPaneUnzoomed(st, p) ==
  LET t == st.m.tabOf[p]
      w == st.m.wsOf[t]
      mm == ClosePane(st.m, p, st.editors[p].src)
      tabStays == t \in LiveTabs(mm)
  IN  After(st, mm, [Removals(st.m, mm) EXCEPT
                       !.upT = IF tabStays THEN {t} ELSE {},
                       !.upW = IF ~tabStays /\ w \in LiveWs(mm) THEN {w} ELSE {}])

\* closePane: a command pane gives focus and zoom back to where it was opened.
ClosedPane(st, p) ==
  LET t == st.m.tabOf[p]
      w == st.m.wsOf[t]
      ed == st.editors[p]
      closed == ClosePane(st.m, p, ed.src)
      tabStays == t \in LiveTabs(closed)
      restore == ed.zoomBack # None /\ tabStays /\ closed.tabOf[ed.zoomBack] = t
      mm == IF restore THEN ZoomPane(closed, ed.zoomBack, "on") ELSE closed
  IN  After(st, mm, [Removals(st.m, mm) EXCEPT
                       !.upT = IF tabStays THEN {t} ELSE {},
                       !.upW = IF ~tabStays /\ w \in LiveWs(mm) THEN {w} ELSE {}])

\* recreateIfEmpty at the end of a close (D24): a new opening, in a free slot.
Free(pending) == {s \in Slots : pending[s] = NoOp /\ (s = 1 \/ menu \in Crowded)}
FreeSlot(pending) == CHOOSE s \in Free(pending) : TRUE
Begin(pending, op) == [pending EXCEPT ![FreeSlot(pending)] = op]

\* Mutant: an operation that empties the session leaves it empty.
RecreateNever(st, pending) == ops' = pending

RecreateIfEmpty(st, pending) ==
  IF IsEmpty(st.m)
    THEN Free(pending) # {} /\ ops' = Begin(pending, AutoOp)
    ELSE ops' = pending

-----------------------------------------------------------------------------
(* Openings, first turn: the call.  The checks it makes, and what it reads *)
(* of the model for later.                                                 *)

CallOpen(op) ==
  /\ Free(ops) # {}
  /\ ops' = Begin(ops, [op EXCEPT !.stage = "place"])
  /\ UNCHANGED <<menu, closing, m, terminals, editors, rep, recreateFailed, skewed>>

CallCreateWorkspace ==
  /\ "workspace" \in menu
  /\ CallOpen([NoOp EXCEPT !.kind = "workspace"])

CallCreateTab(w) ==
  /\ "tab" \in menu
  /\ w \in LiveWs(m)
  /\ CallOpen([NoOp EXCEPT !.kind = "tab", !.ws = w])

CallSplitPane(p) ==
  /\ "split" \in menu
  /\ p \in LivePanes(m)
  /\ CallOpen([NoOp EXCEPT !.kind = "split", !.src = p, !.srcTab = m.tabOf[p]])

\* editScrollback and openCommandPane note the zoom they will restore.
CallCommandPane(p) ==
  /\ "command" \in menu
  /\ p \in LivePanes(m)
  /\ CallOpen([NoOp EXCEPT !.kind = "command", !.src = p, !.srcTab = m.tabOf[p],
                           !.zoomBack = m.zoomed[m.tabOf[p]]])

(* Second turn: the place is known.  The source is checked again, the ids  *)
(* are reserved and the shell starts.                                      *)

SourceStays(op) ==
  CASE op.kind = "workspace" -> TRUE
    [] op.kind = "tab" -> op.ws \in LiveWs(m)
    [] OTHER -> op.src \in LivePanes(m)

Reserved(op) ==
  CASE op.kind = "workspace" ->
         [op EXCEPT !.stage = "spawn", !.ws = m.nextW, !.tab = m.nextT, !.pane = m.nextP]
    [] op.kind = "tab" -> [op EXCEPT !.stage = "spawn", !.tab = m.nextT, !.pane = m.nextP]
    [] OTHER -> [op EXCEPT !.stage = "spawn", !.pane = m.nextP]

\* Only a group takes more than two workspaces: bound on how many are ever made.
WsBound == IF "group" \in menu THEN MaxWs ELSE MaxWs - 1

PlaceKnown(s) ==
  LET op == ops[s] IN
  /\ op.stage = "place"
  /\ SourceStays(op)
  /\ m.nextP <= MaxPane
  /\ op.kind \in {"workspace", "tab"} => m.nextT <= MaxTab
  /\ op.kind = "workspace" => m.nextW <= WsBound
  /\ m' = CASE op.kind = "workspace" -> ReserveWorkspace(m)
            [] op.kind = "tab" -> ReserveTab(m)
            [] OTHER -> ReserveNextPaneId(m)
  /\ ops' = [ops EXCEPT ![s] = Reserved(op)]
  /\ terminals' = terminals \cup {m.nextP}
  /\ UNCHANGED <<menu, closing, editors, rep, recreateFailed, skewed>>

\* The workspace or the pane was closed meanwhile: not_found, nothing started.
SourceGone(s) ==
  /\ ops[s].stage = "place"
  /\ ~SourceStays(ops[s])
  /\ ops' = [ops EXCEPT ![s] = NoOp]
  /\ UNCHANGED <<menu, closing, m, terminals, editors, rep, recreateFailed, skewed>>

(* Third turn: the shell exited with an error within the grace period ...  *)

SpawnFails(s) ==
  /\ ops[s].stage = "spawn"
  /\ terminals' = terminals \ {ops[s].pane}
  /\ ops' = [ops EXCEPT ![s] = NoOp]
  /\ recreateFailed' = (recreateFailed \/ ops[s].auto)
  /\ UNCHANGED <<menu, closing, m, editors, rep, skewed>>

(* ... or it did not, or exited with 0 (exited).  The commit may still     *)
(* fail; otherwise the events are published and an exited shell's pane is  *)
(* closed again at once.                                                   *)

CommitFails(op) == ~SourceStays(op)

Committed(op) ==
  CASE op.kind = "workspace" -> CommitWorkspace(m, op.ws, op.tab, op.pane)
    [] op.kind = "tab" -> CommitTab(m, op.ws, op.tab, op.pane)
    [] op.kind = "split" -> SplitPane(m, op.src, op.pane)
    [] op.kind = "command" -> ZoomPane(SplitPane(m, op.src, op.pane), op.pane, "on")

\* splitPane publishes the tab it read in the first turn, and throws when that
\* tab has closed; openZoomedCommandPane publishes the tab of the new pane.
LayoutTab(op, mm) == IF op.kind = "split" THEN op.srcTab ELSE mm.tabOf[op.pane]
Throws(op, mm) == op.kind = "split" /\ op.srcTab \notin LiveTabs(mm)

OpenEvents(op, mm) ==
  CASE op.kind \in {"workspace", "tab"} ->
         [NoEvents EXCEPT !.upW = {op.ws}, !.upT = {op.tab}, !.upP = {op.pane}]
    [] OTHER ->
         [NoEvents EXCEPT !.upP = {op.pane},
                          !.upT = IF Throws(op, mm) THEN {} ELSE {LayoutTab(op, mm)}]

Opened(op, alive) ==
  LET mm == Committed(op)
      noted == IF op.kind = "command"
                 THEN [editors EXCEPT ![op.pane] = [src |-> op.src, zoomBack |-> op.zoomBack]]
                 ELSE editors
  IN  [m |-> mm, terminals |-> alive, editors |-> noted,
       rep |-> Deliver(rep, mm, OpenEvents(op, mm))]

\* Mutant: the exit within the grace period is not followed up.
SpawnEndsLeavingPane(s, exited) ==
  LET op == ops[s]
      alive == IF exited THEN terminals \ {op.pane} ELSE terminals
      opened == Opened(op, alive)
  IN
  /\ op.stage = "spawn"
  /\ ~CommitFails(op)
  /\ Become(opened)
  /\ ops' = [ops EXCEPT ![s] = NoOp]
  /\ skewed' = (skewed \/ (op.kind = "split" /\ m.tabOf[op.src] # op.srcTab))
  /\ recreateFailed' = FALSE
  /\ UNCHANGED <<menu, closing>>

SpawnEnds(s, exited) ==
  LET op == ops[s]
      pending == [ops EXCEPT ![s] = NoOp]
      alive == IF exited THEN terminals \ {op.pane} ELSE terminals
      opened == Opened(op, alive)
      closes == exited /\ ~Throws(op, opened.m)
      final == IF closes THEN ClosedPane(opened, op.pane) ELSE opened
  IN
  /\ op.stage = "spawn"
  /\ ~CommitFails(op)
  /\ Become(final)
  /\ RecreateIfEmpty(final, pending)
  /\ skewed' = (skewed \/ (op.kind = "split" /\ m.tabOf[op.src] # op.srcTab))
  /\ recreateFailed' = FALSE
  /\ UNCHANGED <<menu, closing>>

\* Mutant: the caller gets not_found, the shell stays.
SpawnOrphanedRunning(s) ==
  /\ ops[s].stage = "spawn"
  /\ CommitFails(ops[s])
  /\ ops' = [ops EXCEPT ![s] = NoOp]
  /\ UNCHANGED <<menu, closing, m, terminals, editors, rep, recreateFailed, skewed>>

\* The workspace or pane closed during the grace period: the new shell is
\* disposed of and the caller gets not_found.
SpawnOrphaned(s) ==
  /\ ops[s].stage = "spawn"
  /\ CommitFails(ops[s])
  /\ terminals' = terminals \ {ops[s].pane}
  /\ ops' = [ops EXCEPT ![s] = NoOp]
  /\ UNCHANGED <<menu, closing, m, editors, rep, recreateFailed, skewed>>

-----------------------------------------------------------------------------
(* Closing.                                                                *)

Settle(st) == Become(st) /\ RecreateIfEmpty(st, ops) /\ UNCHANGED <<menu, closing, recreateFailed, skewed>>

\* pane.close, and the exit of a running shell (wireExit, closePaneAfterExit).
CallClosePane(p) ==
  /\ "close" \in menu
  /\ p \in LivePanes(m)
  /\ Settle(ClosedPane(State, p))

ShellExits(p) ==
  /\ p \in terminals \cap LivePanes(m)
  /\ Settle(ClosedPane([State EXCEPT !.terminals = @ \ {p}], p))

CallCloseTab(t) ==
  LET w == m.wsOf[t]
      mm == CloseTab(m, t)
  IN  /\ "close" \in menu
      /\ t \in LiveTabs(m)
      /\ Settle(After(State, mm, [Removals(m, mm) EXCEPT !.upW = {w} \cap LiveWs(mm)]))

CallCloseWorkspace(w) ==
  LET mm == CloseWorkspace(m, w)
  IN  /\ "close" \in menu
      /\ w \in LiveWs(m)
      /\ Settle(After(State, mm, Removals(m, mm)))

\* workspace.close of a repository with the workspaces of its worktrees: which they
\* are (linked, in their order) is asked before the first is closed, and each is closed
\* in a turn of its own.
CallCloseGroup(w, linked) ==
  LET mm == CloseWorkspace(m, w)
  IN  /\ "group" \in menu
      /\ closing = <<>>
      /\ w \in LiveWs(m) \ Range(linked)
      /\ \A i, j \in DOMAIN linked : i < j => Pos(m.order, linked[i]) < Pos(m.order, linked[j])
      /\ Become(After(State, mm, Removals(m, mm)))
      /\ closing' = linked
      /\ UNCHANGED <<menu, ops, recreateFailed, skewed>>

GroupCloses ==
  LET w == Head(closing)
      mm == CloseWorkspace(m, w)
      st == After(State, mm, Removals(m, mm))
  IN  /\ closing # <<>> /\ w \in LiveWs(m)
      /\ Become(st)
      /\ closing' = Tail(closing)
      /\ IF Len(closing) = 1 THEN RecreateIfEmpty(st, ops) ELSE UNCHANGED ops
      /\ UNCHANGED <<menu, recreateFailed, skewed>>

\* The next one was closed by somebody else meanwhile: not_found ends the call, and
\* recreateIfEmpty with it, even when what it has closed was all there was.
GroupEndsEarly ==
  /\ closing # <<>> /\ Head(closing) \notin LiveWs(m)
  /\ closing' = <<>>
  /\ recreateFailed' = (recreateFailed \/ IsEmpty(m))
  /\ UNCHANGED <<menu, m, ops, terminals, editors, rep, skewed>>

-----------------------------------------------------------------------------
(* Moving, arranging, focusing: one turn each.                             *)

Step(mm, e) == Settle(After(State, mm, e))

\* Mutant: the workspace of the tab that closed is not published.
SourceEventsTabOnly(mm, s, w) == [Removals(m, mm) EXCEPT !.upT = {s} \cap LiveTabs(mm)]

\* What both cross-tab moves publish for the tab the pane left.
SourceEvents(mm, s, w) ==
  [Removals(m, mm) EXCEPT !.upT = {s} \cap LiveTabs(mm),
                          !.upW = IF s \in LiveTabs(mm) THEN {} ELSE {w} \cap LiveWs(mm)]

CallMoveToTab(p, t) ==
  LET s == m.tabOf[p]
      mm == MoveToTab(m, p, t)
  IN  /\ "move" \in menu
      /\ p \in LivePanes(m) /\ t \in LiveTabs(m) /\ t # s
      /\ Step(mm, [SourceEvents(mm, s, m.wsOf[s]) EXCEPT !.upP = {p}, !.upT = @ \cup {t}])

CallMoveToNewTab(p, w) ==
  LET s == m.tabOf[p]
      mm == MoveToNewTab(m, p, w)
  IN  /\ "move" \in menu
      /\ p \in LivePanes(m) /\ w \in LiveWs(m) /\ m.nextT <= MaxTab
      /\ Step(mm, [SourceEvents(mm, s, m.wsOf[s]) EXCEPT
                     !.upP = {p}, !.upT = @ \cup {m.nextT}, !.upW = @ \cup {w}])

LayoutUpdated(mm, t) == [NoEvents EXCEPT !.upT = {t}]

CallSwapPane(p, q) ==
  /\ "arrange" \in menu
  /\ SameTab(m, p, q)
  /\ \/ Step(SwapPane(m, p, q), LayoutUpdated(m, m.tabOf[p]))
     \/ Step(SwapPaneWith(m, p, q), LayoutUpdated(m, m.tabOf[p]))

CallMoveToEdge(p, q, edge) ==
  /\ "arrange" \in menu
  /\ SameTab(m, p, q)
  /\ Step(MoveToEdge(m, p, q, edge), LayoutUpdated(m, m.tabOf[p]))

CallReplacePane(p, q) ==
  LET mm == ReplacePane(m, p, q)
  IN  /\ "arrange" \in menu
      /\ SameTab(m, p, q)
      /\ Step(mm, [Removals(m, mm) EXCEPT !.upT = {m.tabOf[p]}])

CallZoomPane(p, mode) ==
  /\ "zoom" \in menu
  /\ p \in LivePanes(m)
  /\ Step(ZoomPane(m, p, mode), LayoutUpdated(m, m.tabOf[p]))

CallMoveTab(t, direction) ==
  /\ "order" \in menu
  /\ t \in LiveTabs(m)
  /\ Len(m.tabIds[m.wsOf[t]]) > 1
  /\ Step(MoveTab(m, t, direction), [NoEvents EXCEPT !.upW = {m.wsOf[t]}])

CallMoveWorkspace(w, direction) ==
  /\ "order" \in menu
  /\ w \in LiveWs(m)
  /\ Len(m.order) > 1
  /\ Step(MoveWorkspace(m, w, direction), [NoEvents EXCEPT !.reordered = TRUE])

CallMoveWorkspacesTo(block, before) ==
  /\ "order" \in menu
  /\ before \notin Range(block)
  /\ \E order \in Reordered(m, block, before) \ {m.order} :
       Step(MoveWorkspacesTo(m, order), [NoEvents EXCEPT !.reordered = TRUE])

\* session.focus_changed only: the copy of the structure does not change.
CallFocus ==
  /\ "focus" \in menu
  /\ \/ \E w \in LiveWs(m) : Step(FocusWorkspace(m, w), NoEvents)
     \/ \E t \in LiveTabs(m) : Step(FocusTab(m, t), NoEvents)
     \/ \E p \in LivePanes(m) : Step(FocusPane(m, p), NoEvents)

-----------------------------------------------------------------------------
Next ==
  \/ CallCreateWorkspace
  \/ \E w \in WsId : CallCreateTab(w)
  \/ \E p \in PaneId : CallSplitPane(p)
  \/ \E p \in PaneId : CallCommandPane(p)
  \/ \E s \in Slots : PlaceKnown(s)
  \/ \E s \in Slots : SourceGone(s)
  \/ \E s \in Slots : SpawnFails(s)
  \/ \E s \in Slots, exited \in BOOLEAN : SpawnEnds(s, exited)
  \/ \E s \in Slots : SpawnOrphaned(s)
  \/ \E p \in PaneId : CallClosePane(p)
  \/ \E p \in PaneId : ShellExits(p)
  \/ \E t \in TabId : CallCloseTab(t)
  \/ \E w \in WsId : CallCloseWorkspace(w)
  \/ \E w \in WsId, linked \in Blocks(m) : CallCloseGroup(w, linked)
  \/ GroupCloses
  \/ GroupEndsEarly
  \/ \E p \in PaneId, t \in TabId : CallMoveToTab(p, t)
  \/ \E p \in PaneId, w \in WsId : CallMoveToNewTab(p, w)
  \/ \E p, q \in PaneId : CallSwapPane(p, q)
  \/ \E p, q \in PaneId, edge \in {"left", "right"} : CallMoveToEdge(p, q, edge)
  \/ \E p, q \in PaneId : CallReplacePane(p, q)
  \/ \E p \in PaneId, mode \in {"toggle", "on", "off"} : CallZoomPane(p, mode)
  \/ \E t \in TabId, direction \in {"previous", "next"} : CallMoveTab(t, direction)
  \/ \E w \in WsId, direction \in {"previous", "next"} : CallMoveWorkspace(w, direction)
  \/ \E block \in Blocks(m), before \in LiveWs(m) \cup {None} : CallMoveWorkspacesTo(block, before)
  \/ CallFocus

Spec == Init /\ [][Next]_vars

-----------------------------------------------------------------------------
\* Whatever falls between the turns of an opening, the model stays consistent.
ModelConsistent == TypeOK /\ Consistent(m)

\* Nothing outlives its pane.  Every running shell belongs to an open pane or to an
\* opening under way: none keeps running that no client can see (orphans are disposed
\* of on failure).  What is noted for a command pane goes with the pane.
NothingOrphaned ==
  /\ terminals \subseteq LivePanes(m) \cup {ops[s].pane : s \in {u \in Slots : ops[u].stage = "spawn"}}
  /\ \A p \in PaneId : editors[p] # NoEditor => p \in LivePanes(m)

\* Every open pane has a running shell: none stays behind looking alive.  The one
\* exception is a split whose source moved to another tab while the shell started.
DeadPaneOnlyAfterSkewedSplit == skewed \/ LivePanes(m) \subseteq terminals

\* A client that only follows the events has the server's structure.
ReplicaAgrees == skewed \/ rep = View(m)

\* The session is empty only while an automatic workspace is being opened or a group
\* is being closed, or after one of the two failed.
EmptyMeansRecreating ==
  IsEmpty(m) => recreateFailed \/ closing # <<>> \/ \E s \in Slots : ops[s].auto

\* No operation stops the shell of a pane that stays open, in whatever tab.
SurvivorsKeepTheirShell ==
  [][\A p \in LivePanes(m) \cap terminals : p \in LivePanes(m)' => p \in terminals']_vars

\* Closing a focused command pane gives the focus and the zoom back, as long as
\* the panes they were on are still in its tab.
CommandPaneRestores ==
  [][\A p \in LivePanes(m) :
       LET t == m.tabOf[p]
           ed == editors[p]
       IN  ( /\ ed # NoEditor /\ p \notin LivePanes(m') /\ m'.wsOf[t] # None
             /\ CallClosePane(p) \/ ShellExits(p) ) =>
             /\ (m.focused[t] = p /\ ed.src \in Range(m.leaves[t])) => m'.focused[t] = ed.src
             /\ (ed.zoomBack \in Range(m.leaves[t])) => m'.zoomed[t] = ed.zoomBack]_vars
=============================================================================
