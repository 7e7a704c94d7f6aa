---------------------------- MODULE SessionModel ----------------------------
(***************************************************************************)
(* SessionModel as a state machine: any caller may call any method at any  *)
(* time, with an id reserved earlier and committed later, as the handlers  *)
(* of SessionService do around the start of a shell.                       *)
(***************************************************************************)
EXTENDS SessionState

VARIABLES
  m,         \* the model
  reserved   \* what was reserved and neither committed nor given up

vars == <<m, reserved>>

Reservation == [kind : {"workspace", "tab", "pane"},
                ws : WsId \cup {None}, tab : TabId \cup {None}, pane : PaneId]

TypeOK == m \in Model /\ reserved \in SUBSET Reservation

Init == m = EmptyModel /\ reserved = {}

-----------------------------------------------------------------------------
\* The bound on ids stands in every guard that hands one out.
CanReserve(nw, nt, np) ==
  m.nextW + nw <= MaxWs + 1 /\ m.nextT + nt <= MaxTab + 1 /\ m.nextP + np <= MaxPane + 1

CallReserveWorkspace ==
  /\ CanReserve(1, 1, 1)
  /\ m' = ReserveWorkspace(m)
  /\ reserved' = reserved \cup
       {[kind |-> "workspace", ws |-> m.nextW, tab |-> m.nextT, pane |-> m.nextP]}

CallReserveTab(w) ==
  /\ w \in LiveWs(m)
  /\ CanReserve(0, 1, 1)
  /\ m' = ReserveTab(m)
  /\ reserved' = reserved \cup {[kind |-> "tab", ws |-> w, tab |-> m.nextT, pane |-> m.nextP]}

CallReservePane ==
  /\ CanReserve(0, 0, 1)
  /\ m' = ReserveNextPaneId(m)
  /\ reserved' = reserved \cup {[kind |-> "pane", ws |-> None, tab |-> None, pane |-> m.nextP]}

\* The shell did not start: the reserved objects are simply forgotten.
GiveUp(r) == reserved' = reserved \ {r} /\ UNCHANGED m

CallCommitWorkspace(r) ==
  /\ r.kind = "workspace"
  /\ m' = CommitWorkspace(m, r.ws, r.tab, r.pane)
  /\ reserved' = reserved \ {r}

\* The workspace may have been closed since reserveTab: NotFoundError.
CallCommitTab(r) ==
  /\ r.kind = "tab"
  /\ r.ws \in LiveWs(m)
  /\ m' = CommitTab(m, r.ws, r.tab, r.pane)
  /\ reserved' = reserved \ {r}

CallSplitPane(q, r) ==
  /\ r.kind = "pane"
  /\ q \in LivePanes(m)
  /\ m' = SplitPane(m, q, r.pane)
  /\ reserved' = reserved \ {r}

CloseSomething ==
  \/ \E p \in LivePanes(m), successor \in PaneId \cup {None} : m' = ClosePane(m, p, successor)
  \/ \E t \in LiveTabs(m) : m' = CloseTab(m, t)
  \/ \E w \in LiveWs(m) : m' = CloseWorkspace(m, w)

MoveSomething ==
  \/ \E p \in LivePanes(m), t \in LiveTabs(m) : m.tabOf[p] # t /\ m' = MoveToTab(m, p, t)
  \/ \E p \in LivePanes(m), w \in LiveWs(m) : m.nextT <= MaxTab /\ m' = MoveToNewTab(m, p, w)
  \/ \E p, q \in LivePanes(m) : SameTab(m, p, q) /\ m' = SwapPane(m, p, q)
  \/ \E p, q \in LivePanes(m) : SameTab(m, p, q) /\ m' = SwapPaneWith(m, p, q)
  \/ \E p, q \in LivePanes(m), edge \in {"left", "right", "top", "bottom"} :
       SameTab(m, p, q) /\ m' = MoveToEdge(m, p, q, edge)
  \/ \E p, q \in LivePanes(m) : SameTab(m, p, q) /\ m' = ReplacePane(m, p, q)

FocusSomething ==
  \/ \E w \in LiveWs(m) : m' = FocusWorkspace(m, w)
  \/ \E t \in LiveTabs(m) : m' = FocusTab(m, t)
  \/ \E p \in LivePanes(m) : m' = FocusPane(m, p)
  \/ \E p \in LivePanes(m), mode \in {"toggle", "on", "off"} : m' = ZoomPane(m, p, mode)

Reorder ==
  \/ \E t \in LiveTabs(m), direction \in {"previous", "next"} :
       Len(m.tabIds[m.wsOf[t]]) > 1 /\ m' = MoveTab(m, t, direction)
  \/ \E w \in LiveWs(m), direction \in {"previous", "next"} :
       Len(m.order) > 1 /\ m' = MoveWorkspace(m, w, direction)
  \/ \E block \in Blocks(m), before \in LiveWs(m) \cup {None} :
       before \notin Range(block)
         /\ \E order \in Reordered(m, block, before) : m' = MoveWorkspacesTo(m, order)

Next ==
  \/ CallReserveWorkspace
  \/ \E w \in WsId : CallReserveTab(w)
  \/ CallReservePane
  \/ \E r \in reserved : GiveUp(r)
  \/ \E r \in reserved : CallCommitWorkspace(r)
  \/ \E r \in reserved : CallCommitTab(r)
  \/ \E r \in reserved, q \in PaneId : CallSplitPane(q, r)
  \/ CloseSomething /\ UNCHANGED reserved
  \/ MoveSomething /\ UNCHANGED reserved
  \/ FocusSomething /\ UNCHANGED reserved
  \/ Reorder /\ UNCHANGED reserved

Spec == Init /\ [][Next]_vars

-----------------------------------------------------------------------------
\* After any sequence of calls the maps of workspaces, tabs and panes agree:
\* every pane is a leaf of the tab it names, every tab is in the strip of its
\* workspace, every focus and zoom is inside, no workspace is left empty.
ModelConsistent == Consistent(m)

\* An id is never handed out twice: what is reserved is not in the model.
ReservedIsFresh ==
  \A r \in reserved :
    /\ r.pane \notin LivePanes(m)
    /\ r.tab \notin LiveTabs(m)
    /\ r.kind = "workspace" => r.ws \notin LiveWs(m)

\* The pane the session's focus names is open.
FocusLive == m.focus.pane # None => m.focus.pane \in LivePanes(m)
=============================================================================
