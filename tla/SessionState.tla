---------------------------- MODULE SessionState ----------------------------
(***************************************************************************)
(* The data of SessionModel (packages/server/src/session/SessionModel.ts)  *)
(* and what each of its methods does to it.  A method is an operator from  *)
(* the model to the model; whoever calls it guards it with the conditions  *)
(* under which the method throws NotFoundError or returns false.           *)
(*                                                                         *)
(* The maps of workspaces, tabs and panes are total functions over bounded *)
(* sets of ids; an id without an entry has None or <<>> everywhere.  A     *)
(* tab's layout is the list of its leaves (module LayoutTree has the tree  *)
(* and shows that it moves like this list).  Labels, sizes, cwd, git and   *)
(* agent data are left out: no method decides anything here from them.     *)
(***************************************************************************)
EXTENDS IdList

CONSTANTS MaxWs, MaxTab, MaxPane  \* bounds on the ids ever handed out

ASSUME BoundsAssumption == MaxWs \in Nat /\ MaxTab \in Nat /\ MaxPane \in Nat

None == 0
WsId == 1 .. MaxWs
TabId == 1 .. MaxTab
PaneId == 1 .. MaxPane

Focus == [ws : WsId \cup {None}, tab : TabId \cup {None}, pane : PaneId \cup {None}]
NoFocus == [ws |-> None, tab |-> None, pane |-> None]

Model ==
  [order : Seq(WsId),                       \* keys of the workspaces map
   tabIds : [WsId -> Seq(TabId)],           \* Workspace.tabIds
   active : [WsId -> TabId \cup {None}],    \* Workspace.activeTabId
   wsOf : [TabId -> WsId \cup {None}],      \* Tab.workspaceId, None: no such tab
   leaves : [TabId -> Seq(PaneId)],         \* leaves(Tab.layout)
   focused : [TabId -> PaneId \cup {None}], \* Tab.focusedPaneId
   zoomed : [TabId -> PaneId \cup {None}],  \* Tab.zoomedPaneId
   tabOf : [PaneId -> TabId \cup {None}],   \* Pane.tabId, None: no such pane
   focus : Focus,                           \* the session's focus
   nextW : Nat, nextT : Nat, nextP : Nat]   \* nextIdCounters

EmptyModel ==
  [order |-> <<>>,
   tabIds |-> [w \in WsId |-> <<>>],
   active |-> [w \in WsId |-> None],
   wsOf |-> [t \in TabId |-> None],
   leaves |-> [t \in TabId |-> <<>>],
   focused |-> [t \in TabId |-> None],
   zoomed |-> [t \in TabId |-> None],
   tabOf |-> [p \in PaneId |-> None],
   focus |-> NoFocus,
   nextW |-> 1, nextT |-> 1, nextP |-> 1]

LiveWs(m) == Range(m.order)
LiveTabs(m) == {t \in TabId : m.wsOf[t] # None}
LivePanes(m) == {p \in PaneId : m.tabOf[p] # None}
IsEmpty(m) == m.order = <<>>

SetFocus(m, w, t, p) == [m EXCEPT !.focus = [ws |-> w, tab |-> t, pane |-> p]]

-----------------------------------------------------------------------------
(* Creation: ids are reserved first, the objects enter the maps later.     *)

ReserveWorkspace(m) == [m EXCEPT !.nextW = @ + 1, !.nextT = @ + 1, !.nextP = @ + 1]
ReserveTab(m) == [m EXCEPT !.nextT = @ + 1, !.nextP = @ + 1]
\* Mutant: the id is only looked up, and taken when the pane is made.
PeekNextPaneId(m) == m
ReserveNextPaneId(m) == [m EXCEPT !.nextP = @ + 1]

CommitWorkspace(m, w, t, p) ==
  SetFocus([m EXCEPT !.order = Append(@, w),
                     !.tabIds[w] = <<t>>,
                     !.active[w] = t,
                     !.wsOf[t] = w,
                     !.leaves[t] = <<p>>,
                     !.focused[t] = p,
                     !.tabOf[p] = t], w, t, p)

CommitTab(m, w, t, p) ==
  SetFocus([m EXCEPT !.tabIds[w] = Append(@, t),
                     !.active[w] = t,
                     !.wsOf[t] = w,
                     !.leaves[t] = <<p>>,
                     !.focused[t] = p,
                     !.tabOf[p] = t], w, t, p)

\* The new pane p beside q, in the tab q is in now; the split ends a zoom.
SplitPane(m, q, p) ==
  LET t == m.tabOf[q]
  IN  SetFocus([m EXCEPT !.leaves[t] = InsertAfter(@, q, p),
                         !.focused[t] = p,
                         !.zoomed[t] = None,
                         !.tabOf[p] = t], m.wsOf[t], t, p)

-----------------------------------------------------------------------------
(* Removal.  The last pane takes its tab with it, the last tab its         *)
(* workspace.                                                              *)

\* The workspace's entry goes; a focus in it moves to the first workspace left.
DropWorkspace(m, w) ==
  LET rest == Without(m.order, w)
      gone == [m EXCEPT !.order = rest, !.tabIds[w] = <<>>, !.active[w] = None]
      next == Head(rest)
  IN  IF m.focus.ws # w THEN gone
      ELSE IF rest = <<>> THEN [gone EXCEPT !.focus = NoFocus]
      ELSE SetFocus(gone, next, m.active[next], m.focused[m.active[next]])

\* Mutant: the strip loses the tab, the active tab is not chosen again.
DropTabKeepingActive(m, t) ==
  LET w == m.wsOf[t]
      rest == Without(m.tabIds[w], t)
      gone == [m EXCEPT !.wsOf[t] = None, !.leaves[t] = <<>>,
                        !.focused[t] = None, !.zoomed[t] = None]
  IN  IF rest = <<>> THEN DropWorkspace(gone, w) ELSE [gone EXCEPT !.tabIds[w] = rest]

\* closeEmptyTabShell, and closeTabInternal once its panes are gone.
DropTab(m, t) ==
  LET w == m.wsOf[t]
      rest == Without(m.tabIds[w], t)
      gone == [m EXCEPT !.wsOf[t] = None, !.leaves[t] = <<>>,
                        !.focused[t] = None, !.zoomed[t] = None]
      first == Head(rest)
  IN  IF rest = <<>> THEN DropWorkspace(gone, w)
      ELSE IF m.active[w] # t THEN [gone EXCEPT !.tabIds[w] = rest]
      ELSE SetFocus([gone EXCEPT !.tabIds[w] = rest, !.active[w] = first],
                    w, first, m.focused[first])

CloseTab(m, t) ==
  DropTab([m EXCEPT !.tabOf = [p \in PaneId |-> IF m.tabOf[p] = t THEN None ELSE m.tabOf[p]]], t)

\* Every tab and pane of the workspace, then the workspace.
CloseWorkspace(m, w) ==
  LET InW(t) == t # None /\ m.wsOf[t] = w
  IN  DropWorkspace(
        [m EXCEPT !.tabOf = [p \in PaneId |-> IF InW(m.tabOf[p]) THEN None ELSE m.tabOf[p]],
                  !.wsOf = [t \in TabId |-> IF InW(t) THEN None ELSE m.wsOf[t]],
                  !.leaves = [t \in TabId |-> IF InW(t) THEN <<>> ELSE m.leaves[t]],
                  !.focused = [t \in TabId |-> IF InW(t) THEN None ELSE m.focused[t]],
                  !.zoomed = [t \in TabId |-> IF InW(t) THEN None ELSE m.zoomed[t]]], w)

\* successor: the pane that gets the focus if it is still in the tab.
ClosePane(m, p, successor) ==
  LET t == m.tabOf[p]
      rest == Without(m.leaves[t], p)
      gone == [m EXCEPT !.tabOf[p] = None, !.leaves[t] = rest, !.zoomed[t] = None]
      next == IF successor \in Range(rest) THEN successor ELSE Head(rest)
  IN  IF rest = <<>> THEN CloseTab(m, t)
      ELSE IF m.focused[t] # p THEN gone
      ELSE SetFocus([gone EXCEPT !.focused[t] = next], m.wsOf[t], t, next)

-----------------------------------------------------------------------------
(* Moving panes within and between tabs.                                   *)

\* Mutant: the tab left behind keeps its focus on the pane that left.
LeaveTabKeepingFocus(m, s, p) ==
  LET rest == Without(m.leaves[s], p)
  IN  IF rest = <<>> THEN DropTab(m, s) ELSE [m EXCEPT !.leaves[s] = rest, !.zoomed[s] = None]

\* The source tab s of a move loses p, and closes when p was its only pane.
LeaveTab(m, s, p) ==
  LET rest == Without(m.leaves[s], p)
  IN  IF rest = <<>> THEN DropTab(m, s)
      ELSE [m EXCEPT !.leaves[s] = rest,
                     !.focused[s] = IF @ = p THEN Head(rest) ELSE @,
                     !.zoomed[s] = None]

MoveToTab(m, p, t) ==
  LET arrived == [m EXCEPT !.tabOf[p] = t,
                           !.leaves[t] = InsertAfter(@, m.focused[t], p),
                           !.focused[t] = p,
                           !.zoomed[t] = None]
  IN  SetFocus(LeaveTab(arrived, m.tabOf[p], p), m.wsOf[t], t, p)

\* The new tab gets the next tab id.
MoveToNewTab(m, p, w) ==
  LET t == m.nextT
      arrived == [m EXCEPT !.nextT = @ + 1,
                           !.tabOf[p] = t,
                           !.wsOf[t] = w,
                           !.leaves[t] = <<p>>,
                           !.focused[t] = p,
                           !.tabIds[w] = Append(@, t),
                           !.active[w] = t]
  IN  SetFocus(LeaveTab(arrived, m.tabOf[p], p), w, t, p)

\* requirePane(p), and the other pane is another one of the same tab.
SameTab(m, p, q) == p # q /\ p \in LivePanes(m) /\ q \in LivePanes(m) /\ m.tabOf[q] = m.tabOf[p]

\* swapPane(paneId, direction), q being the neighbour it found.
SwapPane(m, p, q) == [m EXCEPT !.leaves[m.tabOf[p]] = Exchange(@, p, q)]

SwapPaneWith(m, p, q) ==
  LET t == m.tabOf[p] IN SetFocus(SwapPane(m, p, q), m.wsOf[t], t, p)

MoveToEdge(m, p, q, edge) ==
  LET t == m.tabOf[p]
      Insert(s) == IF edge \in {"left", "top"} THEN InsertBefore(s, q, p) ELSE InsertAfter(s, q, p)
  IN  SetFocus([m EXCEPT !.leaves[t] = Insert(Without(@, p))], m.wsOf[t], t, p)

\* p takes the place of q, and q is closed.
ReplacePane(m, p, q) ==
  LET t == m.tabOf[p]
  IN  SetFocus([m EXCEPT !.leaves[t] = Without(Exchange(@, p, q), q),
                         !.tabOf[q] = None,
                         !.focused[t] = IF @ = q THEN p ELSE @,
                         !.zoomed[t] = None], m.wsOf[t], t, p)

-----------------------------------------------------------------------------
(* Focus, zoom and order.                                                  *)

FocusWorkspace(m, w) == SetFocus(m, w, m.active[w], m.focused[m.active[w]])

FocusTab(m, t) ==
  SetFocus([m EXCEPT !.active[m.wsOf[t]] = t], m.wsOf[t], t, m.focused[t])

FocusPane(m, p) ==
  LET t == m.tabOf[p]
  IN  SetFocus([m EXCEPT !.focused[t] = p, !.active[m.wsOf[t]] = t], m.wsOf[t], t, p)

ZoomPane(m, p, mode) ==
  LET t == m.tabOf[p]
      on == mode = "on" \/ (mode = "toggle" /\ m.zoomed[t] # p)
  IN  [m EXCEPT !.zoomed[t] = IF on THEN p ELSE None]

MoveTab(m, t, direction) == [m EXCEPT !.tabIds[m.wsOf[t]] = MoveOne(@, t, direction)]

MoveWorkspace(m, w, direction) == [m EXCEPT !.order = MoveOne(@, w, direction)]

\* The lists moveWorkspacesTo can be asked to move.  (A workspace named twice
\* counts where it is named first: Map.set keeps the place of a key.)
Blocks(m) == {b \in UNION {[1 .. n -> LiveWs(m)] : n \in 1 .. Len(m.order)} : IsInjective(b)}

Reordered(m, block, before) ==
  {r \in Rearrangements(m.order) : IsBlockMove(r, m.order, block, before, None)}

MoveWorkspacesTo(m, order) == [m EXCEPT !.order = order]

-----------------------------------------------------------------------------
(* What the maps owe each other.                                           *)

\* Every pane is a leaf of exactly the tab it names, and of it once.
PanesAreLeaves(m) ==
  /\ \A t \in TabId : IsInjective(m.leaves[t]) /\ Range(m.leaves[t]) = {p \in PaneId : m.tabOf[p] = t}
  /\ \A t \in TabId : m.wsOf[t] # None <=> m.leaves[t] # <<>>

\* Every tab is in the strip of exactly the workspace it names, and in it once;
\* the workspaces are those that have a tab.
TabsAreListed(m) ==
  /\ IsInjective(m.order)
  /\ \A w \in WsId : IsInjective(m.tabIds[w]) /\ Range(m.tabIds[w]) = {t \in TabId : m.wsOf[t] = w}
  /\ \A w \in WsId : w \in LiveWs(m) <=> m.tabIds[w] # <<>>

\* A tab's focus and zoom are on its own leaves.
FocusedAndZoomedAreLeaves(m) ==
  \A t \in TabId :
    /\ IF m.wsOf[t] = None THEN m.focused[t] = None ELSE m.focused[t] \in Range(m.leaves[t])
    /\ m.zoomed[t] \in Range(m.leaves[t]) \cup {None}

\* A workspace's active tab is one of its tabs.
ActiveIsListed(m) ==
  \A w \in WsId : IF w \in LiveWs(m) THEN m.active[w] \in Range(m.tabIds[w]) ELSE m.active[w] = None

\* The focus names an open workspace, and is null only when there is none.
FocusOnOpenWorkspace(m) ==
  IF m.order = <<>> THEN m.focus = NoFocus ELSE m.focus.ws \in LiveWs(m)

\* Ids are handed out once.
IdsBelowNext(m) ==
  /\ \A w \in LiveWs(m) : w < m.nextW
  /\ \A t \in LiveTabs(m) : t < m.nextT
  /\ \A p \in LivePanes(m) : p < m.nextP

Consistent(m) ==
  /\ PanesAreLeaves(m)
  /\ TabsAreListed(m)
  /\ FocusedAndZoomedAreLeaves(m)
  /\ ActiveIsListed(m)
  /\ FocusOnOpenWorkspace(m)
  /\ IdsBelowNext(m)
=============================================================================
