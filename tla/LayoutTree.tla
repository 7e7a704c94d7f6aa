----------------------------- MODULE LayoutTree -----------------------------
(***************************************************************************)
(* The layout of one tab (packages/server/src/session/LayoutTree.ts): a    *)
(* binary tree of splits with the panes at its leaves, under the calls     *)
(* SessionModel makes on it.  Ratios are counted in twentieths: RESIZE_STEP *)
(* is one, the limits 0.05 and 0.95 are 1 and 19.  A pane id is free again *)
(* when its pane has left the tab; split ids are never used twice.         *)
(*                                                                         *)
(* Frame is how the TUI lays the tree out in cells                         *)
(* (packages/tui/src/layout/computeLayout.ts).                             *)
(***************************************************************************)
EXTENDS IdList

CONSTANTS
  Panes,
  MaxSplit,   \* bound on the split ids handed out
  Ratios,     \* the ratios and amounts a client asks for, in twentieths
  Amounts,
  Area,       \* side of the square the panes are laid out in, in cells
  NoPane

ASSUME NoPaneAssumption == NoPane \notin Panes
ASSUME RatiosAssumption == Ratios \subseteq 1 .. 19 /\ Amounts \subseteq Nat /\ Area \in Nat

VARIABLES
  tree,
  nextS    \* nextIdCounters for splits

vars == <<tree, nextS>>

Pane(p) == [type |-> "pane", paneId |-> p]
IsPane(node) == node.type = "pane"
SplitNode(id, dir, ratio, a, b) ==
  [type |-> "split", id |-> id, dir |-> dir, ratio |-> ratio, a |-> a, b |-> b]

Dirs == {"left", "right", "up", "down"}
Edges == {"left", "right", "top", "bottom"}

RECURSIVE leaves(_)
leaves(node) == IF IsPane(node) THEN <<node.paneId>> ELSE leaves(node.a) \o leaves(node.b)

RECURSIVE splitsOf(_)
\* Every split of the tree, from the outermost to the innermost.
splitsOf(node) ==
  IF IsPane(node) THEN <<>> ELSE <<node>> \o splitsOf(node.a) \o splitsOf(node.b)

-----------------------------------------------------------------------------
(* The pure functions of LayoutTree.ts.                                    *)

RECURSIVE split(_, _, _, _, _, _)
split(node, target, dir, new, id, ratio) ==
  IF IsPane(node)
    THEN IF node.paneId # target THEN node ELSE SplitNode(id, dir, ratio, node, Pane(new))
    ELSE [node EXCEPT !.a = split(@, target, dir, new, id, ratio),
                      !.b = split(@, target, dir, new, id, ratio)]

Nothing == [type |-> "null"]

RECURSIVE remove(_, _)
remove(node, p) ==
  IF IsPane(node) THEN IF node.paneId = p THEN Nothing ELSE node
  ELSE LET a == remove(node.a, p)
           b == remove(node.b, p)
       IN  IF a = Nothing THEN b
           ELSE IF b = Nothing THEN a
           ELSE [node EXCEPT !.a = a, !.b = b]

RECURSIVE insertEvening(_, _, _, _, _)
\* Mutant: the splits above the new pane go back to one half.
insertEvening(node, target, edge, new, id) ==
  IF IsPane(node)
    THEN IF node.paneId # target THEN node
         ELSE SplitNode(id, IF edge \in {"left", "right"} THEN "right" ELSE "down", 10,
                        IF edge \in {"left", "top"} THEN Pane(new) ELSE node,
                        IF edge \in {"left", "top"} THEN node ELSE Pane(new))
    ELSE [node EXCEPT !.ratio = 10,
                      !.a = insertEvening(@, target, edge, new, id),
                      !.b = insertEvening(@, target, edge, new, id)]

RECURSIVE insertAtEdge(_, _, _, _, _)
insertAtEdge(node, target, edge, new, id) ==
  IF IsPane(node)
    THEN IF node.paneId # target THEN node
         ELSE LET dir == IF edge \in {"left", "right"} THEN "right" ELSE "down"
              IN  IF edge \in {"left", "top"}
                    THEN SplitNode(id, dir, 10, Pane(new), node)
                    ELSE SplitNode(id, dir, 10, node, Pane(new))
    ELSE [node EXCEPT !.a = insertAtEdge(@, target, edge, new, id),
                      !.b = insertAtEdge(@, target, edge, new, id)]

RECURSIVE swapOneWay(_, _, _)
\* Mutant: q is put where p was, p is not put where q was.
swapOneWay(node, p, q) ==
  IF IsPane(node) THEN Pane(IF node.paneId = p THEN q ELSE node.paneId)
  ELSE [node EXCEPT !.a = swapOneWay(@, p, q), !.b = swapOneWay(@, p, q)]

RECURSIVE swap(_, _, _)
swap(node, p, q) ==
  IF IsPane(node)
    THEN Pane(CASE node.paneId = p -> q [] node.paneId = q -> p [] OTHER -> node.paneId)
    ELSE [node EXCEPT !.a = swap(@, p, q), !.b = swap(@, p, q)]

Clamp(ratio) == CASE ratio < 1 -> 1 [] ratio > 19 -> 19 [] OTHER -> ratio

RECURSIVE setRatio(_, _, _)
setRatio(node, id, ratio) ==
  IF IsPane(node) THEN node
  ELSE IF node.id = id THEN [node EXCEPT !.ratio = Clamp(ratio)]
  ELSE [node EXCEPT !.a = setRatio(@, id, ratio), !.b = setRatio(@, id, ratio)]

\* The split that has the pane itself as a side.
Owns(s, p) == s.a = Pane(p) \/ s.b = Pane(p)
findOwningSplit(node, p) == SelectSeq(splitsOf(node), LAMBDA s : Owns(s, p))

Horizontal == {"left", "right"}
AxisMatches(s, direction) == (s.dir = "right") <=> (direction \in Horizontal)

\* The splits above p, the outermost first (findPath).
PathTo(node, p) == SelectSeq(splitsOf(node), LAMBDA s : p \in Range(leaves(s)))

resizeBy(node, p, direction, amount) ==
  LET owner == findOwningSplit(node, p)
      delta == IF direction \in {"right", "down"} THEN amount ELSE -amount
  IN  IF owner = <<>> \/ ~AxisMatches(owner[1], direction) THEN node
      ELSE setRatio(node, owner[1].id, owner[1].ratio + delta)

Holds(node, p) == p \in Range(leaves(node))

\* Mutant: a split is passed even when p is on the side the key points to.
neighborSameSide(node, p, direction) ==
  LET path == PathTo(node, p)
      along == {i \in DOMAIN path : AxisMatches(path[i], direction)}
      s == path[CHOOSE i \in along : \A j \in along : j <= i]
  IN  IF along = {} THEN NoPane
      ELSE Head(leaves(IF direction \in {"left", "up"} THEN s.a ELSE s.b))

neighbor(node, p, direction) ==
  LET path == PathTo(node, p)
      wantSideA == direction \in {"left", "up"}
      passable == {i \in DOMAIN path : /\ AxisMatches(path[i], direction)
                                       /\ Holds(path[i].a, p) # wantSideA}
      s == path[CHOOSE i \in passable : \A j \in passable : j <= i]
  IN  IF passable = {} THEN NoPane
      ELSE Head(leaves(IF wantSideA THEN s.a ELSE s.b))

-----------------------------------------------------------------------------
(* Cells: the rectangle each pane gets (splitSize, place).                 *)

\* The side of a split that a gets: at least 3 cells for each side, half when
\* there are fewer than 6; Math.round is floor(x + 1/2).
splitSize(total, ratio) ==
  LET least == IF total \div 2 < 3 THEN total \div 2 ELSE 3
      rounded == (2 * total * ratio + 20) \div 40
      capped == IF rounded > total - least THEN total - least ELSE rounded
  IN  IF capped < least THEN least ELSE capped

RECURSIVE place(_, _)
place(node, area) ==
  IF IsPane(node) THEN {[pane |-> node.paneId, frame |-> area]}
  ELSE IF node.dir = "right"
    THEN LET aw == splitSize(area.w, node.ratio)
         IN  place(node.a, [area EXCEPT !.w = aw])
               \cup place(node.b, [area EXCEPT !.x = @ + aw, !.w = @ - aw])
    ELSE LET ah == splitSize(area.h, node.ratio)
         IN  place(node.a, [area EXCEPT !.h = ah])
               \cup place(node.b, [area EXCEPT !.y = @ + ah, !.h = @ - ah])

\* What the tab shows: the pane of each frame, a function.
Frames(node) ==
  LET boxes == place(node, [x |-> 0, y |-> 0, w |-> Area, h |-> Area])
  IN  [p \in {b.pane : b \in boxes} |-> (CHOOSE b \in boxes : b.pane = p).frame]

-----------------------------------------------------------------------------
(* The calls of SessionModel on the layout of a tab.                       *)

Shown == Range(leaves(tree))
Hidden == Panes \ Shown
FreshSplit == nextS <= MaxSplit
nextId == nextS

Init == nextS = 1 /\ \E p \in Panes : tree = Pane(p)

CallSplitPane(p, direction, ratio, new) ==
  /\ FreshSplit
  /\ tree' = split(tree, p, direction, new, nextId, ratio)
  /\ nextS' = nextS + 1

\* The pane closes, or moves to another tab; the last one closes the tab.
CallRemove(p) ==
  /\ remove(tree, p) # Nothing
  /\ tree' = remove(tree, p)
  /\ UNCHANGED nextS

\* moveToTab: a pane of another tab arrives right of the focused pane.
CallArrive(p, new) ==
  /\ FreshSplit
  /\ tree' = insertAtEdge(tree, p, "right", new, nextId)
  /\ nextS' = nextS + 1

CallMoveToEdge(p, q, edge) ==
  /\ p # q
  /\ FreshSplit
  /\ tree' = insertAtEdge(remove(tree, p), q, edge, p, nextId)
  /\ nextS' = nextS + 1

CallSwapPaneWith(p, q) ==
  /\ p # q
  /\ tree' = swap(tree, p, q)
  /\ UNCHANGED nextS

CallSwapPane(p, direction) ==
  /\ neighbor(tree, p, direction) # NoPane
  /\ tree' = swap(tree, p, neighbor(tree, p, direction))
  /\ UNCHANGED nextS

CallReplacePane(p, q) ==
  /\ p # q
  /\ tree' = remove(swap(tree, p, q), q)
  /\ UNCHANGED nextS

CallSetSplitRatio(id, ratio) == tree' = setRatio(tree, id, ratio) /\ UNCHANGED nextS

CallResizePane(p, direction, amount) ==
  /\ tree' = resizeBy(tree, p, direction, amount)
  /\ UNCHANGED nextS

Next ==
  \/ \E p \in Shown, direction \in {"right", "down"}, ratio \in Ratios, new \in Hidden :
       CallSplitPane(p, direction, ratio, new)
  \/ \E p \in Shown : CallRemove(p)
  \/ \E p \in Shown, new \in Hidden : CallArrive(p, new)
  \/ \E p, q \in Shown, edge \in Edges : CallMoveToEdge(p, q, edge)
  \/ \E p, q \in Shown : CallSwapPaneWith(p, q)
  \/ \E p \in Shown, direction \in Dirs : CallSwapPane(p, direction)
  \/ \E p, q \in Shown : CallReplacePane(p, q)
  \/ \E id \in 1 .. MaxSplit, ratio \in Ratios : CallSetSplitRatio(id, ratio)
  \/ \E p \in Shown, direction \in Dirs, amount \in Amounts : CallResizePane(p, direction, amount)

Spec == Init /\ [][Next]_vars

-----------------------------------------------------------------------------
\* Read from the first leaf to the last, the tree moves as the list of
\* SessionState does.
List == INSTANCE LayoutList WITH list <- leaves(tree)
ImplementsList == List!Spec

\* Direction keys: the neighbour, if any, begins beyond the side of the pane the
\* key points to (it need not touch it), and there is none only at the border.
Beyond(f, g, direction) ==
  CASE direction = "right" -> g.x >= f.x + f.w
    [] direction = "left" -> g.x + g.w <= f.x
    [] direction = "down" -> g.y >= f.y + f.h
    [] direction = "up" -> g.y + g.h <= f.y

AtBorder(f, direction) ==
  CASE direction = "right" -> f.x + f.w = Area
    [] direction = "left" -> f.x = 0
    [] direction = "down" -> f.y + f.h = Area
    [] direction = "up" -> f.y = 0

NeighborIsThatWay ==
  LET frames == Frames(tree)
  IN  \A p \in Shown, direction \in Dirs :
        LET q == neighbor(tree, p, direction)
        IN  IF q = NoPane THEN AtBorder(frames[p], direction)
            ELSE q \in Shown /\ Beyond(frames[p], frames[q], direction)

\* Closing the pane a split or a move made gives back the layout there was,
\* with its sizes; so does closing either of the two after they were swapped.
RemoveUndoesSplit ==
  \A p \in Shown, new \in Hidden :
    /\ \A direction \in {"right", "down"}, ratio \in Ratios :
         remove(split(tree, p, direction, new, nextId, ratio), new) = tree
    /\ \A edge \in Edges :
         LET moved == insertAtEdge(tree, p, edge, new, nextId)
         IN  /\ remove(moved, new) = tree
             /\ remove(swap(moved, p, new), new) = tree
=============================================================================
