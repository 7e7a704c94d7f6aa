------------------------------- MODULE IdList -------------------------------
(***************************************************************************)
(* Lists of distinct ids, as the session keeps them: the tabs of a         *)
(* workspace, the order of the workspaces, and the panes of a tab in the   *)
(* order of the leaves of its layout tree (LayoutTree.ts, leaves()).       *)
(***************************************************************************)
EXTENDS Integers, SequencesExt

\* Array.indexOf for an element that is there.
Pos(s, x) == CHOOSE i \in DOMAIN s : s[i] = x

\* s without x: the leaves after LayoutTree.remove, tabIds.filter((t) => t !== id).
Without(s, x) == IF x \in Range(s) THEN RemoveAt(s, Pos(s, x)) ELSE s

\* The leaves after LayoutTree.split, and after insertAtEdge right or bottom.
InsertAfter(s, x, y) == InsertAt(s, Pos(s, x) + 1, y)

\* The leaves after LayoutTree.insertAtEdge left or top.
InsertBefore(s, x, y) == InsertAt(s, Pos(s, x), y)

\* The leaves after LayoutTree.swap.
Exchange(s, x, y) ==
  [i \in DOMAIN s |-> IF s[i] = x THEN y ELSE IF s[i] = y THEN x ELSE s[i]]

\* The two splice calls of moveTab and moveWorkspace: one place on, or around
\* the end to the other side.
MoveOne(s, x, direction) ==
  LET k == Pos(s, x)
      last == Len(s)
      target == CASE direction = "next" /\ k = last -> 1
                  [] direction = "next" /\ k # last -> k + 1
                  [] direction = "previous" /\ k = 1 -> last
                  [] direction = "previous" /\ k # 1 -> k - 1
  IN  InsertAt(RemoveAt(s, k), target, x)

\* moveWorkspacesTo: block together and in its order, right before the id before
\* (None: at the end), everything else in the order it had.
Rearrangements(s) == {r \in [DOMAIN s -> Range(s)] : IsInjective(r) /\ Range(r) = Range(s)}

IsBlockMove(r, s, block, before, None) ==
  /\ \E k \in 0 .. Len(s) - Len(block) :
       /\ \A i \in DOMAIN block : r[k + i] = block[i]
       /\ IF k + Len(block) = Len(s) THEN before = None ELSE r[k + Len(block) + 1] = before
  /\ \A x, y \in Range(s) \ Range(block) : Pos(s, x) < Pos(s, y) => Pos(r, x) < Pos(r, y)
=============================================================================
