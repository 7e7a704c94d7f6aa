----------------------------- MODULE LayoutList -----------------------------
(***************************************************************************)
(* What SessionState takes the layout of a tab to be: the list of its      *)
(* panes, from the first leaf to the last, and one step of that list per   *)
(* operation.  LayoutTree shows that the trees of LayoutTree.ts implement  *)
(* it.                                                                     *)
(***************************************************************************)
EXTENDS IdList

CONSTANT Panes

VARIABLE list

TypeOK == list \in Seq(Panes) /\ IsInjective(list) /\ list # <<>>

Init == \E p \in Panes : list = <<p>>

Listed == Range(list)
Unlisted == Panes \ Listed

Split == \E q \in Listed, p \in Unlisted : list' = InsertAfter(list, q, p)

Leave == \E p \in Listed : Len(list) > 1 /\ list' = Without(list, p)

Swap == \E p, q \in Listed : list' = Exchange(list, p, q)

MoveToEdge ==
  \E p, q \in Listed :
    /\ p # q
    /\ \/ list' = InsertBefore(Without(list, p), q, p)
       \/ list' = InsertAfter(Without(list, p), q, p)

Replace == \E p, q \in Listed : p # q /\ list' = Without(Exchange(list, p, q), q)

Next == Split \/ Leave \/ Swap \/ MoveToEdge \/ Replace

Spec == Init /\ [][Next]_list
=============================================================================
