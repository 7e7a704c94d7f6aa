---------------------------- MODULE MCLayoutTree ----------------------------
(***************************************************************************)
(* Four panes make every shape a tab can have up to three splits, and with *)
(* three split ids a pane of three can also move once.  Pane ids are only  *)
(* compared, so permuting them permutes the behaviours.                    *)
(***************************************************************************)
EXTENDS LayoutTree, TLC

CONSTANTS p1, p2, p3, p4

MCPanes == {p1, p2, p3, p4}
Symmetry == Permutations(MCPanes)
MCRatios == {10}
MCAmounts == {10}
=============================================================================
