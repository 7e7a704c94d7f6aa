----------------------------- MODULE OutputView -----------------------------
(***************************************************************************)
(* What a client may rely on of the terminal it watches: it shows the      *)
(* pane's output up to some point, all of it and each part once, and never *)
(* goes back.  OutputPath implements this with snapshots, buffering and    *)
(* dropped output.                                                         *)
(***************************************************************************)
EXTENDS Naturals

CONSTANT Clients

VARIABLES
  written,   \* how much the pane has put out
  view       \* client -> the output its terminal shows, as the length of it

Init == written = 0 /\ view = [c \in Clients |-> 0]

Next ==
  /\ written' \in Nat
  /\ written' >= written
  /\ view' \in [Clients -> Nat]
  /\ \A c \in Clients : view[c] <= view'[c] /\ view'[c] <= written'

Spec == Init /\ [][Next]_<<written, view>>
=============================================================================
