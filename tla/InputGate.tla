------------------------------ MODULE InputGate ------------------------------
(***************************************************************************)
(* The gate for typed input (client-core/src/net/InputGate.ts): while a    *)
(* request that will move the focus is under way, what is typed for the    *)
(* pane that has the focus is held, and let go to the new pane when there  *)
(* is one.  A gate is a record: `holds`, oldest first, and `net`, what has *)
(* gone to the server and not arrived.                                     *)
(***************************************************************************)
EXTENDS Integers, SequencesExt, FiniteSetsExt

\* `target` is one of these or a pane.
Undecided == "undecided"
Nowhere == "nowhere"

NewHold(h, source) ==
  [id |-> h, sources |-> {source} \ {Nowhere}, chunks |-> << >>, target |-> Undecided]

EmptyGate == [holds |-> << >>, net |-> << >>]

Undecideds(g) == {h \in Range(g.holds) : h.target = Undecided}

\* sendInput: to the newest hold that waits for this pane, or that will let go to
\* it; to the server if there is none.
Takes(hold, p) == IF hold.target = Undecided THEN p \in hold.sources ELSE hold.target = p

SendInput(g, p, x) ==
  LET takers == {i \in DOMAIN g.holds : Takes(g.holds[i], p)}
  IN  IF takers = {} THEN [g EXCEPT !.net = Append(@, [to |-> p, chunk |-> x])]
      ELSE [g EXCEPT !.holds[Max(takers)].chunks = Append(@, x)]

HoldInput(g, h, source) == [g EXCEPT !.holds = Append(@, NewHold(h, source))]

Addressed(hold) ==
  IF hold.target = Nowhere THEN << >>
  ELSE [i \in DOMAIN hold.chunks |-> [to |-> hold.target, chunk |-> hold.chunks[i]]]

\* Mutant: every hold is let go when it is decided.
LetGoAtOnce(g) ==
  LET decided == SelectSeq(g.holds, LAMBDA h : h.target # Undecided)
  IN  [holds |-> SelectSeq(g.holds, LAMBDA h : h.target = Undecided),
       net |-> g.net \o FlattenSeq([i \in DOMAIN decided |-> Addressed(decided[i])])]

\* Mutant: only the oldest is let go.
LetGoOldest(g) ==
  IF g.holds # << >> /\ g.holds[1].target # Undecided
  THEN [holds |-> Tail(g.holds), net |-> g.net \o Addressed(g.holds[1])]
  ELSE g

\* The holds in front whose target is decided are let go, oldest first.
LetGo(g) ==
  LET waiting == {i \in DOMAIN g.holds : g.holds[i].target = Undecided}
      n == IF waiting = {} THEN Len(g.holds) ELSE Min(waiting) - 1
      gone == SubSeq(g.holds, 1, n)
  IN  [holds |-> SubSeq(g.holds, n + 1, Len(g.holds)),
       net |-> g.net \o FlattenSeq([i \in 1..n |-> Addressed(gone[i])])]

\* finish: a hold that was decided already (its time ran out) stays as it is, and
\* `first`, a sequence of at most one chunk, is sent like any input.
Finish(g, h, target, first) ==
  LET found == {i \in DOMAIN g.holds : g.holds[i].id = h /\ g.holds[i].target = Undecided}
      k == CHOOSE i \in found : TRUE
      decide(i) ==
        IF i = k THEN [g.holds[i] EXCEPT !.target = target, !.chunks = first \o @]
        ELSE IF i > k /\ g.holds[i].target = Undecided /\ target # Nowhere
             THEN [g.holds[i] EXCEPT !.sources = @ \cup {target}]
             ELSE g.holds[i]
  IN  IF found # {} THEN LetGo([g EXCEPT !.holds = [i \in DOMAIN g.holds |-> decide(i)]])
      ELSE IF first # << >> /\ target # Nowhere THEN SendInput(g, target, first[1])
           ELSE g

\* discard of every hold in H that is not decided yet.  No target hears of another, so
\* the order of the calls does not matter.
Discard(g, H) ==
  LetGo([g EXCEPT !.holds =
    [i \in DOMAIN g.holds |-> IF g.holds[i].id \in H /\ g.holds[i].target = Undecided
                                THEN [g.holds[i] EXCEPT !.target = Nowhere] ELSE g.holds[i]]])
=============================================================================
