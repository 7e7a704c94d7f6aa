------------------------------ MODULE InputPath ------------------------------
(***************************************************************************)
(* Input from the keyboard of one client to the PTYs: the gate of the      *)
(* client, its socket, which keeps the order, and the terminals, which     *)
(* also take modal input (the text of a prompt for an agent, and the       *)
(* Enter; the start of an agent).                                          *)
(*                                                                         *)
(* A chunk is the number of its turn: the n-th thing the user typed.  What *)
(* a hold is to insert before the rest (the path of a pasted image) has    *)
(* the turn in which the hold was taken.                                   *)
(***************************************************************************)
EXTENDS InputGate, TerminalInput

CONSTANTS
  Panes,        \* identities of panes
  Holds,        \* identities of holds
  Modals,       \* identities of modal inputs: "prompt", "keys", "start"
  Menus,        \* the holds and modal inputs a run explores together
  None,
  MaxTurns,     \* bound on what is typed
  MaxRefusals   \* bound on the inputs that find the terminal full

ASSUME NoneAssumption == None \notin Modals
ASSUME PanesAssumption == Panes # {} /\ {Nowhere, Undecided} \cap Panes = {}
ASSUME MenusAssumption == Menus \subseteq [holds : SUBSET Holds, modals : SUBSET Modals]
ASSUME InputBoundsAssumption == MaxTurns \in Nat /\ MaxRefusals \in Nat

VARIABLES
  menu,      \* one of Menus
  gate,
  request,   \* of each hold: none yet, opens, opened, pastes, or answered
  source,    \* the pane it holds the input of, or Nowhere
  turnOf,    \* the turn of what it is to insert
  fresh,     \* the pane it opened
  born,      \* the panes the client knows
  turns,     \* things typed so far
  host,      \* the terminal of each pane
  outcome,   \* of each modal input: none yet, pending, done or refused
  refusals,  \* budget left
  dropped,   \* chunks given up: no pane, terminal full or gone, machine left
  jumped     \* see TypedInOrder

clientVars == <<gate, request, source, turnOf, fresh, born, turns, jumped>>
serverVars == <<host, outcome, refusals>>
inputVars == <<menu, clientVars, serverVars, dropped>>

Parts(j) == IF j = "keys" THEN 1 ELSE 2

\* A client with one pane, or with none yet.
InputInit ==
  /\ menu \in Menus
  /\ gate = EmptyGate
  /\ request = [h \in Holds |-> "none"]
  /\ source = [h \in Holds |-> Nowhere] /\ turnOf = [h \in Holds |-> 0]
  /\ fresh = [h \in Holds |-> None]
  /\ born \in {{}, {CHOOSE p \in Panes : TRUE}}
  /\ turns = 0
  /\ host = [p \in Panes |-> NewHost(None)]
  /\ outcome = [j \in Modals |-> "none"]
  /\ refusals = MaxRefusals /\ dropped = {} /\ jumped = FALSE

-----------------------------------------------------------------------------
(* The client.                                                             *)

Turn == turns < MaxTurns /\ turns' = turns + 1

\* The chunks in those of the holds that have these names.
ChunksOf(holds, H) == UNION {Range(hold.chunks) : hold \in {x \in holds : x.id \in H}}

Open == {h \in Holds : \E hold \in Undecideds(gate) : hold.id = h}

Type(p) ==
  /\ p \in born
  /\ Turn
  /\ gate' = SendInput(gate, p, turns + 1)
  /\ jumped' = (jumped \/ \E h \in Open : fresh[h] = p)
  /\ UNCHANGED <<menu, request, source, turnOf, fresh, born, serverVars, dropped>>

\* Two holds are open, or one that holds for two panes by now.
Crowded == Cardinality(Open) > 1 \/ \E hold \in Undecideds(gate) : Cardinality(hold.sources) > 1

\* A request that opens a pane holds the input of the pane that has the focus; so
\* does the paste of an image, which is to come before what is typed from now on.
TakeHold(h, p, purpose) ==
  /\ h \in menu.holds /\ request[h] = "none"
  /\ p \in born \/ (p = Nowhere /\ born = {} /\ purpose = "opens")
  /\ gate' = HoldInput(gate, h, p)
  /\ source' = [source EXCEPT ![h] = p]
  /\ request' = [request EXCEPT ![h] = purpose]
  /\ IF purpose = "pastes" THEN Turn /\ turnOf' = [turnOf EXCEPT ![h] = turns + 1]
                           ELSE UNCHANGED <<turns, turnOf>>
  /\ jumped' = (jumped \/ Crowded \/ \E i \in Open : fresh[i] = p)
  /\ UNCHANGED <<menu, fresh, born, serverVars, dropped>>

\* The event of the new pane comes before the answer.
PaneAppears(h, p) ==
  /\ request[h] = "opens" /\ p \notin born
  /\ request' = [request EXCEPT ![h] = "opened"]
  /\ fresh' = [fresh EXCEPT ![h] = p]
  /\ born' = born \cup {p}
  /\ UNCHANGED <<menu, gate, source, turnOf, turns, jumped, serverVars, dropped>>

\* A hold ends; what it holds is given up if there is no pane to let it go to.
End(h, target, first) ==
  /\ gate' = Finish(gate, h, target, first)
  /\ dropped' = dropped \cup IF target = Nowhere THEN ChunksOf(Undecideds(gate), {h}) ELSE {}

\* Its time runs out: the input goes where it was typed for.
HoldTimesOut(h) ==
  /\ h \in Open
  /\ End(h, source[h], << >>)
  /\ UNCHANGED <<menu, request, source, turnOf, fresh, born, turns, jumped, serverVars>>

Answered(H) == request' = [h \in Holds |-> IF h \in H THEN "answered" ELSE request[h]]

\* release if the pane is there and on show, cancel if not or if the request fails.
OpeningEnds(h) ==
  /\ \/ request[h] = "opened" /\ End(h, fresh[h], << >>)
     \/ request[h] \in {"opens", "opened"} /\ End(h, source[h], << >>)
  /\ Answered({h})
  /\ UNCHANGED <<menu, source, turnOf, fresh, born, turns, jumped, serverVars>>

\* Pastes end in the order in which they began: cancel(first), or cancel() when
\* there is nothing to insert.
PasteEnds(h, found) ==
  /\ request[h] = "pastes" /\ h \in Open
  /\ \A i \in Holds : request[i] = "pastes" => turnOf[h] <= turnOf[i]
  /\ gate' = Finish(gate, h, source[h], IF found THEN <<turnOf[h]>> ELSE << >>)
  /\ dropped' = IF found THEN dropped ELSE dropped \cup {turnOf[h]}
  /\ Answered({h})
  /\ UNCHANGED <<menu, source, turnOf, fresh, born, turns, jumped, serverVars>>

\* After its time, what a paste inserts is typed like anything else.
PasteEndsLate(h) ==
  /\ request[h] = "pastes" /\ h \notin Open
  /\ \A i \in Holds : request[i] = "pastes" => turnOf[h] <= turnOf[i]
  /\ Turn
  /\ gate' = Finish(gate, h, source[h], <<turns + 1>>)
  /\ dropped' = dropped \cup {turnOf[h]}
  /\ jumped' = (jumped \/ \E i \in Open : fresh[i] = source[h])
  /\ Answered({h})
  /\ UNCHANGED <<menu, source, turnOf, fresh, born, serverVars>>

\* The user goes to another machine: discard().
LeaveMachine ==
  LET pastes == {h \in Holds : request[h] = "pastes"}
  IN  /\ pastes # {}
      /\ gate' = Discard(gate, pastes)
      /\ dropped' = dropped \cup {turnOf[h] : h \in pastes} \cup ChunksOf(Undecideds(gate), pastes)
      /\ Answered(pastes)
      /\ UNCHANGED <<menu, source, turnOf, fresh, born, turns, jumped, serverVars>>

-----------------------------------------------------------------------------
(* The server.                                                             *)

Refuse == refusals > 0 /\ refusals' = refusals - 1

\* An INPUT frame: writeInput, which refuses what the terminal has no room for.
Deliver ==
  LET p == Head(gate.net).to
      x == Head(gate.net).chunk
  IN  /\ gate.net # << >>
      /\ gate' = [gate EXCEPT !.net = Tail(@)]
      /\ \/ /\ host' = [host EXCEPT ![p] = Write(@, x, None)]
            /\ dropped' = IF host[p].open THEN dropped ELSE dropped \cup {x}
            /\ UNCHANGED refusals
         \/ /\ host[p].open
            /\ Refuse
            /\ dropped' = dropped \cup {x}
            /\ UNCHANGED host
      /\ UNCHANGED <<menu, request, source, turnOf, fresh, born, turns, jumped, outcome>>

\* agent.prompt, agent.send_keys, agent.start.
CallWriteModal(p, j) ==
  /\ p \in born /\ host[p].open
  /\ j \in menu.modals /\ outcome[j] = "none"
  /\ outcome' = [outcome EXCEPT ![j] = "pending"]
  /\ host' = [host EXCEPT ![p] = WriteModal(@, j, None)]
  /\ UNCHANGED <<menu, clientVars, refusals, dropped>>

\* A modal input is resolved or rejected, and the queue goes on.
Ends(p, h, result) ==
  /\ outcome' = [outcome EXCEPT ![h.job] = result]
  /\ host' = [host EXCEPT ![p] = DrainQueue(h, None)]

\* build() and the first part; or build() throws, or the terminal is full.
Build(p) ==
  \/ /\ Parts(host[p].job) = 1
     /\ Ends(p, WritePart(host[p], 1), "done")
     /\ UNCHANGED refusals
  \/ /\ Parts(host[p].job) > 1
     /\ host' = [host EXCEPT ![p] = [WritePart(@, 1) EXCEPT !.stage = "delay"]]
     /\ UNCHANGED <<outcome, refusals>>
  \/ /\ Refuse
     /\ Ends(p, host[p], "refused")

At(p, stage) == host[p].job # None /\ host[p].stage = stage

\* The mirror has caught up: the modes are those of the moment.
Flushed(p) ==
  /\ At(p, "flush")
  /\ IF host[p].job = "start"
     THEN host' = [host EXCEPT ![p].stage = "prepare"] /\ UNCHANGED <<outcome, refusals>>
     ELSE Build(p)
  /\ UNCHANGED <<menu, clientVars, dropped>>

Prepared(p) ==
  /\ At(p, "prepare")
  /\ Build(p)
  /\ UNCHANGED <<menu, clientVars, dropped>>

Delayed(p) ==
  /\ At(p, "delay")
  /\ Ends(p, WritePart(host[p], 2), "done")
  /\ UNCHANGED <<menu, clientVars, refusals, dropped>>

\* The program ends, or the pane is closed: what awaits something finds that it is
\* no longer the active job.
PaneGoes(p) ==
  /\ p \in born /\ host[p].open
  /\ host' = [host EXCEPT ![p] = CloseInput(@, None)]
  /\ outcome' = [j \in Modals |-> IF j \in Unfinished(host[p], None) THEN "refused" ELSE outcome[j]]
  /\ dropped' = dropped \cup {item.raw : item \in {q \in Range(host[p].queue) : IsRaw(q)}}
  /\ UNCHANGED <<menu, clientVars, refusals>>

-----------------------------------------------------------------------------
InputNext ==
  \/ \E p \in Panes : Type(p)
  \/ \E h \in Holds, p \in Panes \cup {Nowhere}, purpose \in {"opens", "pastes"} : TakeHold(h, p, purpose)
  \/ \E h \in Holds, p \in Panes : PaneAppears(h, p)
  \/ \E h \in Holds : HoldTimesOut(h)
  \/ \E h \in Holds : OpeningEnds(h)
  \/ \E h \in Holds, found \in BOOLEAN : PasteEnds(h, found)
  \/ \E h \in Holds : PasteEndsLate(h)
  \/ LeaveMachine
  \/ Deliver
  \/ \E p \in Panes, j \in Modals : CallWriteModal(p, j)
  \/ \E p \in Panes : Flushed(p)
  \/ \E p \in Panes : Prepared(p)
  \/ \E p \in Panes : Delayed(p)
  \/ \E p \in Panes : PaneGoes(p)

InputSpec == InputInit /\ [][InputNext]_inputVars

\* Timers fire, the socket delivers, the mirror catches up and checks of the
\* foreground process end.  No request need be answered.
Progress ==
  \/ \E h \in Holds : HoldTimesOut(h)
  \/ Deliver
  \/ \E p \in Panes : Flushed(p) \/ Prepared(p) \/ Delayed(p)

InputFairness == WF_inputVars(Progress)

InputFairSpec == InputSpec /\ InputFairness

-----------------------------------------------------------------------------
\* What a program reads is in the order in which it was typed, also while the focus
\* goes from pane to pane, however the answers of the requests, their time limits,
\* refusals and modal input fall in between.  Excepted (`jumped`): the user turns to
\* a new pane in the moment between its event and the answer that lets go to it, or
\* takes a third hold (the README has the case).
TypedInOrder ==
  jumped \/ \A p \in Panes : LET out == host[p].out
                             IN  \A i, k \in DOMAIN out :
                                   i < k /\ IsRaw(out[i]) /\ IsRaw(out[k]) => out[i].raw < out[k].raw

\* The parts of a modal input reach the program together, with nothing typed in
\* between, and all or none of them unless the terminal went: a text without its
\* Enter, or an Enter for another text, is never left behind.
ModalsWhole ==
  \A p \in Panes, j \in Modals :
    LET out == host[p].out
        at(i) == {k \in DOMAIN out : out[k] = [part |-> i, of |-> j]}
        whole == \A k \in at(1) : \A i \in 2..Parts(j) : k + i - 1 \in at(i)
        atWork == host[p].job = j /\ host[p].stage = "delay" /\ out # << >> /\ Len(out) \in at(1)
    IN  /\ Cardinality(at(1)) <= 1 /\ Cardinality(at(2)) <= Cardinality(at(1))
        /\ at(1) # {} => whole \/ atWork \/ (~host[p].open /\ Len(out) \in at(1))
        /\ at(1) # {} => outcome[j] = IF atWork THEN "pending" ELSE IF whole THEN "done" ELSE "refused"

Read(n) == \E p \in Panes : [raw |-> n] \in Range(host[p].out)

\* When the user pauses and nobody sends more, whatever was typed is read by a
\* program sooner or later, unless it was given up with its terminal or its machine,
\* and every modal input is answered: no hold, queue or terminal keeps anything for
\* ever, whether or not the requests are answered.
NothingKept ==
  <>[] /\ \A n \in 1..turns : \/ n \in dropped \/ Read(n)
                              \/ \E h \in Holds : request[h] = "pastes" /\ turnOf[h] = n
       /\ \A j \in Modals : outcome[j] # "pending"
=============================================================================
