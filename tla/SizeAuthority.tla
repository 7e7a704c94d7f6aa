--------------------------- MODULE SizeAuthority ---------------------------
(***************************************************************************)
(* Who decides the size of the panes (server/src/clients/SizeAuthority.ts  *)
(* and ClientRegistry.ts): per tab the owner, a connected client that may  *)
(* decide, and per pane the client attached to it.  Clients come and go,   *)
(* say what kind they are and what they show; panes open, close and move   *)
(* between tabs.  Each handler runs in one turn of the event loop.         *)
(*                                                                         *)
(* A window has one size here, for every pane it shows.                    *)
(***************************************************************************)
EXTENDS IdList

CONSTANTS
  Clients,    \* identities of connections, used again once closed
  Tabs,       \* identities of tabs ...
  Panes,      \* ... and panes, used again when nobody refers to them
  None,
  Sizes,
  MaxCalls    \* bound on the steps of a run

ASSUME NoneAssumption == None \notin Clients \cup Tabs \cup Panes
ASSUME CallsAssumption == MaxCalls \in Nat
ASSUME SizesAssumption == 0 \notin Sizes

VARIABLES
  m,         \* the registry, the owners, the attachments and the panes
  calls,     \* steps left
  excused,   \* panes that changed tab and do not have the owner's size since
  promoted   \* clients that became a desktop after they told what they show

vars == <<m, calls, excused, promoted>>

Views == [tab : Tabs, visible : (SUBSET Panes) \ {{}}, n : Sizes]
NoView == [tab |-> None]

TypeOK ==
  /\ m.recent \in Seq(Clients) /\ IsInjective(m.recent)
  /\ m.desktop \subseteq Clients /\ m.fit \subseteq Clients
  /\ m.view \in [Clients -> Views \cup {NoView}]
  /\ m.owner \in [Tabs -> Clients \cup {None}]
  /\ m.attachments \in [Panes -> Clients \cup {None}]
  /\ m.tabOf \in [Panes -> Tabs \cup {None}]
  /\ m.size \in [Panes -> Sizes \cup {0}]
  /\ calls \in 0..MaxCalls
  /\ excused \subseteq Panes /\ promoted \subseteq Clients

\* The registry: `recent` are the connected clients, latest interaction last.
Connected(s) == Range(s.recent)
LivePanes(s) == {p \in Panes : s.tabOf[p] # None}
LiveTabs(s) == {s.tabOf[p] : p \in LivePanes(s)}

canDecideSize(s, c) == c \in s.desktop \cup s.fit

\* A session with one pane.
Init ==
  /\ \E p \in Panes, t \in Tabs :
       m = [recent |-> << >>, desktop |-> {}, fit |-> {},
            view |-> [c \in Clients |-> NoView],
            owner |-> [u \in Tabs |-> None],
            attachments |-> [q \in Panes |-> None],
            tabOf |-> [q \in Panes |-> IF q = p THEN t ELSE None],
            size |-> [q \in Panes |-> 0]]
  /\ calls = MaxCalls
  /\ excused = {} /\ promoted = {}

-----------------------------------------------------------------------------
(* What the handlers are made of.                                          *)

\* The size a pane gets from the owner of its tab, if the owner shows it there.
Shows(s, c, p) == s.view[c].tab = s.tabOf[p] /\ p \in s.view[c].visible
Ruled(s, p) ==
  /\ s.tabOf[p] # None
  /\ s.owner[s.tabOf[p]] # None
  /\ Shows(s, s.owner[s.tabOf[p]], p)
  /\ s.attachments[p] = None
RuledSize(s, p) == s.view[s.owner[s.tabOf[p]]].n

\* applyOwnerSize, for the owners of the tabs T.
ApplyOwnerSize(s, T) ==
  [s EXCEPT !.size = [p \in Panes |-> IF s.tabOf[p] \in T /\ Ruled(s, p) THEN RuledSize(s, p)
                                                                        ELSE s.size[p]]]

Touch(s, c) ==
  IF c \in Connected(s) THEN [s EXCEPT !.recent = Append(Without(@, c), c)] ELSE s

Claim(s, c, t) ==
  IF t \notin LiveTabs(s) \/ s.owner[t] = c THEN s
  ELSE ApplyOwnerSize([s EXCEPT !.owner[t] = c], {t})

\* Mutant: only a desktop is handed the tab.
HeirDesktop(s, t, c) ==
  LET candidates == {i \in DOMAIN s.recent : /\ s.recent[i] # c /\ s.recent[i] \in s.desktop
                                             /\ s.view[s.recent[i]].tab = t}
  IN  IF candidates = {} THEN None
      ELSE s.recent[CHOOSE i \in candidates : \A j \in candidates : j <= i]

\* The latest of the others that show the tab and may decide.
Heir(s, t, c) ==
  LET candidates == {i \in DOMAIN s.recent : /\ s.recent[i] # c /\ canDecideSize(s, s.recent[i])
                                             /\ s.view[s.recent[i]].tab = t}
  IN  IF candidates = {} THEN None
      ELSE s.recent[CHOOSE i \in candidates : \A j \in candidates : j <= i]

TransferOwnership(s, T, c) ==
  ApplyOwnerSize([s EXCEPT !.owner = [t \in Tabs |-> IF t \in T THEN Heir(s, t, c) ELSE @[t]]], T)

OwnedTabs(s, c) == {t \in Tabs : s.owner[t] = c}

ReleaseIfUnqualified(s, c) ==
  IF canDecideSize(s, c) THEN s ELSE TransferOwnership(s, OwnedTabs(s, c), c)

\* Mutant: the size stays the attached client's.
ReleaseAttachmentsKeepingSize(s, P) ==
  [s EXCEPT !.attachments = [p \in Panes |-> IF p \in P THEN None ELSE @[p]]]

\* The panes P lose their attachment and get the size of the owner of their tab.
ReleaseAttachments(s, P) ==
  ApplyOwnerSize([s EXCEPT !.attachments = [p \in Panes |-> IF p \in P THEN None ELSE @[p]]],
                 {s.tabOf[p] : p \in P \cap LivePanes(s)})

NoteInteraction(s, c, p) ==
  IF c \in Connected(s) /\ canDecideSize(s, c) /\ p \in LivePanes(s)
  THEN Claim(Touch(s, c), c, s.tabOf[p])
  ELSE Touch(s, c)

Obeys(s, p) == Ruled(s, p) => s.size[p] = RuledSize(s, p)

\* Every step: one handler, within the budget.
Become(s, moved) ==
  /\ calls > 0 /\ calls' = calls - 1
  /\ m' = s
  /\ excused' = {p \in excused \cup moved : ~Obeys(s, p)}

-----------------------------------------------------------------------------
(* The connection of a client, and what it says of itself.                 *)

\* register(): a desktop until its hello.
CallConnect(c) ==
  /\ c \notin Connected(m)
  /\ Become([m EXCEPT !.recent = Append(@, c), !.desktop = @ \cup {c}], {})
  /\ UNCHANGED promoted

\* Mutant: a hello changes the kind and nothing else.
HelloKeepingTabs(c, desktop) ==
  /\ c \in Connected(m)
  /\ Become([m EXCEPT !.desktop = IF desktop THEN @ \cup {c} ELSE @ \ {c}], {})
  /\ promoted' = IF desktop /\ c \notin m.desktop /\ m.view[c] # NoView THEN promoted \cup {c} ELSE promoted

\* client.hello: a kind other than desktop is a mobile or an external client.
CallHello(c, desktop) ==
  LET said == [m EXCEPT !.desktop = IF desktop THEN @ \cup {c} ELSE @ \ {c}]
  IN  /\ c \in Connected(m)
      /\ Become(ReleaseIfUnqualified(said, c), {})
      /\ promoted' = IF desktop /\ c \notin m.desktop /\ m.view[c] # NoView THEN promoted \cup {c} ELSE promoted

\* client.view, maybe of a tab or panes that went or moved meanwhile.
CallView(c, v) ==
  LET shown == [m EXCEPT !.view[c] = v]
      t == v.tab
  IN  /\ c \in Connected(m)
      /\ promoted' = promoted \ {c}
      /\ Become(
           CASE t \notin LiveTabs(m) -> shown
             [] t \in LiveTabs(m) /\ ~canDecideSize(m, c) ->
                  IF m.owner[t] = c THEN TransferOwnership(shown, {t}, c) ELSE shown
             [] t \in LiveTabs(m) /\ canDecideSize(m, c) ->
                  IF m.owner[t] \in {c, None}
                  THEN ApplyOwnerSize([shown EXCEPT !.owner[t] = c], {t})
                  ELSE shown, {})

\* client.fit: taken for the tab on show, or given up.
CallFit(c, on) ==
  LET fitted == [m EXCEPT !.fit = IF on THEN @ \cup {c} ELSE @ \ {c}]
  IN  /\ c \in Connected(m)
      /\ Become(CASE on /\ m.view[c] = NoView -> fitted
                  [] on /\ m.view[c] # NoView -> Claim(Touch(fitted, c), c, m.view[c].tab)
                  [] ~on -> ReleaseIfUnqualified(fitted, c), {})
      /\ UNCHANGED promoted

\* onClose: first the tabs, then the attachments, then the registry forgets it.
CallGone(c) ==
  LET passed == TransferOwnership(m, OwnedTabs(m, c), c)
      freed == ReleaseAttachments(passed, {p \in Panes : m.attachments[p] = c})
  IN  /\ c \in Connected(m)
      /\ Become([freed EXCEPT !.recent = Without(@, c), !.desktop = @ \ {c}, !.fit = @ \ {c},
                              !.view[c] = NoView], {})
      /\ promoted' = promoted \ {c}

\* Input, focus and the like.
CallInteract(c, p) ==
  /\ c \in Connected(m) /\ p \in LivePanes(m)
  /\ Become(NoteInteraction(m, c, p), {})
  /\ UNCHANGED promoted

-----------------------------------------------------------------------------
(* Attachments.                                                            *)

CallAttach(c, p, n, takeover) ==
  /\ c \in Connected(m) /\ p \in LivePanes(m)
  /\ m.attachments[p] \in {c, None} \/ takeover
  /\ Become([m EXCEPT !.attachments[p] = c, !.size[p] = n], {})
  /\ UNCHANGED promoted

CallResizeAttached(c, p, n) ==
  /\ c \in Connected(m) /\ p \in LivePanes(m)
  /\ m.attachments[p] = c
  /\ Become([m EXCEPT !.size[p] = n], {})
  /\ UNCHANGED promoted

CallDetach(c, p) ==
  /\ c \in Connected(m)
  /\ m.attachments[p] = c
  /\ Become(ReleaseAttachments(m, {p}), {})
  /\ UNCHANGED promoted

-----------------------------------------------------------------------------
(* The session.                                                            *)

FreshPane(p) ==
  /\ p \notin LivePanes(m) /\ m.attachments[p] = None
  /\ \A c \in Clients : m.view[c] # NoView => p \notin m.view[c].visible
FreshTab(t) == t \notin LiveTabs(m) /\ \A c \in Clients : m.view[c].tab # t

\* A pane opens, for a client that may have gone while its shell started.
CallOpen(c, p, t) ==
  LET opened == [m EXCEPT !.tabOf[p] = t, !.size[p] = 0]
  IN  /\ FreshPane(p) /\ (t \in LiveTabs(m) \/ FreshTab(t))
      /\ Become(NoteInteraction(opened, c, p), {p})
      /\ UNCHANGED promoted

\* A tab goes with its last pane, and its owner with it.
WithoutOwners(s) == [s EXCEPT !.owner = [t \in Tabs |-> IF t \in LiveTabs(s) THEN @[t] ELSE None]]

CallMove(c, p, t) ==
  /\ c \in Connected(m) /\ p \in LivePanes(m)
  /\ t # m.tabOf[p] /\ (t \in LiveTabs(m) \/ FreshTab(t))
  /\ Become(NoteInteraction(WithoutOwners([m EXCEPT !.tabOf[p] = t]), c, p), {p})
  /\ UNCHANGED promoted

PaneCloses(p) ==
  /\ p \in LivePanes(m)
  /\ Become(WithoutOwners([m EXCEPT !.tabOf[p] = None]), {})
  /\ UNCHANGED promoted

-----------------------------------------------------------------------------
Next ==
  \/ \E c \in Clients : CallConnect(c)
  \/ \E c \in Clients, desktop \in BOOLEAN : CallHello(c, desktop)
  \/ \E c \in Clients, v \in Views : CallView(c, v)
  \/ \E c \in Clients, on \in BOOLEAN : CallFit(c, on)
  \/ \E c \in Clients : CallGone(c)
  \/ \E c \in Clients, p \in Panes : CallInteract(c, p)
  \/ \E c \in Clients, p \in Panes, n \in Sizes, takeover \in BOOLEAN : CallAttach(c, p, n, takeover)
  \/ \E c \in Clients, p \in Panes, n \in Sizes : CallResizeAttached(c, p, n)
  \/ \E c \in Clients, p \in Panes : CallDetach(c, p)
  \/ \E c \in Clients, p \in Panes, t \in Tabs : CallOpen(c, p, t)
  \/ \E c \in Clients, p \in Panes, t \in Tabs : CallMove(c, p, t)
  \/ \E p \in Panes : PaneCloses(p)

Spec == Init /\ [][Next]_vars

-----------------------------------------------------------------------------
\* The owner of a tab is connected and may decide, whatever it and others have
\* said of themselves since, and an attached client is connected (D106).
OwnersMayDecide ==
  /\ \A t \in Tabs : m.owner[t] # None => m.owner[t] \in Connected(m) /\ canDecideSize(m, m.owner[t])
  /\ \A p \in Panes : m.attachments[p] # None => m.attachments[p] \in Connected(m)

\* A pane nobody is attached to has the size at which the owner of its tab shows
\* it, however ownership and attachments have passed on; a pane that opened or
\* changed tab gets it with the owner's next view.
SizesFollowOwner == \A p \in Panes \ excused : Obeys(m, p)

\* A tab is without owner only while nobody who may decide shows it: a transfer
\* never drops a tab that somebody could have had.
NobodyPassedOver ==
  \A t \in LiveTabs(m), c \in Connected(m) \ promoted :
    m.owner[t] = None => ~(m.view[c].tab = t /\ canDecideSize(m, c))
=============================================================================
