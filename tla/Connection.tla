----------------------------- MODULE Connection -----------------------------
(***************************************************************************)
(* The WebSocket of a client (client-core/src/net/Connection.ts): opening  *)
(* it after a question to GET /api/session, closing it, reconnecting, and  *)
(* aiming it at another machine.  Whatever an await or a callback lets in  *)
(* between - a second call, the close of an old socket, an answer that     *)
(* comes too late - is a step of its own.                                  *)
(*                                                                         *)
(* Who uses it is the host: a "page" (the browser, the TUI) that logs in,  *)
(* retries, detaches and switches machines, or a "link" (RemoteLink in the *)
(* server) that is kicked when its machine comes online and closed once.   *)
(***************************************************************************)
EXTENDS Naturals, FiniteSets

CONSTANTS
  Hosts,       \* the hosts a run explores
  Sockets,     \* identities of sockets, used again once closed
  None,        \* no socket: this.ws = null
  MaxCalls,    \* bound on what the host does
  MaxLosses    \* bound on what the network and the server do to it

ASSUME HostsAssumption == Hosts \subseteq {"page", "link"}
ASSUME NoneAssumption == None \notin Sockets
ASSUME BoundsAssumption == MaxCalls \in Nat /\ MaxLosses \in Nat

VARIABLES
  host,
  ws,               \* this.ws, or None
  sock,             \* the sockets that exist
  pending,          \* requests without an answer
  opening,          \* checkSessionThenOpen awaiting, in the generation targetGen
  verifying,        \* verifySessionThenScheduleReconnect awaiting, likewise
  armed,            \* timers of scheduleReconnect, by afterForbidden
  held,             \* what this.reconnectTimer refers to
  stopped, retargetPending, detachRequested,
  told,             \* the last onConnectionState
  auth,             \* the host shows that a login is needed (onAuthRequired)
  login,            \* the login of the host
  calls, losses,    \* budgets left
  raced             \* connect() was called while an attempt was under way

connVars == <<ws, sock, pending, opening, verifying, armed, held>>
flagVars == <<stopped, retargetPending, detachRequested>>
hostVars == <<told, auth, login>>
vars == <<host, connVars, flagVars, hostVars, calls, losses, raced>>

Kinds == {"plain", "forbidden"}
States == {"connecting", "open", "closing"}

\* A socket: `aimed` says that its target is the current one, `greeted` that its
\* hello was answered; `muted` is onmessage = null.
Socket == [state : States, opened : BOOLEAN, forbidden : BOOLEAN,
           aimed : BOOLEAN, muted : BOOLEAN, greeted : BOOLEAN]
NoSocket == [state |-> "none"]

Request == [kind : {"hello", "detach", "call"}, for : Sockets, on : Sockets]

TypeOK ==
  /\ host \in Hosts
  /\ ws \in Sockets \cup {None}
  /\ sock \in [Sockets -> Socket \cup {NoSocket}]
  /\ pending \subseteq Request
  /\ opening \in Nat /\ verifying \in Nat
  /\ armed \in [Kinds -> Nat]
  /\ held \in Kinds \cup {"none"}
  /\ stopped \in BOOLEAN /\ retargetPending \in BOOLEAN /\ detachRequested \in BOOLEAN
  /\ told \in {"connecting", "open", "reconnecting", "detached", "rejected"}
  /\ auth \in BOOLEAN
  /\ login \in {"idle", "wanted", "sent"}
  /\ calls \in 0..MaxCalls /\ losses \in 0..MaxLosses
  /\ raced \in BOOLEAN

Live(s) == sock[s].state \in {"connecting", "open"}
WsLive == ws # None /\ Live(ws)

\* After the first connect(): main.ts, TuiNet.start, RemoteLink.start.
Init ==
  /\ host \in Hosts
  /\ ws = None /\ sock = [s \in Sockets |-> NoSocket] /\ pending = {}
  /\ opening = 1 /\ verifying = 0
  /\ armed = [k \in Kinds |-> 0] /\ held = "none"
  /\ stopped = FALSE /\ retargetPending = FALSE /\ detachRequested = FALSE
  /\ told = "connecting" /\ auth = FALSE /\ login = "idle"
  /\ calls = MaxCalls /\ losses = MaxLosses
  /\ raced = FALSE

Spend(budget) == budget > 0 /\ budget' = budget - 1

-----------------------------------------------------------------------------
(* What the handlers share.                                                *)

\* store.onConnectionState; the page's store takes the login away on two of them.
Tell(state) ==
  /\ told' = state
  /\ auth' = (auth /\ state \notin {"open", "rejected"})

\* store.onAuthRequired: LoginView, or TuiNet.relogin (which ignores it while a
\* login is on its way).
AuthRequired ==
  /\ auth' = TRUE
  /\ login' = IF login = "sent" THEN "sent" ELSE "wanted"

CancelReconnectTimer ==
  /\ armed' = [k \in Kinds |-> IF k = held THEN armed[k] - 1 ELSE armed[k]]
  /\ held' = "none"

\* new WebSocket: an identity nobody refers to any more.
OpenSocket(forbidden) ==
  \E s \in Sockets :
    /\ sock[s] = NoSocket
    /\ \A p \in pending : s \notin {p.for, p.on}
    /\ sock' = [sock EXCEPT ![s] =
                  [state |-> "connecting", opened |-> FALSE, forbidden |-> forbidden,
                   aimed |-> TRUE, muted |-> FALSE, greeted |-> FALSE]]
    /\ ws' = s

ScheduleReconnect(kind) ==
  /\ Tell("reconnecting")
  /\ armed' = [armed EXCEPT ![kind] = @ + 1]
  /\ held' = kind

\* ws.close() on sockets that need not be this.ws.
Closing(S) ==
  [s \in Sockets |-> IF s \in S /\ Live(s) THEN [sock[s] EXCEPT !.state = "closing"]
                                           ELSE sock[s]]

\* The hello a socket sent is rejected when the requests are: it closes itself.
Greeters == {p.for : p \in {q \in pending : q.kind = "hello"}}

\* What follows the close of this.ws: nothing more to do, a new attempt, a login,
\* or a look at the session before the next attempt.
Rest(state) == Tell(state) /\ UNCHANGED <<opening, verifying, login>>

AfterClose(s, code) ==
  \/ /\ stopped
     /\ Rest("detached")
     /\ UNCHANGED <<retargetPending, detachRequested>>
  \/ /\ ~stopped /\ retargetPending
     /\ retargetPending' = FALSE
     /\ Tell("connecting")
     /\ opening' = opening + 1
     /\ UNCHANGED <<detachRequested, verifying, login>>
  \/ /\ ~stopped /\ ~retargetPending /\ detachRequested
     /\ detachRequested' = FALSE
     /\ Rest("detached")
     /\ UNCHANGED retargetPending
  \/ /\ ~stopped /\ ~retargetPending /\ ~detachRequested
     /\ UNCHANGED <<retargetPending, detachRequested>>
     /\ \/ /\ code = 4401
           /\ AuthRequired
           /\ UNCHANGED <<opening, verifying, told>>
        \/ /\ code # 4401 /\ sock[s].forbidden /\ ~sock[s].opened
           /\ Rest("rejected")
        \/ /\ code # 4401 /\ (sock[s].forbidden => sock[s].opened)
           /\ Tell("reconnecting")
           /\ verifying' = verifying + 1
           /\ UNCHANGED <<opening, login>>

\* The close event of socket s: an old socket changes nothing.
HandleClose(s, code) ==
  \/ /\ s # ws
     /\ sock' = [sock EXCEPT ![s] = NoSocket]
     /\ UNCHANGED <<ws, pending, opening, verifying, retargetPending, detachRequested, hostVars>>
  \/ /\ s = ws
     /\ ws' = None
     /\ sock' = [Closing(Greeters) EXCEPT ![s] = NoSocket]
     /\ pending' = {}
     /\ AfterClose(s, code)

\* connect(): nothing if a socket is open or opening.
Connect ==
  /\ stopped' = FALSE
  /\ IF WsLive
     THEN UNCHANGED <<opening, armed, held, detachRequested, told, auth, raced>>
     ELSE /\ CancelReconnectTimer
          /\ detachRequested' = FALSE
          /\ Tell("connecting")
          /\ opening' = opening + 1
          /\ raced' = (raced \/ opening + verifying > 0 \/ ws # None)
  /\ UNCHANGED <<ws, sock, pending, verifying, retargetPending>>

-----------------------------------------------------------------------------
(* What the host does.                                                     *)

\* The buttons of DetachedView and of the rejected ReconnectOverlay.
Retry ==
  /\ host = "page"
  /\ told \in {"detached", "rejected"} /\ ~auth
  /\ Spend(calls)
  /\ Connect
  /\ UNCHANGED <<host, login, losses>>

\* The login form is sent, or TuiNet.relogin logs in.
StartLogin ==
  /\ login = "wanted" /\ auth
  /\ Spend(calls)
  /\ login' = "sent"
  /\ UNCHANGED <<host, connVars, flagVars, told, auth, losses, raced>>

LoginSucceeds ==
  /\ login = "sent"
  /\ login' = "idle"
  /\ Connect
  /\ UNCHANGED <<host, calls, losses>>

LoginFails ==
  /\ login = "sent"
  /\ login' = "wanted"
  /\ UNCHANGED <<host, connVars, flagVars, told, auth, calls, losses, raced>>

\* RemoteLink.kick: its checks are answered within the turn that asks, so none is
\* awaited here.
Kick ==
  /\ host = "link"
  /\ told # "open" /\ ~stopped
  /\ opening + verifying = 0
  /\ Spend(calls)
  /\ Connect
  /\ UNCHANGED <<host, login, losses>>

\* Mutant: no new generation, the checks under way go on.
RetargetKeepingChecks ==
  /\ host = "page"
  /\ Spend(calls)
  /\ stopped' = FALSE
  /\ UNCHANGED verifying
  /\ CancelReconnectTimer
  /\ detachRequested' = FALSE
  /\ Tell("connecting")
  /\ LET aimless == [s \in Sockets |-> IF sock[s] = NoSocket THEN NoSocket
                                       ELSE [sock[s] EXCEPT !.aimed = FALSE]]
     IN  IF ws # None
         THEN /\ retargetPending' = TRUE
              /\ UNCHANGED opening
              /\ sock' = [aimless EXCEPT ![ws].muted = TRUE, ![ws].state = "closing"]
         ELSE /\ opening' = opening + 1
              /\ sock' = aimless
              /\ UNCHANGED retargetPending
  /\ UNCHANGED <<host, ws, pending, login, losses, raced>>

\* Mutant: a close is awaited also without a socket.
RetargetAwaitingClose ==
  /\ host = "page"
  /\ Spend(calls)
  /\ stopped' = FALSE
  /\ verifying' = 0
  /\ CancelReconnectTimer
  /\ detachRequested' = FALSE
  /\ Tell("connecting")
  /\ LET aimless == [s \in Sockets |-> IF sock[s] = NoSocket THEN NoSocket
                                       ELSE [sock[s] EXCEPT !.aimed = FALSE]]
     IN  IF ws # None
         THEN /\ retargetPending' = TRUE
              /\ opening' = 0
              /\ sock' = [aimless EXCEPT ![ws].muted = TRUE, ![ws].state = "closing"]
         ELSE /\ opening' = 0
              /\ sock' = aimless
              /\ retargetPending' = TRUE
  /\ UNCHANGED <<host, ws, pending, login, losses, raced>>

\* Mutant: the old socket is still listened to.
RetargetUnmuted ==
  /\ host = "page"
  /\ Spend(calls)
  /\ stopped' = FALSE
  /\ verifying' = 0
  /\ CancelReconnectTimer
  /\ detachRequested' = FALSE
  /\ Tell("connecting")
  /\ LET aimless == [s \in Sockets |-> IF sock[s] = NoSocket THEN NoSocket
                                       ELSE [sock[s] EXCEPT !.aimed = FALSE]]
     IN  IF ws # None
         THEN /\ retargetPending' = TRUE
              /\ opening' = 0
              /\ sock' = [aimless EXCEPT ![ws].state = "closing"]
         ELSE /\ opening' = 1
              /\ sock' = aimless
              /\ UNCHANGED retargetPending
  /\ UNCHANGED <<host, ws, pending, login, losses, raced>>

\* retarget(): by the user, or when the selected machine goes.  The checks under
\* way are of an older generation now: they do nothing when answered.  Without a
\* socket no close is awaited (retargetPending is false then).
Retarget ==
  /\ host = "page"
  /\ Spend(calls)
  /\ stopped' = FALSE
  /\ verifying' = 0
  /\ CancelReconnectTimer
  /\ detachRequested' = FALSE
  /\ Tell("connecting")
  /\ LET aimless == [s \in Sockets |-> IF sock[s] = NoSocket THEN NoSocket
                                       ELSE [sock[s] EXCEPT !.aimed = FALSE]]
     IN  IF ws # None
         THEN /\ retargetPending' = TRUE
              /\ opening' = 0
              /\ sock' = [aimless EXCEPT ![ws].muted = TRUE, ![ws].state = "closing"]
         ELSE /\ opening' = 1
              /\ sock' = aimless
              /\ UNCHANGED retargetPending
  /\ UNCHANGED <<host, ws, pending, login, losses, raced>>

\* disconnect(): the close of a link's socket is handled within the call.
Disconnect ==
  /\ host = "link" /\ ~stopped
  /\ Spend(calls)
  /\ stopped' = TRUE
  /\ opening' = 0 /\ verifying' = 0
  /\ CancelReconnectTimer
  /\ retargetPending' = FALSE
  /\ Tell("detached")
  /\ ws' = None
  /\ sock' = [s \in Sockets |-> IF s = ws THEN NoSocket ELSE sock[s]]
  /\ pending' = IF ws = None THEN pending ELSE {}
  /\ UNCHANGED <<host, detachRequested, login, losses, raced>>

\* request() of the host; client.detach is one of them.
Ask(kind) ==
  /\ ws # None /\ sock[ws].state = "open"
  /\ kind = "detach" => host = "page" /\ told = "open"
  /\ [kind |-> kind, for |-> ws, on |-> ws] \notin pending
  /\ Spend(calls)
  /\ pending' = pending \cup {[kind |-> kind, for |-> ws, on |-> ws]}
  /\ detachRequested' = (detachRequested \/ kind = "detach")
  /\ UNCHANGED <<host, ws, sock, opening, verifying, armed, held, stopped, retargetPending,
                 hostVars, losses, raced>>

-----------------------------------------------------------------------------
(* What comes back.                                                        *)

Answers == IF host = "link" THEN {"ok"} ELSE {"ok", "unauthorized", "forbidden", "unknown"}

KindOf(answer) == IF answer = "forbidden" THEN "forbidden" ELSE "plain"

\* The answer of /api/session to checkSessionThenOpen.
OpeningAnswered(answer) ==
  /\ opening > 0
  /\ opening' = opening - 1
  /\ IF answer = "unauthorized"
     THEN AuthRequired /\ UNCHANGED <<ws, sock>>
     ELSE OpenSocket(answer = "forbidden") /\ UNCHANGED <<auth, login>>
  /\ UNCHANGED <<host, pending, verifying, armed, held, flagVars, told, calls, losses, raced>>

\* The answer of /api/session after a socket was lost.
VerifyingAnswered(answer) ==
  /\ verifying > 0
  /\ verifying' = verifying - 1
  /\ IF answer = "unauthorized"
     THEN AuthRequired /\ UNCHANGED <<told, armed, held>>
     ELSE ScheduleReconnect(KindOf(answer)) /\ UNCHANGED login
  /\ UNCHANGED <<host, ws, sock, pending, opening, flagVars, calls, losses, raced>>

TimerFires(kind) ==
  /\ armed[kind] > 0
  /\ armed' = [armed EXCEPT ![kind] = @ - 1]
  /\ held' = "none"
  /\ OpenSocket(kind = "forbidden")
  /\ UNCHANGED <<host, pending, opening, verifying, flagVars, hostVars, calls, losses, raced>>

\* onopen: the hello goes out on this.ws, whichever socket that is by now.
SocketOpens(s) ==
  LET opens == [sock EXCEPT ![s].state = "open", ![s].opened = TRUE]
  IN  /\ sock[s].state = "connecting"
      /\ IF ws # None /\ opens[ws].state = "open"
         THEN /\ sock' = opens
              /\ pending' = pending \cup {[kind |-> "hello", for |-> s, on |-> ws]}
         ELSE /\ sock' = [opens EXCEPT ![s].state = "closing"]
              /\ UNCHANGED pending
      /\ UNCHANGED <<host, ws, opening, verifying, armed, held, flagVars, hostVars, calls, losses, raced>>

\* A message still comes in on a socket that closes, unless it was muted.
Heard(s) == sock[s].state = "open" \/ (sock[s].state = "closing" /\ ~sock[s].muted)

HelloAnswered(p) ==
  /\ p.kind = "hello" /\ Heard(p.on)
  /\ pending' = pending \ {p}
  /\ IF p.for = ws
     THEN /\ Tell("open")
          /\ sock' = [sock EXCEPT ![ws].greeted = TRUE]
     ELSE UNCHANGED <<told, auth, sock>>
  /\ UNCHANGED <<host, ws, opening, verifying, armed, held, flagVars, login, calls, losses, raced>>

\* Mutant: the socket of a refused hello stays open.
HelloRefusedKept(p) ==
  /\ p.kind = "hello" /\ Heard(p.on)
  /\ Spend(losses)
  /\ pending' = pending \ {p}
  /\ UNCHANGED <<host, ws, sock, opening, verifying, armed, held, flagVars, hostVars, calls, raced>>

\* The hello is refused: the socket is closed, a link's at once.
HelloRefused(p) ==
  /\ p.kind = "hello" /\ Heard(p.on)
  /\ Spend(losses)
  /\ \/ /\ host = "link"
        /\ HandleClose(p.for, 1000)
     \/ /\ host = "page"
        /\ pending' = pending \ {p}
        /\ sock' = Closing({p.for})
        /\ UNCHANGED <<ws, opening, verifying, retargetPending, detachRequested, hostVars>>
  /\ UNCHANGED <<host, armed, held, stopped, calls, raced>>

Answered(p) ==
  /\ p.kind # "hello" /\ Heard(p.on)
  /\ pending' = pending \ {p}
  /\ UNCHANGED <<host, ws, sock, opening, verifying, armed, held, flagVars, hostVars, calls, losses, raced>>

\* The server or the network takes a socket away: before it opens, or later; 4401
\* is the server's, for a session it no longer accepts.
SocketLost(s, code) ==
  /\ Live(s)
  /\ code = 4401 => host = "page" /\ sock[s].opened
  /\ Spend(losses)
  /\ HandleClose(s, code)
  /\ UNCHANGED <<host, armed, held, stopped, calls, raced>>

\* The closing handshake of the server: the close event is still to come.
SocketLeaving(s) ==
  /\ host = "page" /\ sock[s].state = "open"
  /\ Spend(losses)
  /\ sock' = Closing({s})
  /\ UNCHANGED <<host, ws, pending, opening, verifying, armed, held, flagVars, hostVars, calls, raced>>

\* A close that was begun ends.
SocketClosed(s) ==
  /\ sock[s].state = "closing"
  /\ HandleClose(s, 1000)
  /\ UNCHANGED <<host, armed, held, stopped, calls, losses, raced>>

-----------------------------------------------------------------------------
Next ==
  \/ Retry
  \/ StartLogin
  \/ LoginSucceeds
  \/ LoginFails
  \/ Kick
  \/ Retarget
  \/ Disconnect
  \/ \E kind \in {"call", "detach"} : Ask(kind)
  \/ \E answer \in Answers : OpeningAnswered(answer)
  \/ \E answer \in Answers : VerifyingAnswered(answer)
  \/ \E kind \in Kinds : TimerFires(kind)
  \/ \E s \in Sockets : SocketOpens(s)
  \/ \E p \in pending : HelloAnswered(p)
  \/ \E p \in pending : HelloRefused(p)
  \/ \E p \in pending : Answered(p)
  \/ \E s \in Sockets, code \in {1006, 4401} : SocketLost(s, code)
  \/ \E s \in Sockets : SocketLeaving(s)
  \/ \E s \in Sockets : SocketClosed(s)

Spec == Init /\ [][Next]_vars

\* Fetches are answered, timers fire, sockets open or fail, closes end, and the
\* server answers a hello.  What the host or the network may do, it need not do.
Fairness ==
  /\ WF_vars(\E answer \in Answers : OpeningAnswered(answer))
  /\ WF_vars(\E answer \in Answers : VerifyingAnswered(answer))
  /\ WF_vars(\E kind \in Kinds : TimerFires(kind))
  /\ \A s \in Sockets : WF_vars(SocketOpens(s))
  /\ \A s \in Sockets : WF_vars(SocketClosed(s))
  /\ WF_vars(\E p \in pending : HelloAnswered(p))

FairSpec == Spec /\ Fairness

-----------------------------------------------------------------------------
\* One socket at a time is open or opening: what the comment on targetGen
\* (Connection.ts:91) says the generation of a check is for.
OneSocket == \A s, t \in Sockets : Live(s) /\ Live(t) => s = t

\* Two sockets are open only after a connect() during an attempt (Connection.ts:149
\* asks whether a socket is open, not whether one is about to be): retarget,
\* disconnect, timers, checks and closes among themselves never open a second.
OneSocketUnlessRaced == raced \/ OneSocket

\* The host is told "connecting" or "reconnecting" only while a check, a timer or a
\* socket will lead on: no close, retarget or late answer leaves it waiting for an
\* attempt that nobody makes.
NeverStranded ==
  (told \in {"connecting", "reconnecting"} /\ ~auth) =>
    \/ opening + verifying > 0
    \/ \E kind \in Kinds : armed[kind] > 0
    \/ ws # None

\* The host takes input for "open" (D95): then this.ws is a socket to the current
\* target whose hello was answered, not one that was opened or aimed since.
OpenIsUsable ==
  (told = "open" /\ ~auth /\ ~raced) =>
    ws # None /\ sock[ws].greeted /\ sock[ws].aimed

\* After disconnect() nothing is opened any more, whatever was under way when it
\* was called.
StoppedIsDown ==
  stopped =>
    /\ opening + verifying = 0
    /\ \A kind \in Kinds : armed[kind] = 0
    /\ \A s \in Sockets : ~Live(s)

\* Every request is answered or rejected: none outlives the socket it was sent on.
RequestsFollowSocket == raced \/ \A p \in pending : p.on = ws

\* A connection that is being made is made, unless it ends in a state that asks
\* for the user: the checks, timers and sockets of an attempt hand on to each other.
Recovers ==
  told \in {"connecting", "reconnecting"} ~> (auth \/ told \in {"open", "detached", "rejected"})
=============================================================================
