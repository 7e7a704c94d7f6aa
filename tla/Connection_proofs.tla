------------------------- MODULE Connection_proofs -------------------------
(***************************************************************************)
(* Proofs about the connection, for any number of sockets, calls and       *)
(* losses.  The inductive invariant has two halves.  Grounded holds in     *)
(* every state; Calm says that an attempt is one thing at a time - a       *)
(* check, a timer or a socket - and holds until connect() is called during *)
(* an attempt (`raced`).                                                   *)
(***************************************************************************)
EXTENDS Connection, TLAPS

Tallies == opening + verifying + armed["plain"] + armed["forbidden"]

Grounded ==
  /\ held # "none" => armed[held] > 0
  /\ ws # None => sock[ws] # NoSocket
  /\ retargetPending => ws # None
  /\ stopped => host = "link"
  /\ host = "link" => /\ ~auth /\ login = "idle" /\ ~raced /\ ~retargetPending
                      /\ \A s \in Sockets : sock[s].state # "closing"

Calm ==
  /\ Tallies <= 1
  /\ ws # None => Tallies = 0
  /\ \A k \in Kinds : armed[k] > 0 => held = k
  /\ \A s \in Sockets : Live(s) => s = ws
  /\ \A p \in pending : p.on = ws /\ p.for = ws
  /\ ws # None => \/ sock[ws].aimed
                  \/ sock[ws].state = "closing" /\ sock[ws].muted
  /\ stopped => Tallies = 0 /\ ws = None

IInv == TypeOK /\ Grounded /\ NeverStranded /\ (raced \/ (Calm /\ OpenIsUsable))

-----------------------------------------------------------------------------
LEMMA InitInv == Init => IInv
<1> SUFFICES ASSUME Init PROVE IInv
  OBVIOUS
<1>1. TypeOK
  <2>1. sock \in [Sockets -> Socket \cup {NoSocket}] /\ armed \in [Kinds -> Nat]
    BY DEF Init
  <2>2. /\ opening \in Nat /\ verifying \in Nat
        /\ calls \in 0..MaxCalls /\ losses \in 0..MaxLosses
    BY BoundsAssumption DEF Init
  <2> QED BY <2>1, <2>2, Zenon DEF Init, TypeOK
<1>2. Grounded /\ NeverStranded /\ OpenIsUsable
  BY NoneAssumption DEF Init, Grounded, NeverStranded, OpenIsUsable, NoSocket
<1>3. Calm
  BY DEF Init, Calm, Tallies, Kinds, Live, NoSocket
<1> QED BY <1>1, <1>2, <1>3 DEF IInv

\* What a new socket leaves: it is this.ws, alone if nothing was live.
LEMMA OpenSocketStep ==
  ASSUME TypeOK, Grounded, NEW forbidden \in BOOLEAN, OpenSocket(forbidden)
  PROVE  /\ ws' \in Sockets /\ ws' # None
         /\ sock' \in [Sockets -> Socket \cup {NoSocket}]
         /\ sock'[ws'] # NoSocket /\ sock'[ws'].aimed /\ sock'[ws'].state = "connecting"
         /\ \A s \in Sockets : s # ws' => sock'[s] = sock[s]
         /\ sock[ws'] = NoSocket
<1>1. PICK s \in Sockets :
        /\ sock[s] = NoSocket
        /\ sock' = [sock EXCEPT ![s] =
                     [state |-> "connecting", opened |-> FALSE, forbidden |-> forbidden,
                      aimed |-> TRUE, muted |-> FALSE, greeted |-> FALSE]]
        /\ ws' = s
  BY DEF OpenSocket
<1> QED BY <1>1, NoneAssumption DEF TypeOK, Socket, NoSocket, States

LEMMA CancelStep ==
  ASSUME TypeOK, Grounded, CancelReconnectTimer
  PROVE  /\ armed' \in [Kinds -> Nat] /\ held' = "none"
         /\ Calm => armed'["plain"] = 0 /\ armed'["forbidden"] = 0
<1>1. \A k \in Kinds : armed'[k] = IF k = held THEN armed[k] - 1 ELSE armed[k]
  BY DEF CancelReconnectTimer, TypeOK
<1>2. armed' \in [Kinds -> Nat]
  <2>1. \A k \in Kinds : (IF k = held THEN armed[k] - 1 ELSE armed[k]) \in Nat
    BY DEF TypeOK, Grounded, Kinds
  <2> QED BY <2>1 DEF CancelReconnectTimer
<1>3. Calm => armed'["plain"] = 0 /\ armed'["forbidden"] = 0
  <2> SUFFICES ASSUME Calm, NEW k \in Kinds PROVE armed'[k] = 0
    BY DEF Kinds
  <2>1. armed[k] \in Nat /\ armed[k] <= 1
    BY DEF Calm, Tallies, Kinds, TypeOK
  <2>2. armed[k] > 0 => k = held
    BY DEF Calm
  <2>3. CASE k = held
    <3>1. armed[k] > 0
      BY <2>3 DEF Grounded, Kinds
    <3> QED BY <1>1, <2>1, <2>3, <3>1
  <2>4. CASE k # held
    BY <1>1, <2>1, <2>2, <2>4
  <2> QED BY <2>3, <2>4
<1> QED BY <1>2, <1>3 DEF CancelReconnectTimer

-----------------------------------------------------------------------------
LEMMA PositiveSum == ASSUME NEW a \in Nat, NEW b \in Nat, a # 0 PROVE a + b > 0
OBVIOUS

LEMMA ZeroSum ==
  ASSUME NEW a \in Nat, NEW b \in Nat, NEW c \in Nat, NEW d \in Nat, a + b + c + d = 0
  PROVE  a = 0 /\ b = 0 /\ c = 0 /\ d = 0
OBVIOUS

LEMMA SpendStep ==
  ASSUME NEW n, NEW max \in Nat, n \in 0..max, NEW left, n > 0, left = n - 1
  PROVE  left \in 0..max
OBVIOUS

LEMMA TellStep ==
  ASSUME TypeOK, NEW state, Tell(state)
  PROVE  /\ told' = state /\ auth' \in BOOLEAN
         /\ auth' => auth
         /\ auth /\ ~auth' => state \in {"open", "rejected"}
BY DEF Tell, TypeOK

LEMMA ClosingStep ==
  ASSUME TypeOK, NEW S
  PROVE  /\ Closing(S) \in [Sockets -> Socket \cup {NoSocket}]
         /\ \A t \in Sockets :
              \/ Closing(S)[t] = sock[t] /\ (t \notin S \/ ~Live(t))
              \/ /\ t \in S /\ Live(t) /\ sock[t] \in Socket
                 /\ Closing(S)[t] = [sock[t] EXCEPT !.state = "closing"]
<1> DEFINE new(t) == IF t \in S /\ Live(t) THEN [sock[t] EXCEPT !.state = "closing"] ELSE sock[t]
<1>1. \A t \in Sockets : Live(t) => sock[t] \in Socket
  BY DEF TypeOK, Live, NoSocket
<1>2. \A t \in Sockets : new(t) \in Socket \cup {NoSocket}
  <2> TAKE t \in Sockets
  <2>1. CASE t \in S /\ Live(t)
    BY <1>1, <2>1 DEF Socket, States
  <2>2. CASE ~(t \in S /\ Live(t))
    BY <2>2 DEF TypeOK
  <2> QED BY <2>1, <2>2
<1>3. Closing(S) = [t \in Sockets |-> new(t)]
  BY DEF Closing
<1> HIDE DEF new
<1>4. Closing(S) \in [Sockets -> Socket \cup {NoSocket}] /\ \A t \in Sockets : Closing(S)[t] = new(t)
  BY <1>2, <1>3
<1> QED BY <1>1, <1>4 DEF new

\* What comes of the close of this.ws: nothing is left to retarget, and the host is
\* told the end, has a login to do, or is told of an attempt that has begun.
Settled ==
  /\ retargetPending' = FALSE /\ detachRequested' \in BOOLEAN
  /\ auth' \in BOOLEAN /\ login' \in {"idle", "wanted", "sent"}

EndsHere ==
  /\ told' \in {"detached", "rejected"}
  /\ UNCHANGED <<opening, verifying, login>> /\ (auth' => auth)

AsksLogin ==
  /\ ~stopped /\ auth' /\ host = "page"
  /\ UNCHANGED <<opening, verifying, told>>

GoesOn ==
  /\ ~stopped /\ told' \in {"connecting", "reconnecting"}
  /\ auth' = auth /\ login' = login
  /\ \/ opening' = opening + 1 /\ verifying' = verifying
     \/ opening' = opening /\ verifying' = verifying + 1

WayOn == Settled /\ (EndsHere \/ AsksLogin \/ GoesOn)

LEMMA AfterCloseStep ==
  ASSUME TypeOK, Grounded, NEW s, NEW code, code = 4401 => host = "page", AfterClose(s, code)
  PROVE  WayOn
<1> DEFINE Stopping == /\ stopped
                       /\ Rest("detached")
                       /\ UNCHANGED <<retargetPending, detachRequested>>
           Retargeting == /\ ~stopped /\ retargetPending
                          /\ retargetPending' = FALSE
                          /\ Tell("connecting")
                          /\ opening' = opening + 1
                          /\ UNCHANGED <<detachRequested, verifying, login>>
           Detaching == /\ ~stopped /\ ~retargetPending /\ detachRequested
                        /\ detachRequested' = FALSE
                        /\ Rest("detached")
                        /\ UNCHANGED retargetPending
           LoggingIn == /\ code = 4401
                        /\ AuthRequired
                        /\ UNCHANGED <<opening, verifying, told>>
           Rejected == /\ code # 4401 /\ sock[s].forbidden /\ ~sock[s].opened
                       /\ Rest("rejected")
           Verifying == /\ code # 4401 /\ (sock[s].forbidden => sock[s].opened)
                        /\ Tell("reconnecting")
                        /\ verifying' = verifying + 1
                        /\ UNCHANGED <<opening, login>>
           Lost == /\ ~stopped /\ ~retargetPending /\ ~detachRequested
                   /\ UNCHANGED <<retargetPending, detachRequested>>
                   /\ \/ LoggingIn \/ Rejected \/ Verifying
<1>0. Stopping \/ Retargeting \/ Detaching \/ Lost
  BY SMTT(30) DEF AfterClose
<1>1. CASE Stopping
  <2>1. retargetPending = FALSE
    BY <1>1 DEF Grounded, TypeOK
  <2> QED BY <1>1, <2>1, TellStep DEF Rest, TypeOK, WayOn, Settled, EndsHere
<1>2. CASE Retargeting
  <2>1. /\ told' = "connecting" /\ auth' \in BOOLEAN /\ (auth' => auth)
        /\ (auth /\ ~auth' => FALSE)
    BY <1>2, TellStep
  <2>2. auth' = auth
    BY <2>1 DEF TypeOK
  <2> QED BY <1>2, <2>1, <2>2 DEF TypeOK, WayOn, Settled, GoesOn
<1>3. CASE Detaching
  BY <1>3, TellStep DEF Rest, TypeOK, WayOn, Settled, EndsHere
<1>4. CASE Lost
  <2>0. ~stopped /\ retargetPending' = FALSE /\ detachRequested' \in BOOLEAN
    BY <1>4 DEF TypeOK
  <2>1. LoggingIn \/ Rejected \/ Verifying
    BY <1>4, SMTT(30)
  <2>2. CASE LoggingIn
    <3>1. auth' = TRUE /\ login' \in {"idle", "wanted", "sent"}
      BY <2>2 DEF AuthRequired
    <3>2. host = "page" /\ UNCHANGED <<opening, verifying, told>>
      BY <2>2
    <3> HIDE DEF LoggingIn, Lost
    <3>3. Settled
      BY <2>0, <3>1 DEF Settled
    <3>4. AsksLogin
      BY <2>0, <3>1, <3>2 DEF AsksLogin
    <3> QED BY <3>3, <3>4 DEF WayOn
  <2>3. CASE Rejected
    <3>1. Rest("rejected")
      BY <2>3
    <3> HIDE DEF Rejected, Lost
    <3> QED BY <2>0, <3>1, TellStep DEF Rest, TypeOK, WayOn, Settled, EndsHere
  <2>4. CASE Verifying
    <3>1. /\ told' = "reconnecting" /\ auth' \in BOOLEAN /\ (auth' => auth)
          /\ (auth /\ ~auth' => FALSE)
      BY <2>4, TellStep
    <3>2. auth' = auth
      BY <3>1 DEF TypeOK
    <3>3. verifying' = verifying + 1 /\ opening' = opening /\ login' = login
      BY <2>4
    <3>4. login' \in {"idle", "wanted", "sent"}
      BY <3>3 DEF TypeOK
    <3> HIDE DEF Verifying, Lost
    <3> QED BY <2>0, <3>1, <3>2, <3>3, <3>4 DEF WayOn, Settled, GoesOn
  <2> QED BY <2>1, <2>2, <2>3, <2>4
<1> HIDE DEF Stopping, Retargeting, Detaching, Lost
<1> QED BY <1>0, <1>1, <1>2, <1>3, <1>4

\* After the close of a socket.
LEMMA HandleCloseStep ==
  ASSUME IInv, NEW s \in Sockets, sock[s] # NoSocket, NEW code,
         code = 4401 => host = "page",
         HandleClose(s, code),
         host' = host, raced' = raced, armed' = armed, held' = held, stopped' = stopped,
         calls' \in 0..MaxCalls, losses' \in 0..MaxLosses
  PROVE  IInv'
<1> USE DEF IInv
<1>1. CASE s # ws
  <2>1. /\ sock' = [sock EXCEPT ![s] = NoSocket]
        /\ UNCHANGED <<ws, pending, opening, verifying, retargetPending, detachRequested, hostVars>>
    BY <1>1 DEF HandleClose
  <2>2. TypeOK'
    BY <2>1 DEF TypeOK, hostVars
  <2>3. \A t \in Sockets : sock'[t] = IF t = s THEN NoSocket ELSE sock[t]
    BY <2>1 DEF TypeOK
  <2>4. Grounded'
    BY <1>1, <2>1, <2>3 DEF Grounded, hostVars, TypeOK, NoSocket
  <2>5. NeverStranded'
    BY <2>1 DEF NeverStranded, hostVars
  <2>6. Calm => Calm'
    BY <1>1, <2>1, <2>3 DEF Calm, Tallies, Live, NoSocket, TypeOK
  <2>7. OpenIsUsable => OpenIsUsable'
    BY <1>1, <2>1, <2>3 DEF OpenIsUsable, hostVars, TypeOK
  <2> QED BY <2>2, <2>4, <2>5, <2>6, <2>7
<1>2. CASE s = ws
  <2>1. /\ ws' = None /\ pending' = {}
        /\ sock' = [Closing(Greeters) EXCEPT ![s] = NoSocket]
        /\ AfterClose(s, code)
    BY <1>2 DEF HandleClose, TypeOK
  <2>2. /\ sock' \in [Sockets -> Socket \cup {NoSocket}]
        /\ \A t \in Sockets : sock'[t] = IF t = s THEN NoSocket ELSE Closing(Greeters)[t]
    BY <2>1, ClosingStep
  <2>a. /\ retargetPending' = FALSE /\ detachRequested' \in BOOLEAN
        /\ auth' \in BOOLEAN /\ login' \in {"idle", "wanted", "sent"}
        /\ \/ /\ told' \in {"detached", "rejected"}
              /\ UNCHANGED <<opening, verifying, login>> /\ (auth' => auth)
           \/ /\ ~stopped /\ auth' /\ host = "page"
              /\ UNCHANGED <<opening, verifying, told>>
           \/ /\ ~stopped /\ told' \in {"connecting", "reconnecting"}
              /\ auth' = auth /\ login' = login
              /\ \/ opening' = opening + 1 /\ verifying' = verifying
                 \/ opening' = opening /\ verifying' = verifying + 1
    <3>1. WayOn
      BY <2>1, AfterCloseStep
    <3> HIDE DEF IInv
    <3> QED BY <3>1, Zenon DEF WayOn, Settled, EndsHere, AsksLogin, GoesOn
  <2>3. /\ told' \in {"connecting", "open", "reconnecting", "detached", "rejected"}
        /\ opening' \in Nat /\ verifying' \in Nat
    BY <2>a DEF TypeOK
  <2>4. TypeOK'
    BY <2>1, <2>2, <2>a, <2>3 DEF TypeOK
  <2>5. Grounded'
    <3>1. held' # "none" => armed'[held'] > 0
      BY DEF Grounded
    <3>2. retargetPending' => FALSE
      BY <2>a
    <3>3. stopped' => host' = "link"
      BY DEF Grounded
    <3>4. ASSUME host' = "link"
          PROVE  /\ ~auth' /\ login' = "idle" /\ ~raced' /\ ~retargetPending'
                 /\ \A t \in Sockets : sock'[t].state # "closing"
      <4>1. /\ host = "link" /\ code # 4401 /\ ~auth /\ login = "idle" /\ ~raced
        BY <3>4 DEF Grounded
      <4>2. ~auth' /\ login' = "idle"
        BY <2>a, <4>1
      <4>3. Greeters \subseteq {s}
        BY <1>2, <4>1 DEF Greeters, Calm
      <4>4. \A t \in Sockets : sock'[t].state # "closing"
        <5> SUFFICES ASSUME NEW t \in Sockets PROVE sock'[t].state # "closing"
          OBVIOUS
        <5>1. CASE t = s
          BY <2>2, <5>1 DEF NoSocket
        <5>2. CASE t # s
          <6>1. Closing(Greeters)[t] = sock[t]
            BY <4>3, <5>2, ClosingStep
          <6> QED BY <2>2, <4>1, <5>2, <6>1 DEF Grounded
        <5> QED BY <5>1, <5>2
      <4> QED BY <3>2, <4>1, <4>2, <4>4
    <3> QED BY <2>1, <3>1, <3>2, <3>3, <3>4 DEF Grounded
  <2>6. NeverStranded'
    <3>1. CASE told' \in {"detached", "rejected"} \/ auth'
      BY <3>1 DEF NeverStranded
    <3>2. CASE \/ opening' = opening + 1 /\ verifying' = verifying
               \/ opening' = opening /\ verifying' = verifying + 1
      <4>1. opening' + verifying' > 0
        BY <3>2 DEF TypeOK
      <4> QED BY <4>1, Zenon DEF NeverStranded
    <3> QED BY <2>a, <3>1, <3>2
  <2>7. ASSUME Calm PROVE Calm'
    <3>1. Tallies = 0
      BY <1>2, <2>7, NoneAssumption DEF Calm
    <3>2. opening = 0 /\ verifying = 0 /\ armed["plain"] = 0 /\ armed["forbidden"] = 0
      <4>1. /\ opening \in Nat /\ verifying \in Nat
            /\ armed["plain"] \in Nat /\ armed["forbidden"] \in Nat
        BY DEF TypeOK, Kinds
      <4>2. opening + verifying + armed["plain"] + armed["forbidden"] = 0
        BY <3>1 DEF Tallies
      <4> QED BY <4>1, <4>2, ZeroSum, ZenonT(60)
    <3>3. /\ opening' + verifying' <= 1
          /\ stopped' => opening' = 0 /\ verifying' = 0
      BY <2>a, <3>2
    <3>4. Tallies' = opening' + verifying'
      BY <2>3, <3>2 DEF Tallies
    <3>6. \A t \in Sockets : ~Live(t)'
      <4>1. ~ Live(s)'
        BY <2>2 DEF Live, NoSocket
      <4>2. ASSUME NEW t \in Sockets, t # s PROVE ~ Live(t)'
        <5>1. ~ Live(t)
          BY <1>2, <2>7, <4>2 DEF Calm
        <5>2. Closing(Greeters)[t] = sock[t]
          BY <5>1, ClosingStep
        <5> QED BY <2>2, <4>2, <5>1, <5>2 DEF Live
      <4> QED BY <4>1, <4>2
    <3> QED BY <2>1, <2>7, <3>2, <3>3, <3>4, <3>6 DEF Calm
  <2>8. told' = "open" /\ ~auth' => FALSE
    BY <2>a
  <2> QED BY <2>4, <2>5, <2>6, <2>7, <2>8 DEF OpenIsUsable
<1> QED BY <1>1, <1>2

LEMMA ConnectStep ==
  ASSUME IInv, Connect,
         host = "link" => opening + verifying = 0 /\ login' = "idle",
         host' = host, login' \in {"idle", "wanted", "sent"},
         calls' \in 0..MaxCalls, losses' \in 0..MaxLosses
  PROVE  IInv'
<1> USE DEF IInv
<1>1. /\ stopped' = FALSE
      /\ UNCHANGED <<ws, sock, pending, verifying, retargetPending>>
  BY DEF Connect
<1>2. CASE WsLive
  <2>1. UNCHANGED <<opening, armed, held, detachRequested, told, auth, raced>>
    BY <1>2 DEF Connect
  <2>2. TypeOK'
    BY <1>1, <2>1 DEF TypeOK
  <2>3. Grounded'
    BY <1>1, <2>1 DEF Grounded
  <2>4. NeverStranded' /\ (OpenIsUsable => OpenIsUsable')
    BY <1>1, <2>1 DEF NeverStranded, OpenIsUsable
  <2>5. Calm => Calm'
    BY <1>1, <2>1 DEF Calm, Tallies, Live
  <2> QED BY <2>1, <2>2, <2>3, <2>4, <2>5
<1>3. CASE ~WsLive
  <2>1. /\ CancelReconnectTimer
        /\ detachRequested' = FALSE
        /\ Tell("connecting")
        /\ opening' = opening + 1
        /\ raced' = (raced \/ opening + verifying > 0 \/ ws # None)
    BY <1>3 DEF Connect
  <2>a. told' = "connecting" /\ auth' \in BOOLEAN /\ (auth' => auth)
    BY <2>1, TellStep
  <2>b. raced' \in BOOLEAN
    BY <2>1
  <2>c. opening' \in Nat \ {0}
    BY <2>1 DEF TypeOK
  <2>2. /\ armed' \in [Kinds -> Nat] /\ held' = "none"
        /\ Calm => armed'["plain"] = 0 /\ armed'["forbidden"] = 0
    BY <2>1, CancelStep
  <2>3. TypeOK'
    BY <1>1, <2>1, <2>2, <2>a, <2>b, <2>c DEF TypeOK
  <2>4. host = "link" => ws = None
    BY <1>3 DEF WsLive, Live, Grounded, TypeOK, Socket, States, NoSocket
  <2>5. Grounded'
    BY <1>1, <2>1, <2>2, <2>4, <2>a DEF Grounded
  <2>6. NeverStranded'
    <3>1. opening' + verifying' > 0
      <4>1. verifying' \in Nat
        BY <1>1 DEF TypeOK
      <4>2. opening' \in Nat /\ opening' # 0
        BY <2>c
      <4> QED BY <4>1, <4>2, PositiveSum, ZenonT(30)
    <3> QED BY <3>1, Zenon DEF NeverStranded
  <2>7. ASSUME ~raced' PROVE Calm' /\ OpenIsUsable'
    <3>1. opening = 0 /\ verifying = 0 /\ ws = None /\ Calm
      <4>1. ~(opening + verifying > 0) /\ ws = None /\ ~raced
        BY <2>1, <2>7
      <4> QED BY <4>1 DEF TypeOK
    <3>2. Tallies' = 1
      BY <1>1, <2>1, <2>2, <3>1 DEF Tallies
    <3> QED BY <1>1, <2>2, <2>a, <3>1, <3>2 DEF Calm, Live, Kinds, OpenIsUsable
  <2> QED BY <2>3, <2>5, <2>6, <2>7
<1> QED BY <1>2, <1>3

-----------------------------------------------------------------------------
(* The steps of the host.                                                  *)

LEMMA RetryStep == ASSUME IInv, Retry PROVE IInv'
<1>1. /\ host = "page" /\ Connect /\ host' = host /\ login' = login /\ losses' = losses
  BY DEF Retry
<1>2. /\ login' \in {"idle", "wanted", "sent"} /\ losses' \in 0..MaxLosses
  BY <1>1 DEF IInv, TypeOK
<1>3. calls' \in 0..MaxCalls
  BY SpendStep, BoundsAssumption DEF IInv, TypeOK, Retry, Spend
<1> QED BY <1>1, <1>2, <1>3, ConnectStep

LEMMA LoginSucceedsStep == ASSUME IInv, LoginSucceeds PROVE IInv'
<1>1. /\ login = "sent" /\ login' = "idle" /\ Connect /\ host' = host
      /\ calls' = calls /\ losses' = losses
  BY DEF LoginSucceeds
<1>2. host # "link"
  BY <1>1 DEF IInv, Grounded
<1>3. calls' \in 0..MaxCalls /\ losses' \in 0..MaxLosses
  BY <1>1 DEF IInv, TypeOK
<1> QED BY <1>1, <1>2, <1>3, ConnectStep

LEMMA KickStep == ASSUME IInv, Kick PROVE IInv'
<1>1. /\ host = "link" /\ opening + verifying = 0 /\ Connect
      /\ host' = host /\ login' = login /\ losses' = losses
  BY DEF Kick
<1>2. login' = "idle"
  BY <1>1 DEF IInv, Grounded
<1>3. losses' \in 0..MaxLosses
  BY <1>1 DEF IInv, TypeOK
<1>4. calls' \in 0..MaxCalls
  BY SpendStep, BoundsAssumption DEF IInv, TypeOK, Kick, Spend
<1> QED BY <1>1, <1>2, <1>3, <1>4, ConnectStep

\* A login on its way changes nothing of the connection.
LEMMA LoginStep ==
  ASSUME IInv, host = "page", UNCHANGED <<host, connVars, flagVars, told, auth, losses, raced>>,
         login' \in {"idle", "wanted", "sent"}, calls' \in 0..MaxCalls
  PROVE  IInv'
<1> USE DEF IInv, connVars, flagVars
<1>1. TypeOK'
  BY DEF TypeOK
<1>2. Grounded'
  BY DEF Grounded
<1>3. NeverStranded' /\ (OpenIsUsable => OpenIsUsable')
  BY DEF NeverStranded, OpenIsUsable
<1>4. Calm => Calm'
  BY DEF Calm, Tallies, Live
<1> QED BY <1>1, <1>2, <1>3, <1>4

LEMMA OnlyPagesLogIn == ASSUME IInv, login # "idle" PROVE host = "page"
BY HostsAssumption DEF IInv, Grounded, TypeOK

LEMMA StartLoginStep == ASSUME IInv, StartLogin PROVE IInv'
<1>1. calls' \in 0..MaxCalls
  BY SpendStep, BoundsAssumption DEF IInv, TypeOK, StartLogin, Spend
<1> QED BY <1>1, OnlyPagesLogIn, LoginStep DEF StartLogin

LEMMA LoginFailsStep == ASSUME IInv, LoginFails PROVE IInv'
<1>1. calls' \in 0..MaxCalls
  BY DEF IInv, TypeOK, LoginFails
<1> QED BY <1>1, OnlyPagesLogIn, LoginStep DEF LoginFails

LEMMA RetargetStep == ASSUME IInv, Retarget PROVE IInv'
<1> USE DEF IInv
<1> DEFINE aimless == [s \in Sockets |-> IF sock[s] = NoSocket THEN NoSocket
                                         ELSE [sock[s] EXCEPT !.aimed = FALSE]]
<1>1. /\ host = "page" /\ stopped' = FALSE /\ verifying' = 0 /\ CancelReconnectTimer
      /\ detachRequested' = FALSE /\ Tell("connecting")
      /\ UNCHANGED <<host, ws, pending, login, losses, raced>>
  BY DEF Retarget
<1>2. calls' \in 0..MaxCalls
  BY SpendStep, BoundsAssumption DEF TypeOK, Retarget, Spend
<1>3. \/ /\ ws # None /\ retargetPending' = TRUE /\ opening' = 0
         /\ sock' = [aimless EXCEPT ![ws].muted = TRUE, ![ws].state = "closing"]
      \/ /\ ws = None /\ opening' = 1 /\ sock' = aimless /\ retargetPending' = retargetPending
  BY DEF Retarget
<1>4. /\ aimless \in [Sockets -> Socket \cup {NoSocket}]
      /\ \A s \in Sockets : aimless[s].state = sock[s].state
      /\ \A s \in Sockets : sock[s] # NoSocket => aimless[s] \in Socket
  BY DEF TypeOK, Socket, NoSocket
<1> HIDE DEF aimless
<1>5. /\ sock' \in [Sockets -> Socket \cup {NoSocket}]
      /\ \A s \in Sockets : Live(s)' => Live(s)
      /\ ws # None => sock'[ws] # NoSocket /\ sock'[ws].state = "closing" /\ sock'[ws].muted
  <2>1. CASE ws = None
    BY <1>3, <1>4, <2>1 DEF Live
  <2>2. CASE ws # None
    <3>1. ws \in Sockets /\ aimless[ws] \in Socket
      BY <1>4, <2>2 DEF TypeOK, Grounded
    <3>2. sock' = [aimless EXCEPT ![ws].muted = TRUE, ![ws].state = "closing"]
      BY <1>3, <2>2
    <3>3. \A s \in Sockets : s # ws => sock'[s] = aimless[s]
      BY <1>4, <3>1, <3>2
    <3>4. /\ sock'[ws] \in Socket /\ sock'[ws].state = "closing" /\ sock'[ws].muted
          /\ sock' \in [Sockets -> Socket \cup {NoSocket}]
      BY <1>4, <3>1, <3>2 DEF Socket, States
    <3> QED BY <1>4, <3>1, <3>3, <3>4 DEF Live, Socket, NoSocket
  <2> QED BY <2>1, <2>2
<1>6. /\ armed' \in [Kinds -> Nat] /\ held' = "none"
      /\ Calm => armed'["plain"] = 0 /\ armed'["forbidden"] = 0
  BY <1>1, CancelStep
<1>7. told' = "connecting" /\ auth' \in BOOLEAN
  BY <1>1, TellStep
<1>8. TypeOK'
  <2>1. opening' \in Nat /\ retargetPending' \in BOOLEAN
    <3>1. opening' \in Nat
      BY <1>3
    <3>2. retargetPending \in BOOLEAN
      BY DEF TypeOK
    <3>3. retargetPending' \in BOOLEAN
      BY <1>3, <3>2, Zenon
    <3> QED BY <3>1, <3>3
  <2> QED BY <1>1, <1>2, <1>5, <1>6, <1>7, <2>1 DEF TypeOK
<1>9. Grounded'
  BY <1>1, <1>3, <1>5, <1>6 DEF Grounded
<1>10. NeverStranded'
  <2>1. CASE ws = None
    <3>1. opening' + verifying' > 0
      BY <1>1, <1>3, <2>1
    <3> QED BY <3>1, Zenon DEF NeverStranded
  <2>2. CASE ws # None
    BY <1>1, <2>2 DEF NeverStranded
  <2> QED BY <2>1, <2>2
<1>11. Calm => Calm'
  <2> SUFFICES ASSUME Calm PROVE Calm'
    OBVIOUS
  <2>1. Tallies' = opening'
    BY <1>1, <1>3, <1>6 DEF Tallies
  <2> QED BY <1>1, <1>3, <1>5, <1>6, <2>1 DEF Calm, Kinds
<1>12. OpenIsUsable'
  BY <1>7 DEF OpenIsUsable
<1> QED BY <1>1, <1>8, <1>9, <1>10, <1>11, <1>12

LEMMA DisconnectStep == ASSUME IInv, Disconnect PROVE IInv'
<1>1. /\ host = "link" /\ stopped' = TRUE /\ opening' = 0 /\ verifying' = 0
      /\ CancelReconnectTimer /\ retargetPending' = FALSE /\ Tell("detached") /\ ws' = None
      /\ sock' = [s \in Sockets |-> IF s = ws THEN NoSocket ELSE sock[s]]
      /\ pending' = (IF ws = None THEN pending ELSE {})
      /\ UNCHANGED <<host, detachRequested, login, losses, raced>>
  BY DEF Disconnect
<1>2. /\ TypeOK /\ Grounded /\ ~raced /\ Calm /\ ~auth /\ login = "idle"
  BY <1>1 DEF IInv, Grounded
<1>3. calls' \in 0..MaxCalls
  BY SpendStep, BoundsAssumption DEF IInv, TypeOK, Disconnect, Spend
<1>4. /\ armed' \in [Kinds -> Nat] /\ held' = "none"
      /\ armed'["plain"] = 0 /\ armed'["forbidden"] = 0
  BY <1>1, <1>2, CancelStep
<1>5. told' = "detached" /\ auth' = FALSE
  BY <1>1, <1>2, TellStep
<1>6. /\ sock' \in [Sockets -> Socket \cup {NoSocket}]
      /\ \A s \in Sockets : ~Live(s)' /\ sock'[s].state # "closing"
  BY <1>1, <1>2 DEF TypeOK, Calm, Grounded, Live, NoSocket
<1>7. pending' = {}
  BY <1>1, <1>2, NoneAssumption DEF TypeOK, Calm, Request
<1>8. TypeOK'
  BY <1>1, <1>2, <1>3, <1>4, <1>5, <1>6, <1>7 DEF TypeOK
<1>9. Grounded' /\ NeverStranded' /\ OpenIsUsable'
  BY <1>1, <1>2, <1>4, <1>5, <1>6 DEF Grounded, NeverStranded, OpenIsUsable
<1>10. Calm'
  <2>1. Tallies' = 0
    BY <1>1, <1>4 DEF Tallies
  <2> QED BY <1>1, <1>4, <1>6, <1>7, <2>1 DEF Calm, Kinds
<1> QED BY <1>8, <1>9, <1>10 DEF IInv

LEMMA AskStep == ASSUME IInv, NEW kind \in {"call", "detach"}, Ask(kind) PROVE IInv'
<1> USE DEF IInv
<1>1. /\ ws # None
      /\ pending' = pending \cup {[kind |-> kind, for |-> ws, on |-> ws]}
      /\ detachRequested' = (detachRequested \/ kind = "detach")
      /\ UNCHANGED <<host, ws, sock, opening, verifying, armed, held, stopped, retargetPending,
                     told, auth, login, losses, raced>>
  BY DEF Ask, hostVars
<1>2. calls' \in 0..MaxCalls
  BY SpendStep, BoundsAssumption DEF TypeOK, Ask, Spend
<1>3. ws \in Sockets /\ pending' \subseteq Request
  BY <1>1 DEF TypeOK, Request
<1>t. detachRequested' \in BOOLEAN
  BY <1>1
<1>4. TypeOK'
  BY <1>1, <1>2, <1>3, <1>t DEF TypeOK
<1>5. Grounded' /\ NeverStranded' /\ (OpenIsUsable => OpenIsUsable')
  BY <1>1 DEF Grounded, NeverStranded, OpenIsUsable
<1>6. Calm => Calm'
  BY <1>1, <1>3 DEF Calm, Tallies, Live
<1> QED BY <1>1, <1>4, <1>5, <1>6

-----------------------------------------------------------------------------
(* The steps of what comes back.                                           *)

\* A tally that is not zero: the attempt is that check or timer and nothing else.
LEMMA OneThing ==
  ASSUME TypeOK, Calm, opening + verifying + armed["plain"] + armed["forbidden"] > 0
  PROVE  ws = None /\ ~stopped /\ \A s \in Sockets : ~Live(s)
<1>1. Tallies # 0
  BY DEF Tallies
<1> QED BY <1>1, NoneAssumption DEF Calm

LEMMA Single ==
  ASSUME NEW a \in Nat, NEW b \in Nat, NEW c \in Nat, NEW d \in Nat,
         a + b + c + d <= 1, a > 0
  PROVE  a = 1 /\ b = 0 /\ c = 0 /\ d = 0 /\ a + b + c + d > 0
OBVIOUS

LEMMA Tallied ==
  ASSUME TypeOK
  PROVE  /\ opening \in Nat /\ verifying \in Nat
         /\ armed["plain"] \in Nat /\ armed["forbidden"] \in Nat
         /\ armed \in [Kinds -> Nat]
BY DEF TypeOK, Kinds

LEMMA OpeningAnsweredStep ==
  ASSUME IInv, NEW answer \in Answers, OpeningAnswered(answer) PROVE IInv'
<1>0. TypeOK /\ Grounded
  BY DEF IInv
<1>1. /\ opening > 0 /\ opening' = opening - 1
      /\ UNCHANGED <<host, pending, verifying, armed, held, stopped, retargetPending,
                     detachRequested, told, calls, losses, raced>>
  BY DEF OpeningAnswered, flagVars
<1>2. opening \in Nat /\ opening' \in Nat
  BY <1>0, <1>1 DEF TypeOK
<1>3. ASSUME Calm
      PROVE  /\ ws = None /\ ~stopped /\ \A s \in Sockets : ~Live(s)
             /\ opening' = 0 /\ verifying = 0 /\ armed["plain"] = 0 /\ armed["forbidden"] = 0
  <2>1. opening + verifying + armed["plain"] + armed["forbidden"] <= 1
    BY <1>3 DEF Calm, Tallies
  <2>2. /\ opening = 1 /\ verifying = 0 /\ armed["plain"] = 0 /\ armed["forbidden"] = 0
        /\ opening + verifying + armed["plain"] + armed["forbidden"] > 0
    BY <1>0, <1>1, <2>1, Tallied, Single, SMTT(40)
  <2> QED BY <1>0, <1>1, <1>3, <2>2, OneThing
<1>4. Calm => told # "open" \/ auth \/ raced \/ ~OpenIsUsable
  BY <1>3 DEF OpenIsUsable
<1>5. CASE answer = "unauthorized"
  <2>1. auth' = TRUE /\ login' \in {"idle", "wanted", "sent"} /\ ws' = ws /\ sock' = sock
    BY <1>5 DEF OpeningAnswered, AuthRequired
  <2>2. host # "link"
    BY <1>5 DEF Answers
  <2>3. TypeOK'
    BY <1>0, <1>1, <1>2, <2>1 DEF TypeOK
  <2>4. Grounded' /\ NeverStranded' /\ OpenIsUsable'
    BY <1>0, <1>1, <2>1, <2>2 DEF Grounded, NeverStranded, OpenIsUsable
  <2>5. ASSUME Calm PROVE Calm'
    <3>1. Tallies' = 0
      BY <1>1, <1>3, <2>5 DEF Tallies
    <3> QED BY <1>1, <1>3, <2>1, <2>5, <3>1 DEF Calm, Live
  <2> QED BY <1>1, <2>3, <2>4, <2>5 DEF IInv
<1>6. CASE answer # "unauthorized"
  <2>1. OpenSocket(answer = "forbidden") /\ auth' = auth /\ login' = login
    BY <1>6 DEF OpeningAnswered
  <2>2. (answer = "forbidden") \in BOOLEAN
    OBVIOUS
  <2>3. /\ ws' \in Sockets /\ ws' # None
        /\ sock' \in [Sockets -> Socket \cup {NoSocket}]
        /\ sock'[ws'] # NoSocket /\ sock'[ws'].aimed /\ sock'[ws'].state = "connecting"
        /\ \A s \in Sockets : s # ws' => sock'[s] = sock[s]
    BY <1>0, <2>1, <2>2, OpenSocketStep
  <2>4. TypeOK'
    BY <1>0, <1>1, <1>2, <2>1, <2>3 DEF TypeOK
  <2>5. Grounded' /\ NeverStranded'
    BY <1>0, <1>1, <2>1, <2>3 DEF Grounded, NeverStranded
  <2>6. ASSUME Calm, OpenIsUsable, ~raced PROVE Calm' /\ OpenIsUsable'
    <3>1. Tallies' = 0
      BY <1>1, <1>3, <2>6 DEF Tallies
    <3>2. pending = {}
      BY <1>0, <1>3, <2>6, NoneAssumption DEF Calm, TypeOK, Request
    <3> QED BY <1>1, <1>3, <1>4, <2>1, <2>3, <2>6, <3>1, <3>2 DEF Calm, Live, OpenIsUsable
  <2> QED BY <1>1, <2>4, <2>5, <2>6 DEF IInv
<1> QED BY <1>5, <1>6

LEMMA VerifyingAnsweredStep ==
  ASSUME IInv, NEW answer \in Answers, VerifyingAnswered(answer) PROVE IInv'
<1>0. TypeOK /\ Grounded
  BY DEF IInv
<1>1. /\ verifying > 0 /\ verifying' = verifying - 1
      /\ UNCHANGED <<host, ws, sock, pending, opening, stopped, retargetPending,
                     detachRequested, calls, losses, raced>>
  BY DEF VerifyingAnswered, flagVars
<1>2. verifying \in Nat /\ verifying' \in Nat
  BY <1>0, <1>1 DEF TypeOK
<1>3. ASSUME Calm
      PROVE  /\ ws = None /\ ~stopped
             /\ verifying' = 0 /\ opening = 0 /\ armed["plain"] = 0 /\ armed["forbidden"] = 0
  <2>1. verifying + opening + armed["plain"] + armed["forbidden"] <= 1
    BY <1>0, <1>3, Tallied DEF Calm, Tallies
  <2>2. /\ verifying = 1 /\ opening = 0 /\ armed["plain"] = 0 /\ armed["forbidden"] = 0
    BY <1>0, <1>1, <2>1, Tallied, Single, SMTT(40)
  <2> QED BY <1>0, <1>1, <1>3, <2>2, OneThing
<1>5. CASE answer = "unauthorized"
  <2>1. /\ auth' = TRUE /\ login' \in {"idle", "wanted", "sent"} /\ told' = told
        /\ armed' = armed /\ held' = held
    BY <1>5 DEF VerifyingAnswered, AuthRequired
  <2>2. host # "link"
    BY <1>5 DEF Answers
  <2>3. TypeOK'
    BY <1>0, <1>1, <1>2, <2>1 DEF TypeOK
  <2>4. Grounded' /\ NeverStranded' /\ OpenIsUsable'
    BY <1>0, <1>1, <2>1, <2>2 DEF Grounded, NeverStranded, OpenIsUsable
  <2>5. ASSUME Calm PROVE Calm'
    <3>1. Tallies' = 0
      BY <1>1, <1>3, <2>1, <2>5 DEF Tallies
    <3> QED BY <1>1, <1>3, <2>1, <2>5, <3>1 DEF Calm, Live
  <2> QED BY <1>1, <2>3, <2>4, <2>5 DEF IInv
<1>6. CASE answer # "unauthorized"
  <2>1. PICK kind \in Kinds : ScheduleReconnect(kind) /\ login' = login
    BY <1>6 DEF VerifyingAnswered, KindOf, Kinds
  <2>2. /\ Tell("reconnecting") /\ held' = kind /\ armed' = [armed EXCEPT ![kind] = @ + 1]
    BY <2>1 DEF ScheduleReconnect
  <2>3. told' = "reconnecting" /\ auth' \in BOOLEAN /\ (auth' => auth)
    BY <1>0, <2>2, TellStep
  <2>4. /\ armed' \in [Kinds -> Nat] /\ armed'[kind] > 0
        /\ \A k \in Kinds : k # kind => armed'[k] = armed[k]
        /\ armed'[kind] = armed[kind] + 1
    BY <1>0, <2>2, Tallied
  <2>5. TypeOK'
    BY <1>0, <1>1, <1>2, <2>1, <2>2, <2>3, <2>4 DEF TypeOK
  <2>6. Grounded' /\ NeverStranded' /\ OpenIsUsable'
    BY <1>0, <1>1, <2>1, <2>2, <2>3, <2>4 DEF Grounded, NeverStranded, OpenIsUsable
  <2>7. ASSUME Calm PROVE Calm'
    <3>1. Tallies' = 1
      BY <1>1, <1>3, <2>1, <2>4, <2>7 DEF Tallies, Kinds
    <3>2. \A k \in Kinds : armed'[k] > 0 => held' = k
      BY <1>3, <2>2, <2>4, <2>7 DEF Kinds
    <3> QED BY <1>1, <1>3, <2>7, <3>1, <3>2 DEF Calm, Live
  <2> QED BY <1>1, <2>5, <2>6, <2>7 DEF IInv
<1> QED BY <1>5, <1>6

LEMMA TimerFiresStep ==
  ASSUME IInv, NEW kind \in Kinds, TimerFires(kind) PROVE IInv'
<1>0. TypeOK /\ Grounded
  BY DEF IInv
<1>1. /\ armed[kind] > 0 /\ armed' = [armed EXCEPT ![kind] = @ - 1] /\ held' = "none"
      /\ OpenSocket(kind = "forbidden")
      /\ UNCHANGED <<host, pending, opening, verifying, stopped, retargetPending,
                     detachRequested, told, auth, login, calls, losses, raced>>
  BY DEF TimerFires, flagVars, hostVars
<1>2. /\ armed' \in [Kinds -> Nat] /\ armed'[kind] = armed[kind] - 1
      /\ \A k \in Kinds : k # kind => armed'[k] = armed[k]
  <2>1. armed \in [Kinds -> Nat] /\ armed[kind] - 1 \in Nat
    BY <1>0, <1>1, Tallied
  <2> QED BY <1>1, <2>1
<1>3. ASSUME Calm
      PROVE  /\ ws = None /\ ~stopped /\ \A s \in Sockets : ~Live(s)
             /\ opening = 0 /\ verifying = 0 /\ armed'["plain"] = 0 /\ armed'["forbidden"] = 0
  <2>1. CASE kind = "plain"
    <3>1. armed["plain"] + opening + verifying + armed["forbidden"] <= 1
      BY <1>0, <1>3, Tallied DEF Calm, Tallies
    <3>2. armed["plain"] = 1 /\ opening = 0 /\ verifying = 0 /\ armed["forbidden"] = 0
      BY <1>0, <1>1, <2>1, <3>1, Tallied, Single, SMTT(40)
    <3> QED BY <1>0, <1>2, <1>3, <2>1, <3>2, OneThing DEF Kinds
  <2>2. CASE kind = "forbidden"
    <3>1. armed["forbidden"] + opening + verifying + armed["plain"] <= 1
      BY <1>0, <1>3, Tallied DEF Calm, Tallies
    <3>2. armed["forbidden"] = 1 /\ opening = 0 /\ verifying = 0 /\ armed["plain"] = 0
      BY <1>0, <1>1, <2>2, <3>1, Tallied, Single, SMTT(40)
    <3> QED BY <1>0, <1>2, <1>3, <2>2, <3>2, OneThing DEF Kinds
  <2> QED BY <2>1, <2>2 DEF Kinds
<1>4. (kind = "forbidden") \in BOOLEAN
  OBVIOUS
<1>5. /\ ws' \in Sockets /\ ws' # None
      /\ sock' \in [Sockets -> Socket \cup {NoSocket}]
      /\ sock'[ws'] # NoSocket /\ sock'[ws'].aimed /\ sock'[ws'].state = "connecting"
      /\ \A s \in Sockets : s # ws' => sock'[s] = sock[s]
  BY <1>0, <1>1, <1>4, OpenSocketStep
<1>6. TypeOK'
  BY <1>0, <1>1, <1>2, <1>5 DEF TypeOK
<1>7. Grounded' /\ NeverStranded'
  BY <1>0, <1>1, <1>5 DEF Grounded, NeverStranded
<1>8. ASSUME Calm, OpenIsUsable, ~raced PROVE Calm' /\ OpenIsUsable'
  <2>1. Tallies' = 0
    BY <1>1, <1>3, <1>8 DEF Tallies
  <2>2. pending = {}
    BY <1>0, <1>3, <1>8, NoneAssumption DEF Calm, TypeOK, Request
  <2>3. told # "open" \/ auth
    BY <1>3, <1>8 DEF OpenIsUsable
  <2> QED BY <1>1, <1>3, <1>5, <1>8, <2>1, <2>2, <2>3 DEF Calm, Live, OpenIsUsable, Kinds
<1> QED BY <1>1, <1>6, <1>7, <1>8 DEF IInv

LEMMA SocketOpensStep ==
  ASSUME IInv, NEW s \in Sockets, SocketOpens(s) PROVE IInv'
<1> DEFINE opens == [sock EXCEPT ![s].state = "open", ![s].opened = TRUE]
<1>0. TypeOK /\ Grounded
  BY DEF IInv
<1>1. /\ sock[s].state = "connecting"
      /\ UNCHANGED <<host, ws, opening, verifying, armed, held, stopped, retargetPending,
                     detachRequested, told, auth, login, calls, losses, raced>>
      /\ \/ /\ ws # None /\ opens[ws].state = "open" /\ sock' = opens
            /\ pending' = pending \cup {[kind |-> "hello", for |-> s, on |-> ws]}
         \/ /\ ~(ws # None /\ opens[ws].state = "open") /\ pending' = pending
            /\ sock' = [opens EXCEPT ![s].state = "closing"]
  BY DEF SocketOpens, flagVars, hostVars
<1>2. sock[s] \in Socket /\ Live(s)
  BY <1>0, <1>1 DEF TypeOK, NoSocket, Live
<1>3. /\ opens \in [Sockets -> Socket \cup {NoSocket}]
      /\ opens[s] = [[sock[s] EXCEPT !.state = "open"] EXCEPT !.opened = TRUE]
      /\ \A t \in Sockets : t # s => opens[t] = sock[t]
  BY <1>0, <1>2 DEF TypeOK, Socket, States
<1>4. opens[s] \in Socket /\ opens[s].state = "open" /\ opens[s].aimed = sock[s].aimed
      /\ opens[s].greeted = sock[s].greeted
  BY <1>2, <1>3 DEF Socket, States
<1> HIDE DEF opens
<1>5. /\ sock' \in [Sockets -> Socket \cup {NoSocket}]
      /\ \A t \in Sockets : t # s => sock'[t] = sock[t]
      /\ sock'[s] \in Socket /\ sock'[s].aimed = sock[s].aimed /\ sock'[s].greeted = sock[s].greeted
  <2>1. CASE sock' = opens
    BY <1>3, <1>4, <2>1
  <2>2. CASE sock' = [opens EXCEPT ![s].state = "closing"]
    <3>1. sock'[s] = [opens[s] EXCEPT !.state = "closing"]
      BY <1>3, <2>2
    <3> QED BY <1>3, <1>4, <2>2, <3>1 DEF Socket, States
  <2> QED BY <1>1, <2>1, <2>2
<1>6. pending' \subseteq Request
  BY <1>0, <1>1 DEF TypeOK, Request
<1>7. TypeOK'
  BY <1>0, <1>1, <1>5, <1>6 DEF TypeOK
<1>8. NeverStranded'
  BY <1>1 DEF IInv, NeverStranded
<1>9. Calm => s = ws /\ sock' = opens /\ sock'[s].state = "open"
  <2> SUFFICES ASSUME Calm PROVE s = ws /\ sock' = opens /\ sock'[s].state = "open"
    OBVIOUS
  <2>1. s = ws
    BY <1>2 DEF Calm
  <2> QED BY <1>1, <1>4, <2>1, NoneAssumption
<1>10. Grounded'
  <2>1. ws # None => sock'[ws] # NoSocket
    BY <1>0, <1>5 DEF Grounded, TypeOK, Socket, NoSocket
  <2>2. ASSUME host = "link" PROVE \A t \in Sockets : sock'[t].state # "closing"
    <3>1. Calm
      BY <2>2 DEF IInv, Grounded
    <3> QED BY <1>0, <1>5, <1>9, <2>2, <3>1 DEF Grounded
  <2> QED BY <1>0, <1>1, <2>1, <2>2 DEF Grounded
<1>11. Calm => Calm'
  <2> SUFFICES ASSUME Calm PROVE Calm'
    OBVIOUS
  <2>1. Tallies' = Tallies
    BY <1>1 DEF Tallies
  <2>2. \A t \in Sockets : Live(t)' => t = ws
    BY <1>5, <1>9 DEF Calm, Live
  <2>3. \A p \in pending' : p.on = ws /\ p.for = ws
    BY <1>1, <1>9 DEF Calm
  <2>4. ws # None => sock'[ws].aimed
    BY <1>1, <1>5, <1>9 DEF Calm
  <2> QED BY <1>1, <2>1, <2>2, <2>3, <2>4 DEF Calm
<1>12. OpenIsUsable => OpenIsUsable'
  BY <1>0, <1>1, <1>5 DEF OpenIsUsable, TypeOK
<1> QED BY <1>1, <1>7, <1>8, <1>10, <1>11, <1>12 DEF IInv

LEMMA HelloAnsweredStep ==
  ASSUME IInv, NEW p \in pending, HelloAnswered(p) PROVE IInv'
<1>0. TypeOK /\ Grounded /\ NeverStranded /\ p \in Request
  BY DEF IInv, TypeOK
<1>1. /\ p.kind = "hello" /\ Heard(p.on) /\ pending' = pending \ {p}
      /\ UNCHANGED <<host, ws, opening, verifying, armed, held, stopped, retargetPending,
                     detachRequested, login, calls, losses, raced>>
  BY DEF HelloAnswered, flagVars
<1>2. CASE p.for = ws
  <2>1. Tell("open") /\ sock' = [sock EXCEPT ![ws].greeted = TRUE]
    BY <1>2 DEF HelloAnswered
  <2>2. ws \in Sockets /\ ws # None /\ sock[ws] \in Socket
    BY <1>0, <1>2, NoneAssumption DEF Request, Grounded, TypeOK
  <2>3. told' = "open" /\ auth' \in BOOLEAN /\ (auth' => auth)
    BY <1>0, <2>1, TellStep
  <2>4. /\ sock' \in [Sockets -> Socket \cup {NoSocket}]
        /\ sock'[ws] \in Socket /\ sock'[ws].greeted
        /\ sock'[ws].aimed = sock[ws].aimed /\ sock'[ws].muted = sock[ws].muted
        /\ \A t \in Sockets : sock'[t].state = sock[t].state
    <3>1. \A t \in Sockets : t # ws => sock'[t] = sock[t]
      BY <1>0, <2>1 DEF TypeOK
    <3>2. sock'[ws] = [sock[ws] EXCEPT !.greeted = TRUE]
      BY <1>0, <2>1, <2>2 DEF TypeOK
    <3>3. [sock[ws] EXCEPT !.greeted = TRUE] \in Socket
      BY <2>2 DEF Socket
    <3>4. sock' \in [Sockets -> Socket \cup {NoSocket}]
      BY <1>0, <2>1, <2>2, <3>3 DEF TypeOK
    <3> QED BY <2>2, <3>1, <3>2, <3>3, <3>4 DEF Socket
  <2>5. TypeOK'
    BY <1>0, <1>1, <2>3, <2>4 DEF TypeOK
  <2>6. Grounded' /\ NeverStranded'
    BY <1>0, <1>1, <2>3, <2>4 DEF Grounded, NeverStranded, Socket, NoSocket
  <2>7. ASSUME Calm PROVE Calm' /\ OpenIsUsable'
    <3>1. p.on = ws
      BY <2>7 DEF Calm
    <3>2. sock[ws].aimed
      BY <1>1, <2>2, <2>7, <3>1 DEF Calm, Heard
    <3>3. Tallies' = Tallies
      BY <1>1 DEF Tallies
    <3> QED BY <1>1, <2>2, <2>4, <2>7, <3>2, <3>3 DEF Calm, Live, OpenIsUsable
  <2> QED BY <1>1, <2>5, <2>6, <2>7 DEF IInv
<1>3. CASE p.for # ws
  <2>1. UNCHANGED <<told, auth, sock>>
    BY <1>3 DEF HelloAnswered
  <2>2. TypeOK'
    BY <1>0, <1>1, <2>1 DEF TypeOK
  <2>3. Grounded' /\ NeverStranded'
    BY <1>0, <1>1, <2>1 DEF Grounded, NeverStranded
  <2>4. ~Calm
    BY <1>3 DEF Calm
  <2> QED BY <1>1, <2>2, <2>3, <2>4 DEF IInv
<1> QED BY <1>2, <1>3

\* A page's socket begins to close.
LEMMA HangUpStep ==
  ASSUME IInv, NEW s, host = "page", sock' = Closing({s}), pending' \subseteq pending,
         losses' \in 0..MaxLosses,
         UNCHANGED <<host, ws, opening, verifying, armed, held, stopped, retargetPending,
                     detachRequested, told, auth, login, calls, raced>>
  PROVE  IInv'
<1>0. TypeOK /\ Grounded /\ NeverStranded
  BY DEF IInv
<1>1. sock' \in [Sockets -> Socket \cup {NoSocket}]
  BY <1>0, ClosingStep
<1>2. \A t \in Sockets :
        \/ sock'[t] = sock[t]
        \/ /\ sock[t] \in Socket /\ sock'[t] \in Socket /\ sock'[t].state = "closing"
           /\ sock'[t].aimed = sock[t].aimed /\ sock'[t].greeted = sock[t].greeted /\ Live(t)
  <2> SUFFICES ASSUME NEW t \in Sockets, sock'[t] # sock[t]
               PROVE  /\ sock[t] \in Socket /\ sock'[t] \in Socket /\ sock'[t].state = "closing"
                      /\ sock'[t].aimed = sock[t].aimed /\ sock'[t].greeted = sock[t].greeted
                      /\ Live(t)
    OBVIOUS
  <2>1. Live(t) /\ sock[t] \in Socket /\ sock'[t] = [sock[t] EXCEPT !.state = "closing"]
    BY <1>0, ClosingStep
  <2> QED BY <2>1 DEF Socket, States
<1>3. TypeOK'
  BY <1>0, <1>1 DEF TypeOK
<1>4. Grounded' /\ NeverStranded'
  <2>1. ASSUME ws # None PROVE sock'[ws] # NoSocket
    <3>1. ws \in Sockets /\ sock[ws] # NoSocket
      BY <1>0, <2>1 DEF Grounded, TypeOK
    <3>2. sock'[ws] = sock[ws] \/ sock'[ws].state = "closing"
      BY <1>2, <3>1
    <3> QED BY <3>1, <3>2 DEF NoSocket
  <2> QED BY <1>0, <2>1 DEF Grounded, NeverStranded
<1>5. Calm => Calm'
  <2> SUFFICES ASSUME Calm PROVE Calm'
    OBVIOUS
  <2>1. \A t \in Sockets : Live(t)' => Live(t)
    BY <1>2 DEF Live
  <2>2. Tallies' = Tallies
    BY DEF Tallies
  <2>3. ws # None => \/ sock'[ws].aimed
                     \/ sock'[ws].state = "closing" /\ sock'[ws].muted
    <3>1. CASE ws = None
      BY <3>1
    <3>2. CASE ws # None /\ sock'[ws] = sock[ws]
      BY <3>2 DEF Calm
    <3>3. CASE ws # None /\ sock'[ws] # sock[ws]
      <4>1. Live(ws) /\ sock'[ws].aimed = sock[ws].aimed
        BY <1>0, <1>2, <3>3 DEF TypeOK
      <4> QED BY <3>3, <4>1 DEF Calm, Live
    <3> QED BY <3>1, <3>2, <3>3
  <2> QED BY <2>1, <2>2, <2>3 DEF Calm
<1>6. OpenIsUsable => OpenIsUsable'
  BY <1>0, <1>2 DEF OpenIsUsable, TypeOK
<1> QED BY <1>3, <1>4, <1>5, <1>6 DEF IInv

LEMMA HelloRefusedStep ==
  ASSUME IInv, NEW p \in pending, HelloRefused(p) PROVE IInv'
<1>0. TypeOK /\ Grounded /\ p \in Request /\ p.for \in Sockets
  BY DEF IInv, TypeOK, Request
<1>1. UNCHANGED <<host, armed, held, stopped, calls, raced>>
  BY DEF HelloRefused
<1>2. losses' \in 0..MaxLosses
  BY SpendStep, BoundsAssumption DEF IInv, TypeOK, HelloRefused, Spend
<1>3. CASE host = "link" /\ HandleClose(p.for, 1000)
  <2>1. Calm
    BY <1>3 DEF IInv, Grounded
  <2>2. sock[p.for] # NoSocket
    BY <1>0, <2>1, NoneAssumption DEF Calm, Grounded
  <2>3. calls' \in 0..MaxCalls
    BY <1>0, <1>1 DEF TypeOK
  <2> QED BY <1>0, <1>1, <1>2, <1>3, <2>2, <2>3, HandleCloseStep
<1>4. CASE /\ host = "page" /\ pending' = pending \ {p} /\ sock' = Closing({p.for})
           /\ UNCHANGED <<ws, opening, verifying, retargetPending, detachRequested, hostVars>>
  BY <1>1, <1>2, <1>4, HangUpStep DEF hostVars
<1> QED BY <1>3, <1>4 DEF HelloRefused

LEMMA AnsweredStep ==
  ASSUME IInv, NEW p \in pending, Answered(p) PROVE IInv'
<1> USE DEF IInv
<1>1. /\ pending' = pending \ {p}
      /\ UNCHANGED <<host, ws, sock, opening, verifying, armed, held, stopped, retargetPending,
                     detachRequested, told, auth, login, calls, losses, raced>>
  BY DEF Answered, flagVars, hostVars
<1>2. TypeOK' /\ Grounded' /\ NeverStranded' /\ (OpenIsUsable => OpenIsUsable')
  BY <1>1 DEF TypeOK, Grounded, NeverStranded, OpenIsUsable
<1>3. Calm => Calm'
  BY <1>1 DEF Calm, Tallies, Live
<1> QED BY <1>1, <1>2, <1>3

LEMMA SocketLostStep ==
  ASSUME IInv, NEW s \in Sockets, NEW code \in {1006, 4401}, SocketLost(s, code) PROVE IInv'
<1>1. /\ Live(s) /\ (code = 4401 => host = "page") /\ HandleClose(s, code)
      /\ UNCHANGED <<host, armed, held, stopped, calls, raced>>
  BY DEF SocketLost
<1>2. losses' \in 0..MaxLosses
  BY SpendStep, BoundsAssumption DEF IInv, TypeOK, SocketLost, Spend
<1>3. calls' \in 0..MaxCalls /\ sock[s] # NoSocket
  BY <1>1 DEF IInv, TypeOK, Live, NoSocket
<1> QED BY <1>1, <1>2, <1>3, HandleCloseStep

LEMMA SocketLeavingStep ==
  ASSUME IInv, NEW s \in Sockets, SocketLeaving(s) PROVE IInv'
<1>1. losses' \in 0..MaxLosses
  BY SpendStep, BoundsAssumption DEF IInv, TypeOK, SocketLeaving, Spend
<1> QED BY <1>1, HangUpStep DEF SocketLeaving, flagVars, hostVars

LEMMA SocketClosedStep ==
  ASSUME IInv, NEW s \in Sockets, SocketClosed(s) PROVE IInv'
<1>1. /\ sock[s].state = "closing" /\ HandleClose(s, 1000)
      /\ UNCHANGED <<host, armed, held, stopped, calls, losses, raced>>
  BY DEF SocketClosed
<1>2. sock[s] # NoSocket /\ calls' \in 0..MaxCalls /\ losses' \in 0..MaxLosses
  BY <1>1 DEF IInv, TypeOK, NoSocket
<1> QED BY <1>1, <1>2, HandleCloseStep

LEMMA NextInv == IInv /\ [Next]_vars => IInv'
<1> SUFFICES ASSUME IInv, [Next]_vars PROVE IInv'
  OBVIOUS
<1>1. CASE UNCHANGED vars
  BY <1>1 DEF vars, connVars, flagVars, hostVars, IInv, TypeOK, Grounded, NeverStranded, Calm,
              Tallies, Live, OpenIsUsable
<1>2. CASE Next
  BY <1>2, RetryStep, StartLoginStep, LoginSucceedsStep, LoginFailsStep, KickStep, RetargetStep,
     DisconnectStep, AskStep, OpeningAnsweredStep, VerifyingAnsweredStep, TimerFiresStep,
     SocketOpensStep, HelloAnsweredStep, HelloRefusedStep, AnsweredStep, SocketLostStep,
     SocketLeavingStep, SocketClosedStep DEF Next
<1> QED BY <1>1, <1>2

-----------------------------------------------------------------------------
\* The inductive invariant of the connection (Connection.ts).
THEOREM Invariance == Spec => []IInv
BY InitInv, NextInv, PTL DEF Spec

\* Every variable of the connection keeps its type, and every bound holds.
THEOREM TypeCorrect == Spec => []TypeOK
<1>1. IInv => TypeOK
  BY DEF IInv
<1> QED BY <1>1, Invariance, PTL

\* Retargets, disconnects, timers, checks and closes open no second socket, for any
\* number of them: only a connect() during an attempt does (Connection.ts:149).
THEOREM Singleness == Spec => []OneSocketUnlessRaced
<1>1. IInv => OneSocketUnlessRaced
  BY DEF IInv, OneSocketUnlessRaced, OneSocket, Calm
<1> QED BY <1>1, Invariance, PTL

\* A host that is told "connecting" or "reconnecting" waits for an attempt that is
\* under way, raced or not (Connection.ts:149-199, 397-449).
THEOREM AttemptsLeadOn == Spec => []NeverStranded
<1>1. IInv => NeverStranded
  BY DEF IInv
<1> QED BY <1>1, Invariance, PTL

\* "open" is told of a socket to the current target only (Connection.ts:165-186, 341-365).
THEOREM OpenMeansUsable == Spec => []OpenIsUsable
<1>1. IInv => OpenIsUsable
  BY DEF IInv, OpenIsUsable
<1> QED BY <1>1, Invariance, PTL

\* disconnect() ends every attempt: nothing is awaited, armed or open afterwards
\* (Connection.ts:192-201).
THEOREM DisconnectIsFinal == Spec => []StoppedIsDown
<1>1. IInv => StoppedIsDown
  <2> SUFFICES ASSUME IInv, stopped PROVE StoppedIsDown
    BY DEF StoppedIsDown
  <2>1. /\ Tallies = 0 /\ ws = None /\ \A s \in Sockets : ~Live(s)
    BY NoneAssumption DEF IInv, Grounded, Calm
  <2>2. opening + verifying + armed["plain"] + armed["forbidden"] = 0
    BY <2>1 DEF Tallies
  <2>3. opening = 0 /\ verifying = 0 /\ armed["plain"] = 0 /\ armed["forbidden"] = 0
    BY <2>2, Tallied, ZeroSum DEF IInv
  <2> QED BY <2>1, <2>3 DEF StoppedIsDown, Kinds
<1> QED BY <1>1, Invariance, PTL

\* A request is on the socket that is there now, unless raced: handleClose rejects
\* those of the one that goes (Connection.ts:397-435).
THEOREM NoRequestOutlives == Spec => []RequestsFollowSocket
<1>1. IInv => RequestsFollowSocket
  BY DEF IInv, RequestsFollowSocket, Calm
<1> QED BY <1>1, Invariance, PTL

=============================================================================
