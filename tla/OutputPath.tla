----------------------------- MODULE OutputPath -----------------------------
(***************************************************************************)
(* The way of a pane's output: from the PTY through the terminal mirror    *)
(* and to every client that watches the pane                               *)
(* (packages/server/src/terminal/TerminalHost.ts, OutputFanout.ts,         *)
(* Mirror.ts, ws/WsGateway.ts).                                            *)
(*                                                                         *)
(* Output is counted in chunks of one size, and a chunk is its number.     *)
(* What a client's terminal shows is the number of the last chunk of it,   *)
(* or Broken when a chunk reached it that does not follow on what it       *)
(* shows.  The mirror parses what is written to it in turn; a mark stands  *)
(* for an empty write with a callback, after the first `at` chunks.        *)
(***************************************************************************)
EXTENDS Integers, SequencesExt, FiniteSets

CONSTANTS
  Clients,
  MaxChunk,   \* bound on the chunks the program puts out
  MaxCalls,   \* bound on the pane.subscribe calls
  PauseAt,    \* PAUSE_THRESHOLD_BYTES, in chunks
  LowWater,   \* DRAIN_LOW_WATERMARK of the mirror, the fan-out and the socket
  StaleAt     \* STALE_THRESHOLD_BYTES

ASSUME BoundsAssumption == MaxChunk \in Nat /\ MaxCalls \in Nat /\ IsFiniteSet(Clients)
ASSUME ThresholdsAssumption ==
  /\ PauseAt \in Nat /\ StaleAt \in Nat /\ LowWater \in Nat \ {0}
  /\ LowWater <= PauseAt

VARIABLES
  produced,   \* chunks the program has put out
  inStream,   \* does the read stream hold a chunk it has not handed over?
  handle,     \* does the stream's handle read from the kernel?
  flowing,    \* does the stream hand over what it has?
  written,    \* chunks written to the mirror and pushed to the clients
  parsed,     \* chunks the mirror has parsed
  marks,      \* the marks in the mirror's queue
  paused,     \* reading is paused by flow control
  hold,       \* heldForHandoff: "no", "flushing" or "taken"
  screen,     \* what the handoff took of the mirror
  sub,        \* client -> state of its subscription
  buffered,   \* client -> chunks kept for it while it waits for its snapshot
  backlog,    \* client -> chunks and snapshots its socket has not sent
  view,       \* client -> what its terminal will show
  calls       \* pane.subscribe calls so far

reader == <<produced, inStream, handle, flowing>>
flow == <<paused, hold, screen>>
fanout == <<sub, buffered, backlog, view>>
vars == <<reader, written, parsed, marks, flow, fanout, calls>>

Broken == -1
Chunks == 0 .. MaxChunk
Held == hold # "no"
Pending == written - parsed

\* kind: the callback of a client's current attempt, of one that a second
\* subscribe replaced (it still has the chunks from+1 to upto), of one whose
\* generation has passed, or the flush of a handoff.
Mark == [client : Clients \cup {Broken}, kind : {"current", "replaced", "void", "flush"},
         at : Nat, from : Nat, upto : Nat]

TypeOK ==
  /\ produced \in Nat
  /\ inStream \in BOOLEAN /\ handle \in BOOLEAN /\ flowing \in BOOLEAN
  /\ written \in Nat /\ parsed \in Nat /\ parsed <= written
  /\ written + (IF inStream THEN 1 ELSE 0) <= produced
  /\ marks \in Seq(Mark)
  /\ paused \in BOOLEAN
  /\ hold \in {"no", "flushing", "taken"}
  /\ screen \in Nat
  /\ sub \in [Clients -> {"none", "buffering", "live", "stale"}]
  /\ buffered \in [Clients -> Nat]
  /\ backlog \in [Clients -> Nat]
  /\ view \in [Clients -> Nat \cup {Broken}]
  /\ calls \in Nat

Init ==
  /\ produced = 0 /\ written = 0 /\ parsed = 0 /\ calls = 0 /\ screen = 0
  /\ inStream = FALSE /\ handle = TRUE /\ flowing = TRUE /\ paused = FALSE
  /\ hold = "no"
  /\ marks = <<>>
  /\ sub = [c \in Clients |-> "none"]
  /\ buffered = [c \in Clients |-> 0]
  /\ backlog = [c \in Clients |-> 0]
  /\ view = [c \in Clients |-> 0]

-----------------------------------------------------------------------------
(* The PTY's side.                                                         *)

ProgramWrites ==
  /\ produced < MaxChunk
  /\ produced' = produced + 1
  /\ UNCHANGED <<inStream, handle, flowing, written, parsed, marks, flow, fanout, calls>>

HandleReads ==
  /\ handle /\ ~inStream
  /\ written < produced
  /\ inStream' = TRUE
  /\ UNCHANGED <<produced, handle, flowing, written, parsed, marks, flow, fanout, calls>>

\* What a terminal that shows v shows after the chunks from+1 to upto.
Shown(v, from, upto) == IF from = upto THEN v ELSE IF v = from THEN upto ELSE Broken

\* generation++: the callback under way for these clients will be ignored.
Voided(ms, cs) ==
  [i \in DOMAIN ms |-> IF ms[i].kind = "current" /\ ms[i].client \in cs
                         THEN [ms[i] EXCEPT !.kind = "void"] ELSE ms[i]]

\* deliver(): mirror.write and fanout.push of the next chunk in one turn.
TooSlow == {c \in Clients : sub[c] = "live" /\ backlog[c] > StaleAt}
TooMuch == {c \in Clients : sub[c] = "buffering" /\ buffered[c] + 1 > StaleAt}

Push ==
  LET sent == {c \in Clients : sub[c] = "live"} \ TooSlow
      kept == {c \in Clients : sub[c] = "buffering"} \ TooMuch
  IN  /\ written' = written + 1
      /\ sub' = [c \in Clients |-> IF c \in TooSlow \cup TooMuch THEN "stale" ELSE sub[c]]
      /\ buffered' = [c \in Clients |-> IF c \in TooMuch THEN 0
                                        ELSE IF c \in kept THEN buffered[c] + 1 ELSE buffered[c]]
      /\ backlog' = [c \in Clients |-> IF c \in sent THEN backlog[c] + 1 ELSE backlog[c]]
      /\ view' = [c \in Clients |-> IF c \in sent THEN Shown(view[c], written, written + 1)
                                    ELSE view[c]]

\* onData: everything to mirror and clients, then the flow control.
HostReads ==
  /\ flowing /\ inStream
  /\ inStream' = FALSE
  /\ Push
  /\ marks' = Voided(marks, TooMuch)
  /\ paused' = (paused \/ Pending + 1 > PauseAt)
  /\ flowing' = (flowing /\ (paused \/ ~(Pending + 1 > PauseAt)))
  /\ UNCHANGED <<produced, handle, parsed, hold, screen, calls>>

-----------------------------------------------------------------------------
(* The mirror's side.                                                      *)

NewMark(c, kind) == [client |-> c, kind |-> kind, at |-> written, from |-> 0, upto |-> 0]

\* The orders in which retryStale may go over the clients (the map's order).
Orders(cs) ==
  {s \in UNION {[1 .. n -> cs] : n \in 0 .. Cardinality(Clients)} : IsInjective(s) /\ Range(s) = cs}

Retried(pending) ==
  {c \in Clients : sub[c] = "stale" /\ backlog[c] < LowWater /\ pending < LowWater}

\* retryStale() with this much left to parse, when the queue and the clients'
\* states are otherwise ms, states and kept.
RetryStale(pending, ms, states, kept) ==
  /\ \E order \in Orders(Retried(pending)) :
       marks' = ms \o [i \in DOMAIN order |-> NewMark(order[i], "current")]
  /\ sub' = [c \in Clients |-> IF c \in Retried(pending) THEN "buffering" ELSE states[c]]
  /\ buffered' = [c \in Clients |-> IF c \in Retried(pending) THEN 0 ELSE kept[c]]

\* The listeners of onDrained, called when the queue is short.
Drained(pending, ms, states, kept) ==
  IF pending <= LowWater
    THEN /\ paused' = FALSE
         /\ flowing' = (flowing \/ (paused /\ ~Held))
         /\ RetryStale(pending, ms, states, kept)
    ELSE /\ marks' = ms /\ sub' = states /\ buffered' = kept
         /\ UNCHANGED <<paused, flowing>>

MarkDue == marks # <<>> /\ Head(marks).at = parsed

MirrorParses ==
  /\ parsed < written
  /\ ~MarkDue
  /\ parsed' = parsed + 1
  /\ Drained(Pending - 1, marks, sub, buffered)
  /\ UNCHANGED <<produced, inStream, handle, written, hold, screen, backlog, view, calls>>

\* Mutant: the callback does not compare its generation with the entry's.
Effective(k) == k.kind \in {"current", "replaced", "void"}

\* The callback of startBuffering acts unless its generation has passed.
Acts(k) == k.kind \in {"current", "replaced"}

\* The callback of startBuffering: the snapshot, then what was kept for it.
MarkFires ==
  LET k == Head(marks)
      c == k.client
      from == IF k.kind = "replaced" THEN k.from ELSE written - buffered[c]
      upto == IF k.kind = "replaced" THEN k.upto ELSE written
      goesLive == Acts(k) /\ k.kind # "replaced"
  IN
  /\ MarkDue
  /\ k.kind # "flush"
  /\ Drained(Pending, Tail(marks),
             IF goesLive THEN [sub EXCEPT ![c] = "live"] ELSE sub,
             IF goesLive THEN [buffered EXCEPT ![c] = 0] ELSE buffered)
  /\ view' = IF Acts(k) THEN [view EXCEPT ![c] = Shown(parsed, from, upto)] ELSE view
  /\ backlog' = IF Acts(k) THEN [backlog EXCEPT ![c] = @ + 1 + (upto - from)] ELSE backlog
  /\ UNCHANGED <<produced, inStream, handle, written, parsed, hold, screen, calls>>

-----------------------------------------------------------------------------
(* The clients' side.                                                      *)

\* The map's entry is replaced; the attempt under way keeps its own entry.
CallSubscribe(c) ==
  /\ calls < MaxCalls
  /\ calls' = calls + 1
  /\ marks' = Append([i \in DOMAIN marks |->
                        IF marks[i].kind = "current" /\ marks[i].client = c
                          THEN [marks[i] EXCEPT !.kind = "replaced",
                                                !.from = written - buffered[c], !.upto = written]
                          ELSE marks[i]], NewMark(c, "current"))
  /\ sub' = [sub EXCEPT ![c] = "buffering"]
  /\ buffered' = [buffered EXCEPT ![c] = 0]
  /\ UNCHANGED <<reader, written, parsed, flow, backlog, view>>

\* pane.unsubscribe, and the end of the connection.
CallUnsubscribe(c) ==
  /\ sub[c] # "none"
  /\ marks' = Voided(marks, {c})
  /\ sub' = [sub EXCEPT ![c] = "none"]
  /\ buffered' = [buffered EXCEPT ![c] = 0]
  /\ UNCHANGED <<reader, written, parsed, flow, backlog, view, calls>>

\* The client's socket sends.
SocketSends(c) ==
  /\ backlog[c] > 0
  /\ backlog' = [backlog EXCEPT ![c] = @ - 1]
  /\ UNCHANGED <<reader, written, parsed, marks, flow, sub, buffered, view, calls>>

\* onDrain: every 50 ms, for the panes the client watches.
DrainPoll(c) ==
  /\ sub[c] # "none"
  /\ Retried(Pending) # {}
  /\ RetryStale(Pending, marks, sub, buffered)
  /\ UNCHANGED <<reader, written, parsed, flow, backlog, view, calls>>

-----------------------------------------------------------------------------
(* Handing the PTY to the next version of the server.                      *)

\* Mutant: the handle is stopped first; read() then starts it again.
HoldStopsFirst ==
  /\ hold = "no"
  /\ hold' = "flushing"
  /\ IF inStream
       THEN /\ Push
            /\ marks' = Append(Voided(marks, TooMuch), [NewMark(Broken, "flush") EXCEPT !.at = written + 1])
            /\ paused' = (paused \/ Pending + 1 > PauseAt)
            /\ handle' \in BOOLEAN
       ELSE /\ marks' = Append(marks, NewMark(Broken, "flush"))
            /\ handle' = FALSE
            /\ UNCHANGED <<written, paused, fanout>>
  /\ inStream' = FALSE
  /\ flowing' = FALSE
  /\ UNCHANGED <<produced, parsed, screen, calls>>

\* holdForHandoff: what the stream holds goes the usual way, then the handle
\* stops, then the mirror is awaited.
CallHold ==
  /\ hold = "no"
  /\ hold' = "flushing"
  /\ IF inStream
       THEN /\ Push
            /\ marks' = Append(Voided(marks, TooMuch), [NewMark(Broken, "flush") EXCEPT !.at = written + 1])
            /\ paused' = (paused \/ Pending + 1 > PauseAt)
       ELSE /\ marks' = Append(marks, NewMark(Broken, "flush"))
            /\ UNCHANGED <<written, paused, fanout>>
  /\ inStream' = FALSE
  /\ flowing' = FALSE
  /\ handle' = FALSE
  /\ UNCHANGED <<produced, parsed, screen, calls>>

\* The flush ends: the screen is taken, the server may now be replaced.
ScreenTaken ==
  /\ MarkDue
  /\ Head(marks).kind = "flush"
  /\ marks' = Tail(marks)
  /\ hold' = "taken"
  /\ screen' = parsed
  /\ UNCHANGED <<reader, written, parsed, paused, fanout, calls>>

\* Mutant: the handle stays stopped when the handoff is given up.
ReleaseStillStopped ==
  /\ hold = "taken"
  /\ hold' = "no"
  /\ flowing' = ~paused
  /\ UNCHANGED <<produced, inStream, handle, written, parsed, marks, paused, screen, fanout, calls>>

\* releaseHandoffHold: the handoff was given up.
CallRelease ==
  /\ hold = "taken"
  /\ hold' = "no"
  /\ handle' = TRUE
  /\ flowing' = ~paused
  /\ UNCHANGED <<produced, inStream, written, parsed, marks, paused, screen, fanout, calls>>

-----------------------------------------------------------------------------
Next ==
  \/ ProgramWrites
  \/ HandleReads
  \/ HostReads
  \/ MirrorParses
  \/ MarkFires
  \/ \E c \in Clients : CallSubscribe(c)
  \/ \E c \in Clients : CallUnsubscribe(c)
  \/ \E c \in Clients : SocketSends(c)
  \/ \E c \in Clients : DrainPoll(c)
  \/ CallHold
  \/ ScreenTaken
  \/ CallRelease

\* The event loop goes on: streams read, the mirror parses, timers fire, and
\* clients read what is sent to them.
Fairness ==
  /\ WF_vars(HandleReads) /\ WF_vars(HostReads)
  /\ WF_vars(MirrorParses) /\ WF_vars(MarkFires) /\ WF_vars(ScreenTaken)
  /\ \A c \in Clients : WF_vars(SocketSends(c)) /\ WF_vars(DrainPoll(c))

Spec == Init /\ [][Next]_vars
FairSpec == Spec /\ Fairness

-----------------------------------------------------------------------------
\* Whatever was dropped, buffered or snapshot meanwhile, a client's terminal
\* shows the output without a gap and without a repetition, and never goes back.
View == INSTANCE OutputView
ImplementsView == View!Spec

\* When the server is replaced nothing of the output is lost or doubled: all that
\* was taken from the kernel is on the screen handed over.
HandoffLosesNothing == hold = "taken" => ~inStream /\ screen = written

\* Reading is stopped exactly while flow control or a handoff asks for it.
ReadsUnlessTold ==
  /\ flowing <=> ~paused /\ ~Held
  /\ handle <=> ~Held

\* Flow control never stays on: while reading is paused the mirror has enough
\* left to parse to call the listeners that resume it.
PauseEnds == paused => Pending > LowWater

\* Every client that stays gets to see all of the output, unless a handoff holds
\* the reading.
OutputArrives ==
  \A c \in Clients, n \in Chunks :
    sub[c] # "none" /\ produced = n ~> view[c] >= n \/ sub[c] = "none" \/ Held
=============================================================================
