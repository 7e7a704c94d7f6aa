---------------------------- MODULE TerminalInput ----------------------------
(***************************************************************************)
(* The input side of one terminal (server/src/terminal/TerminalHost.ts).   *)
(* A modal input is built from the modes of the terminal and written in    *)
(* parts with a delay between them; whatever else is written meanwhile     *)
(* waits in a queue.  A host is a record: `job` at work (None: not busy)   *)
(* and its `stage`, the `queue`, whether it is `open`, and `out`, what was *)
(* given to the PTY.                                                       *)
(*                                                                         *)
(* An item is [raw |-> a chunk] or [modal |-> a job]; what is in `out` is  *)
(* [raw |-> a chunk] or [part |-> i, of |-> a job].                        *)
(***************************************************************************)
EXTENDS Integers, SequencesExt

NewHost(None) == [job |-> None, stage |-> "flush", queue |-> << >>, open |-> TRUE, out |-> << >>]

Busy(h, None) == h.job # None

IsRaw(item) == "raw" \in DOMAIN item

\* Mutant: input waits only until the first part is written.
WriteDuringDelay(h, x, None) ==
  IF ~h.open THEN h
  ELSE IF Busy(h, None) /\ h.stage # "delay" THEN [h EXCEPT !.queue = Append(@, [raw |-> x])]
       ELSE [h EXCEPT !.out = Append(@, [raw |-> x])]

\* write: a closed PTY throws its input away.
Write(h, x, None) ==
  IF ~h.open THEN h
  ELSE IF Busy(h, None) THEN [h EXCEPT !.queue = Append(@, [raw |-> x])]
       ELSE [h EXCEPT !.out = Append(@, [raw |-> x])]

\* runModal, up to its first await.
RunModal(h, j) == [h EXCEPT !.job = j, !.stage = "flush"]

WriteModal(h, j, None) ==
  IF Busy(h, None) THEN [h EXCEPT !.queue = Append(@, [modal |-> j])] ELSE RunModal(h, j)

\* drainQueue: the raw items up to the next modal, which starts.
DrainQueue(h, None) ==
  LET modals == {i \in DOMAIN h.queue : ~IsRaw(h.queue[i])}
      n == IF modals = {} THEN Len(h.queue) ELSE (CHOOSE i \in modals : \A k \in modals : i <= k) - 1
      written == [h EXCEPT !.out = @ \o SubSeq(h.queue, 1, n),
                           !.queue = SubSeq(@, n + 2, Len(@))]
  IN  IF modals = {} THEN [written EXCEPT !.job = None]
      ELSE RunModal(written, h.queue[n + 1].modal)

WritePart(h, i) == [h EXCEPT !.out = Append(@, [part |-> i, of |-> h.job])]

\* closeInput: the jobs at work and in the queue are rejected, raw items dropped.
Unfinished(h, None) ==
  ({h.job} \ {None}) \cup {item.modal : item \in {q \in Range(h.queue) : ~IsRaw(q)}}

CloseInput(h, None) == [h EXCEPT !.open = FALSE, !.job = None, !.stage = "flush", !.queue = << >>]
=============================================================================
