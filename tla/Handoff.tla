------------------------------- MODULE Handoff -------------------------------
(***************************************************************************)
(* A server that replaces itself by the version on disk and keeps its      *)
(* shells (packages/server/src/handoff): HandoffController and the old     *)
(* server's half of it, execve, and the start of the new version in        *)
(* composeServer.listen, with the adopted PTYs (pty/AdoptedPtyProcess.ts)  *)
(* it then lives on.                                                       *)
(*                                                                         *)
(* Across execve nothing is left of the server but the process, its        *)
(* descriptors, session.json and handoff.json, and a shell is known by the *)
(* number of its descriptor.  Panes end and open while this goes on, and a *)
(* number that was closed is handed out again.                             *)
(*                                                                         *)
(* The reading of a pane is that of module OutputPath, cut down to whether *)
(* it goes on and how much it has read; the opening of a pane that of      *)
(* SessionService, cut down to its turns.  This is the system on Linux,    *)
(* where the new version can list the descriptors it finds open.           *)
(***************************************************************************)
EXTENDS Integers, FiniteSets, Functions

CONSTANTS
  MaxPane,      \* bound on the pane ids ever handed out
  MaxRead,      \* bound on reading: when this much was read of a shell, none is read of any
  MaxHandoffs,  \* bound on the handoffs asked for
  MaxFd         \* bound on the numbers of descriptors

ASSUME BoundsAssumption == MaxPane \in Nat \ {0} /\ MaxRead \in Nat /\ MaxHandoffs \in Nat
ASSUME FdAssumption == MaxFd \in Nat /\ MaxFd >= 2 * MaxPane

VARIABLES
  stage,      \* how far the controller, or the start of the new version, is
  closing,    \* ControlRequests.closing: the server is to stop
  clients,    \* are requests and connections taken? (/ws and the other sockets)
  handoffs,   \* handoffs asked for so far
  todo,       \* the panes this handoff has still to hold, or this start to restore
  current,    \* the pane whose hold, or whose new shell, is being awaited
  held,       \* the panes a rollback will release
  late,       \* the panes to release when their hold comes after all
  collected,  \* what the handoff has of the panes: number and screen
  manifest,   \* handoff.json
  taken,      \* what the new version has taken of it
  open,       \* the panes of the session
  asked,      \* openings under way that have no shell yet
  opening,    \* panes whose shell is in its grace period
  nextPane,
  saved,      \* session.json, from flushSession until it is read back: panes and next id
  term,       \* pane -> descriptor of its terminal
  adopted,    \* the panes whose terminal is an AdoptedPtyProcess
  fdClosed,   \* the panes whose terminal has closed its descriptor
  reading,    \* pane -> "on", "flushing", "taken", or "stranded": nothing will release it
  seen,       \* pane -> how much of its output its mirror has
  master,     \* descriptor -> the shell behind it
  shell,      \* shell -> "none", "running", "ended" by itself or "killed"
  shellOf,    \* pane -> the shell last started for it
  read,       \* shell -> how much was read of its output
  writes,     \* writes a thread of the old AdoptedPtyProcess is at
  postponed   \* descriptors to be closed when their write returns

control == <<stage, closing, clients, handoffs>>
handoff == <<todo, current, held, late, collected>>
files == <<manifest, taken, saved>>
session == <<open, asked, opening, nextPane>>
terminals == <<term, adopted, fdClosed, reading, seen>>
system == <<master, shell, shellOf, read>>
input == <<writes, postponed>>
vars == <<control, handoff, files, session, terminals, system, input>>

Nothing == 0
PaneId == 1 .. MaxPane
Fd == 1 .. MaxFd
\* One behind each descriptor, one that each pane remembers, and one that a write remembers
\* are known at once, and then one is new.
Shells == 1 .. MaxFd + MaxPane + 1

\* Nothing that was saved before flushSession is ever read back.
Unsaved == [panes |-> {}, next |-> 1]

HandedOff == [pane : PaneId, fd : Fd, screen : 0 .. MaxRead]
Stages == {"idle", "preflight", "pausing", "holding", "saving", "writing", "leaving",
           "undoing", "starting", "loading", "restoring", "fresh", "down"}

TypeOK ==
  /\ stage \in Stages /\ closing \in BOOLEAN /\ clients \in BOOLEAN /\ handoffs \in 0 .. MaxHandoffs
  /\ todo \subseteq PaneId /\ current \in PaneId \cup {Nothing} /\ held \subseteq PaneId /\ late \subseteq PaneId
  /\ collected \subseteq HandedOff /\ manifest \subseteq HandedOff /\ taken \subseteq HandedOff
  /\ open \subseteq PaneId /\ asked \in Nat /\ opening \subseteq PaneId /\ nextPane \in Nat
  /\ saved \in [panes : SUBSET PaneId, next : Nat] \* Unsaved is one of them
  /\ term \in [PaneId -> Fd \cup {Nothing}] /\ adopted \subseteq PaneId /\ fdClosed \subseteq PaneId
  /\ reading \in [PaneId -> {"on", "flushing", "taken", "stranded"}] /\ seen \in [PaneId -> 0 .. MaxRead]
  /\ master \in [Fd -> Shells \cup {Nothing}] /\ shell \in [Shells -> {"none", "running", "ended", "killed"}]
  /\ shellOf \in [PaneId -> Shells \cup {Nothing}] /\ read \in [Shells -> 0 .. MaxRead]
  /\ writes \subseteq [fd : Fd, shell : Shells] /\ postponed \subseteq Fd

\* A server that is up, with one pane.
Init ==
  /\ stage = "idle" /\ closing = FALSE /\ clients = TRUE /\ handoffs = 0
  /\ todo = {} /\ current = Nothing /\ held = {} /\ late = {} /\ collected = {}
  /\ manifest = {} /\ taken = {} /\ saved = Unsaved
  /\ open = {1} /\ asked = 0 /\ opening = {} /\ nextPane = 2
  /\ term = [p \in PaneId |-> IF p = 1 THEN 1 ELSE Nothing]
  /\ adopted = {} /\ fdClosed = {}
  /\ reading = [p \in PaneId |-> "on"] /\ seen = [p \in PaneId |-> 0]
  /\ master = [x \in Fd |-> IF x = 1 THEN 1 ELSE Nothing]
  /\ shell = [s \in Shells |-> IF s = 1 THEN "running" ELSE "none"]
  /\ shellOf = [p \in PaneId |-> IF p = 1 THEN 1 ELSE Nothing]
  /\ read = [s \in Shells |-> 0]
  /\ writes = {} /\ postponed = {}

-----------------------------------------------------------------------------
(* Terminals and descriptors.                                              *)

Running == stage \notin {"starting", "loading", "down"}

\* The least one: the system hands out the lowest number that is free.
Least(S) == CHOOSE x \in S : \A y \in S : x <= y
Free == Least({f \in Fd : master[f] = Nothing})

\* The shells come to be as status says; those that nothing refers to any more are
\* forgotten, so that they need no bound.
BecomeShells(status, amount) ==
  LET known == Range(master') \cup Range(shellOf') \cup {w.shell : w \in writes'}
  IN  /\ shell' = [s \in Shells |-> IF s \in known THEN status[s] ELSE "none"]
      /\ read' = [s \in Shells |-> IF s \in known THEN amount[s] ELSE 0]
\* Which shell was a pane's is remembered while it is with the handoff.
OnlyTheirShells(ps) ==
  /\ shellOf' = [p \in PaneId |-> IF p \in ps THEN shellOf[p] ELSE Nothing]
  /\ BecomeShells(shell, read)

NewShell == Least({s \in Shells : shell[s] = "none"})

\* TerminalManager.create: a new shell.
Start(p) ==
  LET s == NewShell IN
  /\ term' = [term EXCEPT ![p] = Free]
  /\ master' = [master EXCEPT ![Free] = s]
  /\ shellOf' = [shellOf EXCEPT ![p] = s]
  /\ seen' = [seen EXCEPT ![p] = 0]
  /\ UNCHANGED <<adopted, fdClosed, reading, writes, postponed>>
  /\ BecomeShells([shell EXCEPT ![s] = "running"], read)

\* The hangup these shells get.
Hungup(ss) == [s \in Shells |-> IF s \in ss /\ shell[s] = "running" THEN "killed" ELSE shell[s]]

\* The terminals of ps are gone; their descriptors now are closed at once, those in
\* later when the write that uses them returns.
Gone(ps, now, later) ==
  LET hung == {master[f] : f \in now} \cup {shellOf[p] : p \in ps}
  IN  /\ term' = [p \in PaneId |-> IF p \in ps THEN Nothing ELSE term[p]]
      /\ adopted' = adopted \ ps
      /\ fdClosed' = fdClosed \ ps
      /\ reading' = [p \in PaneId |-> IF p \in ps THEN "on" ELSE reading[p]]
      /\ master' = [f \in Fd |-> IF f \in now THEN Nothing ELSE master[f]]
      /\ shellOf' = [p \in PaneId |-> IF p \in ps /\ p \notin {h.pane : h \in collected \cup manifest}
                                      THEN Nothing ELSE shellOf[p]]
      /\ seen' = [p \in PaneId |-> IF p \in ps THEN 0 ELSE seen[p]]
      /\ postponed' = postponed \cup later
      /\ UNCHANGED writes
      /\ BecomeShells(Hungup(hung), read)

\* The descriptors that the terminals of ps still have open.
FdsOf(ps) == {term[p] : p \in {q \in ps : term[q] # Nothing} \ fdClosed}

\* Mutant: kill() closes the descriptor under the write.
KillAtOnce(ps) == Gone(ps, FdsOf(ps), {})

\* dispose() and kill(): hangup and SIGHUP; the descriptor closes at once, or when
\* the write that is under way on it returns.
Kill(ps) ==
  LET used == FdsOf(ps) \cap {w.fd : w \in {v \in writes : v.shell = master[v.fd]}}
  IN  Gone(ps, FdsOf(ps) \ used, used)

\* The pane leaves the session; an empty session gets a new one (recreateIfEmpty).
Leave(p) ==
  /\ open' = open \ {p}
  /\ asked' = IF open = {p} THEN asked + 1 ELSE asked
  /\ Kill({p})

Session == [panes |-> open, next |-> nextPane]

\* Somebody asks for a new pane ...
CallOpen ==
  /\ clients /\ asked = 0 /\ nextPane + Cardinality(opening) <= MaxPane
  /\ asked' = asked + 1
  /\ UNCHANGED <<control, handoff, files, open, opening, nextPane, terminals, system, input>>

\* ... its shell starts, in a later turn ...
PlaceKnown ==
  /\ Running /\ asked > 0 /\ nextPane <= MaxPane
  /\ asked' = asked - 1
  /\ opening' = opening \cup {nextPane}
  /\ nextPane' = nextPane + 1
  /\ Start(nextPane)
  /\ UNCHANGED <<control, handoff, files, open>>

\* ... and has not failed when the grace period ends: the pane is there.
SpawnEnds(p) ==
  /\ Running /\ p \in opening
  /\ opening' = opening \ {p}
  /\ open' = open \cup {p}
  /\ UNCHANGED <<control, handoff, files, asked, nextPane, terminals, system, input>>

SpawnFails(p) ==
  /\ Running /\ p \in opening
  /\ shell[shellOf[p]] = "ended"
  /\ opening' = opening \ {p}
  /\ Kill({p})
  /\ UNCHANGED <<control, handoff, files, open, asked, nextPane>>

CallClose(p) ==
  /\ clients /\ p \in open
  /\ Leave(p)
  /\ UNCHANGED <<control, handoff, files, opening, nextPane>>

ShellEnds(s) ==
  /\ stage # "down" /\ s \in Range(master) /\ shell[s] = "running"
  /\ shell' = [shell EXCEPT ![s] = "ended"]
  /\ UNCHANGED <<control, handoff, files, session, terminals, master, shellOf, read, input>>

\* The stream of a PTY ends first and closes the descriptor, also under a write.
StreamCloses(p) ==
  /\ Running /\ p \in (open \cup opening) \ fdClosed /\ term[p] # Nothing
  /\ reading[p] = "on" /\ shell[master[term[p]]] = "ended"
  /\ fdClosed' = fdClosed \cup {p}
  /\ master' = [master EXCEPT ![term[p]] = Nothing]
  /\ UNCHANGED <<control, handoff, files, session, term, adopted, reading, seen, shellOf, input>>
  /\ BecomeShells(shell, read)

\* onExit, also for a pane whose reading is held: the terminal is disposed of and the
\* pane closes.
PaneEnds(p) ==
  /\ Running /\ p \in open /\ term[p] # Nothing /\ ~(stage = "restoring" /\ p = current)
  /\ shell[shellOf[p]] = "ended"
  /\ Leave(p)
  /\ UNCHANGED <<control, handoff, files, opening, nextPane>>

\* Output is read into the mirror.
PaneReads(p) ==
  LET s == master[term[p]] IN
  /\ Running /\ p \in open /\ term[p] # Nothing /\ p \notin fdClosed
  /\ reading[p] = "on" /\ shell[s] = "running" /\ (\A t \in Shells : read[t] < MaxRead) /\ seen[p] < MaxRead
  /\ read' = [read EXCEPT ![s] = @ + 1]
  /\ seen' = [seen EXCEPT ![p] = @ + 1]
  /\ UNCHANGED <<control, handoff, files, session, term, adopted, fdClosed, reading, master, shell, shellOf, input>>

\* drain(): one write at a time, by a thread and by the number.
WriteStarts(p) ==
  /\ Running /\ p \in (open \cap adopted) \ fdClosed
  /\ writes = {}
  /\ writes' = {[fd |-> term[p], shell |-> master[term[p]]]}
  /\ UNCHANGED <<control, handoff, files, session, terminals, system, postponed>>

\* On its return the descriptor of a killed terminal is closed, unless the write
\* failed: then drain() is not called again and the descriptor stays open, postponed
\* for good.
WriteReturns(w, failed) ==
  LET closes == ~failed /\ w.fd \in postponed
  IN  /\ writes' = writes \ {w}
      /\ postponed' = IF closes THEN postponed \ {w.fd} ELSE postponed
      /\ master' = IF closes THEN [master EXCEPT ![w.fd] = Nothing] ELSE master
      /\ UNCHANGED <<control, handoff, files, session, terminals, shellOf>>
      /\ BecomeShells(shell, read)

\* PersistScheduler's timer, once more after flushSession.
SessionSaved ==
  /\ stage \in {"writing", "leaving"}
  /\ saved # Session
  /\ saved' = Session
  /\ UNCHANGED <<control, handoff, manifest, taken, session, terminals, system, input>>

-----------------------------------------------------------------------------
(* The old server: what can be undone.                                     *)

\* ControlRequests.request: refused while the server stops or another handoff runs.
RequestHandoff ==
  /\ stage = "idle" /\ ~closing /\ handoffs < MaxHandoffs
  /\ stage' = "preflight"
  /\ handoffs' = handoffs + 1
  /\ UNCHANGED <<closing, clients, handoff, files, session, terminals, system, input>>

\* The version on disk was tried out: nobody is let in any more, and the pollers stop.
PreflightEnds(ok) ==
  /\ stage = "preflight"
  /\ stage' = IF ok THEN "pausing" ELSE "idle"
  /\ clients' = ~ok
  /\ UNCHANGED <<closing, handoffs, handoff, files, session, terminals, system, input>>

\* The pollers have stopped: the panes to hold are those with a terminal now.
PollersStopped ==
  /\ stage = "pausing"
  /\ stage' = "holding"
  /\ todo' = {p \in open : term[p] # Nothing}
  /\ UNCHANGED <<closing, clients, handoffs, current, held, late, collected,
                 files, session, terminals, system, input>>

\* releaseHandoffHold: reading goes on.
Released(ps) == [p \in PaneId |-> IF p \in ps THEN "on" ELSE reading[p]]

\* rollback() while nothing is on disk: everything held, and also, is released.
GiveUp(also) ==
  /\ stage' = "idle" /\ clients' = TRUE
  /\ reading' = Released(held \cup also)
  /\ todo' = {} /\ current' = Nothing /\ held' = {} /\ collected' = {}
  /\ saved' = Unsaved
  /\ UNCHANGED <<closing, handoffs, manifest, taken, session, term, adopted, fdClosed, seen, master, input>>
  /\ OnlyTheirShells(open \cup opening)

PausingFails == stage = "pausing" /\ GiveUp({}) /\ UNCHANGED late

\* Mutant: a pane whose reading an earlier handoff still holds is held again.
HoldsAgain(p) ==
  /\ stage = "holding" /\ current = Nothing /\ p \in todo
  /\ IF term[p] = Nothing \/ p \in fdClosed \/ reading[p] = "taken"
       THEN GiveUp({}) /\ UNCHANGED late
       ELSE /\ current' = p
            /\ reading' = [reading EXCEPT ![p] = "flushing"]
            /\ UNCHANGED <<control, todo, held, late, collected, files, session,
                           term, adopted, fdClosed, seen, system, input>>

\* holdForHandoff of the next pane.  It refuses when the terminal is gone, has closed
\* its descriptor, or is held since an earlier handoff.
HoldNext(p) ==
  /\ stage = "holding" /\ current = Nothing /\ p \in todo
  /\ IF term[p] = Nothing \/ p \in fdClosed \/ reading[p] # "on"
       THEN GiveUp({}) /\ UNCHANGED late
       ELSE /\ current' = p
            /\ reading' = [reading EXCEPT ![p] = "flushing"]
            /\ UNCHANGED <<control, todo, held, late, collected, files, session,
                           term, adopted, fdClosed, seen, system, input>>

\* The mirror has parsed everything: the screen can be taken.
HoldTaken ==
  /\ stage = "holding" /\ current # Nothing /\ term[current] # Nothing
  /\ reading[current] = "flushing"
  /\ reading' = [reading EXCEPT ![current] = "taken"]
  /\ held' = held \cup {current}
  /\ collected' = collected \cup {[pane |-> current, fd |-> term[current], screen |-> seen[current]]}
  /\ todo' = todo \ {current}
  /\ current' = Nothing
  /\ UNCHANGED <<control, late, files, session, term, adopted, fdClosed, seen, system, input>>

\* The flush or the copying of the screen threw (the pane is released at once), or the
\* terminal was disposed of meanwhile.
HoldFails ==
  /\ stage = "holding" /\ current # Nothing
  /\ GiveUp({current})
  /\ UNCHANGED late

\* Mutant: a hold that comes too late is nobody's.
HoldTimesOutForgotten ==
  /\ stage = "holding" /\ current # Nothing
  /\ late' = late
  /\ GiveUp({})

\* The time limit: the pane will be released when its hold comes.
HoldTimesOut ==
  /\ stage = "holding" /\ current # Nothing
  /\ late' = late \cup {current}
  /\ GiveUp({})

\* A late hold that fails is passed over in silence: the pane is not released, and from now
\* on every handoff refuses it.
LateHoldFails(p) ==
  /\ Running /\ p \in late /\ term[p] # Nothing
  /\ late' = late \ {p}
  /\ reading' = [reading EXCEPT ![p] = "stranded"]
  /\ UNCHANGED <<control, todo, current, held, collected, files, session,
                 term, adopted, fdClosed, seen, system, input>>

LateHoldReleased(p) ==
  /\ Running /\ p \in late
  /\ late' = late \ {p}
  /\ reading' = Released({p})
  /\ UNCHANGED <<control, todo, current, held, collected, files, session,
                 term, adopted, fdClosed, seen, system, input>>

\* flushSession.
AllHeld ==
  /\ stage = "holding" /\ current = Nothing /\ todo = {}
  /\ stage' = "saving"
  /\ UNCHANGED <<closing, clients, handoffs, handoff, files, session, terminals, system, input>>

SessionFlushed ==
  /\ stage = "saving"
  /\ saved' = Session
  /\ stage' = "writing"
  /\ UNCHANGED <<closing, clients, handoffs, handoff, manifest, taken, session, terminals, system, input>>

ManifestWritten ==
  /\ stage = "writing"
  /\ manifest' = collected
  /\ stage' = "leaving"
  /\ UNCHANGED <<closing, clients, handoffs, handoff, saved, taken, session, terminals, system, input>>

SavingFails == stage \in {"saving", "writing"} /\ GiveUp({}) /\ UNCHANGED late

\* execve returned: everything is put back, handoff.json last but one.
ExecFails ==
  /\ stage = "leaving"
  /\ stage' = "undoing"
  /\ reading' = Released(held)
  /\ held' = {} /\ collected' = {} /\ saved' = Unsaved
  /\ UNCHANGED <<closing, clients, handoffs, todo, current, late, manifest, taken, session,
                 term, adopted, fdClosed, seen, system, input>>

ManifestRemoved ==
  /\ stage = "undoing"
  /\ manifest' = {}
  /\ stage' = "idle" /\ clients' = TRUE
  /\ UNCHANGED <<closing, handoffs, handoff, saved, taken, session, terminals, master, input>>
  /\ OnlyTheirShells(open \cup opening)

\* A signal, or soda session stop, which a handoff under way refuses.
StopAsked(signal) ==
  /\ Running /\ stage \notin {"restoring", "fresh"}
  /\ signal \/ stage = "idle"
  /\ ~closing
  /\ closing' = TRUE
  /\ UNCHANGED <<stage, clients, handoffs, handoff, files, session, terminals, system, input>>

\* close(): after a handoff under way is over.
ServerStops ==
  /\ stage = "idle" /\ closing
  /\ stage' = "down" /\ clients' = FALSE
  /\ asked' = 0 /\ open' = {} /\ opening' = {}
  /\ Gone(PaneId, Fd, {})
  /\ UNCHANGED <<closing, handoffs, handoff, files, nextPane>>

-----------------------------------------------------------------------------
(* The new version, in the same process.                                   *)

Exec ==
  /\ stage = "leaving"
  /\ stage' = "starting"
  /\ closing' = FALSE
  /\ todo' = {} /\ current' = Nothing /\ held' = {} /\ late' = {} /\ collected' = {}
  /\ asked' = 0 /\ open' = {} /\ opening' = {} /\ nextPane' = 1
  /\ term' = [p \in PaneId |-> Nothing]
  /\ adopted' = {} /\ fdClosed' = {}
  /\ reading' = [p \in PaneId |-> "on"] /\ seen' = [p \in PaneId |-> 0]
  /\ writes' = {} /\ postponed' = {}
  /\ UNCHANGED <<clients, handoffs, files, master, shellOf>>
  /\ BecomeShells(shell, read)

\* closeSync of these, and the hangup their shells get.
CloseAll(fds) ==
  /\ master' = [f \in Fd |-> IF f \in fds THEN Nothing ELSE master[f]]
  /\ UNCHANGED <<shellOf, writes>>
  /\ BecomeShells(Hungup({master[f] : f \in fds}), read)

\* Mutant: what the manifest does not name is left open.
TakeLeavingStrays(usable) ==
  /\ stage = "starting"
  /\ stage' = "loading"
  /\ LET mine == IF usable THEN {h \in manifest : master[h.fd] # Nothing} ELSE {}
     IN  /\ taken' = mine
         /\ CloseAll({h.fd : h \in manifest \ mine})
  /\ manifest' = {}
  /\ UNCHANGED <<closing, clients, handoffs, handoff, saved, session, terminals, postponed>>

\* takeHandoff, before any PTY is opened.  Numbers that are no longer a PTY are not
\* used (isPtyMaster); a file that is unusable, too old or not this one's names none.
\* Every other PTY the process finds open is closed (discardRejectedPanes,
\* closeOrphanPtyMasters).
Take(usable) ==
  /\ stage = "starting"
  /\ stage' = "loading"
  /\ LET mine == IF usable THEN {h \in manifest : master[h.fd] # Nothing} ELSE {}
     IN  /\ taken' = mine
         /\ CloseAll(Fd \ {h.fd : h \in mine})
  /\ manifest' = {}
  /\ UNCHANGED <<closing, clients, handoffs, handoff, saved, session, terminals, postponed>>

\* session.json is read back; without it a new session is begun, ids and all.
SessionLoaded(readable) ==
  /\ stage = "loading"
  /\ stage' = IF readable THEN "restoring" ELSE "fresh"
  /\ todo' = IF readable THEN saved.panes ELSE {}
  /\ open' = IF readable THEN saved.panes ELSE {}
  /\ nextPane' = IF readable THEN saved.next ELSE 1
  /\ asked' = IF readable THEN 0 ELSE 1
  /\ UNCHANGED <<closing, clients, handoffs, current, held, late, collected, files, opening,
                 terminals, master, input>>
  /\ OnlyTheirShells(IF readable THEN saved.panes \cap {h.pane : h \in taken} ELSE {})

\* adoptForPane: the PTY, the size and the screen of the old server.
Adopt(h) ==
  /\ stage = "restoring" /\ current = Nothing /\ h.pane \in todo
  /\ todo' = todo \ {h.pane}
  /\ taken' = taken \ {h}
  /\ term' = [term EXCEPT ![h.pane] = h.fd]
  /\ adopted' = adopted \cup {h.pane}
  /\ seen' = [seen EXCEPT ![h.pane] = h.screen]
  /\ UNCHANGED <<control, current, held, late, collected, manifest, saved, session,
                 fdClosed, reading, system, input>>

\* restorePaneProcess, for a pane without a PTY or with one that no terminal could be
\* made of: a new shell, and its grace period.
RestoreShell(p) ==
  /\ stage = "restoring" /\ current = Nothing /\ p \in todo
  /\ current' = p
  /\ Start(p)
  /\ UNCHANGED <<control, todo, held, late, collected, files, session>>

RestoreEnds(failed) ==
  /\ stage = "restoring" /\ current # Nothing
  /\ todo' = todo \ {current}
  /\ current' = Nothing
  /\ IF failed THEN shell[shellOf[current]] = "ended" /\ Kill({current})
               ELSE UNCHANGED <<terminals, system, input>>
  /\ UNCHANGED <<control, held, late, collected, files, session>>

\* finishTakenHandoff and the rest of listen(): PTYs that no pane took are closed.
Restored ==
  /\ \/ stage = "restoring" /\ todo = {}
     \/ stage = "fresh" /\ open # {}
  /\ stage' = "idle" /\ clients' = TRUE
  /\ CloseAll({h.fd : h \in taken})
  /\ taken' = {} /\ saved' = Unsaved
  /\ UNCHANGED <<closing, handoffs, handoff, manifest, session, terminals, postponed>>

\* The start fails: the process ends, and all it has is closed.
StartFails ==
  /\ stage \in {"loading", "restoring", "fresh"}
  /\ stage' = "down"
  /\ todo' = {} /\ current' = Nothing /\ taken' = {} /\ saved' = Unsaved
  /\ asked' = 0 /\ open' = {} /\ opening' = {}
  /\ Gone(PaneId, Fd, {})
  /\ UNCHANGED <<closing, clients, handoffs, held, late, collected, manifest, nextPane>>

-----------------------------------------------------------------------------
SessionNext ==
  \/ CallOpen
  \/ PlaceKnown
  \/ \E p \in PaneId : SpawnEnds(p)
  \/ \E p \in PaneId : SpawnFails(p)
  \/ \E p \in PaneId : CallClose(p)
  \/ \E s \in Shells : ShellEnds(s)
  \/ \E p \in PaneId : StreamCloses(p)
  \/ \E p \in PaneId : PaneEnds(p)
  \/ \E p \in PaneId : PaneReads(p)
  \/ \E p \in PaneId : WriteStarts(p)
  \/ \E w \in writes, failed \in BOOLEAN : WriteReturns(w, failed)
  \/ SessionSaved

OldNext ==
  \/ RequestHandoff
  \/ \E ok \in BOOLEAN : PreflightEnds(ok)
  \/ PollersStopped
  \/ PausingFails
  \/ \E p \in PaneId : HoldNext(p)
  \/ HoldTaken
  \/ HoldFails
  \/ HoldTimesOut
  \/ \E p \in PaneId : LateHoldReleased(p)
  \/ \E p \in PaneId : LateHoldFails(p)
  \/ AllHeld
  \/ SessionFlushed
  \/ ManifestWritten
  \/ SavingFails
  \/ ExecFails
  \/ ManifestRemoved
  \/ \E signal \in BOOLEAN : StopAsked(signal)
  \/ ServerStops

NewNext ==
  \/ Exec
  \/ \E usable \in BOOLEAN : Take(usable)
  \/ \E readable \in BOOLEAN : SessionLoaded(readable)
  \/ \E h \in taken : Adopt(h)
  \/ \E p \in PaneId : RestoreShell(p)
  \/ \E failed \in BOOLEAN : RestoreEnds(failed)
  \/ Restored
  \/ StartFails

Next == SessionNext \/ OldNext \/ NewNext

\* The controller, the start of the new version and the end of the server go on: of
\* these steps no two can be taken in one state, so each is taken in its turn.
GoesOn ==
  \/ \E ok \in BOOLEAN : PreflightEnds(ok)
  \/ PollersStopped
  \/ \E p \in PaneId : HoldNext(p)
  \/ HoldTimesOut
  \/ AllHeld \/ SessionFlushed \/ ManifestWritten
  \/ Exec \/ ManifestRemoved
  \/ \E usable \in BOOLEAN : Take(usable)
  \/ \E readable \in BOOLEAN : SessionLoaded(readable)
  \/ \E p \in PaneId : RestoreShell(p)
  \/ \E failed \in BOOLEAN : RestoreEnds(failed)
  \/ Restored
  \/ stage = "fresh" /\ open \cup opening = {} /\ StartFails \* also when MaxPane is used up

\* Turns of the event loop follow, mirrors parse, time limits pass.  Nothing is
\* assumed of shells, of clients, or of what fails.
Fairness ==
  /\ WF_vars(GoesOn)
  /\ WF_vars(PlaceKnown) /\ \A p \in PaneId : WF_vars(SpawnEnds(p))
  /\ \A p \in PaneId : WF_vars(LateHoldReleased(p) \/ LateHoldFails(p))

Spec == Init /\ [][Next]_vars
FairSpec == Spec /\ Fairness

-----------------------------------------------------------------------------
Serving == stage \notin {"starting", "loading", "restoring", "fresh", "down"}

\* Across a handoff no output is lost: a pane that kept its shell shows all that was
\* ever read of it.  Reading that goes on after the screen was taken would be lost.
HandoverLosesNothing ==
  \A p \in open :
    term[p] # Nothing /\ p \notin fdClosed /\ master[term[p]] = shellOf[p] => seen[p] = read[shellOf[p]]

\* No shell goes on unseen: whenever the server is up, a running shell whose PTY it has
\* belongs to a pane or to one being opened, whatever the old version had under way.
\* What waits for a write to return is not counted: kill() has dealt with its pane.
NoShellUnseen ==
  Serving => \A f \in Fd \ postponed : master[f] # Nothing /\ shell[master[f]] = "running" =>
               \E p \in open \cup opening : term[p] = f

\* A number that is used again is nobody's trap.  A pane reaches its own shell by the
\* number it has, and so does a write that is still under way, unless that shell had
\* ended by itself, so that its number was free before the server knew.
OwnShell ==
  /\ \A p \in open \cup opening :
       term[p] # Nothing => master[term[p]] = shellOf[p] \/ shell[shellOf[p]] = "ended"
  /\ \A w \in writes : master[w.fd] \in {Nothing, w.shell} \/ shell[w.shell] = "ended"

\* A handoff that does not happen leaves nothing behind: every pane whose reading was
\* stopped is read again, and clients are let in again, by the old server or the new.  The
\* exception is a pane whose hold failed after its time limit (HandoffController.ts:274).
EverythingResumes ==
  \A p \in PaneId :
    ~clients \/ reading[p] # "on" ~>
      stage = "down" \/ (clients /\ reading[p] \in {"on", "stranded"})
=============================================================================
