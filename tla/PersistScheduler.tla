-------------------------- MODULE PersistScheduler --------------------------
(***************************************************************************)
(* session.json is written by DefaultPersistScheduler                      *)
(* (packages/server/src/session/PersistScheduler.ts).  Every change of the *)
(* session calls touch(); a timer gathers the changes of 500 ms into one   *)
(* save; flush() saves at once and cancel() forgets what is only planned.  *)
(*                                                                         *)
(* The session is reduced to a version number: the state a save writes is  *)
(* the version at the moment the save starts.  Promises become what waits  *)
(* on them: a save in progress, and the continuations chained to it, which *)
(* run some microtasks after the save has settled.  In that gap any other  *)
(* call may come first, and that is where the scheduler is delicate.       *)
(***************************************************************************)
EXTENDS Naturals

CONSTANTS
  MaxVersion,     \* bound on the number of session changes
  Saves,          \* identities of save promises
  Continuations,  \* identities of "after the save in progress" promises
  Flushers,       \* concurrent callers of flush()
  None

ASSUME MaxVersionAssumption == MaxVersion \in Nat
ASSUME NoneAssumption ==
  /\ None \notin Saves
  /\ None \notin Continuations
  /\ None \notin Nat
  /\ Saves \cap Continuations = {}

VARIABLES
  version,    \* the session's current version
  disk,       \* the version session.json holds
  timer,      \* is the 500 ms timer armed?
  running,    \* save -> version it is writing, None when it is not running
  inFlight,   \* this.inFlight: a save or None
  after,      \* continuation -> the save it is chained to, or None
  ready,      \* the continuations whose save has settled and that have not run
  queued,     \* this.queued: a continuation or None
  flush,      \* flusher -> [status, on, need]: what each flush() waits for
  excused     \* the newest version was given up: cancelled, or its save failed

saverVars == <<version, disk, timer, running, inFlight, after, ready, queued, flush, excused>>
promises == <<running, inFlight, after, ready, queued>>

Versions == 0 .. MaxVersion
Promises == Saves \cup Continuations
FlushStates == [status : {"idle", "waiting", "saved", "failed", "dropped"},
                on : Promises \cup {None}, need : Versions, cancelled : BOOLEAN]

SaverTypeOK ==
  /\ version \in Versions
  /\ disk \in Versions
  /\ timer \in BOOLEAN
  /\ running \in [Saves -> Versions \cup {None}]
  /\ inFlight \in Saves \cup {None}
  /\ after \in [Continuations -> Saves \cup {None}]
  /\ ready \in SUBSET Continuations
  /\ queued \in Continuations \cup {None}
  /\ flush \in [Flushers -> FlushStates]
  /\ excused \in BOOLEAN

SaverInit ==
  /\ version = 0
  /\ disk = 0
  /\ timer = FALSE
  /\ running = [s \in Saves |-> None]
  /\ inFlight = None
  /\ after = [c \in Continuations |-> None]
  /\ ready = {}
  /\ queued = None
  /\ flush = [f \in Flushers |-> [status |-> "idle", on |-> None, need |-> 0, cancelled |-> FALSE]]
  /\ excused = FALSE

-----------------------------------------------------------------------------
\* An identity nobody refers to any more stands for the next new promise.
FreeSave(s) == running[s] = None /\ inFlight # s
FreeContinuation(c) == after[c] = None /\ c \notin ready /\ queued # c

\* startSave(): the snapshot is taken synchronously, so it is the current version.
StartSave(s) ==
  /\ FreeSave(s)
  /\ running' = [running EXCEPT ![s] = version]
  /\ inFlight' = s

\* Mutant: a request in the gap after a save does not see the planned save.
RunSaveIgnoringQueue(p) ==
  \/ /\ inFlight = None
     /\ p \in Saves
     /\ StartSave(p)
     /\ UNCHANGED <<after, ready, queued>>
  \/ /\ queued = None
     /\ inFlight # None
     /\ p \in Continuations
     /\ FreeContinuation(p)
     /\ after' = [after EXCEPT ![p] = inFlight]
     /\ queued' = p
     /\ UNCHANGED <<running, inFlight, ready>>

\* Mutant: a request during a save is answered by that save.
RunSaveRidingAlong(p) ==
  \/ /\ inFlight # None
     /\ p = inFlight
     /\ UNCHANGED promises
  \/ /\ inFlight = None
     /\ p \in Saves
     /\ StartSave(p)
     /\ UNCHANGED <<after, ready, queued>>

\* runSave(): the promise p that the caller gets.
RunSave(p) ==
  \/ /\ queued # None
     /\ p = queued
     /\ UNCHANGED promises
  \/ /\ queued = None
     /\ inFlight = None
     /\ p \in Saves
     /\ StartSave(p)
     /\ UNCHANGED <<after, ready, queued>>
  \/ /\ queued = None
     /\ inFlight # None
     /\ p \in Continuations
     /\ FreeContinuation(p)
     /\ after' = [after EXCEPT ![p] = inFlight]
     /\ queued' = p
     /\ UNCHANGED <<running, inFlight, ready>>

\* A change of the session and the touch() that follows it in the same turn.
Touch ==
  /\ version < MaxVersion
  /\ version' = version + 1
  /\ timer' = TRUE
  /\ excused' = FALSE
  /\ UNCHANGED <<disk, promises, flush>>

\* The timer's callback: nobody awaits the promise it gets.
TimerFires ==
  /\ timer
  /\ timer' = FALSE
  /\ \E p \in Promises : RunSave(p)
  /\ UNCHANGED <<version, disk, flush, excused>>

\* flush(): drops the timer, because what it runs covers the same changes.
CallFlush(f) ==
  /\ flush[f].status # "waiting"
  /\ timer' = FALSE
  /\ \E p \in Promises :
       /\ RunSave(p)
       /\ flush' = [flush EXCEPT ![f] =
                      [status |-> "waiting", on |-> p, need |-> version, cancelled |-> FALSE]]
  /\ UNCHANGED <<version, disk, excused>>

\* cancel(): a save in progress goes on, a planned one is forgotten.
Cancel ==
  /\ timer \/ queued # None
  /\ timer' = FALSE
  /\ queued' = None
  /\ excused' = TRUE
  /\ flush' = [f \in Flushers |->
                 IF flush[f].status = "waiting"
                   THEN [flush[f] EXCEPT !.cancelled = TRUE] ELSE flush[f]]
  /\ UNCHANGED <<version, disk, running, inFlight, after, ready>>

Settle(p, status) ==
  flush' = [f \in Flushers |->
              IF flush[f].status = "waiting" /\ flush[f].on = p
                THEN [flush[f] EXCEPT !.status = status, !.on = None] ELSE flush[f]]

\* Mutant: the finally() does not clear inFlight.
SaveSettlesStillInFlight(s) ==
  /\ running[s] # None
  /\ running' = [running EXCEPT ![s] = None]
  /\ ready' = ready \cup {c \in Continuations : after[c] = s}
  /\ after' = [c \in Continuations |-> IF after[c] = s THEN None ELSE after[c]]
  /\ UNCHANGED <<version, timer, queued, inFlight>>

\* The finally() of a save: its continuations become runnable, not yet run.
SaveSettles(s) ==
  /\ running[s] # None
  /\ running' = [running EXCEPT ![s] = None]
  /\ inFlight' = IF inFlight = s THEN None ELSE inFlight
  /\ ready' = ready \cup {c \in Continuations : after[c] = s}
  /\ after' = [c \in Continuations |-> IF after[c] = s THEN None ELSE after[c]]
  /\ UNCHANGED <<version, timer, queued>>

\* SessionFile.save writes a temporary file and renames it: all or nothing.
SaveSucceeds(s) ==
  /\ SaveSettles(s)
  /\ disk' = running[s]
  /\ Settle(s, "saved")
  /\ UNCHANGED excused

SaveFails(s) ==
  /\ SaveSettles(s)
  /\ excused' = (excused \/ running[s] = version)
  /\ Settle(s, "failed")
  /\ UNCHANGED disk

\* The .then() of a continuation that cancel() (and maybe a later flush) overtook.
ContinuationDropped(c) ==
  /\ c \in ready
  /\ queued # c
  /\ ready' = ready \ {c}
  /\ Settle(c, "dropped")
  /\ UNCHANGED <<version, disk, timer, running, inFlight, after, queued, excused>>

\* The .then() of the current continuation: its callers now wait for the new save.
ContinuationSaves(c) ==
  /\ c \in ready
  /\ queued = c
  /\ ready' = ready \ {c}
  /\ queued' = None
  /\ \E s \in Saves :
       /\ StartSave(s)
       /\ flush' = [f \in Flushers |->
                      IF flush[f].status = "waiting" /\ flush[f].on = c
                        THEN [flush[f] EXCEPT !.on = s] ELSE flush[f]]
  /\ UNCHANGED <<version, disk, timer, after, excused>>

SaveEnds(s) == SaveSucceeds(s) \/ SaveFails(s)
ContinuationRuns(c) == ContinuationDropped(c) \/ ContinuationSaves(c)

SaverNext ==
  \/ Touch
  \/ TimerFires
  \/ \E f \in Flushers : CallFlush(f)
  \/ Cancel
  \/ \E s \in Saves : SaveSucceeds(s) \/ SaveFails(s)
  \/ \E c \in Continuations : ContinuationDropped(c) \/ ContinuationSaves(c)

\* The event loop runs armed timers and microtasks; file operations end.
SaverFairness ==
  /\ WF_saverVars(TimerFires)
  /\ \A s \in Saves : WF_saverVars(SaveEnds(s))
  /\ \A c \in Continuations : WF_saverVars(ContinuationRuns(c))

SaverSpec == SaverInit /\ [][SaverNext]_saverVars
SaverFairSpec == SaverSpec /\ SaverFairness

-----------------------------------------------------------------------------
\* Two saves never run at once (the bug the comment on inFlight tells of), also
\* when cancel() and flush() slip between a save's end and its continuation.
AtMostOneSave ==
  \A s, u \in Saves : running[s] # None /\ running[u] # None => s = u

\* A flush() that resolved after a save has every change made before the call
\* on disk: it never rides on a save that had started earlier.
FlushDurable ==
  \A f \in Flushers : flush[f].status = "saved" => flush[f].need <= disk

\* A flush() resolves without saving only when cancel() was called meanwhile.
DroppedOnlyByCancel ==
  \A f \in Flushers : flush[f].status = "dropped" => flush[f].cancelled

\* An unsaved change always has something left that will save it: the timer,
\* the planned save, or a save in progress that started after the change.
NothingForgotten ==
  version > disk =>
    \/ timer
    \/ queued # None
    \/ inFlight # None /\ running[inFlight] = version
    \/ excused

\* session.json never goes back to an older state of the session.
DiskNeverGoesBack == [][disk' >= disk]_saverVars

\* Every change reaches the disk, unless its save failed or it was cancelled:
\* touch() and the queue never lose it.
EventuallySaved ==
  \A v \in Versions : version = v ~> disk >= v \/ excused

\* Every flush() call gets its answer.
FlushAnswered ==
  \A f \in Flushers : flush[f].status = "waiting" ~> flush[f].status # "waiting"
=============================================================================
