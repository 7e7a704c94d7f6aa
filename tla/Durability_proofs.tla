--------------------------- MODULE Durability_proofs ---------------------------
(***************************************************************************)
(* What outlives a server: the session, which PersistScheduler puts on     *)
(* disk, and the shells, which Handoff takes through execve.  The safety   *)
(* properties of both, for any number of saves, continuations, flush()     *)
(* callers and changes, and of panes, descriptors, handoffs and reads.     *)
(*                                                                         *)
(* Part 1: the saver.  Part 2: the handoff.                                *)
(***************************************************************************)
EXTENDS PersistScheduler, Handoff, FiniteSetTheorems, WellFoundedInduction, TLAPS

-----------------------------------------------------------------------------
(* Part 1: the saving of the session.                                      *)

\* this.inFlight names exactly the save that is running.
RunningIsInFlight == \A s \in Saves : running[s] # None <=> inFlight = s

\* The planned save is chained to the save in progress, or about to run when
\* none is in progress.
QueuedFollows ==
  queued # None =>
    \/ queued \notin ready /\ inFlight # None /\ after[queued] = inFlight
    \/ queued \in ready /\ inFlight = None

\* What is on disk, what is being written and the session follow in this order.
VersionOrder ==
  /\ disk <= version
  /\ \A s \in Saves : running[s] # None => disk <= running[s] /\ running[s] <= version

\* Whoever waits, waits for a save that covers the call, or for a continuation
\* that is the planned one unless cancel() came in between.
WaiterCovered(f) ==
  flush[f].status = "waiting" =>
    /\ flush[f].need <= version
    /\ flush[f].on \in Promises
    /\ flush[f].on \in Saves =>
         running[flush[f].on] # None /\ flush[f].need <= running[flush[f].on]
    /\ flush[f].on \in Continuations =>
         /\ flush[f].on = queued \/ flush[f].cancelled
         /\ after[flush[f].on] # None \/ flush[f].on \in ready
WaitersCovered == \A f \in Flushers : WaiterCovered(f)

SaverIInv ==
  /\ SaverTypeOK
  /\ RunningIsInFlight
  /\ QueuedFollows
  /\ VersionOrder
  /\ WaitersCovered
  /\ FlushDurable
  /\ DroppedOnlyByCancel
  /\ NothingForgotten

-----------------------------------------------------------------------------
LEMMA SaverInitIInv == SaverInit => SaverIInv
  <1> SUFFICES ASSUME SaverInit PROVE SaverIInv
    OBVIOUS
  <1> USE MaxVersionAssumption, NoneAssumption DEF SaverInit
  <1>1. 0 \in Versions
    BY DEF Versions
  <1>2. flush \in [Flushers -> FlushStates]
    BY <1>1 DEF FlushStates
  <1>3. SaverTypeOK
    BY <1>1, <1>2 DEF SaverTypeOK
  <1>4. RunningIsInFlight /\ QueuedFollows /\ VersionOrder /\ NothingForgotten
    BY DEF RunningIsInFlight, QueuedFollows, VersionOrder, NothingForgotten
  <1>5. WaitersCovered /\ FlushDurable /\ DroppedOnlyByCancel
    BY DEF WaitersCovered, WaiterCovered, FlushDurable, DroppedOnlyByCancel
  <1> QED
    BY <1>3, <1>4, <1>5 DEF SaverIInv

\* A change is always followed by an armed timer.
LEMMA TouchIInv == SaverIInv /\ Touch => SaverIInv'
  <1> SUFFICES ASSUME SaverIInv, Touch PROVE SaverIInv'
    OBVIOUS
  <1> USE MaxVersionAssumption, NoneAssumption DEF SaverIInv, Touch, promises
  <1>1. SaverTypeOK'
    <2>1. version' \in Versions
      BY DEF SaverTypeOK, Versions
    <2> QED
      BY <2>1 DEF SaverTypeOK
  <1>2. VersionOrder'
    BY DEF VersionOrder, SaverTypeOK, Versions
  <1>3. WaitersCovered'
    BY DEF WaitersCovered, WaiterCovered, SaverTypeOK, Versions, FlushStates
  <1>4. (RunningIsInFlight /\ QueuedFollows /\ FlushDurable /\ DroppedOnlyByCancel)'
    BY DEF RunningIsInFlight, QueuedFollows, FlushDurable, DroppedOnlyByCancel
  <1>5. NothingForgotten'
    BY DEF NothingForgotten
  <1> QED
    BY <1>1, <1>2, <1>3, <1>4, <1>5

\* runSave() leaves the saves, the queue and the waiters it finds in order, and
\* the promise it returns covers the current version.
LEMMA RunSaveKeeps ==
  ASSUME SaverIInv, NEW p \in Promises, RunSave(p),
         UNCHANGED <<version, disk, flush, excused>> \/ UNCHANGED <<version, disk, excused>>
  PROVE  /\ running' \in [Saves -> Versions \cup {None}]
         /\ inFlight' \in Saves \cup {None}
         /\ after' \in [Continuations -> Saves \cup {None}]
         /\ ready' = ready
         /\ queued' \in Continuations \cup {None}
         /\ RunningIsInFlight' /\ QueuedFollows' /\ VersionOrder'
         /\ \A s \in Saves : running[s] # None => running'[s] = running[s]
         /\ \A c \in Continuations : after[c] # None => after'[c] = after[c]
         /\ queued # None => queued' = queued
         /\ queued' # None \/ (inFlight' # None /\ running'[inFlight'] = version')
         /\ p \in Saves => running'[p] = version
         /\ p \in Continuations => queued' = p /\ (after'[p] # None \/ p \in ready)
  <1> USE MaxVersionAssumption, NoneAssumption
      DEF SaverIInv, RunningIsInFlight, QueuedFollows, VersionOrder, SaverTypeOK, Versions, promises
  <1>1. CASE queued # None /\ p = queued /\ UNCHANGED promises
    BY <1>1
  <1>2. CASE /\ queued = None /\ inFlight = None /\ p \in Saves
             /\ StartSave(p) /\ UNCHANGED <<after, ready, queued>>
    BY <1>2 DEF StartSave, FreeSave
  <1>3. CASE /\ queued = None /\ inFlight # None /\ p \in Continuations
             /\ FreeContinuation(p)
             /\ after' = [after EXCEPT ![p] = inFlight]
             /\ queued' = p
             /\ UNCHANGED <<running, inFlight, ready>>
    BY <1>3 DEF FreeContinuation
  <1> QED
    BY <1>1, <1>2, <1>3 DEF RunSave

LEMMA TimerFiresIInv == SaverIInv /\ TimerFires => SaverIInv'
  <1> SUFFICES ASSUME SaverIInv, TimerFires PROVE SaverIInv'
    OBVIOUS
  <1>1. PICK p \in Promises : RunSave(p)
    BY DEF TimerFires
  <1>2. UNCHANGED <<version, disk, flush, excused>> /\ timer' = FALSE
    BY DEF TimerFires
  <1>3. SaverTypeOK'
    BY <1>1, <1>2, RunSaveKeeps DEF SaverIInv, SaverTypeOK
  <1>4. WaitersCovered'
    <2> SUFFICES ASSUME NEW f \in Flushers, flush[f].status = "waiting"
                 PROVE  WaiterCovered(f)'
      BY <1>2 DEF WaitersCovered, WaiterCovered
    <2>1. WaiterCovered(f)
      BY DEF SaverIInv, WaitersCovered
    <2>2. flush[f].cancelled \/ flush[f].on = queued \/ flush[f].on \notin Continuations
      BY <2>1 DEF WaiterCovered
    <2>3. flush[f].on = queued /\ flush[f].on \in Continuations => queued' = queued
      BY <1>1, <1>2, RunSaveKeeps, NoneAssumption
    <2> QED
      BY <1>1, <1>2, <2>1, <2>2, <2>3, RunSaveKeeps DEF WaiterCovered
  <1>5. (FlushDurable /\ DroppedOnlyByCancel)'
    BY <1>2 DEF SaverIInv, FlushDurable, DroppedOnlyByCancel
  <1>6. NothingForgotten'
    BY <1>1, <1>2, RunSaveKeeps DEF NothingForgotten
  <1>7. (RunningIsInFlight /\ QueuedFollows /\ VersionOrder)'
    BY <1>1, <1>2, RunSaveKeeps
  <1> QED
    BY <1>3, <1>4, <1>5, <1>6, <1>7 DEF SaverIInv

LEMMA CallFlushIInv == ASSUME SaverIInv, NEW f \in Flushers, CallFlush(f) PROVE SaverIInv'
  <1>1. PICK p \in Promises :
          /\ RunSave(p)
          /\ flush' = [flush EXCEPT ![f] =
                         [status |-> "waiting", on |-> p, need |-> version, cancelled |-> FALSE]]
    BY DEF CallFlush
  <1>2. UNCHANGED <<version, disk, excused>> /\ timer' = FALSE
    BY DEF CallFlush
  <1>3. flush' \in [Flushers -> FlushStates]
    BY <1>1 DEF SaverIInv, SaverTypeOK, FlushStates
  <1>4. SaverTypeOK'
    BY <1>1, <1>2, <1>3, RunSaveKeeps DEF SaverIInv, SaverTypeOK
  <1>5. WaitersCovered'
    <2> SUFFICES ASSUME NEW g \in Flushers, flush'[g].status = "waiting"
                 PROVE  WaiterCovered(g)'
      BY DEF WaitersCovered, WaiterCovered
    <2>1. CASE g = f
      <3>1. flush'[g] = [status |-> "waiting", on |-> p, need |-> version, cancelled |-> FALSE]
        BY <1>1, <2>1 DEF SaverIInv, SaverTypeOK
      <3>2. version \in Nat
        BY MaxVersionAssumption DEF SaverIInv, SaverTypeOK, Versions
      <3>3. p \in Saves => running'[p] # None /\ version <= running'[p]
        BY <1>1, <1>2, <3>2, RunSaveKeeps, NoneAssumption
      <3> QED
        BY <1>1, <1>2, <3>1, <3>2, <3>3, RunSaveKeeps DEF WaiterCovered
    <2>2. CASE g # f
      <3>1. flush'[g] = flush[g]
        BY <1>1, <2>2 DEF SaverIInv, SaverTypeOK
      <3>2. WaiterCovered(g)
        BY DEF SaverIInv, WaitersCovered
      <3>3. flush[g].on = queued /\ flush[g].on \in Continuations => queued' = queued
        BY <1>1, <1>2, RunSaveKeeps, NoneAssumption
      <3> QED
        BY <1>1, <1>2, <3>1, <3>2, <3>3, RunSaveKeeps DEF WaiterCovered
    <2> QED
      BY <2>1, <2>2
  <1>6. (FlushDurable /\ DroppedOnlyByCancel)'
    BY <1>1, <1>2 DEF SaverIInv, SaverTypeOK, FlushDurable, DroppedOnlyByCancel
  <1>7. NothingForgotten'
    BY <1>1, <1>2, RunSaveKeeps DEF NothingForgotten
  <1>8. (RunningIsInFlight /\ QueuedFollows /\ VersionOrder)'
    BY <1>1, <1>2, RunSaveKeeps
  <1> QED
    BY <1>4, <1>5, <1>6, <1>7, <1>8 DEF SaverIInv

LEMMA CancelIInv == SaverIInv /\ Cancel => SaverIInv'
  <1> SUFFICES ASSUME SaverIInv, Cancel PROVE SaverIInv'
    OBVIOUS
  <1> USE DEF SaverIInv, Cancel
  <1>1. SaverTypeOK'
    BY DEF SaverTypeOK, FlushStates
  <1>2. WaitersCovered'
    BY DEF WaitersCovered, WaiterCovered, SaverTypeOK, FlushStates
  <1>3. (RunningIsInFlight /\ QueuedFollows /\ VersionOrder /\ NothingForgotten)'
    BY DEF RunningIsInFlight, QueuedFollows, VersionOrder, NothingForgotten
  <1>4. (FlushDurable /\ DroppedOnlyByCancel)'
    BY DEF FlushDurable, DroppedOnlyByCancel, SaverTypeOK, FlushStates
  <1> QED
    BY <1>1, <1>2, <1>3, <1>4

\* What a save's end does to the promises, however it ends.
LEMMA SaveSettlesKeeps ==
  ASSUME SaverIInv, NEW s \in Saves, SaveSettles(s)
  PROVE  /\ running' \in [Saves -> Versions \cup {None}]
         /\ inFlight' \in Saves \cup {None}
         /\ after' \in [Continuations -> Saves \cup {None}]
         /\ ready' \in SUBSET Continuations
         /\ inFlight = s /\ inFlight' = None
         /\ running[s] \in Versions /\ disk <= running[s] /\ running[s] <= version
         /\ \A u \in Saves : running'[u] = None
         /\ \A c \in Continuations : after[c] # None \/ c \in ready => after'[c] # None \/ c \in ready'
         /\ RunningIsInFlight' /\ QueuedFollows'
  <1> USE NoneAssumption
      DEF SaverIInv, SaveSettles, RunningIsInFlight, QueuedFollows, VersionOrder, SaverTypeOK
  <1>1. inFlight = s /\ inFlight' = None
    OBVIOUS
  <1>2. \A u \in Saves : running'[u] = None
    BY <1>1
  <1>3. QueuedFollows'
    BY <1>1
  <1> QED
    BY <1>1, <1>2, <1>3

\* Settling the promise s keeps everybody else's.
LEMMA SettleKeeps ==
  ASSUME SaverIInv, NEW s \in Saves, SaveSettles(s),
         NEW status \in {"saved", "failed"}, Settle(s, status)
  PROVE  /\ flush' \in [Flushers -> FlushStates]
         /\ WaitersCovered'
         /\ DroppedOnlyByCancel'
  <1>1. flush' \in [Flushers -> FlushStates]
    BY ZenonT(60) DEF SaverIInv, SaverTypeOK, FlushStates, Settle
  <1>2. WaitersCovered'
    <2> SUFFICES ASSUME NEW f \in Flushers, flush'[f].status = "waiting"
                 PROVE  WaiterCovered(f)'
      BY DEF WaitersCovered, WaiterCovered
    <2>1. flush'[f] = flush[f] /\ flush[f].on # s
      BY DEF SaverIInv, SaverTypeOK, FlushStates, Settle
    <2>2. WaiterCovered(f)
      BY DEF SaverIInv, WaitersCovered
    <2>3. flush[f].on \in Continuations
      BY <2>1, <2>2 DEF WaiterCovered, SaverIInv, RunningIsInFlight, Promises, SaveSettles
    <2>4. UNCHANGED <<version, queued>>
      BY DEF SaveSettles
    <2> QED
      BY <2>1, <2>2, <2>3, <2>4, SaveSettlesKeeps, NoneAssumption DEF WaiterCovered
  <1>3. DroppedOnlyByCancel'
    BY DEF SaverIInv, DroppedOnlyByCancel, SaverTypeOK, FlushStates, Settle
  <1> QED
    BY <1>1, <1>2, <1>3

LEMMA SaveSucceedsIInv == ASSUME SaverIInv, NEW s \in Saves, SaveSucceeds(s) PROVE SaverIInv'
  <1>1. SaveSettles(s) /\ Settle(s, "saved") /\ disk' = running[s]
        /\ UNCHANGED <<version, timer, queued, excused>>
    BY DEF SaveSucceeds, SaveSettles
  <1>2. SaverTypeOK'
    BY <1>1, SaveSettlesKeeps, SettleKeeps DEF SaverIInv, SaverTypeOK
  <1>3. VersionOrder'
    BY <1>1, SaveSettlesKeeps DEF VersionOrder
  <1>4. FlushDurable'
    <2> SUFFICES ASSUME NEW f \in Flushers, flush'[f].status = "saved"
                 PROVE  flush'[f].need <= disk'
      BY DEF FlushDurable
    <2>1. CASE flush[f].status = "waiting" /\ flush[f].on = s
      <3>1. flush'[f].need = flush[f].need
        BY <1>1 DEF Settle, SaverIInv, SaverTypeOK, FlushStates
      <3> QED
        BY <1>1, <2>1, <3>1 DEF SaverIInv, WaitersCovered, WaiterCovered
    <2>2. CASE ~(flush[f].status = "waiting" /\ flush[f].on = s)
      <3>1. flush'[f] = flush[f] /\ flush[f].need <= disk
        BY <1>1, <2>2 DEF Settle, SaverIInv, FlushDurable
      <3>2. disk \in Nat /\ running[s] \in Nat /\ flush[f].need \in Nat /\ disk <= running[s]
        BY <1>1, SaveSettlesKeeps, MaxVersionAssumption
        DEF SaverIInv, SaverTypeOK, Versions, FlushStates
      <3> QED
        BY <1>1, <3>1, <3>2
    <2> QED
      BY <2>1, <2>2
  <1>5. NothingForgotten'
    <2>1. running[s] \in Nat /\ version \in Nat /\ disk \in Nat /\ inFlight = s /\ disk <= running[s]
      BY <1>1, SaveSettlesKeeps, MaxVersionAssumption DEF SaverIInv, SaverTypeOK, Versions
    <2> QED
      BY <1>1, <2>1 DEF SaverIInv, NothingForgotten
  <1> QED
    BY <1>1, <1>2, <1>3, <1>4, <1>5, SaveSettlesKeeps, SettleKeeps DEF SaverIInv

LEMMA SaveFailsIInv == ASSUME SaverIInv, NEW s \in Saves, SaveFails(s) PROVE SaverIInv'
  <1>1. SaveSettles(s) /\ Settle(s, "failed") /\ UNCHANGED <<version, disk, timer, queued>>
        /\ excused' = (excused \/ running[s] = version)
    BY DEF SaveFails, SaveSettles
  <1>2. SaverTypeOK'
    BY <1>1, SaveSettlesKeeps, SettleKeeps DEF SaverIInv, SaverTypeOK
  <1>3. VersionOrder'
    BY <1>1, SaveSettlesKeeps DEF SaverIInv, VersionOrder
  <1>4. FlushDurable'
    BY <1>1 DEF SaverIInv, FlushDurable, Settle, SaverTypeOK, FlushStates
  <1>5. NothingForgotten'
    BY <1>1, SaveSettlesKeeps DEF SaverIInv, NothingForgotten
  <1> QED
    BY <1>1, <1>2, <1>3, <1>4, <1>5, SaveSettlesKeeps, SettleKeeps DEF SaverIInv

LEMMA ContinuationDroppedIInv ==
  ASSUME SaverIInv, NEW c \in Continuations, ContinuationDropped(c) PROVE SaverIInv'
  <1> USE DEF SaverIInv, ContinuationDropped
  <1>1. SaverTypeOK'
    BY ZenonT(60) DEF SaverTypeOK, FlushStates, Settle
  <1>2. WaitersCovered'
    <2> SUFFICES ASSUME NEW f \in Flushers, flush'[f].status = "waiting"
                 PROVE  WaiterCovered(f)'
      BY DEF WaitersCovered, WaiterCovered
    <2>1. flush'[f] = flush[f] /\ flush[f].on # c
      BY DEF SaverTypeOK, FlushStates, Settle
    <2> QED
      BY <2>1 DEF WaitersCovered, WaiterCovered
  <1>3. DroppedOnlyByCancel'
    BY NoneAssumption, ZenonT(60)
    DEF DroppedOnlyByCancel, WaitersCovered, WaiterCovered, SaverTypeOK, FlushStates, Settle
  <1>4. FlushDurable'
    BY DEF FlushDurable, SaverTypeOK, FlushStates, Settle
  <1>5. (RunningIsInFlight /\ QueuedFollows /\ VersionOrder /\ NothingForgotten)'
    BY DEF RunningIsInFlight, QueuedFollows, VersionOrder, NothingForgotten
  <1> QED
    BY <1>1, <1>2, <1>3, <1>4, <1>5

\* The planned save starts: no other one is running, and it covers its waiters.
LEMMA ContinuationSavesIInv ==
  ASSUME SaverIInv, NEW c \in Continuations, ContinuationSaves(c) PROVE SaverIInv'
  <1>1. PICK s \in Saves :
          /\ StartSave(s)
          /\ flush' = [f \in Flushers |->
                         IF flush[f].status = "waiting" /\ flush[f].on = c
                           THEN [flush[f] EXCEPT !.on = s] ELSE flush[f]]
    BY DEF ContinuationSaves
  <1>2. /\ queued = c /\ c \in ready /\ ready' = ready \ {c} /\ queued' = None
        /\ UNCHANGED <<version, disk, timer, after, excused>>
    BY DEF ContinuationSaves
  <1>3. inFlight = None /\ inFlight' = s /\ running[s] = None
        /\ running' = [running EXCEPT ![s] = version]
    BY <1>1, <1>2, NoneAssumption DEF SaverIInv, QueuedFollows, StartSave, FreeSave
  <1>4. version \in Nat /\ disk \in Nat /\ version # None
    BY MaxVersionAssumption, NoneAssumption DEF SaverIInv, SaverTypeOK, Versions
  <1>5. SaverTypeOK'
    BY <1>1, <1>2, <1>3 DEF SaverIInv, SaverTypeOK, FlushStates, Promises
  <1>6. RunningIsInFlight' /\ VersionOrder'
    BY <1>2, <1>3, <1>4, NoneAssumption DEF SaverIInv, SaverTypeOK, RunningIsInFlight, VersionOrder
  <1>7. WaitersCovered'
    <2> SUFFICES ASSUME NEW f \in Flushers, flush'[f].status = "waiting"
                 PROVE  WaiterCovered(f)'
      BY DEF WaitersCovered, WaiterCovered
    <2>1. flush[f].status = "waiting" /\ WaiterCovered(f)
      BY <1>1 DEF SaverIInv, SaverTypeOK, FlushStates, WaitersCovered
    <2>2. CASE flush[f].on = c
      <3>1. flush'[f].on = s /\ flush'[f].need = flush[f].need
        BY <1>1, <2>1, <2>2 DEF SaverIInv, SaverTypeOK, FlushStates
      <3>2. running'[s] = version
        BY <1>3 DEF SaverIInv, SaverTypeOK
      <3> QED
        BY <1>2, <1>4, <2>1, <3>1, <3>2, NoneAssumption DEF WaiterCovered, Promises
    <2>3. CASE flush[f].on # c
      <3>1. flush'[f] = flush[f]
        BY <1>1, <2>3
      <3>2. flush[f].on \in Saves => running'[flush[f].on] = running[flush[f].on]
        BY <1>3, <2>1 DEF WaiterCovered, SaverIInv, SaverTypeOK
      <3> QED
        BY <1>2, <2>1, <2>3, <3>1, <3>2 DEF WaiterCovered
    <2> QED
      BY <2>2, <2>3
  <1>8. (FlushDurable /\ DroppedOnlyByCancel)'
    BY <1>1, <1>2 DEF SaverIInv, FlushDurable, DroppedOnlyByCancel, SaverTypeOK, FlushStates
  <1>9. NothingForgotten' /\ QueuedFollows'
    BY <1>2, <1>3, NoneAssumption DEF SaverIInv, SaverTypeOK, NothingForgotten, QueuedFollows
  <1> QED
    BY <1>5, <1>6, <1>7, <1>8, <1>9 DEF SaverIInv

LEMMA SaverNextIInv == SaverIInv /\ [SaverNext]_saverVars => SaverIInv'
  <1> SUFFICES ASSUME SaverIInv, [SaverNext]_saverVars PROVE SaverIInv'
    OBVIOUS
  <1>1. CASE SaverNext
    BY <1>1, TouchIInv, TimerFiresIInv, CallFlushIInv, CancelIInv, SaveSucceedsIInv,
       SaveFailsIInv, ContinuationDroppedIInv, ContinuationSavesIInv DEF SaverNext
  <1>2. CASE UNCHANGED saverVars
    BY <1>2 DEF saverVars, promises, SaverIInv, SaverTypeOK, RunningIsInFlight, QueuedFollows, VersionOrder,
       WaitersCovered, WaiterCovered, FlushDurable, DroppedOnlyByCancel, NothingForgotten
  <1> QED
    BY <1>1, <1>2

-----------------------------------------------------------------------------
\* The inductive invariant holds in every reachable state.
THEOREM SaverInvariance == SaverSpec => []SaverIInv
  BY SaverInitIInv, SaverNextIInv, PTL DEF SaverSpec

\* Every variable keeps the type declared for it.
THEOREM SaverTypeCorrect == SaverSpec => []SaverTypeOK
  BY SaverInvariance, PTL DEF SaverIInv

\* No two saves of session.json run at the same time, however touch, flush and
\* cancel fall between the end of a save and the start of the planned one.
THEOREM SingleFlight == SaverSpec => []AtMostOneSave
  <1>1. SaverIInv => AtMostOneSave
    BY DEF SaverIInv, RunningIsInFlight, AtMostOneSave
  <1> QED
    BY <1>1, SaverInvariance, PTL

\* A flush() that resolved after a save has made every earlier change durable.
THEOREM FlushIsDurable == SaverSpec => []FlushDurable
  BY SaverInvariance, PTL DEF SaverIInv

\* Only cancel() makes a flush() resolve without a save.
THEOREM FlushDroppedOnlyByCancel == SaverSpec => []DroppedOnlyByCancel
  BY SaverInvariance, PTL DEF SaverIInv

\* An unsaved change always has a save ahead of it.
THEOREM NoChangeForgotten == SaverSpec => []NothingForgotten
  BY SaverInvariance, PTL DEF SaverIInv

\* session.json only moves forward.
THEOREM DiskMonotone == SaverSpec => DiskNeverGoesBack
  <1>1. SaverIInv /\ [SaverNext]_saverVars => [disk' >= disk]_saverVars
    <2> SUFFICES ASSUME SaverIInv, SaverNext PROVE disk' >= disk
      OBVIOUS
    <2>1. disk \in Nat
      BY MaxVersionAssumption DEF SaverIInv, SaverTypeOK, Versions
    <2>2. ASSUME NEW s \in Saves, SaveSucceeds(s) PROVE disk' >= disk
      BY <2>1, <2>2, SaveSettlesKeeps, MaxVersionAssumption DEF SaveSucceeds, Versions
    <2>3. CASE UNCHANGED disk
      BY <2>1, <2>3
    <2> QED
      BY <2>2, <2>3 DEF SaverNext, Touch, TimerFires, CallFlush, Cancel, SaveFails,
         ContinuationDropped, ContinuationSaves
  <1> QED
    BY <1>1, SaverInvariance, PTL DEF SaverSpec, DiskNeverGoesBack

-----------------------------------------------------------------------------
(* Part 2: the handoff to a new version.                                   *)

\* The terminal of p has its descriptor open.
Live(p) == term[p] # Nothing /\ p \notin fdClosed
Ended(p) == shell[shellOf[p]] = "ended"

\* Something still refers to this shell.
Known(s) ==
  \/ \E f \in Fd : master[f] = s
  \/ \E p \in PaneId : shellOf[p] = s
  \/ \E w \in writes : w.shell = s

\* A shell has one descriptor and is one pane's, and only what is known is in use.
Names ==
  /\ \A s \in Shells : Known(s) <=> shell[s] # "none"
  /\ \A s \in Shells : shell[s] = "none" => read[s] = 0
  /\ \A f, g \in Fd : master[f] # Nothing /\ master[f] = master[g] => f = g
  /\ \A p, q \in PaneId : shellOf[p] # Nothing /\ shellOf[p] = shellOf[q] => p = q

Holding == {"holding", "saving", "writing", "leaving"}

\* What is there in which stage.
StagesInv ==
  /\ clients => stage \in {"idle", "preflight"}
  /\ todo # {} => stage \in {"holding", "restoring"}
  /\ current # Nothing => current \in todo
  /\ held # {} \/ collected # {} => stage \in Holding
  /\ manifest # {} => stage \in {"leaving", "undoing", "starting"}
  /\ stage = "leaving" => manifest = collected
  /\ taken # {} => stage \in {"loading", "restoring", "fresh"}
  /\ stage \in {"starting", "loading", "restoring", "fresh"} => late = {}
  /\ stage \in {"starting", "loading"} => writes = {} /\ postponed = {} /\ opening = {}
  /\ stage \in {"starting", "loading", "down"} => \A p \in PaneId : term[p] = Nothing
  /\ stage = "down" => \A f \in Fd : master[f] = Nothing

\* Pane ids are handed out in order.
Ids ==
  /\ nextPane \in 1 .. MaxPane + 1 /\ saved.next \in 1 .. MaxPane + 1
  /\ \A p \in open \cup opening \cup todo \cup held \cup late : p < nextPane
  /\ \A p \in saved.panes : p < saved.next
  /\ open \cap opening = {}

Terminals ==
  /\ \A p \in PaneId : term[p] # Nothing => 
       /\ p \in open \cup opening 
       /\ shellOf[p] # Nothing
       /\ master[term[p]] = shellOf[p] \/ Ended(p)
  /\ \A p \in fdClosed : term[p] # Nothing /\ reading[p] = "on" /\ Ended(p)
  /\ \A p \in adopted : term[p] # Nothing
  /\ \A p \in PaneId : Live(p) =>
       /\ master[term[p]] # Nothing
       /\ term[p] \notin postponed
       /\ \A h \in taken : h.fd # term[p]
       /\ master[term[p]] = shellOf[p] => seen[p] = read[shellOf[p]]
  /\ \A p, q \in PaneId : Live(p) /\ Live(q) /\ term[p] = term[q] => p = q

Descriptors ==
  /\ stage # "down" => \A f \in postponed : master[f] # Nothing
  /\ \A h \in taken : master[h.fd] # Nothing /\ h.fd \notin postponed
  /\ stage # "starting" => \A f \in Fd : master[f] # Nothing =>
        \/ \E p \in PaneId : Live(p) /\ term[p] = f
        \/ f \in postponed
        \/ \E h \in taken : h.fd = f

Apart(hs) == \A h, i \in hs : h.pane = i.pane \/ h.fd = i.fd => h = i
WritesInv ==
  /\ \A w, v \in writes : w = v
  /\ \A w \in writes, h \in taken : w.fd # h.fd
  /\ stage # "down" => \A w \in writes : master[w.fd] = w.shell \/ shell[w.shell] = "ended"

Dead == {p \in PaneId : p < nextPane /\ term[p] = Nothing /\ ~(stage = "restoring" /\ p \in todo)}
Counting == Cardinality(postponed) <= Cardinality(Dead)

\* What a screen was taken of is not read any more.
Shown(h) == master[h.fd] = shellOf[h.pane] => h.screen = read[shellOf[h.pane]]
Held ==
  /\ Apart(collected)
  /\ \A h \in collected :
       /\ h.pane < nextPane /\ h.pane \notin todo /\ shellOf[h.pane] # Nothing
       /\ \/ Live(h.pane) /\ term[h.pane] = h.fd /\ reading[h.pane] = "taken" 
          \/ term[h.pane] = Nothing /\ Ended(h.pane)
       /\ Shown(h)
       /\ \A p \in todo : Live(p) => term[p] # h.fd

HandedOver(h) ==
  /\ shellOf[h.pane] # Nothing
  /\ master[h.fd] = shellOf[h.pane] \/ Ended(h.pane)
  /\ Shown(h)
Handed ==
  /\ stage = "starting" => Apart(manifest) /\ \A h \in manifest : HandedOver(h)
  /\ Apart(taken)
  /\ stage = "loading" => \A h \in taken : HandedOver(h)
  /\ stage = "restoring" => \A h \in taken : h.pane \in todo \ {current} => HandedOver(h)

Restoring ==
  stage = "restoring" =>
    /\ todo \subseteq open
    /\ \A p \in todo : term[p] # Nothing <=> p = current

Releases ==
  /\ \A p \in late : term[p] = Nothing \/ reading[p] = "flushing"
  /\ \A p \in held : term[p] = Nothing \/ reading[p] = "taken"
  /\ stage = "holding" /\ current # Nothing =>
       current \notin late /\ (term[current] = Nothing \/ reading[current] = "flushing")

IInv == TypeOK /\ Names /\ StagesInv /\ Ids /\ Terminals /\ Descriptors /\ WritesInv /\ Counting /\ Held /\ Handed /\ Restoring /\ Releases

-----------------------------------------------------------------------------
(* Numbers and finite sets.                                                *)

LEMMA LeastIn == ASSUME NEW S \in SUBSET Nat, S # {} PROVE Least(S) \in S
  <1> DEFINE R == OpToRel(<, Nat)
  <1>1. IsWellFoundedOn(R, Nat)
    BY NatLessThanWellFounded, Zenon
  <1>2. \A x, y \in Nat : <<y, x>> \in R <=> y < x
    BY DEF OpToRel
  <1> HIDE DEF R
  <1>3. PICK x \in S : \A y \in S : ~ (<<y, x>> \in R)
    BY <1>1, WFMin
  <1>4. \A y \in S : x <= y
    <2> SUFFICES ASSUME NEW y \in S PROVE x <= y
      OBVIOUS
    <2>1. ~ (y < x)
      BY <1>2, <1>3
    <2> QED BY <2>1
  <1> QED BY <1>4 DEF Least

\* A set is no larger than one that indexes it.
LEMMA ImageBound ==
  ASSUME NEW S, IsFiniteSet(S), NEW f, NEW T, T \subseteq {f[x] : x \in S}
  PROVE  IsFiniteSet(T) /\ Cardinality(T) \in Nat /\ Cardinality(S) \in Nat /\ Cardinality(T) <= Cardinality(S)
  <1> DEFINE g == [x \in S |-> f[x]]
             U == {f[x] : x \in S}
  <1>1. g \in Surjection(S, U)
    BY DEF Surjection
  <1>2. IsFiniteSet(U) /\ Cardinality(U) <= Cardinality(S)
    <2> HIDE DEF g, U
    <2> QED BY <1>1, FS_Surjection
  <1>3. T \in SUBSET U
    OBVIOUS
  <1> HIDE DEF U
  <1>4. IsFiniteSet(T) /\ Cardinality(T) <= Cardinality(U)
    BY <1>2, <1>3, FS_Subset
  <1>5. Cardinality(T) \in Nat /\ Cardinality(U) \in Nat /\ Cardinality(S) \in Nat
    BY <1>2, <1>4, FS_CardinalityType
  <1> QED BY <1>2, <1>4, <1>5

\* The size of a union is at most the sum of the sizes.
LEMMA UnionBound ==
  ASSUME NEW S, IsFiniteSet(S), NEW T, IsFiniteSet(T)
  PROVE  /\ IsFiniteSet(S \cup T) /\ Cardinality(S \cup T) \in Nat
         /\ Cardinality(S) \in Nat /\ Cardinality(T) \in Nat
         /\ Cardinality(S \cup T) <= Cardinality(S) + Cardinality(T)
         /\ S \cap T = {} => Cardinality(S \cup T) = Cardinality(S) + Cardinality(T)
  <1>1. IsFiniteSet(S \cup T) /\ Cardinality(S \cup T) = Cardinality(S) + Cardinality(T) - Cardinality(S \cap T)
    BY FS_Union
  <1>2. IsFiniteSet(S \cap T)
    BY FS_Subset
  <1>3. Cardinality(S) \in Nat /\ Cardinality(T) \in Nat /\ Cardinality(S \cap T) \in Nat /\ Cardinality(S \cup T) \in Nat
    BY <1>1, <1>2, FS_CardinalityType
  <1>4. S \cap T = {} => Cardinality(S \cap T) = 0
    BY FS_EmptySet
  <1> QED BY <1>1, <1>3, <1>4

LEMMA SubsetBound ==
  ASSUME NEW S, IsFiniteSet(S), NEW T, T \subseteq S
  PROVE  IsFiniteSet(T) /\ Cardinality(T) \in Nat /\ Cardinality(S) \in Nat /\ Cardinality(T) <= Cardinality(S)
  BY FS_Subset, FS_CardinalityType

LEMMA PaneIds == IsFiniteSet(PaneId) /\ Cardinality(PaneId) = MaxPane /\ MaxPane \in Nat \ {0}
  BY BoundsAssumption, FS_Interval DEF PaneId

LEMMA Fds == IsFiniteSet(Fd) /\ Cardinality(Fd) = MaxFd /\ MaxFd \in Nat
  BY FdAssumption, FS_Interval DEF Fd

-----------------------------------------------------------------------------
(* There is always a free descriptor and a new name.                       *)

\* What is open is a pane's, waits for a write, or was handed over; of each kind there
\* are no more than there are panes, and the first two exclude each other.
LEMMA FreeExists ==
  ASSUME TypeOK, Descriptors, Counting, Apart(taken), stage # "starting",
         NEW p \in PaneId, term[p] = Nothing, p \notin Dead
  PROVE  Free \in Fd /\ master[Free] = Nothing
  <1> DEFINE A == {q \in PaneId : term[q] # Nothing}
             T == {term[q] : q \in A}
             K == {h.fd : h \in taken}
             P == {h.pane : h \in taken}
             O == {f \in Fd : master[f] # Nothing}
             F == {f \in Fd : master[f] = Nothing}
  <1>1. IsFiniteSet(A) /\ IsFiniteSet(Dead) /\ Cardinality(A) + Cardinality(Dead) < MaxPane
        /\ Cardinality(A) \in Nat /\ Cardinality(Dead) \in Nat
    <2>1. IsFiniteSet(A) /\ IsFiniteSet(Dead)
      BY PaneIds, SubsetBound DEF Dead
    <2>2. A \cap Dead = {} /\ A \cup Dead \subseteq PaneId \ {p}
      BY DEF Dead
    <2>3. IsFiniteSet(PaneId \ {p}) /\ Cardinality(PaneId \ {p}) = MaxPane - 1
      BY PaneIds, FS_RemoveElement
    <2> HIDE DEF A
    <2>4. Cardinality(A \cup Dead) = Cardinality(A) + Cardinality(Dead)
          /\ Cardinality(A) \in Nat /\ Cardinality(Dead) \in Nat /\ Cardinality(A \cup Dead) \in Nat
      BY <2>1, <2>2, UnionBound
    <2>5. Cardinality(A \cup Dead) <= MaxPane - 1
      BY <2>2, <2>3, SubsetBound
    <2> QED BY <2>1, <2>4, <2>5, PaneIds
  <1>2. IsFiniteSet(T) /\ Cardinality(T) \in Nat /\ Cardinality(T) <= Cardinality(A)
    <2>1. T \subseteq {term[q] : q \in A}
      OBVIOUS
    <2> HIDE DEF T, A
    <2> QED BY <1>1, <2>1, ImageBound
  <1>3. IsFiniteSet(postponed) /\ Cardinality(postponed) \in Nat /\ Cardinality(postponed) <= Cardinality(Dead)
    <2>1. postponed \subseteq Fd
      BY DEF TypeOK
    <2> QED BY <2>1, Fds, SubsetBound DEF Counting
  <1>4. IsFiniteSet(K) /\ Cardinality(K) \in Nat /\ Cardinality(K) <= MaxPane
    <2> DEFINE g == [q \in P |-> (CHOOSE h \in taken : h.pane = q).fd]
    <2>1. IsFiniteSet(P) /\ Cardinality(P) <= MaxPane /\ Cardinality(P) \in Nat
      <3>1. P \subseteq PaneId
        BY DEF TypeOK, HandedOff
      <3> HIDE DEF P
      <3> QED BY <3>1, PaneIds, SubsetBound
    <2>2. K \subseteq {g[q] : q \in P}
      <3>1. ASSUME NEW h \in taken PROVE h.pane \in P /\ g[h.pane] = h.fd
        <4>1. (CHOOSE i \in taken : i.pane = h.pane) = h
          BY DEF Apart
        <4>2. h.pane \in P
          OBVIOUS
        <4> HIDE DEF P
        <4> QED BY <4>1, <4>2
      <3> HIDE DEF P, g
      <3> QED BY <3>1
    <2> HIDE DEF K, P, g
    <2>3. IsFiniteSet(K) /\ Cardinality(K) \in Nat /\ Cardinality(K) <= Cardinality(P)
      BY <2>1, <2>2, ImageBound
    <2> QED BY <2>1, <2>3, PaneIds
  <1>5. O \subseteq (T \cup postponed) \cup K
    <2> SUFFICES ASSUME NEW f \in Fd, master[f] # Nothing, f \notin postponed, f \notin K
                 PROVE  f \in T
      OBVIOUS
    <2>1. PICK q \in PaneId : Live(q) /\ term[q] = f
      BY DEF Descriptors
    <2> QED BY <2>1 DEF Live
  <1>6. F # {}
    <2> SUFFICES ASSUME F = {} PROVE FALSE
      OBVIOUS
    <2>1. Fd \subseteq (T \cup postponed) \cup K
      BY <1>5
    <2> HIDE DEF A, T, K, O, F
    <2>2. IsFiniteSet(T \cup postponed) /\ Cardinality(T \cup postponed) \in Nat
          /\ Cardinality(T \cup postponed) <= Cardinality(T) + Cardinality(postponed)
      BY <1>2, <1>3, UnionBound
    <2>3. IsFiniteSet((T \cup postponed) \cup K) /\ Cardinality((T \cup postponed) \cup K) \in Nat
          /\ Cardinality((T \cup postponed) \cup K) <= Cardinality(T \cup postponed) + Cardinality(K)
      BY <1>4, <2>2, UnionBound
    <2>4. MaxFd <= Cardinality((T \cup postponed) \cup K)
      BY <2>1, <2>3, SubsetBound, Fds
    <2> QED BY <1>1, <1>2, <1>3, <1>4, <2>2, <2>3, <2>4, Fds, PaneIds, FdAssumption
  <1>7. F \in SUBSET Nat
    BY DEF Fd
  <1>8. Least(F) \in F
    BY <1>6, <1>7, LeastIn
  <1> QED BY <1>8 DEF Free

LEMMA NewShellExists ==
  ASSUME TypeOK, Names, WritesInv, Free \in Fd, master[Free] = Nothing
  PROVE  NewShell \in Shells /\ shell[NewShell] = "none" /\ ~Known(NewShell)
  <1> DEFINE B == {master[f] : f \in Fd \ {Free}}
             C == {shellOf[p] : p \in PaneId}
             D == {w.shell : w \in writes}
             N == {s \in Shells : shell[s] = "none"}
  <1>1. IsFiniteSet(B) /\ Cardinality(B) \in Nat /\ Cardinality(B) < MaxFd
    <2>1. IsFiniteSet(Fd \ {Free}) /\ Cardinality(Fd \ {Free}) = MaxFd - 1
      BY Fds, FS_RemoveElement
    <2>2. B \subseteq {master[f] : f \in Fd \ {Free}}
      OBVIOUS
    <2>3. IsFiniteSet(B) /\ Cardinality(B) \in Nat /\ Cardinality(B) <= Cardinality(Fd \ {Free})
      <3> HIDE DEF B
      <3> QED BY <2>1, <2>2, ImageBound
    <2> HIDE DEF B
    <2> QED BY <2>1, <2>3, Fds
  <1>2. IsFiniteSet(C) /\ Cardinality(C) \in Nat /\ Cardinality(C) <= MaxPane
    <2>1. C \subseteq {shellOf[p] : p \in PaneId}
      OBVIOUS
    <2> HIDE DEF C
    <2> QED BY <2>1, ImageBound, PaneIds
  <1>3. IsFiniteSet(D) /\ Cardinality(D) \in Nat /\ Cardinality(D) <= 1
    <2>1. PICK x : D \subseteq {x}
      BY DEF WritesInv
    <2>2. IsFiniteSet({x}) /\ Cardinality({x}) = 1
      BY FS_Singleton
    <2> HIDE DEF D
    <2> QED BY <2>1, <2>2, SubsetBound
  <1>4. \A s \in Shells : shell[s] # "none" => s \in (B \cup C) \cup D
    BY DEF Names, Known, Nothing, Shells, TypeOK
  <1>5. N # {}
    <2> SUFFICES ASSUME N = {} PROVE FALSE
      OBVIOUS
    <2>1. Shells \subseteq (B \cup C) \cup D
      BY <1>4
    <2> HIDE DEF B, C, D, N
    <2>2. IsFiniteSet(B \cup C) /\ Cardinality(B \cup C) \in Nat
          /\ Cardinality(B \cup C) <= Cardinality(B) + Cardinality(C)
      BY <1>1, <1>2, UnionBound
    <2>3. IsFiniteSet((B \cup C) \cup D) /\ Cardinality((B \cup C) \cup D) \in Nat
          /\ Cardinality((B \cup C) \cup D) <= Cardinality(B \cup C) + Cardinality(D)
      BY <1>3, <2>2, UnionBound
    <2>4. Cardinality(Shells) = MaxFd + MaxPane + 1
      BY FS_Interval, Fds, PaneIds DEF Shells
    <2>5. Cardinality(Shells) <= Cardinality((B \cup C) \cup D)
      BY <2>1, <2>3, SubsetBound
    <2> QED BY <1>1, <1>2, <1>3, <2>2, <2>3, <2>4, <2>5, Fds, PaneIds
  <1>6. N \in SUBSET Nat
    BY Fds, PaneIds DEF Shells
  <1>7. Least(N) \in N
    BY <1>5, <1>6, LeastIn
  <1> QED BY <1>7 DEF NewShell, Names

-----------------------------------------------------------------------------
(* Steps after which no more is known than before.                         *)

\* Nothing new is known, and what ended stays so.
Less ==
  /\ \A f \in Fd : master'[f] = master[f] \/ master'[f] = Nothing
  /\ \A p \in PaneId : shellOf'[p] = shellOf[p] \/ shellOf'[p] = Nothing
  /\ writes' \subseteq writes
  /\ \A s \in Shells :
       /\ Known(s)' <=> shell'[s] # "none"
       /\ shell'[s] = "none" => read'[s] = 0
       /\ Known(s)' => read'[s] = read[s] /\ (shell[s] = "ended" => shell'[s] = "ended")

\* The terminals that are left are as they were.
TermsKept ==
  /\ \A p \in PaneId : term'[p] # Nothing =>
       /\ term'[p] = term[p] /\ shellOf'[p] = shellOf[p] /\ seen'[p] = seen[p]
       /\ p \in open' \cup opening'
  /\ \A p \in PaneId : Live(p)' =>
       Live(p) /\ master'[term[p]] = master[term[p]] /\ term[p] \notin postponed'
  /\ \A p \in fdClosed' : term'[p] # Nothing /\ reading'[p] = "on" /\ (p \in fdClosed \/ Ended(p))
  /\ \A p \in adopted' : term'[p] # Nothing
  /\ taken' \subseteq taken

Statuses == {"none", "running", "ended", "killed"}

LEMMA BecomeKnown ==
  ASSUME master' \in [Fd -> Shells \cup {Nothing}], shellOf' \in [PaneId -> Shells \cup {Nothing}],
         NEW status, NEW amount, BecomeShells(status, amount)
  PROVE  /\ shell' = [s \in Shells |-> IF Known(s)' THEN status[s] ELSE "none"]
         /\ read' = [s \in Shells |-> IF Known(s)' THEN amount[s] ELSE 0]
  <1> DEFINE known == Range(master') \cup Range(shellOf') \cup {w.shell : w \in writes'}
  <1>1. \A s : s \in known <=> Known(s)'
    BY DEF Range, Known
  <1>2. /\ shell' = [s \in Shells |-> IF s \in known THEN status[s] ELSE "none"]
        /\ read' = [s \in Shells |-> IF s \in known THEN amount[s] ELSE 0]
    BY DEF BecomeShells
  <1> HIDE DEF known
  <1> QED BY <1>1, <1>2

\* Forgetting shells, and changing the status of some that run.
LEMMA BecomeLess ==
  ASSUME TypeOK, Names,
         master' \in [Fd -> Shells \cup {Nothing}], shellOf' \in [PaneId -> Shells \cup {Nothing}],
         \A f \in Fd : master'[f] = master[f] \/ master'[f] = Nothing,
         \A p \in PaneId : shellOf'[p] = shellOf[p] \/ shellOf'[p] = Nothing,
         writes' \subseteq writes,
         NEW status \in [Shells -> Statuses],
         \A s \in Shells : (status[s] = "none" <=> shell[s] = "none") /\ (shell[s] = "ended" => status[s] = "ended"),
         BecomeShells(status, read)
  PROVE  Less /\ shell' \in [Shells -> Statuses] /\ read' \in [Shells -> 0 .. MaxRead]
  <1>1. /\ shell' = [s \in Shells |-> IF Known(s)' THEN status[s] ELSE "none"]
        /\ read' = [s \in Shells |-> IF Known(s)' THEN read[s] ELSE 0]
    BY BecomeKnown
  <1>2. shell' \in [Shells -> Statuses]
    BY <1>1 DEF Statuses
  <1>3. read' \in [Shells -> 0 .. MaxRead]
    BY <1>1, BoundsAssumption DEF TypeOK
  <1>4. ASSUME NEW s \in Shells, Known(s)' PROVE Known(s)
    BY <1>4 DEF Known, Nothing, Shells
  <1>5. ASSUME NEW s \in Shells
        PROVE  /\ Known(s)' <=> shell'[s] # "none"
               /\ shell'[s] = "none" => read'[s] = 0
               /\ Known(s)' => read'[s] = read[s] /\ (shell[s] = "ended" => shell'[s] = "ended")
    <2>1. Known(s)' => shell[s] # "none"
      BY <1>4 DEF Names
    <2> QED BY <1>1, <2>1
  <1> QED BY <1>2, <1>3, <1>5 DEF Less

LEMMA HungupStatuses ==
  ASSUME TypeOK, NEW ss
  PROVE  /\ Hungup(ss) \in [Shells -> Statuses]
         /\ \A s \in Shells : (Hungup(ss)[s] = "none" <=> shell[s] = "none") /\ (shell[s] = "ended" => Hungup(ss)[s] = "ended")
  BY DEF TypeOK, Hungup, Statuses

LEMMA SameLess ==
  ASSUME Names, UNCHANGED <<shell, read, master, shellOf>>, writes' = writes
  PROVE  Less
  <1>1. \A s \in Shells : Known(s)' <=> Known(s)
    BY DEF Known
  <1> QED BY <1>1 DEF Less, Names

LEMMA LessNames ==
  ASSUME TypeOK', Names, Less
  PROVE  Names'
  <1>1. ASSUME NEW f \in Fd, NEW g \in Fd, master'[f] # Nothing, master'[f] = master'[g] PROVE f = g
    BY <1>1 DEF Less, Names
  <1>2. ASSUME NEW p \in PaneId, NEW q \in PaneId, shellOf'[p] # Nothing, shellOf'[p] = shellOf'[q] PROVE p = q
    BY <1>2 DEF Less, Names
  <1>3. \A s \in Shells : (Known(s)' <=> shell'[s] # "none") /\ (shell'[s] = "none" => read'[s] = 0)
    BY DEF Less
  <1> QED BY <1>1, <1>2, <1>3 DEF Names

\* What a pane remembers, a descriptor leads to or a write uses has its status and its read.
LEMMA LessKeeps ==
  ASSUME Less, NEW s \in Shells,
         \/ \E p \in PaneId : shellOf'[p] = s
         \/ \E f \in Fd : master'[f] = s
         \/ \E w \in writes' : w.shell = s
  PROVE  read'[s] = read[s] /\ (shell[s] = "ended" => shell'[s] = "ended")
  <1>1. Known(s)'
    BY DEF Known
  <1> QED BY <1>1 DEF Less

LEMMA LessPane ==
  ASSUME TypeOK', Less, NEW p \in PaneId, shellOf'[p] = shellOf[p], shellOf[p] # Nothing
  PROVE  read'[shellOf'[p]] = read[shellOf[p]] /\ (Ended(p) => Ended(p)')
  <1>1. shellOf[p] \in Shells
    BY DEF TypeOK
  <1> QED BY <1>1, LessKeeps DEF Ended

LEMMA LessTerminals ==
  ASSUME TypeOK, TypeOK', Terminals, Less, TermsKept
  PROVE  Terminals'
  <1>1. ASSUME NEW p \in PaneId, term'[p] # Nothing
        PROVE  /\ term[p] = term'[p] /\ shellOf'[p] # Nothing /\ p \in open' \cup opening'
               /\ read'[shellOf'[p]] = read[shellOf[p]] /\ (Ended(p) => Ended(p)')
    <2>1. term'[p] = term[p] /\ shellOf'[p] = shellOf[p] /\ p \in open' \cup opening'
      BY <1>1 DEF TermsKept
    <2>2. shellOf[p] # Nothing
      BY <1>1, <2>1 DEF Terminals
    <2> QED BY <2>1, <2>2, LessPane
  <1>2. ASSUME NEW p \in fdClosed' PROVE term'[p] # Nothing /\ reading'[p] = "on" /\ Ended(p)'
    <2>1. p \in PaneId
      BY DEF TypeOK
    <2>2. term'[p] # Nothing /\ reading'[p] = "on" /\ Ended(p)
      BY DEF TermsKept, Terminals
    <2> QED BY <1>1, <2>1, <2>2
  <1>3. ASSUME NEW p \in PaneId, Live(p)'
        PROVE  /\ master'[term'[p]] # Nothing
               /\ term'[p] \notin postponed'
               /\ \A h \in taken' : h.fd # term'[p]
               /\ master'[term'[p]] = shellOf'[p] => seen'[p] = read'[shellOf'[p]]
               /\ master'[term'[p]] = shellOf'[p] \/ Ended(p)'
    <2>1. term'[p] # Nothing /\ term'[p] = term[p] /\ shellOf'[p] = shellOf[p] /\ seen'[p] = seen[p]
      BY <1>3 DEF TermsKept, Live
    <2>2. Live(p) /\ master'[term[p]] = master[term[p]] /\ term[p] \notin postponed' /\ taken' \subseteq taken
      BY <1>3 DEF TermsKept
    <2>3. read'[shellOf'[p]] = read[shellOf[p]] /\ (Ended(p) => Ended(p)')
      BY <1>1, <2>1
    <2>4. /\ master[term[p]] # Nothing
          /\ \A h \in taken : h.fd # term[p]
          /\ master[term[p]] = shellOf[p] => seen[p] = read[shellOf[p]]
          /\ master[term[p]] = shellOf[p] \/ Ended(p)
      BY <2>1, <2>2 DEF Terminals
    <2> QED BY <2>1, <2>2, <2>3, <2>4
  <1>4. ASSUME NEW p \in PaneId, term'[p] # Nothing PROVE master'[term'[p]] = shellOf'[p] \/ Ended(p)'
    BY <1>2, <1>3, <1>4 DEF Live
  <1>5. \A p, q \in PaneId : Live(p)' /\ Live(q)' /\ term'[p] = term'[q] => p = q
    BY DEF TermsKept, Terminals, Live
  <1>6. \A p \in adopted' : term'[p] # Nothing
    BY DEF TermsKept
  <1>a. \A p \in PaneId : term'[p] # Nothing => p \in open' \cup opening' /\ shellOf'[p] # Nothing /\ (master'[term'[p]] = shellOf'[p] \/ Ended(p)')
    BY <1>1, <1>4
  <1>b. \A p \in PaneId : Live(p)' =>
               /\ master'[term'[p]] # Nothing
               /\ term'[p] \notin postponed'
               /\ \A h \in taken' : h.fd # term'[p]
               /\ master'[term'[p]] = shellOf'[p] => seen'[p] = read'[shellOf'[p]]
    BY <1>3
  <1> QED BY <1>a, <1>2, <1>b, <1>5, <1>6 DEF Terminals

\* Stages of an old server: between the starts.
Old == {"idle", "preflight", "pausing", "holding", "saving", "writing", "leaving", "undoing"}

\* A step of the server that leaves its terminals and descriptors alone.
LEMMA ServerLess ==
  ASSUME IInv, TypeOK', Less, stage \in Old, stage' \in Old,
         UNCHANGED <<term, fdClosed, adopted, seen, master, postponed, nextPane, taken>>,
         open \cup opening \subseteq open' \cup opening', writes' = writes,
         \A p \in open \cup opening : shellOf'[p] = shellOf[p],
         \A p \in fdClosed : reading'[p] = "on"
  PROVE  Names' /\ Terminals' /\ Descriptors' /\ WritesInv' /\ Counting' /\ Handed' /\ Restoring'
  <1> USE DEF Old
  <1>1. Names'
    BY LessNames DEF IInv
  <1>2. Terminals'
    <2>1. TermsKept
      BY DEF TermsKept, IInv, Terminals, Live
    <2> QED BY <2>1, LessTerminals DEF IInv
  <1>3. Descriptors'
    BY DEF IInv, Descriptors, Live
  <1>4. WritesInv'
    <2>1. ASSUME NEW w \in writes' PROVE master'[w.fd] = w.shell \/ shell'[w.shell] = "ended"
      <3>1. w \in writes /\ w.shell \in Shells
        BY DEF TypeOK
      <3>2. shell[w.shell] = "ended" => shell'[w.shell] = "ended"
        BY <3>1, LessKeeps
      <3>3. master[w.fd] = w.shell \/ shell[w.shell] = "ended"
        BY <3>1 DEF IInv, WritesInv
      <3> QED BY <3>2, <3>3
    <2> QED BY <2>1 DEF IInv, WritesInv
  <1>5. Counting'
    <2>1. Dead' = Dead
      BY DEF Dead
    <2> QED BY <2>1 DEF IInv, Counting
  <1>6. Handed'
    BY DEF IInv, Handed, StagesInv
  <1>7. Restoring'
    BY DEF Restoring
  <1> QED BY <1>1, <1>2, <1>3, <1>4, <1>5, <1>6, <1>7

LEMMA ServerSame ==
  ASSUME IInv, TypeOK', stage \in Old, stage' \in Old,
         UNCHANGED <<term, fdClosed, adopted, seen, postponed, nextPane, taken, shell, read, master, shellOf>>,
         open \cup opening \subseteq open' \cup opening', writes' = writes,
         \A p \in fdClosed : reading'[p] = "on"
  PROVE  Names' /\ Terminals' /\ Descriptors' /\ WritesInv' /\ Counting' /\ Handed' /\ Restoring'
  <1>1. Less
    BY SameLess DEF IInv
  <1> QED BY <1>1, ServerLess

\* What the handoff has of the panes stays right while they are left alone or end.
LEMMA HeldKept ==
  ASSUME TypeOK, TypeOK', Held, Less, collected' = collected, nextPane <= nextPane', todo' \subseteq todo,
         \A h \in collected :
           /\ shellOf'[h.pane] = shellOf[h.pane]
           /\ term[h.pane] = Nothing => term'[h.pane] = Nothing
           /\ Live(h.pane) /\ reading[h.pane] = "taken" =>
                \/ Live(h.pane)' /\ term'[h.pane] = term[h.pane] /\ reading'[h.pane] = "taken"
                \/ term'[h.pane] = Nothing /\ Ended(h.pane),
         \A p \in todo' : Live(p)' => Live(p) /\ term'[p] = term[p]
  PROVE  Held'
  <1>1. Apart(collected)'
    BY DEF Held, Apart
  <1>2. ASSUME NEW h \in collected
        PROVE  /\ h.pane < nextPane' /\ h.pane \notin todo' /\ shellOf'[h.pane] # Nothing
               /\ \/ Live(h.pane)' /\ term'[h.pane] = h.fd /\ reading'[h.pane] = "taken"
                  \/ term'[h.pane] = Nothing /\ Ended(h.pane)'
               /\ Shown(h)'
               /\ \A p \in todo' : Live(p)' => term'[p] # h.fd
    <2>0. h.pane \in PaneId /\ h.fd \in Fd
      BY DEF TypeOK, HandedOff
    <2>1. /\ h.pane < nextPane /\ h.pane \notin todo /\ shellOf[h.pane] # Nothing
          /\ \/ Live(h.pane) /\ term[h.pane] = h.fd /\ reading[h.pane] = "taken"
             \/ term[h.pane] = Nothing /\ Ended(h.pane)
          /\ Shown(h)
          /\ \A p \in todo : Live(p) => term[p] # h.fd
      BY DEF Held
    <2>2. shellOf'[h.pane] = shellOf[h.pane]
      OBVIOUS
    <2>3. read'[shellOf'[h.pane]] = read[shellOf[h.pane]] /\ (Ended(h.pane) => Ended(h.pane)')
      BY <2>0, <2>1, <2>2, LessPane
    <2>4. h.pane < nextPane'
      <3>1. h.pane \in Nat /\ nextPane \in Nat /\ nextPane' \in Nat
        BY <2>0 DEF TypeOK, PaneId
      <3> QED BY <2>1, <3>1
    <2>5. \/ Live(h.pane)' /\ term'[h.pane] = h.fd /\ reading'[h.pane] = "taken"
          \/ term'[h.pane] = Nothing /\ Ended(h.pane)'
      BY <2>1, <2>3
    <2>6. Shown(h)'
      <3>1. master'[h.fd] # Nothing => master'[h.fd] = master[h.fd]
        BY <2>0 DEF Less
      <3> QED BY <2>1, <2>2, <2>3, <3>1 DEF Shown
    <2>7. \A p \in todo' : Live(p)' => term'[p] # h.fd
      BY <2>1
    <2> QED BY <2>1, <2>2, <2>4, <2>5, <2>6, <2>7
  <1> QED BY <1>1, <1>2 DEF Held

LEMMA NothingHeld == ASSUME collected' = {} PROVE Held'
  BY DEF Held, Apart

-----------------------------------------------------------------------------
(* The old server: steps that leave its shells alone.                      *)

LEMMA CallOpenIInv == ASSUME IInv, CallOpen PROVE IInv'
  <1> USE DEF CallOpen, control, handoff, files, terminals, system, input
  <1>1. TypeOK'
    BY DEF IInv, TypeOK
  <1>2. stage \in Old /\ stage' = stage
    BY DEF IInv, StagesInv, Old
  <1>3. Names' /\ Terminals' /\ Descriptors' /\ WritesInv' /\ Counting' /\ Handed' /\ Restoring'
    <2>1. \A p \in fdClosed : reading'[p] = "on"
      BY DEF IInv, Terminals
    <2> QED BY <1>1, <1>2, <2>1, ServerSame
  <1>4. StagesInv' /\ Ids' /\ Releases'
    BY DEF IInv, StagesInv, Ids, Releases
  <1>5. Held'
    BY DEF IInv, Held, Live, Ended, Shown
  <1> QED BY <1>1, <1>3, <1>4, <1>5 DEF IInv

LEMMA RequestHandoffIInv == ASSUME IInv, RequestHandoff PROVE IInv'
  <1> USE DEF RequestHandoff, handoff, files, session, terminals, system, input
  <1>1. TypeOK'
    <2>1. handoffs' \in 0 .. MaxHandoffs
      BY BoundsAssumption DEF IInv, TypeOK
    <2>2. stage' \in Stages
      BY DEF Stages
    <2> QED BY <2>1, <2>2 DEF IInv, TypeOK
  <1>2. stage = "idle" /\ stage' = "preflight" /\ stage \in Old /\ stage' \in Old
    BY DEF Old
  <1>3. Names' /\ Terminals' /\ Descriptors' /\ WritesInv' /\ Counting' /\ Handed' /\ Restoring'
    <2>1. \A p \in fdClosed : reading'[p] = "on"
      BY DEF IInv, Terminals
    <2> QED BY <1>1, <1>2, <2>1, ServerSame
  <1>4. StagesInv' /\ Ids' /\ Releases'
    BY <1>2 DEF IInv, StagesInv, Ids, Releases, Holding
  <1>5. Held'
    BY DEF IInv, Held, Live, Ended, Shown
  <1> QED BY <1>1, <1>3, <1>4, <1>5 DEF IInv

LEMMA PreflightEndsIInv == ASSUME IInv, NEW ok \in BOOLEAN, PreflightEnds(ok) PROVE IInv'
  <1> USE DEF PreflightEnds, handoff, files, session, terminals, system, input
  <1>2. stage = "preflight" /\ stage' \in {"pausing", "idle"} /\ stage \in Old /\ stage' \in Old
    BY DEF Old
  <1>1. TypeOK'
    <2>1. clients' \in BOOLEAN
      OBVIOUS
    <2>2. stage' \in Stages
      BY <1>2 DEF Stages
    <2> QED BY <2>1, <2>2 DEF IInv, TypeOK
  <1>3. Names' /\ Terminals' /\ Descriptors' /\ WritesInv' /\ Counting' /\ Handed' /\ Restoring'
    <2>1. \A p \in fdClosed : reading'[p] = "on"
      BY DEF IInv, Terminals
    <2> QED BY <1>1, <1>2, <2>1, ServerSame
  <1>4. StagesInv' /\ Ids' /\ Releases'
    BY <1>2 DEF IInv, StagesInv, Ids, Releases, Holding
  <1>5. Held'
    BY DEF IInv, Held, Live, Ended, Shown
  <1> QED BY <1>1, <1>3, <1>4, <1>5 DEF IInv

LEMMA PollersStoppedIInv == ASSUME IInv, PollersStopped PROVE IInv'
  <1> USE DEF PollersStopped, files, session, terminals, system, input
  <1>2. stage = "pausing" /\ stage' = "holding" /\ stage \in Old /\ stage' \in Old
    BY DEF Old
  <1>1. TypeOK'
    BY <1>2 DEF IInv, TypeOK, Stages
  <1>3. Names' /\ Terminals' /\ Descriptors' /\ WritesInv' /\ Counting' /\ Handed' /\ Restoring'
    <2>1. \A p \in fdClosed : reading'[p] = "on"
      BY DEF IInv, Terminals
    <2> QED BY <1>1, <1>2, <2>1, ServerSame
  <1>4. todo = {} /\ collected = {} /\ current = Nothing
    BY <1>2 DEF IInv, StagesInv, Holding
  <1>5. StagesInv' /\ Ids' /\ Releases'
    BY <1>2, <1>4 DEF IInv, StagesInv, Ids, Releases, Holding
  <1>6. Held'
    BY <1>4, NothingHeld
  <1> QED BY <1>1, <1>3, <1>5, <1>6 DEF IInv

LEMMA AllHeldIInv == ASSUME IInv, AllHeld PROVE IInv'
  <1> USE DEF AllHeld, handoff, files, session, terminals, system, input
  <1>2. stage = "holding" /\ stage' = "saving" /\ stage \in Old /\ stage' \in Old
    BY DEF Old
  <1>1. TypeOK'
    BY <1>2 DEF IInv, TypeOK, Stages
  <1>3. Names' /\ Terminals' /\ Descriptors' /\ WritesInv' /\ Counting' /\ Handed' /\ Restoring'
    <2>1. \A p \in fdClosed : reading'[p] = "on"
      BY DEF IInv, Terminals
    <2> QED BY <1>1, <1>2, <2>1, ServerSame
  <1>4. StagesInv' /\ Ids' /\ Releases'
    BY <1>2 DEF IInv, StagesInv, Ids, Releases, Holding
  <1>5. Held'
    BY DEF IInv, Held, Live, Ended, Shown
  <1> QED BY <1>1, <1>3, <1>4, <1>5 DEF IInv

LEMMA SavedSession ==
  ASSUME TypeOK, Ids
  PROVE  Session \in [panes : SUBSET PaneId, next : Nat] /\ Session.next = nextPane /\ Session.panes = open
  BY DEF TypeOK, Ids, Session

LEMMA SessionFlushedIInv == ASSUME IInv, SessionFlushed PROVE IInv'
  <1> USE DEF SessionFlushed, handoff, session, terminals, system, input
  <1>2. stage = "saving" /\ stage' = "writing" /\ stage \in Old /\ stage' \in Old
    BY DEF Old
  <1>1. TypeOK'
    BY <1>2, SavedSession DEF IInv, TypeOK, Stages
  <1>3. Names' /\ Terminals' /\ Descriptors' /\ WritesInv' /\ Counting' /\ Handed' /\ Restoring'
    <2>1. \A p \in fdClosed : reading'[p] = "on"
      BY DEF IInv, Terminals
    <2> QED BY <1>1, <1>2, <2>1, ServerSame
  <1>4. StagesInv' /\ Releases'
    BY <1>2 DEF IInv, StagesInv, Releases, Holding
  <1>5. Ids'
    BY SavedSession DEF IInv, Ids
  <1>6. Held'
    BY DEF IInv, Held, Live, Ended, Shown
  <1> QED BY <1>1, <1>3, <1>4, <1>5, <1>6 DEF IInv

LEMMA SessionSavedIInv == ASSUME IInv, SessionSaved PROVE IInv'
  <1> USE DEF SessionSaved, control, handoff, session, terminals, system, input
  <1>2. stage' = stage /\ stage \in Old /\ stage' \in Old
    BY DEF Old
  <1>1. TypeOK'
    BY <1>2, SavedSession DEF IInv, TypeOK
  <1>3. Names' /\ Terminals' /\ Descriptors' /\ WritesInv' /\ Counting' /\ Handed' /\ Restoring'
    <2>1. \A p \in fdClosed : reading'[p] = "on"
      BY DEF IInv, Terminals
    <2> QED BY <1>1, <1>2, <2>1, ServerSame
  <1>4. StagesInv' /\ Releases'
    BY DEF IInv, StagesInv, Releases
  <1>5. Ids'
    BY SavedSession DEF IInv, Ids
  <1>6. Held'
    BY DEF IInv, Held, Live, Ended, Shown
  <1> QED BY <1>1, <1>3, <1>4, <1>5, <1>6 DEF IInv

LEMMA ManifestWrittenIInv == ASSUME IInv, ManifestWritten PROVE IInv'
  <1> USE DEF ManifestWritten, handoff, session, terminals, system, input
  <1>2. stage = "writing" /\ stage' = "leaving" /\ stage \in Old /\ stage' \in Old
    BY DEF Old
  <1>1. TypeOK'
    BY <1>2 DEF IInv, TypeOK, Stages
  <1>3. Names' /\ Terminals' /\ Descriptors' /\ WritesInv' /\ Counting' /\ Handed' /\ Restoring'
    <2>1. \A p \in fdClosed : reading'[p] = "on"
      BY DEF IInv, Terminals
    <2> QED BY <1>1, <1>2, <2>1, ServerSame
  <1>4. StagesInv' /\ Ids' /\ Releases'
    BY <1>2 DEF IInv, StagesInv, Ids, Releases, Holding
  <1>5. Held'
    BY DEF IInv, Held, Live, Ended, Shown
  <1> QED BY <1>1, <1>3, <1>4, <1>5 DEF IInv

LEMMA StopAskedIInv == ASSUME IInv, NEW signal \in BOOLEAN, StopAsked(signal) PROVE IInv'
  <1> USE DEF StopAsked, handoff, files, session, terminals, system, input
  <1>1. TypeOK'
    BY DEF IInv, TypeOK
  <1>2. stage' = stage /\ stage \in Old /\ stage' \in Old
    BY DEF Old, Running, IInv, TypeOK, Stages
  <1>3. Names' /\ Terminals' /\ Descriptors' /\ WritesInv' /\ Counting' /\ Handed' /\ Restoring'
    <2>1. \A p \in fdClosed : reading'[p] = "on"
      BY DEF IInv, Terminals
    <2> QED BY <1>1, <1>2, <2>1, ServerSame
  <1>4. StagesInv' /\ Ids' /\ Releases'
    BY DEF IInv, StagesInv, Ids, Releases
  <1>5. Held'
    BY DEF IInv, Held, Live, Ended, Shown
  <1> QED BY <1>1, <1>3, <1>4, <1>5 DEF IInv

-----------------------------------------------------------------------------
(* The old server: holds, and what is given up.                            *)

\* Only the shells of these panes are remembered any more.
LEMMA OnlyTheirShellsLess ==
  ASSUME TypeOK, Names, NEW ps \in SUBSET PaneId, OnlyTheirShells(ps), master' = master, writes' = writes
  PROVE  /\ Less /\ shellOf' \in [PaneId -> Shells \cup {Nothing}]
         /\ shell' \in [Shells -> Statuses] /\ read' \in [Shells -> 0 .. MaxRead]
         /\ \A p \in ps : shellOf'[p] = shellOf[p]
  <1>1. shellOf' = [p \in PaneId |-> IF p \in ps THEN shellOf[p] ELSE Nothing] /\ BecomeShells(shell, read)
    BY DEF OnlyTheirShells
  <1>2. shellOf' \in [PaneId -> Shells \cup {Nothing}]
    BY <1>1 DEF TypeOK
  <1>3. \A p \in PaneId : shellOf'[p] = shellOf[p] \/ shellOf'[p] = Nothing
    BY <1>1
  <1>4. shell \in [Shells -> Statuses] /\ master' \in [Fd -> Shells \cup {Nothing}]
    BY DEF TypeOK, Statuses
  <1>5. \A f \in Fd : master'[f] = master[f] \/ master'[f] = Nothing
    OBVIOUS
  <1>6. Less /\ shell' \in [Shells -> Statuses] /\ read' \in [Shells -> 0 .. MaxRead]
    BY <1>1, <1>2, <1>3, <1>4, <1>5, BecomeLess
  <1>7. \A p \in ps : shellOf'[p] = shellOf[p]
    BY <1>1
  <1> QED BY <1>2, <1>6, <1>7

LEMMA ReleasedType ==
  ASSUME TypeOK, NEW ps
  PROVE  /\ Released(ps) \in [PaneId -> {"on", "flushing", "taken", "stranded"}]
         /\ \A p \in PaneId : Released(ps)[p] = IF p \in ps THEN "on" ELSE reading[p]
  BY DEF TypeOK, Released

LEMMA GiveUpIInv ==
  ASSUME IInv, stage \in {"pausing", "holding", "saving", "writing"}, NEW also, GiveUp(also),
         late' \subseteq PaneId,
         \A p \in late' : p < nextPane /\ (term[p] = Nothing \/ (reading[p] = "flushing" /\ p \notin also))
  PROVE  IInv'
  <1> USE DEF input
  <1>0. /\ stage' = "idle" /\ clients' = TRUE
        /\ reading' = Released(held \cup also)
        /\ todo' = {} /\ current' = Nothing /\ held' = {} /\ collected' = {}
        /\ saved' = Unsaved
        /\ UNCHANGED <<closing, handoffs, manifest, taken, session, term, adopted, fdClosed, seen, master, writes, postponed>>
        /\ OnlyTheirShells(open \cup opening)
    BY DEF GiveUp
  <1>1. /\ Less /\ shellOf' \in [PaneId -> Shells \cup {Nothing}]
        /\ shell' \in [Shells -> Statuses] /\ read' \in [Shells -> 0 .. MaxRead]
        /\ \A p \in open \cup opening : shellOf'[p] = shellOf[p]
    <2>1. open \cup opening \in SUBSET PaneId
      BY DEF IInv, TypeOK
    <2> QED BY <1>0, <2>1, OnlyTheirShellsLess DEF IInv
  <1>2. /\ reading' \in [PaneId -> {"on", "flushing", "taken", "stranded"}]
        /\ \A p \in PaneId : reading'[p] = IF p \in held \cup also THEN "on" ELSE reading[p]
    BY <1>0, ReleasedType DEF IInv
  <1>3. TypeOK'
    <2>1. Unsaved \in [panes : SUBSET PaneId, next : Nat]
      BY DEF Unsaved
    <2> QED BY <1>0, <1>1, <1>2, <2>1 DEF IInv, TypeOK, Statuses, Stages, session
  <1>4. Names' /\ Terminals' /\ Descriptors' /\ WritesInv' /\ Counting' /\ Handed' /\ Restoring'
    <2>1. \A p \in fdClosed : reading'[p] = "on"
      BY <1>2 DEF IInv, Terminals, TypeOK
    <2>2. stage \in Old /\ stage' \in Old
      BY <1>0 DEF Old
    <2> QED BY <1>0, <1>1, <1>3, <2>1, <2>2, ServerLess DEF session
  <1>5. StagesInv'
    BY <1>0 DEF IInv, StagesInv
  <1>6. Ids'
    BY <1>0, PaneIds DEF IInv, Ids, Unsaved, session, TypeOK
  <1>7. Releases'
    <2> SUFFICES ASSUME NEW p \in late' PROVE term'[p] = Nothing \/ reading'[p] = "flushing"
      BY <1>0 DEF Releases
    <2>1. p \in held => term[p] = Nothing \/ reading[p] = "taken"
      BY DEF IInv, Releases
    <2> QED BY <1>0, <1>2, <2>1
  <1>8. Held'
    BY <1>0, NothingHeld
  <1> QED BY <1>3, <1>4, <1>5, <1>6, <1>7, <1>8 DEF IInv

\* What waits to be released late is neither the pane being held nor one that is held.
LEMMA LateAreFlushing ==
  ASSUME IInv, NEW p \in late
  PROVE  p \in PaneId /\ p < nextPane /\ (term[p] = Nothing \/ reading[p] = "flushing")
         /\ (stage = "holding" /\ current # Nothing => p # current)
  BY DEF IInv, TypeOK, Ids, Releases

LEMMA PausingFailsIInv == ASSUME IInv, PausingFails PROVE IInv'
  <1>1. stage = "pausing" /\ GiveUp({}) /\ late' = late
    BY DEF PausingFails
  <1> QED BY <1>1, GiveUpIInv, LateAreFlushing

LEMMA SavingFailsIInv == ASSUME IInv, SavingFails PROVE IInv'
  <1>1. stage \in {"saving", "writing"} /\ GiveUp({}) /\ late' = late
    BY DEF SavingFails
  <1> QED BY <1>1, GiveUpIInv, LateAreFlushing

LEMMA HoldFailsIInv == ASSUME IInv, HoldFails PROVE IInv'
  <1>1. stage = "holding" /\ current # Nothing /\ GiveUp({current}) /\ late' = late
    BY DEF HoldFails
  <1> QED BY <1>1, GiveUpIInv, LateAreFlushing

LEMMA HoldTimesOutIInv == ASSUME IInv, HoldTimesOut PROVE IInv'
  <1>1. stage = "holding" /\ current # Nothing /\ GiveUp({}) /\ late' = late \cup {current}
    BY DEF HoldTimesOut
  <1>2. current \in PaneId /\ current < nextPane /\ (term[current] = Nothing \/ reading[current] = "flushing")
    BY <1>1 DEF IInv, StagesInv, Ids, Releases, TypeOK
  <1>3. late' \subseteq PaneId
    BY <1>1, <1>2, LateAreFlushing
  <1>4. \A p \in late' : p < nextPane /\ (term[p] = Nothing \/ (reading[p] = "flushing" /\ p \notin {}))
    BY <1>1, <1>2, LateAreFlushing
  <1> QED BY <1>1, <1>3, <1>4, GiveUpIInv

LEMMA HoldNextIInv == ASSUME IInv, NEW p \in PaneId, HoldNext(p) PROVE IInv'
  <1>0. stage = "holding" /\ current = Nothing /\ p \in todo
    BY DEF HoldNext
  <1>1. CASE term[p] = Nothing \/ p \in fdClosed \/ reading[p] # "on"
    <2>1. GiveUp({}) /\ late' = late
      BY <1>1 DEF HoldNext
    <2> QED BY <1>0, <2>1, GiveUpIInv, LateAreFlushing
  <1>2. CASE ~(term[p] = Nothing \/ p \in fdClosed \/ reading[p] # "on")
    <2>1. /\ current' = p
          /\ reading' = [reading EXCEPT ![p] = "flushing"]
          /\ UNCHANGED <<control, todo, held, late, collected, files, session, term, adopted, fdClosed, seen, system, input>>
      BY <1>2 DEF HoldNext
    <2> USE DEF control, files, session, system, input
    <2>2. /\ reading' \in [PaneId -> {"on", "flushing", "taken", "stranded"}]
          /\ \A q \in PaneId : reading'[q] = IF q = p THEN "flushing" ELSE reading[q]
      BY <2>1 DEF IInv, TypeOK
    <2>3. TypeOK'
      BY <2>1, <2>2 DEF IInv, TypeOK
    <2>4. Names' /\ Terminals' /\ Descriptors' /\ WritesInv' /\ Counting' /\ Handed' /\ Restoring'
      <3>1. \A q \in fdClosed : reading'[q] = "on"
        BY <1>2, <2>2 DEF IInv, Terminals, TypeOK
      <3>2. stage \in Old /\ stage' \in Old
        BY <1>0, <2>1 DEF Old
      <3> QED BY <2>1, <2>3, <3>1, <3>2, ServerSame
    <2>5. StagesInv' /\ Ids'
      BY <1>0, <2>1 DEF IInv, StagesInv, Ids
    <2>6. Releases'
      <3>1. p \notin late
        BY <1>2 DEF IInv, Releases
      <3>2. p \notin held
        BY <1>2 DEF IInv, Releases
      <3>3. late \subseteq PaneId /\ held \subseteq PaneId
        BY DEF IInv, TypeOK
      <3> QED BY <2>1, <2>2, <3>1, <3>2, <3>3 DEF IInv, Releases
    <2>7. Held'
      <3>1. Less
        BY <2>1, SameLess DEF IInv
      <3>2. \A h \in collected : h.pane \in PaneId /\ h.pane # p
        BY <1>0 DEF IInv, TypeOK, HandedOff, Held
      <3> QED BY <2>1, <2>2, <2>3, <3>1, <3>2, HeldKept DEF IInv, Live, TypeOK
    <2> QED BY <2>3, <2>4, <2>5, <2>6, <2>7 DEF IInv
  <1> QED BY <1>1, <1>2

LEMMA HoldTakenIInv == ASSUME IInv, HoldTaken PROVE IInv'
  <1>a. PICK c : c = [pane |-> current, fd |-> term[current], screen |-> seen[current]]
    OBVIOUS
  <1>0. /\ stage = "holding" /\ current # Nothing /\ term[current] # Nothing /\ reading[current] = "flushing"
        /\ reading' = [reading EXCEPT ![current] = "taken"]
        /\ held' = held \cup {current}
        /\ collected' = collected \cup {c}
        /\ todo' = todo \ {current}
        /\ current' = Nothing
        /\ UNCHANGED <<control, late, files, session, term, adopted, fdClosed, seen, system, input>>
    BY <1>a DEF HoldTaken
  <1> USE DEF control, files, session, system, input
  <1>1. current \in PaneId /\ current \in todo /\ current < nextPane
    BY <1>0 DEF IInv, TypeOK, StagesInv, Ids
  <1>2. /\ reading' \in [PaneId -> {"on", "flushing", "taken", "stranded"}]
        /\ \A q \in PaneId : reading'[q] = IF q = current THEN "taken" ELSE reading[q]
    BY <1>0 DEF IInv, TypeOK
  <1>3. c \in HandedOff
    BY <1>a, <1>0, <1>1 DEF IInv, TypeOK, HandedOff
  <1>4. TypeOK'
    <2> QED BY <1>0, <1>1, <1>2, <1>3 DEF IInv, TypeOK
  <1>5. Live(current)
    BY <1>0 DEF IInv, Terminals, Live
  <1>6. Names' /\ Terminals' /\ Descriptors' /\ WritesInv' /\ Counting' /\ Handed' /\ Restoring'
    <2>1. \A q \in fdClosed : reading'[q] = "on"
      BY <1>2, <1>5 DEF IInv, Terminals, TypeOK, Live
    <2>2. stage \in Old /\ stage' \in Old
      BY <1>0 DEF Old
    <2> QED BY <1>0, <1>4, <2>1, <2>2, ServerSame
  <1>7. StagesInv' /\ Ids'
    <2> QED BY <1>0, <1>1 DEF IInv, StagesInv, Ids, Holding
  <1>8. Releases'
    <2>1. current \notin late
      BY <1>0 DEF IInv, Releases
    <2>2. late \subseteq PaneId /\ held \subseteq PaneId
      BY DEF IInv, TypeOK
    <2> QED BY <1>0, <1>2, <2>1, <2>2 DEF IInv, Releases
  <1>9. Held'
    <2>1. \A h \in collected : h.pane # current /\ h.fd # term[current] /\ h.pane \in PaneId
      BY <1>1, <1>5 DEF IInv, Held, TypeOK, HandedOff
    <2>2. Apart(collected')
      <3>1. Apart(collected)
        BY DEF IInv, Held
      <3>2. c.pane = current /\ c.fd = term[current]
        BY <1>a
      <3>3. \A h \in collected' : h \in collected \/ h = c
        BY <1>0
      <3> QED BY <2>1, <3>1, <3>2, <3>3 DEF Apart
    <2>3. ASSUME NEW h \in collected
          PROVE  /\ h.pane < nextPane' /\ h.pane \notin todo' /\ shellOf'[h.pane] # Nothing
                 /\ \/ Live(h.pane)' /\ term'[h.pane] = h.fd /\ reading'[h.pane] = "taken"
                    \/ term'[h.pane] = Nothing /\ Ended(h.pane)'
                 /\ Shown(h)'
                 /\ \A p \in todo' : Live(p)' => term'[p] # h.fd
      BY <1>0, <1>2, <2>1 DEF IInv, Held, Live, Ended, Shown
    <2>0. c.pane = current /\ c.fd = term[current] /\ c.screen = seen[current]
      BY <1>a
    <2>8. seen[current] = read[shellOf[current]] \/ master[term[current]] # shellOf[current]
      BY <1>1, <1>5 DEF IInv, Terminals
    <2>4. /\ c.pane < nextPane' /\ c.pane \notin todo' /\ shellOf'[c.pane] # Nothing
          /\ Live(c.pane)' /\ term'[c.pane] = c.fd /\ reading'[c.pane] = "taken"
      BY <1>0, <1>1, <1>2, <1>5, <2>0 DEF IInv, Terminals, Live
    <2>5. Shown(c)'
      BY <1>0, <2>0, <2>8 DEF Shown
    <2>6. \A p \in todo' : Live(p)' => term'[p] # c.fd
      BY <1>0, <1>1, <1>5, <2>0 DEF IInv, Terminals, Live, TypeOK
    <2>7. ASSUME NEW h \in collected'
          PROVE  /\ h.pane < nextPane' /\ h.pane \notin todo' /\ shellOf'[h.pane] # Nothing
                 /\ \/ Live(h.pane)' /\ term'[h.pane] = h.fd /\ reading'[h.pane] = "taken"
                    \/ term'[h.pane] = Nothing /\ Ended(h.pane)'
                 /\ Shown(h)'
                 /\ \A p \in todo' : Live(p)' => term'[p] # h.fd
      <3>1. CASE h \in collected
        BY <2>3, <3>1
      <3>2. CASE h = c
        BY <2>4, <2>5, <2>6, <3>2
      <3> QED BY <1>0, <3>1, <3>2
    <2> QED BY <2>2, <2>7 DEF Held
  <1> QED BY <1>4, <1>6, <1>7, <1>8, <1>9 DEF IInv

LEMMA LateHoldReleasedIInv == ASSUME IInv, NEW p \in PaneId, LateHoldReleased(p) PROVE IInv'
  <1>0. /\ Running /\ p \in late
        /\ late' = late \ {p}
        /\ reading' = Released({p})
        /\ UNCHANGED <<control, todo, current, held, collected, files, session, term, adopted, fdClosed, seen, system, input>>
    BY DEF LateHoldReleased
  <1> USE DEF control, files, session, system, input
  <1>1. stage \in Old /\ stage' \in Old
    BY <1>0 DEF IInv, StagesInv, Running, Old, TypeOK, Stages
  <1>2. /\ reading' \in [PaneId -> {"on", "flushing", "taken", "stranded"}]
        /\ \A q \in PaneId : reading'[q] = IF q = p THEN "on" ELSE reading[q]
    BY <1>0, ReleasedType DEF IInv
  <1>3. TypeOK'
    BY <1>0, <1>2 DEF IInv, TypeOK
  <1>4. Names' /\ Terminals' /\ Descriptors' /\ WritesInv' /\ Counting' /\ Handed' /\ Restoring'
    <2>1. \A q \in fdClosed : reading'[q] = "on"
      BY <1>2 DEF IInv, Terminals, TypeOK
    <2> QED BY <1>0, <1>1, <1>3, <2>1, ServerSame
  <1>5. StagesInv' /\ Ids'
    BY <1>0, <1>1 DEF IInv, StagesInv, Ids, Old
  <1>6. term[p] = Nothing \/ reading[p] = "flushing"
    BY <1>0 DEF IInv, Releases
  <1>7. Releases'
    <2>1. late \subseteq PaneId /\ held \subseteq PaneId /\ current \in PaneId \cup {Nothing}
      BY DEF IInv, TypeOK
    <2> QED BY <1>0, <1>2, <1>6, <2>1 DEF IInv, Releases
  <1>8. Held'
    <2>1. Less
      BY <1>0, SameLess DEF IInv
    <2>2. \A h \in collected : h.pane \in PaneId
      BY DEF IInv, TypeOK, HandedOff
    <2>3. \A h \in collected : Live(h.pane) /\ reading[h.pane] = "taken" => reading'[h.pane] = "taken"
      BY <1>2, <1>6, <2>2 DEF Live
    <2>4. \A q : Live(q)' <=> Live(q)
      BY <1>0 DEF Live
    <2>5. nextPane <= nextPane'
      BY <1>0 DEF IInv, TypeOK
    <2> QED BY <1>0, <1>3, <2>1, <2>3, <2>4, <2>5, HeldKept DEF IInv
  <1> QED BY <1>3, <1>4, <1>5, <1>7, <1>8 DEF IInv

\* The reading of the pane is left as it was stopped, and nothing waits for it.
LEMMA LateHoldFailsIInv == ASSUME IInv, NEW p \in PaneId, LateHoldFails(p) PROVE IInv'
  <1>0. /\ Running /\ p \in late /\ term[p] # Nothing
        /\ late' = late \ {p}
        /\ reading' = [reading EXCEPT ![p] = "stranded"]
        /\ UNCHANGED <<control, todo, current, held, collected, files, session, term, adopted, fdClosed, seen, system, input>>
    BY DEF LateHoldFails
  <1> USE DEF control, files, session, system, input
  <1>1. stage \in Old /\ stage' \in Old
    BY <1>0 DEF IInv, StagesInv, Running, Old, TypeOK, Stages
  <1>2. /\ reading' \in [PaneId -> {"on", "flushing", "taken", "stranded"}]
        /\ \A q \in PaneId : reading'[q] = IF q = p THEN "stranded" ELSE reading[q]
    BY <1>0 DEF IInv, TypeOK
  <1>3. TypeOK'
    BY <1>0, <1>2 DEF IInv, TypeOK
  <1>4. term[p] = Nothing \/ reading[p] = "flushing"
    BY <1>0 DEF IInv, Releases
  <1>5. Names' /\ Terminals' /\ Descriptors' /\ WritesInv' /\ Counting' /\ Handed' /\ Restoring'
    <2>1. \A q \in fdClosed : reading'[q] = "on"
      BY <1>2, <1>4 DEF IInv, Terminals, TypeOK
    <2> QED BY <1>0, <1>1, <1>3, <2>1, ServerSame
  <1>6. StagesInv' /\ Ids'
    BY <1>0, <1>1 DEF IInv, StagesInv, Ids, Old
  <1>7. Releases'
    <2>1. late \subseteq PaneId /\ held \subseteq PaneId /\ current \in PaneId \cup {Nothing}
      BY DEF IInv, TypeOK
    <2> QED BY <1>0, <1>2, <1>4, <2>1 DEF IInv, Releases
  <1>8. Held'
    <2>1. Less
      BY <1>0, SameLess DEF IInv
    <2>2. \A h \in collected : h.pane \in PaneId
      BY DEF IInv, TypeOK, HandedOff
    <2>3. \A h \in collected : Live(h.pane) /\ reading[h.pane] = "taken" => reading'[h.pane] = "taken"
      BY <1>2, <1>4, <2>2 DEF Live
    <2>4. \A q : Live(q)' <=> Live(q)
      BY <1>0 DEF Live
    <2>5. nextPane <= nextPane'
      BY <1>0 DEF IInv, TypeOK
    <2> QED BY <1>0, <1>3, <2>1, <2>3, <2>4, <2>5, HeldKept DEF IInv
  <1> QED BY <1>3, <1>5, <1>6, <1>7, <1>8 DEF IInv

LEMMA ExecFailsIInv == ASSUME IInv, ExecFails PROVE IInv'
  <1>0. /\ stage = "leaving" /\ stage' = "undoing"
        /\ reading' = Released(held)
        /\ held' = {} /\ collected' = {} /\ saved' = Unsaved
        /\ UNCHANGED <<closing, clients, handoffs, todo, current, late, manifest, taken, session,
                       term, adopted, fdClosed, seen, system, input>>
    BY DEF ExecFails
  <1> USE DEF session, system, input
  <1>1. stage \in Old /\ stage' \in Old
    BY <1>0 DEF Old
  <1>2. /\ reading' \in [PaneId -> {"on", "flushing", "taken", "stranded"}]
        /\ \A q \in PaneId : reading'[q] = IF q \in held THEN "on" ELSE reading[q]
    BY <1>0, ReleasedType DEF IInv
  <1>3. TypeOK'
    <2>1. Unsaved \in [panes : SUBSET PaneId, next : Nat]
      BY DEF Unsaved
    <2> QED BY <1>0, <1>2, <2>1 DEF IInv, TypeOK, Stages
  <1>4. Names' /\ Terminals' /\ Descriptors' /\ WritesInv' /\ Counting' /\ Handed' /\ Restoring'
    <2>1. \A q \in fdClosed : reading'[q] = "on"
      BY <1>2 DEF IInv, Terminals, TypeOK
    <2> QED BY <1>0, <1>1, <1>3, <2>1, ServerSame
  <1>5. StagesInv'
    BY <1>0 DEF IInv, StagesInv
  <1>6. Ids'
    BY <1>0, PaneIds DEF IInv, Ids, Unsaved
  <1>7. Releases'
    <2> SUFFICES ASSUME NEW p \in late PROVE term[p] = Nothing \/ reading'[p] = "flushing"
      BY <1>0 DEF Releases
    <2>1. p \in held => term[p] = Nothing \/ reading[p] = "taken"
      BY DEF IInv, Releases
    <2> QED BY <1>2, <2>1, LateAreFlushing
  <1>8. Held'
    BY <1>0, NothingHeld
  <1> QED BY <1>3, <1>4, <1>5, <1>6, <1>7, <1>8 DEF IInv

LEMMA ManifestRemovedIInv == ASSUME IInv, ManifestRemoved PROVE IInv'
  <1>0. /\ stage = "undoing" /\ stage' = "idle" /\ clients' = TRUE /\ manifest' = {}
        /\ UNCHANGED <<closing, handoffs, handoff, saved, taken, session, terminals, master, input>>
        /\ OnlyTheirShells(open \cup opening)
    BY DEF ManifestRemoved
  <1> USE DEF handoff, session, terminals, input
  <1>1. /\ Less /\ shellOf' \in [PaneId -> Shells \cup {Nothing}]
        /\ shell' \in [Shells -> Statuses] /\ read' \in [Shells -> 0 .. MaxRead]
        /\ \A p \in open \cup opening : shellOf'[p] = shellOf[p]
    <2>1. open \cup opening \in SUBSET PaneId
      BY DEF IInv, TypeOK
    <2> QED BY <1>0, <2>1, OnlyTheirShellsLess DEF IInv
  <1>2. stage \in Old /\ stage' \in Old
    BY <1>0 DEF Old
  <1>3. TypeOK'
    BY <1>0, <1>1 DEF IInv, TypeOK, Statuses, Stages
  <1>4. Names' /\ Terminals' /\ Descriptors' /\ WritesInv' /\ Counting' /\ Handed' /\ Restoring'
    <2>1. \A p \in fdClosed : reading'[p] = "on"
      BY <1>0 DEF IInv, Terminals, TypeOK
    <2> QED BY <1>0, <1>1, <1>2, <1>3, <2>1, ServerLess
  <1>5. StagesInv' /\ Ids' /\ Releases'
    <2>1. StagesInv'
      BY <1>0 DEF IInv, StagesInv, Holding
    <2>2. Ids' /\ Releases'
      BY <1>0 DEF IInv, Ids, Releases
    <2> QED BY <2>1, <2>2
  <1>6. Held'
    <2>1. collected = {}
      BY <1>0 DEF IInv, StagesInv, Holding
    <2> QED BY <1>0, <2>1, NothingHeld
  <1> QED BY <1>3, <1>4, <1>5, <1>6 DEF IInv

-----------------------------------------------------------------------------
(* Terminals that go, one at a time.                                       *)

\* kill() of one terminal: its descriptor is closed or postponed; with the others
\* nothing happens.
LEMMA KillFacts ==
  ASSUME TypeOK, Names, NEW p \in PaneId, Kill({p})
  PROVE  /\ Less /\ writes' = writes
         /\ adopted' = adopted \ {p} /\ fdClosed' = fdClosed \ {p}
         /\ \A q \in PaneId : term'[q] = IF q = p THEN Nothing ELSE term[q]
         /\ \A q \in PaneId : q # p => reading'[q] = reading[q] /\ seen'[q] = seen[q] /\ shellOf'[q] = shellOf[q]
         /\ (\E h \in collected \cup manifest : h.pane = p) => shellOf'[p] = shellOf[p]
         /\ \A f \in Fd : master'[f] = master[f] \/
              (Live(p) /\ f = term[p] /\ \A w \in writes : w.fd = f => w.shell # master[f])
         /\ postponed' = postponed \/ (Live(p) /\ postponed' = postponed \cup {term[p]} /\ master'[term[p]] = master[term[p]])
         /\ Live(p) => term[p] \in postponed' \/ master'[term[p]] = Nothing
         /\ master' \in [Fd -> Shells \cup {Nothing}] /\ shellOf' \in [PaneId -> Shells \cup {Nothing}]
         /\ shell' \in [Shells -> Statuses] /\ read' \in [Shells -> 0 .. MaxRead]
         /\ term' \in [PaneId -> Fd \cup {Nothing}]
         /\ reading' \in [PaneId -> {"on", "flushing", "taken", "stranded"}] /\ seen' \in [PaneId -> 0 .. MaxRead]
         /\ postponed' \subseteq Fd
  <1> DEFINE used == FdsOf({p}) \cap {w.fd : w \in {v \in writes : v.shell = master[v.fd]}}
             now == FdsOf({p}) \ used
  <1>1. \A f : f \in FdsOf({p}) <=> Live(p) /\ f = term[p]
    BY DEF FdsOf, Live
  <1>2. \A f : f \in now => f \in FdsOf({p}) /\ \A w \in writes : w.fd = f => w.shell # master[f]
    OBVIOUS
  <1>3. \A f : f \in FdsOf({p}) => f \in now \/ f \in used
    OBVIOUS
  <1>4. used \subseteq FdsOf({p}) /\ used \cap now = {}
    OBVIOUS
  <1>5. Gone({p}, now, used)
    BY DEF Kill
  <1> HIDE DEF used, now
  <1>6. FdsOf({p}) \subseteq Fd
    <2>1. term[p] \in Fd \cup {Nothing}
      BY DEF TypeOK
    <2> QED BY <1>1, <2>1 DEF Live
  <1> DEFINE hung == {master[f] : f \in now} \cup {shellOf[q] : q \in {p}}
  <1>7. /\ term' = [q \in PaneId |-> IF q = p THEN Nothing ELSE term[q]]
        /\ reading' = [q \in PaneId |-> IF q = p THEN "on" ELSE reading[q]]
        /\ seen' = [q \in PaneId |-> IF q = p THEN 0 ELSE seen[q]]
    BY <1>5 DEF Gone
  <1>8. /\ adopted' = adopted \ {p} /\ fdClosed' = fdClosed \ {p} /\ writes' = writes
        /\ postponed' = postponed \cup used
        /\ BecomeShells(Hungup(hung), read)
    BY <1>5 DEF Gone
  <1>9. master' = [f \in Fd |-> IF f \in now THEN Nothing ELSE master[f]]
    BY <1>5 DEF Gone
  <1>10. shellOf' = [q \in PaneId |-> IF q \in {p} /\ q \notin {h.pane : h \in collected \cup manifest}
                                      THEN Nothing ELSE shellOf[q]]
    BY <1>5 DEF Gone
  <1> HIDE DEF hung
  <1>11. master' \in [Fd -> Shells \cup {Nothing}] /\ shellOf' \in [PaneId -> Shells \cup {Nothing}]
    BY <1>9, <1>10 DEF TypeOK
  <1>12. Less /\ shell' \in [Shells -> Statuses] /\ read' \in [Shells -> 0 .. MaxRead]
    <2>1. \A f \in Fd : master'[f] = master[f] \/ master'[f] = Nothing
      BY <1>9
    <2>2. \A q \in PaneId : shellOf'[q] = shellOf[q] \/ shellOf'[q] = Nothing
      BY <1>10
    <2> QED BY <1>8, <1>11, <2>1, <2>2, HungupStatuses, BecomeLess
  <1>13. \A q \in PaneId : q # p => reading'[q] = reading[q] /\ seen'[q] = seen[q] /\ shellOf'[q] = shellOf[q]
    BY <1>7, <1>10
  <1>14. (\E h \in collected \cup manifest : h.pane = p) => shellOf'[p] = shellOf[p]
    BY <1>10
  <1>15. \A f \in Fd : master'[f] = master[f] \/
              (Live(p) /\ f = term[p] /\ \A w \in writes : w.fd = f => w.shell # master[f])
    BY <1>1, <1>2, <1>9
  <1>16. postponed' = postponed \/ (Live(p) /\ postponed' = postponed \cup {term[p]} /\ master'[term[p]] = master[term[p]])
    <2>1. CASE used = {}
      BY <1>8, <2>1
    <2>2. CASE used # {}
      <3>1. used = {term[p]} /\ Live(p) /\ term[p] \notin now /\ term[p] \in Fd
        BY <1>1, <1>4, <1>6, <2>2
      <3> QED BY <1>8, <1>9, <3>1
    <2> QED BY <2>1, <2>2
  <1>17. Live(p) => term[p] \in postponed' \/ master'[term[p]] = Nothing
    BY <1>1, <1>3, <1>6, <1>8, <1>9
  <1>18. /\ term' \in [PaneId -> Fd \cup {Nothing}]
         /\ reading' \in [PaneId -> {"on", "flushing", "taken", "stranded"}] /\ seen' \in [PaneId -> 0 .. MaxRead]
    BY <1>7, BoundsAssumption DEF TypeOK
  <1>19. postponed' \subseteq Fd
    BY <1>4, <1>6, <1>8 DEF TypeOK
  <1> QED BY <1>7, <1>8, <1>11, <1>12, <1>13, <1>14, <1>15, <1>16, <1>17, <1>18, <1>19

LEMMA KillTypes ==
  ASSUME TypeOK, Names, NEW p \in PaneId, Kill({p})
  PROVE  /\ term' \in [PaneId -> Fd \cup {Nothing}] /\ adopted' \subseteq PaneId /\ fdClosed' \subseteq PaneId
         /\ reading' \in [PaneId -> {"on", "flushing", "taken", "stranded"}] /\ seen' \in [PaneId -> 0 .. MaxRead]
         /\ master' \in [Fd -> Shells \cup {Nothing}] /\ shell' \in [Shells -> Statuses]
         /\ shellOf' \in [PaneId -> Shells \cup {Nothing}] /\ read' \in [Shells -> 0 .. MaxRead]
         /\ writes' \subseteq [fd : Fd, shell : Shells] /\ postponed' \subseteq Fd /\ writes' = writes
  <1>1. adopted' = adopted \ {p} /\ fdClosed' = fdClosed \ {p} /\ writes' = writes
    BY KillFacts
  <1>2. /\ term' \in [PaneId -> Fd \cup {Nothing}]
        /\ reading' \in [PaneId -> {"on", "flushing", "taken", "stranded"}] /\ seen' \in [PaneId -> 0 .. MaxRead]
        /\ master' \in [Fd -> Shells \cup {Nothing}] /\ shell' \in [Shells -> Statuses]
        /\ shellOf' \in [PaneId -> Shells \cup {Nothing}] /\ read' \in [Shells -> 0 .. MaxRead]
        /\ postponed' \subseteq Fd
    BY KillFacts
  <1>3. adopted \subseteq PaneId /\ fdClosed \subseteq PaneId /\ writes \subseteq [fd : Fd, shell : Shells]
    BY DEF TypeOK
  <1> QED BY <1>1, <1>2, <1>3

LEMMA KillKeeps ==
  ASSUME IInv, TypeOK', NEW p \in PaneId, Kill({p}),
         stage' = stage, stage \notin {"starting", "loading", "down"},
         UNCHANGED <<nextPane, taken, collected, manifest, late, held>>, p < nextPane,
         (open \cup opening) \ {p} \subseteq open' \cup opening',
         todo' \subseteq todo, stage = "restoring" => p \notin todo' /\ todo' \ {current'} \subseteq todo \ {current},
         stage = "holding" => current' = current,
         \A h \in collected : h.pane = p => Ended(p)
  PROVE  Names' /\ Terminals' /\ Descriptors' /\ WritesInv' /\ Counting' /\ Held' /\ Handed' /\ Releases'
  <1>0. /\ Less /\ writes' = writes
        /\ adopted' = adopted \ {p} /\ fdClosed' = fdClosed \ {p}
        /\ \A q \in PaneId : term'[q] = IF q = p THEN Nothing ELSE term[q]
        /\ \A q \in PaneId : q # p => reading'[q] = reading[q] /\ seen'[q] = seen[q] /\ shellOf'[q] = shellOf[q]
        /\ (\E h \in collected \cup manifest : h.pane = p) => shellOf'[p] = shellOf[p]
        /\ \A f \in Fd : master'[f] = master[f] \/
             (Live(p) /\ f = term[p] /\ \A w \in writes : w.fd = f => w.shell # master[f])
        /\ postponed' = postponed \/ (Live(p) /\ postponed' = postponed \cup {term[p]} /\ master'[term[p]] = master[term[p]])
        /\ Live(p) => term[p] \in postponed' \/ master'[term[p]] = Nothing
    BY KillFacts DEF IInv
  <1>1. Names'
    BY <1>0, LessNames DEF IInv
  <1>2. \A q \in PaneId : (Live(q)' <=> Live(q) /\ q # p)
    BY <1>0 DEF Live
  <1>3. ASSUME NEW q \in PaneId, Live(q), q # p
        PROVE  term[q] \in Fd /\ term'[q] = term[q] /\ master'[term[q]] = master[term[q]] /\ term[q] \notin postponed'
    <2>1. term[q] \in Fd
      BY <1>3 DEF IInv, TypeOK, Live
    <2>2. ~(Live(p) /\ term[q] = term[p])
      BY <1>3 DEF IInv, Terminals
    <2>3. term[q] \notin postponed
      BY <1>3 DEF IInv, Terminals
    <2> QED BY <1>0, <1>3, <2>1, <2>2, <2>3
  <1>4. Terminals'
    <2>1. \A q \in PaneId : Live(q)' => Live(q) /\ master'[term[q]] = master[term[q]] /\ term[q] \notin postponed'
      BY <1>2, <1>3
    <2>2. ASSUME NEW q \in PaneId, term'[q] # Nothing
          PROVE  term'[q] = term[q] /\ shellOf'[q] = shellOf[q] /\ seen'[q] = seen[q] /\ q \in open' \cup opening'
      <3>1. q # p /\ term'[q] = term[q]
        BY <1>0, <2>2
      <3>2. q \in open \cup opening
        BY <2>2, <3>1 DEF IInv, Terminals
      <3> QED BY <1>0, <3>1, <3>2
    <2>3. ASSUME NEW q \in fdClosed' PROVE term'[q] # Nothing /\ reading'[q] = "on" /\ q \in fdClosed
      <3>1. q \in fdClosed /\ q # p /\ q \in PaneId
        BY <1>0 DEF IInv, TypeOK
      <3>2. term[q] # Nothing /\ reading[q] = "on"
        BY <3>1 DEF IInv, Terminals
      <3> QED BY <1>0, <3>1, <3>2
    <2>4. ASSUME NEW q \in adopted' PROVE term'[q] # Nothing
      <3>1. q \in adopted /\ q # p /\ q \in PaneId
        BY <1>0 DEF IInv, TypeOK
      <3>2. term[q] # Nothing
        BY <3>1 DEF IInv, Terminals
      <3> QED BY <1>0, <3>1, <3>2
    <2>5. TermsKept
      BY <2>1, <2>2, <2>3, <2>4 DEF TermsKept
    <2> QED BY <1>0, <2>5, LessTerminals DEF IInv
  <1>5. \A f \in Fd : f \in postponed \/ (\E h \in taken : h.fd = f) => master'[f] = master[f] /\ (f \in postponed' => f \in postponed)
    <2>1. Live(p) => term[p] \notin postponed /\ \A h \in taken : h.fd # term[p]
      BY DEF IInv, Terminals
    <2> QED BY <1>0, <2>1
  <1>6. postponed \subseteq Fd /\ \A h \in taken : h.fd \in Fd
    BY DEF IInv, TypeOK, HandedOff
  <1>7. Descriptors'
    <2>1. \A f \in postponed' : master'[f] # Nothing
      <3>1. \A f \in postponed : master[f] # Nothing
        BY DEF IInv, Descriptors
      <3>2. Live(p) => master[term[p]] # Nothing
        BY DEF IInv, Terminals
      <3> QED BY <1>0, <1>5, <1>6, <3>1, <3>2
    <2>2. \A h \in taken : master'[h.fd] # Nothing /\ h.fd \notin postponed'
      BY <1>5, <1>6 DEF IInv, Descriptors
    <2>3. ASSUME NEW f \in Fd, master'[f] # Nothing, f \notin postponed', \A h \in taken : h.fd # f
          PROVE  \E q \in PaneId : Live(q)' /\ term'[q] = f
      <3>1. master[f] # Nothing
        BY <1>0, <2>3 DEF Less
      <3>2. f \notin postponed
        BY <1>0, <2>3
      <3>3. PICK q \in PaneId : Live(q) /\ term[q] = f
        BY <2>3, <3>1, <3>2 DEF IInv, Descriptors
      <3>4. q # p
        BY <1>0, <2>3, <3>3
      <3> QED BY <1>2, <1>3, <3>3, <3>4
    <2> QED BY <2>1, <2>2, <2>3 DEF Descriptors
  <1>8. WritesInv'
    <2>1. ASSUME NEW w \in writes PROVE master'[w.fd] = w.shell \/ shell'[w.shell] = "ended"
      <3>1. w.fd \in Fd /\ w.shell \in Shells
        BY DEF IInv, TypeOK
      <3>2. shell[w.shell] = "ended" => shell'[w.shell] = "ended"
        BY <1>0, <3>1, LessKeeps
      <3>3. master[w.fd] = w.shell \/ shell[w.shell] = "ended"
        BY DEF IInv, WritesInv
      <3> QED BY <1>0, <3>1, <3>2, <3>3
    <2> QED BY <1>0, <2>1 DEF IInv, WritesInv
  <1>9. Counting'
    <2>1. Dead \subseteq Dead' /\ Dead' \subseteq PaneId /\ p \in Dead'
      BY <1>0 DEF Dead
    <2>2. Live(p) => p \notin Dead
      BY DEF Dead, Live
    <2>3. IsFiniteSet(Dead) /\ IsFiniteSet(Dead') /\ Cardinality(Dead) \in Nat /\ Cardinality(Dead') \in Nat
          /\ Cardinality(Dead) <= Cardinality(Dead')
      <3>1. IsFiniteSet(Dead')
        BY <2>1, PaneIds, SubsetBound
      <3> QED BY <2>1, <3>1, SubsetBound
    <2>4. IsFiniteSet(postponed) /\ Cardinality(postponed) \in Nat /\ Cardinality(postponed) <= Cardinality(Dead)
      BY <1>6, Fds, SubsetBound DEF IInv, Counting
    <2>5. CASE postponed' = postponed
      BY <2>3, <2>4, <2>5 DEF Counting
    <2>6. CASE Live(p) /\ postponed' = postponed \cup {term[p]}
      <3>1. Cardinality(postponed') <= Cardinality(postponed) + 1 /\ Cardinality(postponed') \in Nat
        <4>1. Cardinality(postponed') = IF term[p] \in postponed THEN Cardinality(postponed) ELSE Cardinality(postponed) + 1
          BY <2>4, <2>6, FS_AddElement
        <4> QED BY <2>4, <4>1
      <3>2. Cardinality(Dead \cup {p}) = Cardinality(Dead) + 1
        BY <2>2, <2>3, <2>6, FS_AddElement
      <3>3. Dead \cup {p} \subseteq Dead'
        BY <2>1
      <3>4. Cardinality(Dead \cup {p}) <= Cardinality(Dead')
        BY <2>3, <3>3, SubsetBound
      <3> QED BY <2>3, <2>4, <3>1, <3>2, <3>4 DEF Counting
    <2> QED BY <1>0, <2>5, <2>6
  <1>10. Held'
    <2>1. ASSUME NEW h \in collected
          PROVE  /\ h.pane \in PaneId /\ shellOf'[h.pane] = shellOf[h.pane]
                 /\ term[h.pane] = Nothing => term'[h.pane] = Nothing
                 /\ Live(h.pane) /\ reading[h.pane] = "taken" =>
                      \/ Live(h.pane)' /\ term'[h.pane] = term[h.pane] /\ reading'[h.pane] = "taken"
                      \/ term'[h.pane] = Nothing /\ Ended(h.pane)
      <3>1. h.pane \in PaneId
        BY DEF IInv, TypeOK, HandedOff
      <3>2. CASE h.pane = p
        BY <1>0, <3>1, <3>2
      <3>3. CASE h.pane # p
        BY <1>0, <1>2, <3>1, <3>3
      <3> QED BY <3>1, <3>2, <3>3
    <2>2. \A q \in todo' : Live(q)' => Live(q) /\ term'[q] = term[q]
      BY <1>2, <1>3 DEF IInv, TypeOK
    <2>3. nextPane <= nextPane'
      BY DEF IInv, TypeOK
    <2> QED BY <1>0, <2>1, <2>2, <2>3, HeldKept DEF IInv
  <1>11. Handed'
    <2>1. ASSUME stage = "restoring", NEW h \in taken, h.pane \in todo' \ {current'}
          PROVE  HandedOver(h)'
      <3>1. h.pane \in todo \ {current} /\ h.pane # p /\ h.pane \in PaneId /\ h.fd \in Fd
        BY <2>1 DEF IInv, TypeOK, HandedOff
      <3>2. HandedOver(h)
        BY <2>1, <3>1 DEF IInv, Handed
      <3>3. shellOf'[h.pane] = shellOf[h.pane] /\ master'[h.fd] = master[h.fd]
        BY <1>0, <1>5, <3>1
      <3>4. read'[shellOf'[h.pane]] = read[shellOf[h.pane]] /\ (Ended(h.pane) => Ended(h.pane)')
        BY <1>0, <3>1, <3>2, <3>3, LessPane DEF HandedOver
      <3> QED BY <3>2, <3>3, <3>4 DEF HandedOver, Shown
    <2>2. Apart(taken')
      BY DEF IInv, Handed
    <2> QED BY <2>1, <2>2 DEF Handed
  <1>12. Releases'
    BY <1>0 DEF IInv, Releases, TypeOK
  <1> QED BY <1>1, <1>4, <1>7, <1>8, <1>9, <1>10, <1>11, <1>12

\* A pane that leaves the session, with its terminal.
LEMMA LeaveIInv ==
  ASSUME IInv, NEW p \in open, Leave(p), stage' = stage, stage \notin {"starting", "loading", "down"},
         UNCHANGED <<closing, clients, handoffs, handoff, files, opening, nextPane>>,
         \A h \in collected : h.pane = p => Ended(p),
         stage = "restoring" => term[p] # Nothing /\ p # current
  PROVE  IInv'
  <1> USE DEF handoff, files
  <1>0. p \in PaneId /\ Kill({p}) /\ open' = open \ {p} /\ asked' \in Nat
    BY DEF Leave, IInv, TypeOK
  <1>1. TypeOK'
    <2>1. TypeOK /\ Names
      BY DEF IInv
    <2>2. /\ term' \in [PaneId -> Fd \cup {Nothing}] /\ adopted' \subseteq PaneId /\ fdClosed' \subseteq PaneId
          /\ reading' \in [PaneId -> {"on", "flushing", "taken", "stranded"}] /\ seen' \in [PaneId -> 0 .. MaxRead]
          /\ master' \in [Fd -> Shells \cup {Nothing}] /\ shell' \in [Shells -> Statuses]
          /\ shellOf' \in [PaneId -> Shells \cup {Nothing}] /\ read' \in [Shells -> 0 .. MaxRead]
          /\ writes' \subseteq [fd : Fd, shell : Shells] /\ postponed' \subseteq Fd
      BY <1>0, <2>1, KillTypes
    <2> QED BY <1>0, <2>1, <2>2 DEF TypeOK, Statuses
  <1>2. stage = "restoring" => p \notin todo
    BY DEF IInv, Restoring
  <1>3. p < nextPane
    BY DEF IInv, Ids
  <1>4. Names' /\ Terminals' /\ Descriptors' /\ WritesInv' /\ Counting' /\ Held' /\ Handed' /\ Releases'
    BY <1>0, <1>1, <1>2, <1>3, KillKeeps
  <1>5. \A q \in PaneId : term'[q] = IF q = p THEN Nothing ELSE term[q]
    BY <1>0, KillFacts DEF IInv
  <1>6. StagesInv'
    <2>1. writes' = writes
      BY <1>0, KillFacts DEF IInv
    <2> QED BY <2>1 DEF IInv, StagesInv
  <1>7. Ids'
    BY <1>0 DEF IInv, Ids
  <1>8. Restoring'
    BY <1>0, <1>2, <1>5 DEF IInv, Restoring, TypeOK
  <1> QED BY <1>1, <1>4, <1>6, <1>7, <1>8 DEF IInv

LEMMA CallCloseIInv == ASSUME IInv, NEW p \in PaneId, CallClose(p) PROVE IInv'
  <1>0. clients /\ p \in open /\ Leave(p) /\ UNCHANGED <<control, handoff, files, opening, nextPane>>
    BY DEF CallClose
  <1>1. stage \in {"idle", "preflight"} /\ collected = {}
    BY <1>0 DEF IInv, StagesInv, Holding
  <1>2. stage' = stage /\ UNCHANGED <<closing, clients, handoffs>>
    BY <1>0 DEF control
  <1> QED BY <1>0, <1>1, <1>2, LeaveIInv

LEMMA PaneEndsIInv == ASSUME IInv, NEW p \in PaneId, PaneEnds(p) PROVE IInv'
  <1>0. /\ Running /\ p \in open /\ term[p] # Nothing /\ ~(stage = "restoring" /\ p = current)
        /\ shell[shellOf[p]] = "ended"
        /\ Leave(p)
        /\ UNCHANGED <<control, handoff, files, opening, nextPane>>
    BY DEF PaneEnds
  <1>1. stage' = stage /\ UNCHANGED <<closing, clients, handoffs>>
    BY <1>0 DEF control
  <1> QED BY <1>0, <1>1, LeaveIInv DEF Running, Ended

LEMMA SpawnFailsIInv == ASSUME IInv, NEW p \in PaneId, SpawnFails(p) PROVE IInv'
  <1>0. /\ Running /\ p \in opening /\ Ended(p)
        /\ opening' = opening \ {p}
        /\ Kill({p})
        /\ UNCHANGED <<control, handoff, files, open, asked, nextPane>>
    BY DEF SpawnFails, Ended
  <1> USE DEF control, handoff, files
  <1>1. TypeOK'
    <2>1. TypeOK /\ Names
      BY DEF IInv
    <2>2. /\ term' \in [PaneId -> Fd \cup {Nothing}] /\ adopted' \subseteq PaneId /\ fdClosed' \subseteq PaneId
          /\ reading' \in [PaneId -> {"on", "flushing", "taken", "stranded"}] /\ seen' \in [PaneId -> 0 .. MaxRead]
          /\ master' \in [Fd -> Shells \cup {Nothing}] /\ shell' \in [Shells -> Statuses]
          /\ shellOf' \in [PaneId -> Shells \cup {Nothing}] /\ read' \in [Shells -> 0 .. MaxRead]
          /\ writes' \subseteq [fd : Fd, shell : Shells] /\ postponed' \subseteq Fd
      BY <1>0, <2>1, KillTypes
    <2> QED BY <1>0, <2>1, <2>2 DEF TypeOK, Statuses
  <1>2. stage = "restoring" => p \notin todo
    BY <1>0 DEF IInv, Restoring, Ids
  <1>3. p < nextPane
    BY <1>0 DEF IInv, Ids
  <1>4. Names' /\ Terminals' /\ Descriptors' /\ WritesInv' /\ Counting' /\ Held' /\ Handed' /\ Releases'
    BY <1>0, <1>1, <1>2, <1>3, KillKeeps DEF Running
  <1>5. \A q \in PaneId : term'[q] = IF q = p THEN Nothing ELSE term[q]
    BY <1>0, KillFacts DEF IInv
  <1>6. StagesInv'
    <2>1. writes' = writes
      BY <1>0, KillFacts DEF IInv
    <2> QED BY <1>0, <2>1 DEF IInv, StagesInv, Running
  <1>7. Ids'
    BY <1>0 DEF IInv, Ids
  <1>8. Restoring'
    BY <1>0, <1>2, <1>5 DEF IInv, Restoring, TypeOK
  <1> QED BY <1>1, <1>4, <1>6, <1>7, <1>8 DEF IInv

LEMMA SpawnEndsIInv == ASSUME IInv, NEW p \in PaneId, SpawnEnds(p) PROVE IInv'
  <1>0. /\ Running /\ p \in opening
        /\ opening' = opening \ {p}
        /\ open' = open \cup {p}
        /\ UNCHANGED <<control, handoff, files, asked, nextPane, terminals, system, input>>
    BY DEF SpawnEnds
  <1> USE DEF control, handoff, files, terminals, system, input
  <1>1. TypeOK'
    BY <1>0 DEF IInv, TypeOK
  <1>2. Names' /\ Descriptors' /\ WritesInv' /\ Handed' /\ Releases' /\ Held'
    BY <1>0 DEF IInv, Names, Known, Descriptors, WritesInv, Handed, HandedOver, Releases, Held, Shown, Live, Ended
  <1>3. Terminals'
    BY <1>0 DEF IInv, Terminals, Live, Ended
  <1>4. Counting'
    BY <1>0 DEF IInv, Counting, Dead
  <1>5. StagesInv' /\ Restoring'
    BY <1>0 DEF IInv, StagesInv, Restoring, Running
  <1>6. Ids'
    BY <1>0 DEF IInv, Ids
  <1> QED BY <1>1, <1>2, <1>3, <1>4, <1>5, <1>6 DEF IInv

LEMMA RestoreEndsIInv == ASSUME IInv, NEW failed \in BOOLEAN, RestoreEnds(failed) PROVE IInv'
  <1>0. /\ stage = "restoring" /\ current # Nothing
        /\ todo' = todo \ {current} /\ current' = Nothing
        /\ UNCHANGED <<control, held, late, collected, files, session>>
        /\ IF failed THEN shell[shellOf[current]] = "ended" /\ Kill({current})
                     ELSE UNCHANGED <<terminals, system, input>>
    BY DEF RestoreEnds
  <1> USE DEF control, files, session
  <1>1. current \in PaneId /\ current \in todo /\ todo \subseteq open /\ term[current] # Nothing /\ current < nextPane
    BY <1>0 DEF IInv, TypeOK, StagesInv, Restoring, Ids
  <1>2. collected = {} /\ held = {} /\ late = {}
    BY <1>0 DEF IInv, StagesInv, Holding
  <1>3. CASE failed
    <2>0. Kill({current})
      BY <1>0, <1>3
    <2>1. TypeOK'
      <3>1. TypeOK /\ Names
        BY DEF IInv
      <3>2. /\ term' \in [PaneId -> Fd \cup {Nothing}] /\ adopted' \subseteq PaneId /\ fdClosed' \subseteq PaneId
            /\ reading' \in [PaneId -> {"on", "flushing", "taken", "stranded"}] /\ seen' \in [PaneId -> 0 .. MaxRead]
            /\ master' \in [Fd -> Shells \cup {Nothing}] /\ shell' \in [Shells -> Statuses]
            /\ shellOf' \in [PaneId -> Shells \cup {Nothing}] /\ read' \in [Shells -> 0 .. MaxRead]
            /\ writes' \subseteq [fd : Fd, shell : Shells] /\ postponed' \subseteq Fd
        BY <1>1, <2>0, <3>1, KillTypes
      <3> QED BY <1>0, <3>1, <3>2 DEF TypeOK, Statuses
    <2>2. Names' /\ Terminals' /\ Descriptors' /\ WritesInv' /\ Counting' /\ Held' /\ Handed' /\ Releases'
      BY <1>0, <1>1, <1>2, <2>0, <2>1, KillKeeps
    <2>3. \A q \in PaneId : term'[q] = IF q = current THEN Nothing ELSE term[q]
      BY <1>1, <2>0, KillFacts DEF IInv
    <2>4. StagesInv'
      <3>1. writes' = writes
        BY <1>1, <2>0, KillFacts DEF IInv
      <3> QED BY <1>0, <1>2, <3>1 DEF IInv, StagesInv
    <2>5. Ids'
      BY <1>0 DEF IInv, Ids
    <2>6. Restoring'
      BY <1>0, <1>1, <2>3 DEF IInv, Restoring, TypeOK, Nothing, PaneId
    <2> QED BY <2>1, <2>2, <2>4, <2>5, <2>6 DEF IInv
  <1>4. CASE ~failed
    <2>0. UNCHANGED <<terminals, system, input>>
      BY <1>0, <1>4
    <2> USE DEF terminals, system, input
    <2>1. TypeOK'
      BY <1>0, <2>0 DEF IInv, TypeOK
    <2>2. Names' /\ Descriptors' /\ WritesInv' /\ Releases' /\ Held'
      BY <1>0, <1>2, <2>0 DEF IInv, Names, Known, Descriptors, WritesInv, Releases, Held, Live
    <2>3. Terminals'
      BY <1>0, <2>0 DEF IInv, Terminals, Live, Ended
    <2>4. Counting'
      <3>1. Dead' = Dead
        BY <1>0, <1>1, <2>0 DEF Dead
      <3> QED BY <2>0, <3>1 DEF IInv, Counting
    <2>5. Handed'
      BY <1>0, <1>1, <2>0 DEF IInv, Handed, HandedOver, Shown, Ended
    <2>6. StagesInv'
      BY <1>0, <1>2, <2>0 DEF IInv, StagesInv
    <2>8. Restoring'
      <3>1. ASSUME NEW q \in todo' PROVE term[q] = Nothing /\ q # Nothing
        <4>1. q \in todo /\ q # current /\ q \in PaneId
          BY <1>0 DEF IInv, TypeOK
        <4> QED BY <1>0, <4>1 DEF IInv, Restoring, PaneId, Nothing
      <3> QED BY <1>0, <1>1, <2>0, <3>1 DEF Restoring
    <2>7. Ids'
      BY <1>0 DEF IInv, Ids
    <2> QED BY <2>1, <2>2, <2>3, <2>4, <2>5, <2>6, <2>7, <2>8 DEF IInv
  <1> QED BY <1>3, <1>4

-----------------------------------------------------------------------------
(* Shells, and what is read and written.                                   *)

LEMMA ShellEndsIInv == ASSUME IInv, NEW s \in Shells, ShellEnds(s) PROVE IInv'
  <1>0. /\ stage # "down" /\ shell[s] = "running"
        /\ shell' = [shell EXCEPT ![s] = "ended"]
        /\ UNCHANGED <<control, handoff, files, session, terminals, master, shellOf, read, input>>
    BY DEF ShellEnds
  <1> USE DEF control, handoff, files, session, terminals, input
  <1>1. shell' \in [Shells -> Statuses] /\ \A t \in Shells : shell'[t] = IF t = s THEN "ended" ELSE shell[t]
    BY <1>0 DEF IInv, TypeOK, Statuses
  <1>2. TypeOK'
    BY <1>0, <1>1 DEF IInv, TypeOK, Statuses
  <1>3. \A t \in Shells : Known(t)' <=> Known(t)
    BY <1>0 DEF Known
  <1>4. Less
    BY <1>0, <1>1, <1>3 DEF Less, IInv, Names
  <1>5. Names'
    BY <1>2, <1>4, LessNames DEF IInv
  <1>6. Terminals'
    <2>1. TermsKept
      BY <1>0 DEF TermsKept, IInv, Terminals, Live
    <2> QED BY <1>2, <1>4, <2>1, LessTerminals DEF IInv
  <1>7. Descriptors' /\ Restoring' /\ Releases' /\ StagesInv' /\ Ids'
    BY <1>0 DEF IInv, Descriptors, Live, Restoring, Releases, StagesInv, Ids
  <1>8. WritesInv'
    BY <1>0, <1>1 DEF IInv, WritesInv, TypeOK
  <1>9. Counting'
    BY <1>0 DEF IInv, Counting, Dead
  <1>10. Held'
    BY <1>0, <1>2, <1>4, HeldKept DEF IInv, Live, TypeOK
  <1>11. Handed'
    <2>1. ASSUME NEW h \in HandedOff, HandedOver(h) PROVE HandedOver(h)'
      BY <1>0, <1>1, <2>1 DEF HandedOver, Shown, Ended, HandedOff, IInv, TypeOK
    <2>2. manifest \subseteq HandedOff /\ taken \subseteq HandedOff
      BY DEF IInv, TypeOK
    <2> QED BY <1>0, <2>1, <2>2 DEF IInv, Handed
  <1> QED BY <1>2, <1>5, <1>6, <1>7, <1>8, <1>9, <1>10, <1>11 DEF IInv

LEMMA WriteStartsIInv == ASSUME IInv, NEW p \in PaneId, WriteStarts(p) PROVE IInv'
  <1>0. /\ Running /\ p \in (open \cap adopted) \ fdClosed
        /\ writes = {}
        /\ writes' = {[fd |-> term[p], shell |-> master[term[p]]]}
        /\ UNCHANGED <<control, handoff, files, session, terminals, system, postponed>>
    BY DEF WriteStarts
  <1> USE DEF control, handoff, files, session, terminals, system
  <1>1. Live(p) /\ term[p] \in Fd /\ master[term[p]] \in Shells /\ \A h \in taken : h.fd # term[p]
    BY <1>0 DEF IInv, Terminals, Live, TypeOK
  <1>2. \A w \in writes' : w = [fd |-> term[p], shell |-> master[term[p]]]
                           /\ w.fd = term[p] /\ w.shell = master[term[p]]
    BY <1>0
  <1>3. TypeOK'
    <2>1. writes' \subseteq [fd : Fd, shell : Shells]
      BY <1>0, <1>1
    <2> QED BY <1>0, <2>1 DEF IInv, TypeOK
  <1>4. Names'
    <2>1. \A s \in Shells : Known(s)' <=> Known(s)
      BY <1>0, <1>1, <1>2 DEF Known
    <2> QED BY <1>0, <2>1 DEF IInv, Names
  <1>5. WritesInv'
    BY <1>0, <1>1, <1>2 DEF WritesInv
  <1>6. Terminals' /\ Descriptors' /\ Restoring' /\ Releases'
    BY <1>0 DEF IInv, Terminals, Descriptors, Restoring, Releases, Live, Ended
  <1>7. Held' /\ Handed'
    BY <1>0 DEF IInv, Held, Handed, HandedOver, Shown, Live, Ended
  <1>8. Counting'
    BY <1>0 DEF IInv, Counting, Dead
  <1>9. StagesInv' /\ Ids'
    BY <1>0 DEF IInv, StagesInv, Ids, Running
  <1> QED BY <1>3, <1>4, <1>5, <1>6, <1>7, <1>8, <1>9 DEF IInv

\* Nobody reads another pane's shell while that pane may still show it.
LEMMA PaneReadsIInv == ASSUME IInv, NEW p \in PaneId, PaneReads(p) PROVE IInv'
  <1>a. PICK s : s = master[term[p]]
    OBVIOUS
  <1>0. /\ p \in open /\ term[p] # Nothing /\ p \notin fdClosed
        /\ reading[p] = "on" /\ shell[s] = "running" /\ (\A t \in Shells : read[t] < MaxRead) /\ seen[p] < MaxRead
        /\ read' = [read EXCEPT ![s] = @ + 1]
        /\ seen' = [seen EXCEPT ![p] = @ + 1]
        /\ UNCHANGED <<control, handoff, files, session, term, adopted, fdClosed, reading, master, shell, shellOf, input>>
    BY <1>a DEF PaneReads
  <1> USE DEF control, handoff, files, session, input
  <1>1. Live(p) /\ term[p] \in Fd /\ s \in Shells /\ s # Nothing
    BY <1>a, <1>0 DEF IInv, Terminals, Live, TypeOK
  <1>2. /\ read' \in [Shells -> 0 .. MaxRead]
        /\ read'[s] = read[s] + 1 /\ \A t \in Shells : t # s => read'[t] = read[t]
    BY <1>0, <1>1, BoundsAssumption DEF IInv, TypeOK
  <1>3. /\ seen' \in [PaneId -> 0 .. MaxRead]
        /\ seen'[p] = seen[p] + 1 /\ \A q \in PaneId : q # p => seen'[q] = seen[q]
    BY <1>0, BoundsAssumption DEF IInv, TypeOK
  <1>4. TypeOK'
    BY <1>0, <1>2, <1>3 DEF IInv, TypeOK
  <1>5. Names'
    <2>1. \A t \in Shells : Known(t)' <=> Known(t)
      BY <1>0 DEF Known
    <2> QED BY <1>0, <1>2, <2>1 DEF IInv, Names
  <1>6. \A f \in Fd : master[f] = s => f = term[p]
    BY <1>a, <1>1 DEF IInv, Names
  <1>7. Terminals'
    <2>1. ASSUME NEW q \in PaneId, Live(q), master[term[q]] = shellOf[q] PROVE seen'[q] = read'[shellOf[q]]
      <3>1. seen[q] = read[shellOf[q]] /\ master[term[q]] \in Shells /\ term[q] \in Fd
        BY <2>1 DEF IInv, Terminals, Live, TypeOK
      <3>2. CASE q = p
        BY <1>a, <1>2, <1>3, <2>1, <3>1, <3>2
      <3>3. CASE q # p
        <4>1. term[q] # term[p]
          BY <1>1, <2>1, <3>3 DEF IInv, Terminals
        <4> QED BY <1>2, <1>3, <1>6, <2>1, <3>1, <3>3, <4>1
      <3> QED BY <3>2, <3>3
    <2>2. \A q : (Live(q)' <=> Live(q)) /\ (Ended(q)' <=> Ended(q))
      BY <1>0 DEF Live, Ended
    <2> QED BY <1>0, <2>1, <2>2 DEF IInv, Terminals
  <1>8. Descriptors' /\ Restoring' /\ Releases' /\ StagesInv' /\ Ids' /\ WritesInv'
    BY <1>0 DEF IInv, Descriptors, Live, Restoring, Releases, StagesInv, Ids, WritesInv
  <1>9. Counting'
    BY <1>0 DEF IInv, Counting, Dead
  <1>10. Held'
    <2>1. ASSUME NEW h \in collected PROVE Shown(h)'
      <3>1. Shown(h) /\ h.fd \in Fd /\ h.pane \in PaneId /\ shellOf[h.pane] \in Shells
        BY DEF IInv, Held, TypeOK, HandedOff
      <3>2. CASE Live(h.pane) /\ term[h.pane] = h.fd /\ reading[h.pane] = "taken"
        <4>1. h.fd # term[p]
          BY <1>0, <1>1, <3>1, <3>2 DEF IInv, Terminals
        <4> QED BY <1>0, <1>2, <1>6, <3>1, <4>1 DEF Shown
      <3>3. CASE Ended(h.pane)
        <4>1. shellOf[h.pane] # s
          BY <1>0, <3>3 DEF Ended
        <4> QED BY <1>0, <1>2, <3>1, <4>1 DEF Shown
      <3> QED BY <3>2, <3>3 DEF IInv, Held
    <2> QED BY <1>0, <2>1 DEF IInv, Held, Live, Ended
  <1>11. Handed'
    <2>1. ASSUME NEW h \in taken, HandedOver(h) PROVE HandedOver(h)'
      <3>1. h.fd # term[p] /\ h.fd \in Fd /\ h.pane \in PaneId /\ shellOf[h.pane] \in Shells
        BY <1>1, <2>1 DEF IInv, Terminals, TypeOK, HandedOff, HandedOver
      <3>2. master[h.fd] = shellOf[h.pane] => shellOf[h.pane] # s
        BY <1>6, <3>1
      <3> QED BY <1>0, <1>2, <2>1, <3>1, <3>2 DEF HandedOver, Shown, Ended
    <2>2. stage # "starting"
      BY <1>0 DEF PaneReads, Running
    <2> QED BY <1>0, <2>1, <2>2 DEF IInv, Handed
  <1> QED BY <1>4, <1>5, <1>7, <1>8, <1>9, <1>10, <1>11 DEF IInv

\* A descriptor that closes: nobody who is left uses it.
LEMMA ClosedLess ==
  ASSUME TypeOK, Names, master' \in [Fd -> Shells \cup {Nothing}], shellOf' = shellOf, writes' \subseteq writes,
         \A f \in Fd : master'[f] = master[f] \/ master'[f] = Nothing,
         BecomeShells(shell, read)
  PROVE  Less /\ shell' \in [Shells -> Statuses] /\ read' \in [Shells -> 0 .. MaxRead]
  <1>1. shellOf' \in [PaneId -> Shells \cup {Nothing}] /\ shell \in [Shells -> Statuses]
    BY DEF TypeOK, Statuses
  <1>2. \A q \in PaneId : shellOf'[q] = shellOf[q] \/ shellOf'[q] = Nothing
    OBVIOUS
  <1>3. \A s \in Shells : (shell[s] = "none" <=> shell[s] = "none") /\ (shell[s] = "ended" => shell[s] = "ended")
    OBVIOUS
  <1> QED BY <1>1, <1>2, <1>3, BecomeLess

LEMMA StreamClosesIInv == ASSUME IInv, NEW p \in PaneId, StreamCloses(p) PROVE IInv'
  <1>0. /\ Running /\ p \in (open \cup opening) \ fdClosed /\ term[p] # Nothing
        /\ reading[p] = "on" /\ shell[master[term[p]]] = "ended"
        /\ fdClosed' = fdClosed \cup {p}
        /\ master' = [master EXCEPT ![term[p]] = Nothing]
        /\ UNCHANGED <<control, handoff, files, session, term, adopted, reading, seen, shellOf, input>>
        /\ BecomeShells(shell, read)
    BY DEF StreamCloses
  <1> USE DEF control, handoff, files, session, input
  <1>1. Live(p) /\ term[p] \in Fd /\ master[term[p]] \in Shells
        /\ term[p] \notin postponed /\ \A h \in taken : h.fd # term[p]
    BY <1>0 DEF IInv, Terminals, Live, TypeOK
  <1>2. Ended(p)
    BY <1>0 DEF IInv, Terminals, Ended
  <1>3. /\ master' \in [Fd -> Shells \cup {Nothing}]
        /\ \A f \in Fd : master'[f] = IF f = term[p] THEN Nothing ELSE master[f]
    BY <1>0 DEF IInv, TypeOK
  <1>4. Less /\ shell' \in [Shells -> Statuses] /\ read' \in [Shells -> 0 .. MaxRead]
    <2>1. shellOf' = shellOf /\ writes' \subseteq writes
      BY <1>0
    <2> QED BY <1>0, <1>3, <2>1, ClosedLess DEF IInv
  <1>5. TypeOK'
    BY <1>0, <1>3, <1>4 DEF IInv, TypeOK, Statuses
  <1>6. Names'
    BY <1>4, <1>5, LessNames DEF IInv
  <1>7. \A q \in PaneId : Live(q)' <=> Live(q) /\ q # p
    BY <1>0 DEF Live
  <1>8. \A q \in PaneId : Live(q) /\ q # p =>
          term'[q] = term[q] /\ master'[term[q]] = master[term[q]] /\ term[q] \notin postponed'
    <2>1. \A q \in PaneId : Live(q) /\ q # p => term[q] # term[p] /\ term[q] \in Fd /\ term[q] \notin postponed
      BY <1>1 DEF IInv, Terminals, Live, TypeOK
    <2> QED BY <1>0, <1>3, <2>1
  <1>9. Terminals'
    <2>1. ASSUME NEW q \in PaneId, term'[q] # Nothing
          PROVE  term'[q] = term[q] /\ shellOf'[q] = shellOf[q] /\ seen'[q] = seen[q] /\ q \in open' \cup opening'
      BY <1>0, <2>1 DEF IInv, Terminals
    <2>2. \A q \in fdClosed' : term'[q] # Nothing /\ reading'[q] = "on" /\ (q \in fdClosed \/ Ended(q))
      BY <1>0, <1>2 DEF IInv, Terminals
    <2>3. \A q \in adopted' : term'[q] # Nothing
      BY <1>0 DEF IInv, Terminals
    <2>4. \A q \in PaneId : Live(q)' => Live(q) /\ master'[term[q]] = master[term[q]] /\ term[q] \notin postponed'
      BY <1>7, <1>8
    <2>5. TermsKept
      BY <1>0, <2>1, <2>2, <2>3, <2>4 DEF TermsKept
    <2> QED BY <1>4, <1>5, <2>5, LessTerminals DEF IInv
  <1>10. Descriptors'
    <2>1. \A f \in postponed' : master'[f] # Nothing
      BY <1>0, <1>1, <1>3 DEF IInv, Descriptors, Running, TypeOK
    <2>2. \A h \in taken' : master'[h.fd] # Nothing /\ h.fd \notin postponed'
      BY <1>0, <1>1, <1>3 DEF IInv, Descriptors, TypeOK, HandedOff
    <2>3. ASSUME NEW f \in Fd, master'[f] # Nothing, f \notin postponed', \A h \in taken' : h.fd # f
          PROVE  \E q \in PaneId : Live(q)' /\ term'[q] = f
      <3>1. f # term[p] /\ master[f] # Nothing
        BY <1>3, <2>3
      <3>2. PICK q \in PaneId : Live(q) /\ term[q] = f
        BY <1>0, <2>3, <3>1 DEF IInv, Descriptors, Running
      <3> QED BY <1>7, <1>8, <3>1, <3>2
    <2> QED BY <2>1, <2>2, <2>3 DEF Descriptors
  <1>11. WritesInv'
    <2>1. ASSUME NEW w \in writes PROVE master'[w.fd] = w.shell \/ shell'[w.shell] = "ended"
      <3>1. w.fd \in Fd /\ w.shell \in Shells
        BY DEF IInv, TypeOK
      <3>2. shell[w.shell] = "ended" => shell'[w.shell] = "ended"
        BY <1>0, <1>4, <3>1, LessKeeps
      <3>3. master[w.fd] = w.shell \/ shell[w.shell] = "ended"
        BY <1>0 DEF IInv, WritesInv, Running
      <3> QED BY <1>0, <1>3, <3>1, <3>2, <3>3
    <2> QED BY <1>0, <2>1 DEF IInv, WritesInv
  <1>12. Counting'
    BY <1>0 DEF IInv, Counting, Dead
  <1>13. Held'
    <2>1. \A h \in collected : h.pane \in PaneId
      BY DEF IInv, TypeOK, HandedOff
    <2>2. \A h \in collected : Live(h.pane) /\ reading[h.pane] = "taken" =>
            Live(h.pane)' /\ term'[h.pane] = term[h.pane] /\ reading'[h.pane] = "taken"
      BY <1>0, <1>7, <2>1
    <2>3. \A q \in todo' : Live(q)' => Live(q) /\ term'[q] = term[q]
      BY <1>0, <1>7 DEF IInv, TypeOK
    <2>4. nextPane <= nextPane'
      BY <1>0 DEF IInv, TypeOK
    <2> QED BY <1>0, <1>4, <1>5, <2>2, <2>3, <2>4, HeldKept DEF IInv
  <1>14. Handed'
    <2>1. ASSUME NEW h \in taken, HandedOver(h) PROVE HandedOver(h)'
      <3>1. h.fd # term[p] /\ h.fd \in Fd /\ h.pane \in PaneId /\ shellOf[h.pane] # Nothing
        BY <1>1, <2>1 DEF IInv, TypeOK, HandedOff, HandedOver
      <3>2. master'[h.fd] = master[h.fd] /\ shellOf'[h.pane] = shellOf[h.pane]
        BY <1>0, <1>3, <3>1
      <3>3. read'[shellOf'[h.pane]] = read[shellOf[h.pane]] /\ (Ended(h.pane) => Ended(h.pane)')
        BY <1>4, <1>5, <3>1, <3>2, LessPane
      <3> QED BY <2>1, <3>2, <3>3 DEF HandedOver, Shown
    <2>2. stage # "starting"
      BY <1>0 DEF Running
    <2> QED BY <1>0, <2>1, <2>2 DEF IInv, Handed
  <1>15. StagesInv' /\ Ids'
    BY <1>0 DEF IInv, StagesInv, Ids, Running
  <1>16. Restoring' /\ Releases'
    BY <1>0 DEF IInv, Restoring, Releases
  <1> QED BY <1>5, <1>6, <1>9, <1>10, <1>11, <1>12, <1>13, <1>14, <1>15, <1>16 DEF IInv

LEMMA WriteReturnsIInv ==
  ASSUME IInv, NEW w \in writes, NEW failed \in BOOLEAN, WriteReturns(w, failed)
  PROVE  IInv'
  <1>a. PICK closes : closes = (~failed /\ w.fd \in postponed)
    OBVIOUS
  <1>0. /\ writes' = writes \ {w}
        /\ postponed' = IF closes THEN postponed \ {w.fd} ELSE postponed
        /\ master' = IF closes THEN [master EXCEPT ![w.fd] = Nothing] ELSE master
        /\ UNCHANGED <<control, handoff, files, session, terminals, shellOf>>
        /\ BecomeShells(shell, read)
    BY <1>a DEF WriteReturns
  <1> USE DEF control, handoff, files, session, terminals
  <1>1. writes' = {} /\ w.fd \in Fd
    BY <1>0 DEF IInv, WritesInv, TypeOK
  <1>b. /\ \A f : f \in postponed' => f \in postponed
        /\ \A f \in Fd : master'[f] = master[f] \/ (master'[f] = Nothing /\ f \in postponed /\ f \notin postponed')
        /\ \A f \in postponed : f \in postponed' \/ master'[f] = Nothing
    <2>1. CASE closes
      <3>1. w.fd \in postponed /\ postponed' = postponed \ {w.fd} /\ master' = [master EXCEPT ![w.fd] = Nothing]
        BY <1>a, <1>0, <2>1
      <3> QED BY <1>1, <3>1 DEF IInv, TypeOK
    <2>2. CASE ~closes
      BY <1>0, <2>2
    <2> QED BY <2>1, <2>2
  <1>2. stage \notin {"starting", "loading"}
    BY DEF IInv, StagesInv
  <1>3. master' \in [Fd -> Shells \cup {Nothing}] /\ postponed' \subseteq Fd
    <2>1. [master EXCEPT ![w.fd] = Nothing] \in [Fd -> Shells \cup {Nothing}]
      BY DEF IInv, TypeOK
    <2> QED BY <1>0, <1>b, <2>1 DEF IInv, TypeOK
  <1>4. Less /\ shell' \in [Shells -> Statuses] /\ read' \in [Shells -> 0 .. MaxRead]
    <2>1. shellOf' = shellOf /\ writes' \subseteq writes /\ \A f \in Fd : master'[f] = master[f] \/ master'[f] = Nothing
      BY <1>0, <1>b
    <2> QED BY <1>0, <1>3, <2>1, ClosedLess DEF IInv
  <1>5. TypeOK'
    BY <1>0, <1>1, <1>3, <1>4 DEF IInv, TypeOK, Statuses
  <1>6. Names'
    BY <1>4, <1>5, LessNames DEF IInv
  <1>7. \A q : Live(q)' <=> Live(q)
    BY <1>0 DEF Live
  <1>8. \A q \in PaneId : Live(q) => term'[q] = term[q] /\ master'[term[q]] = master[term[q]] /\ term[q] \notin postponed'
    <2>1. \A q \in PaneId : Live(q) => term[q] \in Fd /\ term[q] \notin postponed
      BY DEF IInv, Terminals, Live, TypeOK
    <2> QED BY <1>0, <1>b, <2>1
  <1>9. Terminals'
    <2>1. TermsKept
      <3>1. \A q \in PaneId : term'[q] # Nothing =>
              /\ term'[q] = term[q] /\ shellOf'[q] = shellOf[q] /\ seen'[q] = seen[q] /\ q \in open' \cup opening'
        BY <1>0 DEF IInv, Terminals
      <3>2. \A q \in fdClosed' : term'[q] # Nothing /\ reading'[q] = "on" /\ (q \in fdClosed \/ Ended(q))
        BY <1>0 DEF IInv, Terminals
      <3>3. \A q \in adopted' : term'[q] # Nothing
        BY <1>0 DEF IInv, Terminals
      <3> QED BY <1>0, <1>7, <1>8, <3>1, <3>2, <3>3 DEF TermsKept
    <2> QED BY <1>4, <1>5, <2>1, LessTerminals DEF IInv
  <1>10. Descriptors'
    <2>1. stage # "down" => \A f \in postponed' : master'[f] # Nothing
      BY <1>b, <1>3 DEF IInv, Descriptors
    <2>2. \A h \in taken' : master'[h.fd] # Nothing /\ h.fd \notin postponed'
      BY <1>0, <1>b DEF IInv, Descriptors, TypeOK, HandedOff
    <2>3. ASSUME NEW f \in Fd, master'[f] # Nothing, f \notin postponed', \A h \in taken' : h.fd # f
          PROVE  \E q \in PaneId : Live(q)' /\ term'[q] = f
      <3>1. master[f] # Nothing /\ f \notin postponed
        BY <1>b, <2>3
      <3>2. PICK q \in PaneId : Live(q) /\ term[q] = f
        BY <1>0, <1>2, <2>3, <3>1 DEF IInv, Descriptors
      <3> QED BY <1>7, <1>8, <3>2
    <2> QED BY <1>0, <2>1, <2>2, <2>3 DEF Descriptors
  <1>11. WritesInv'
    BY <1>1 DEF WritesInv
  <1>12. Counting'
    <2>1. IsFiniteSet(postponed) /\ IsFiniteSet(Dead) /\ Cardinality(Dead) \in Nat
      BY Fds, PaneIds, SubsetBound DEF IInv, TypeOK, Dead
    <2>2. postponed' \subseteq postponed
      BY <1>b
    <2>3. Cardinality(postponed') <= Cardinality(postponed) /\ Cardinality(postponed') \in Nat /\ Cardinality(postponed) \in Nat
      BY <2>1, <2>2, SubsetBound
    <2>4. Dead' = Dead
      BY <1>0 DEF Dead
    <2> QED BY <2>1, <2>3, <2>4 DEF IInv, Counting
  <1>13. Held'
    <2>2. \A h \in collected : Live(h.pane) /\ reading[h.pane] = "taken" =>
            Live(h.pane)' /\ term'[h.pane] = term[h.pane] /\ reading'[h.pane] = "taken"
      BY <1>0, <1>7
    <2>3. \A q \in todo' : Live(q)' => Live(q) /\ term'[q] = term[q]
      BY <1>0, <1>7
    <2>4. nextPane <= nextPane'
      BY <1>0 DEF IInv, TypeOK
    <2> QED BY <1>0, <1>4, <1>5, <2>2, <2>3, <2>4, HeldKept DEF IInv
  <1>14. Handed'
    <2>1. ASSUME NEW h \in taken, HandedOver(h) PROVE HandedOver(h)'
      <3>1. h.fd \notin postponed /\ h.fd \in Fd /\ h.pane \in PaneId /\ shellOf[h.pane] # Nothing
        BY <2>1 DEF IInv, TypeOK, HandedOff, HandedOver, Descriptors
      <3>2. master'[h.fd] = master[h.fd] /\ shellOf'[h.pane] = shellOf[h.pane]
        BY <1>0, <1>b, <3>1
      <3>3. read'[shellOf'[h.pane]] = read[shellOf[h.pane]] /\ (Ended(h.pane) => Ended(h.pane)')
        BY <1>4, <1>5, <3>1, <3>2, LessPane
      <3> QED BY <2>1, <3>2, <3>3 DEF HandedOver, Shown
    <2> QED BY <1>0, <1>2, <2>1 DEF IInv, Handed
  <1>15. StagesInv'
    <2>1. stage = "down" => \A f \in Fd : master'[f] = Nothing
      BY <1>b DEF IInv, StagesInv
    <2> QED BY <1>0, <1>1, <1>2, <2>1 DEF IInv, StagesInv
  <1>16. Ids' /\ Restoring' /\ Releases'
    BY <1>0 DEF IInv, Ids, Restoring, Releases
  <1> QED BY <1>5, <1>6, <1>9, <1>10, <1>11, <1>12, <1>13, <1>14, <1>15, <1>16 DEF IInv

-----------------------------------------------------------------------------
(* Shells that start.                                                      *)

\* A new shell behind a free descriptor; with the others nothing happens.
LEMMA StartFacts ==
  ASSUME TypeOK, Names, WritesInv, Free \in Fd, master[Free] = Nothing, NEW p \in PaneId, Start(p)
  PROVE  \E f \in Fd, s \in Shells :
           /\ master[f] = Nothing /\ ~Known(s)
           /\ term' \in [PaneId -> Fd \cup {Nothing}] /\ \A q \in PaneId : term'[q] = IF q = p THEN f ELSE term[q]
           /\ master' \in [Fd -> Shells \cup {Nothing}] /\ \A g \in Fd : master'[g] = IF g = f THEN s ELSE master[g]
           /\ shellOf' \in [PaneId -> Shells \cup {Nothing}]
           /\ \A q \in PaneId : shellOf'[q] = IF q = p THEN s ELSE shellOf[q]
           /\ seen' \in [PaneId -> 0 .. MaxRead] /\ \A q \in PaneId : seen'[q] = IF q = p THEN 0 ELSE seen[q]
           /\ shell' \in [Shells -> Statuses] /\ read' \in [Shells -> 0 .. MaxRead]
           /\ \A t \in Shells : (Known(t)' <=> shell'[t] # "none") /\ (shell'[t] = "none" => read'[t] = 0)
           /\ read'[s] = 0
           /\ \A t \in Shells : Known(t)' /\ t # s => shell'[t] = shell[t] /\ read'[t] = read[t]
           /\ adopted' = adopted /\ fdClosed' = fdClosed /\ reading' = reading
           /\ writes' = writes /\ postponed' = postponed
  <1>1. NewShell \in Shells /\ shell[NewShell] = "none" /\ ~Known(NewShell)
    BY NewShellExists
  <1>a. PICK f : f = Free
    OBVIOUS
  <1>b. PICK s : s = NewShell
    OBVIOUS
  <1>2. f \in Fd /\ s \in Shells /\ master[f] = Nothing /\ ~Known(s) /\ read[s] = 0
    BY <1>1, <1>a, <1>b DEF Names
  <1>3. /\ term' = [term EXCEPT ![p] = f]
        /\ master' = [master EXCEPT ![f] = s]
        /\ shellOf' = [shellOf EXCEPT ![p] = s]
        /\ seen' = [seen EXCEPT ![p] = 0]
        /\ adopted' = adopted /\ fdClosed' = fdClosed /\ reading' = reading
        /\ writes' = writes /\ postponed' = postponed
        /\ BecomeShells([shell EXCEPT ![s] = "running"], read)
    BY <1>a, <1>b DEF Start
  <1>4. /\ term' \in [PaneId -> Fd \cup {Nothing}] /\ \A q \in PaneId : term'[q] = IF q = p THEN f ELSE term[q]
        /\ master' \in [Fd -> Shells \cup {Nothing}] /\ \A g \in Fd : master'[g] = IF g = f THEN s ELSE master[g]
    BY <1>2, <1>3 DEF TypeOK
  <1>5. /\ shellOf' \in [PaneId -> Shells \cup {Nothing}]
        /\ \A q \in PaneId : shellOf'[q] = IF q = p THEN s ELSE shellOf[q]
        /\ seen' \in [PaneId -> 0 .. MaxRead] /\ \A q \in PaneId : seen'[q] = IF q = p THEN 0 ELSE seen[q]
    BY <1>2, <1>3, BoundsAssumption DEF TypeOK
  <1>c. PICK st : st = [shell EXCEPT ![s] = "running"]
    OBVIOUS
  <1>d. BecomeShells(st, read)
    BY <1>3, <1>c
  <1>6. /\ shell' = [t \in Shells |-> IF Known(t)' THEN st[t] ELSE "none"]
        /\ read' = [t \in Shells |-> IF Known(t)' THEN read[t] ELSE 0]
    BY <1>4, <1>5, <1>d, BecomeKnown
  <1>7. shell \in [Shells -> Statuses] /\ read \in [Shells -> 0 .. MaxRead]
    BY DEF TypeOK, Statuses
  <1>8. \A t \in Shells : st[t] = IF t = s THEN "running" ELSE shell[t]
    BY <1>7, <1>c
  <1>9. shell' \in [Shells -> Statuses]
    BY <1>6, <1>7, <1>8 DEF Statuses
  <1>10. read' \in [Shells -> 0 .. MaxRead] /\ read'[s] = 0
    BY <1>2, <1>6, <1>7, BoundsAssumption
  <1>11. ASSUME NEW t \in Shells, Known(t)', t # s PROVE Known(t)
    <2>1. CASE \E g \in Fd : master'[g] = t
      BY <1>4, <1>11, <2>1 DEF Known
    <2>2. CASE \E q \in PaneId : shellOf'[q] = t
      BY <1>5, <1>11, <2>2 DEF Known
    <2>3. CASE \E w \in writes' : w.shell = t
      BY <1>3, <2>3 DEF Known
    <2> QED BY <1>11, <2>1, <2>2, <2>3 DEF Known
  <1>12. \A t \in Shells : Known(t)' /\ t # s => shell'[t] = shell[t] /\ read'[t] = read[t]
    BY <1>6, <1>8
  <1>13. ASSUME NEW t \in Shells PROVE (Known(t)' <=> shell'[t] # "none") /\ (shell'[t] = "none" => read'[t] = 0)
    <2>1. Known(t)' /\ t # s => shell[t] # "none"
      BY <1>11 DEF Names
    <2> QED BY <1>6, <1>8, <2>1
  <1> QED BY <1>2, <1>3, <1>4, <1>5, <1>9, <1>10, <1>12, <1>13

LEMMA StartKeeps ==
  ASSUME IInv, NEW p \in PaneId, term[p] = Nothing, p \notin Dead, Start(p),
         stage' = stage, stage \notin {"starting", "loading", "down"},
         UNCHANGED <<taken, collected, manifest, todo, late, held>>, nextPane' \in Nat, nextPane <= nextPane',
         open \cup opening \cup {p} \subseteq open' \cup opening',
         todo' \ {current'} \subseteq todo \ {current, p}, stage = "holding" => current' = current,
         p \notin todo \/ collected = {},
         p \notin late \cup held, \A h \in collected : h.pane # p, stage = "holding" => current # p
  PROVE  /\ Names' /\ Terminals' /\ Descriptors' /\ WritesInv' /\ Counting' /\ Held' /\ Handed' /\ Releases'
         /\ term' \in [PaneId -> Fd \cup {Nothing}] /\ seen' \in [PaneId -> 0 .. MaxRead]
         /\ master' \in [Fd -> Shells \cup {Nothing}] /\ shell' \in [Shells -> Statuses]
         /\ shellOf' \in [PaneId -> Shells \cup {Nothing}] /\ read' \in [Shells -> 0 .. MaxRead]
         /\ term'[p] # Nothing /\ \A q \in PaneId : q # p => term'[q] = term[q]
         /\ UNCHANGED <<adopted, fdClosed, reading, writes, postponed>>
  <1>0. TypeOK /\ Names /\ WritesInv /\ Descriptors /\ Counting /\ Apart(taken)
    BY DEF IInv, Handed
  <1>a. Free \in Fd /\ master[Free] = Nothing
    BY <1>0, FreeExists
  <1>1. PICK f \in Fd, s \in Shells :
          /\ master[f] = Nothing /\ ~Known(s)
          /\ term' \in [PaneId -> Fd \cup {Nothing}] /\ \A q \in PaneId : term'[q] = IF q = p THEN f ELSE term[q]
          /\ master' \in [Fd -> Shells \cup {Nothing}] /\ \A g \in Fd : master'[g] = IF g = f THEN s ELSE master[g]
          /\ shellOf' \in [PaneId -> Shells \cup {Nothing}]
          /\ \A q \in PaneId : shellOf'[q] = IF q = p THEN s ELSE shellOf[q]
          /\ seen' \in [PaneId -> 0 .. MaxRead] /\ \A q \in PaneId : seen'[q] = IF q = p THEN 0 ELSE seen[q]
          /\ shell' \in [Shells -> Statuses] /\ read' \in [Shells -> 0 .. MaxRead]
          /\ \A t \in Shells : (Known(t)' <=> shell'[t] # "none") /\ (shell'[t] = "none" => read'[t] = 0)
          /\ read'[s] = 0
          /\ \A t \in Shells : Known(t)' /\ t # s => shell'[t] = shell[t] /\ read'[t] = read[t]
          /\ adopted' = adopted /\ fdClosed' = fdClosed /\ reading' = reading
          /\ writes' = writes /\ postponed' = postponed
    BY <1>0, <1>a, StartFacts
  <1>b. \A t \in Shells : t # Nothing
    BY DEF Shells, Nothing
  <1>c. f # Nothing
    BY DEF Fd, Nothing
  <1>2. /\ \A g \in Fd : master[g] # s
        /\ \A q \in PaneId : shellOf[q] # s
        /\ \A w \in writes : w.shell # s
    BY <1>1 DEF Known
  <1>3. f \notin postponed /\ (\A h \in taken : h.fd # f) /\ \A q \in PaneId : Live(q) => term[q] # f /\ term[q] \in Fd
    BY <1>1 DEF IInv, Descriptors, Terminals, Live, TypeOK
  <1>4. p \notin adopted /\ p \notin fdClosed
    BY DEF IInv, Terminals
  <1>5. /\ Live(p)'
        /\ \A q \in PaneId : q # p => (Live(q)' <=> Live(q)) /\ (term'[q] # Nothing <=> term[q] # Nothing)
    BY <1>1, <1>4, <1>c DEF Live
  <1>6. ASSUME NEW q \in PaneId, q # p, shellOf[q] # Nothing
        PROVE  /\ shellOf'[q] = shellOf[q] /\ shellOf[q] \in Shells
               /\ read'[shellOf'[q]] = read[shellOf[q]] /\ (Ended(q) <=> Ended(q)')
    <2>1. shellOf'[q] = shellOf[q] /\ shellOf[q] # s /\ shellOf[q] \in Shells
      BY <1>1, <1>2, <1>6 DEF IInv, TypeOK
    <2>2. Known(shellOf[q])'
      BY <2>1 DEF Known
    <2> QED BY <1>1, <2>1, <2>2 DEF Ended
  <1>7. Names'
    <2>1. \A g, k \in Fd : master'[g] # Nothing /\ master'[g] = master'[k] => g = k
      BY <1>1, <1>2 DEF IInv, Names
    <2>2. \A q, r \in PaneId : shellOf'[q] # Nothing /\ shellOf'[q] = shellOf'[r] => q = r
      BY <1>1, <1>2 DEF IInv, Names
    <2> QED BY <1>1, <2>1, <2>2 DEF Names
  <1>8. Terminals'
    <2>1. ASSUME NEW q \in PaneId, term'[q] # Nothing
          PROVE  /\ q \in open' \cup opening' /\ shellOf'[q] # Nothing
                 /\ master'[term'[q]] = shellOf'[q] \/ Ended(q)'
      <3>1. CASE q = p
        BY <1>1, <1>b, <3>1
      <3>2. CASE q # p
        <4>1. /\ term'[q] = term[q] /\ q \in open \cup opening /\ shellOf[q] # Nothing
              /\ master[term[q]] = shellOf[q] \/ Ended(q)
          BY <1>1, <2>1, <3>2 DEF IInv, Terminals
        <4>2. term[q] \in Fd
          BY <2>1, <4>1 DEF IInv, TypeOK
        <4>3. master[term[q]] = shellOf[q] => master'[term'[q]] = shellOf'[q]
          BY <1>1, <3>2, <4>1, <4>2
        <4> QED BY <1>6, <3>2, <4>1, <4>3
      <3> QED BY <3>1, <3>2
    <2>2. ASSUME NEW q \in fdClosed' PROVE term'[q] # Nothing /\ reading'[q] = "on" /\ Ended(q)'
      <3>1. q \in fdClosed /\ q \in PaneId /\ q # p
        BY <1>1, <1>4 DEF IInv, TypeOK
      <3>2. term[q] # Nothing /\ reading[q] = "on" /\ Ended(q) /\ shellOf[q] # Nothing
        BY <3>1 DEF IInv, Terminals
      <3> QED BY <1>1, <1>5, <1>6, <3>1, <3>2
    <2>3. \A q \in adopted' : term'[q] # Nothing
      BY <1>1, <1>4, <1>5 DEF IInv, Terminals, TypeOK
    <2>4. ASSUME NEW q \in PaneId, Live(q)'
          PROVE  /\ master'[term'[q]] # Nothing
                 /\ term'[q] \notin postponed'
                 /\ \A h \in taken' : h.fd # term'[q]
                 /\ master'[term'[q]] = shellOf'[q] => seen'[q] = read'[shellOf'[q]]
      <3>1. CASE q = p
        BY <1>1, <1>3, <1>b, <3>1
      <3>2. CASE q # p
        <4>1. /\ Live(q) /\ term'[q] = term[q] /\ term[q] # f /\ term[q] \in Fd /\ shellOf[q] # Nothing
              /\ master[term[q]] # Nothing /\ term[q] \notin postponed /\ \A h \in taken : h.fd # term[q]
              /\ master[term[q]] = shellOf[q] => seen[q] = read[shellOf[q]]
          BY <1>1, <1>3, <1>5, <2>4, <3>2 DEF IInv, Terminals, Live
        <4>2. master'[term[q]] = master[term[q]] /\ seen'[q] = seen[q]
          BY <1>1, <3>2, <4>1
        <4>3. shellOf'[q] = shellOf[q] /\ read'[shellOf'[q]] = read[shellOf[q]]
          BY <1>6, <3>2, <4>1
        <4> QED BY <1>1, <4>1, <4>2, <4>3
      <3> QED BY <3>1, <3>2
    <2>5. \A q, r \in PaneId : Live(q)' /\ Live(r)' /\ term'[q] = term'[r] => q = r
      BY <1>1, <1>3, <1>5 DEF IInv, Terminals
    <2> QED BY <2>1, <2>2, <2>3, <2>4, <2>5 DEF Terminals
  <1>9. Descriptors'
    <2>1. \A g \in postponed' : master'[g] # Nothing
      BY <1>1, <1>3 DEF IInv, Descriptors, TypeOK
    <2>2. \A h \in taken' : master'[h.fd] # Nothing /\ h.fd \notin postponed'
      BY <1>1, <1>3 DEF IInv, Descriptors, TypeOK, HandedOff
    <2>3. ASSUME NEW g \in Fd, master'[g] # Nothing, g \notin postponed', \A h \in taken' : h.fd # g
          PROVE  \E q \in PaneId : Live(q)' /\ term'[q] = g
      <3>1. CASE g = f
        BY <1>1, <1>5, <3>1
      <3>2. CASE g # f
        <4>1. PICK q \in PaneId : Live(q) /\ term[q] = g
          BY <1>1, <2>3, <3>2 DEF IInv, Descriptors
        <4>2. q # p
          BY <4>1 DEF Live
        <4> QED BY <1>1, <1>5, <4>1, <4>2
      <3> QED BY <3>1, <3>2
    <2> QED BY <2>1, <2>2, <2>3 DEF Descriptors
  <1>10. WritesInv'
    <2>1. ASSUME NEW w \in writes PROVE master'[w.fd] = w.shell \/ shell'[w.shell] = "ended"
      <3>1. w.fd \in Fd /\ w.shell \in Shells /\ w.shell # s
        BY <1>2 DEF IInv, TypeOK
      <3>2. Known(w.shell)'
        BY <1>1 DEF Known
      <3>3. master[w.fd] = w.shell \/ shell[w.shell] = "ended"
        BY DEF IInv, WritesInv
      <3> QED BY <1>1, <1>b, <3>1, <3>2, <3>3
    <2> QED BY <1>1, <2>1 DEF IInv, WritesInv
  <1>11. Counting'
    <2>1. Dead \subseteq Dead'
      <3>1. ASSUME NEW q \in Dead PROVE q \in Dead'
        <4>1. q \in PaneId /\ q # p /\ q < nextPane /\ term[q] = Nothing /\ ~(stage = "restoring" /\ q \in todo)
          BY DEF Dead
        <4>2. q < nextPane'
          BY <4>1 DEF PaneId, IInv, TypeOK
        <4> QED BY <1>1, <4>1, <4>2 DEF Dead
      <3> QED BY <3>1
    <2>2. IsFiniteSet(Dead')
      BY PaneIds, SubsetBound DEF Dead
    <2>3. Cardinality(Dead) \in Nat /\ Cardinality(Dead') \in Nat /\ Cardinality(Dead) <= Cardinality(Dead')
      BY <2>1, <2>2, SubsetBound
    <2>4. Cardinality(postponed) \in Nat
      BY Fds, SubsetBound DEF IInv, TypeOK
    <2> QED BY <1>1, <2>3, <2>4 DEF IInv, Counting
  <1>12. Held'
    <2>1. ASSUME NEW h \in collected
          PROVE  /\ h.pane < nextPane' /\ h.pane \notin todo' /\ shellOf'[h.pane] # Nothing
                 /\ \/ Live(h.pane)' /\ term'[h.pane] = h.fd /\ reading'[h.pane] = "taken"
                    \/ term'[h.pane] = Nothing /\ Ended(h.pane)'
                 /\ Shown(h)'
                 /\ \A q \in todo' : Live(q)' => term'[q] # h.fd
      <3>1. h.pane \in PaneId /\ h.fd \in Fd /\ h.pane # p
        BY DEF IInv, TypeOK, HandedOff
      <3>2. /\ h.pane < nextPane /\ h.pane \notin todo /\ shellOf[h.pane] # Nothing
            /\ \/ Live(h.pane) /\ term[h.pane] = h.fd /\ reading[h.pane] = "taken"
               \/ term[h.pane] = Nothing /\ Ended(h.pane)
            /\ Shown(h)
            /\ \A q \in todo : Live(q) => term[q] # h.fd
        BY DEF IInv, Held
      <3>3. /\ shellOf'[h.pane] = shellOf[h.pane] /\ shellOf[h.pane] \in Shells
            /\ read'[shellOf'[h.pane]] = read[shellOf[h.pane]] /\ (Ended(h.pane) <=> Ended(h.pane)')
        BY <1>6, <3>1, <3>2
      <3>4. h.pane < nextPane'
        BY <3>1, <3>2 DEF PaneId, IInv, TypeOK
      <3>5. \/ Live(h.pane)' /\ term'[h.pane] = h.fd /\ reading'[h.pane] = "taken"
            \/ term'[h.pane] = Nothing /\ Ended(h.pane)'
        BY <1>1, <1>5, <3>1, <3>2, <3>3
      <3>6. Shown(h)'
        <4>1. shellOf[h.pane] # s
          BY <1>2, <3>1
        <4>2. master'[h.fd] = shellOf[h.pane] => master[h.fd] = shellOf[h.pane]
          BY <1>1, <3>1, <4>1
        <4> QED BY <3>2, <3>3, <4>2 DEF Shown
      <3>7. \A q \in todo' : Live(q)' => term'[q] # h.fd
        <4>1. p \notin todo
          OBVIOUS
        <4>2. todo \subseteq PaneId
          BY DEF IInv, TypeOK
        <4> QED BY <1>1, <1>5, <3>2, <4>1, <4>2
      <3> QED BY <3>2, <3>3, <3>4, <3>5, <3>6, <3>7
    <2> QED BY <2>1 DEF IInv, Held
  <1>13. Handed'
    <2>1. ASSUME stage = "restoring", NEW h \in taken, h.pane \in todo' \ {current'}
          PROVE  HandedOver(h)'
      <3>1. h.pane \in todo \ {current} /\ h.pane # p /\ h.pane \in PaneId /\ h.fd \in Fd /\ h.fd # f
        BY <1>3, <2>1 DEF IInv, TypeOK, HandedOff
      <3>2. HandedOver(h)
        BY <2>1, <3>1 DEF IInv, Handed
      <3>3. shellOf'[h.pane] = shellOf[h.pane] /\ read'[shellOf'[h.pane]] = read[shellOf[h.pane]]
            /\ (Ended(h.pane) <=> Ended(h.pane)') /\ master'[h.fd] = master[h.fd]
        BY <1>1, <1>6, <3>1, <3>2 DEF HandedOver
      <3> QED BY <3>2, <3>3 DEF HandedOver, Shown
    <2>2. Apart(taken')
      BY DEF IInv, Handed
    <2> QED BY <2>1, <2>2 DEF Handed
  <1>14. Releases'
    <2>1. late \subseteq PaneId /\ held \subseteq PaneId /\ current \in PaneId \cup {Nothing}
      BY DEF IInv, TypeOK
    <2> QED BY <1>1, <2>1 DEF IInv, Releases
  <1>15. term'[p] # Nothing /\ \A q \in PaneId : q # p => term'[q] = term[q]
    BY <1>1, <1>c
  <1> QED BY <1>1, <1>7, <1>8, <1>9, <1>10, <1>11, <1>12, <1>13, <1>14, <1>15

LEMMA PlaceKnownIInv == ASSUME IInv, PlaceKnown PROVE IInv'
  <1>a. PICK p : p = nextPane
    OBVIOUS
  <1>0. /\ Running /\ asked > 0 /\ p <= MaxPane
        /\ asked' = asked - 1
        /\ opening' = opening \cup {p}
        /\ nextPane' = nextPane + 1
        /\ Start(p)
        /\ UNCHANGED <<control, handoff, files, open>>
    BY <1>a DEF PlaceKnown
  <1> USE DEF control, handoff, files
  <1>1. p \in PaneId /\ nextPane \in Nat
    BY <1>a, <1>0, PaneIds DEF IInv, Ids, PaneId, TypeOK
  <1>2. p \notin open \cup opening \cup todo \cup held \cup late /\ p \notin Dead
    BY <1>a, <1>1 DEF IInv, Ids, Dead
  <1>3. term[p] = Nothing
    BY <1>1, <1>2 DEF IInv, Terminals
  <1>4. \A h \in collected : h.pane # p
    BY <1>a, <1>1 DEF IInv, Held
  <1>5. stage = "holding" => current # p
    BY <1>1, <1>2 DEF IInv, StagesInv, PaneId, Nothing
  <1>6. todo' \ {current'} \subseteq todo \ {current, p}
    BY <1>0, <1>2
  <1>7. nextPane' \in Nat /\ nextPane <= nextPane'
    BY <1>0, <1>1
  <1>8. stage \notin {"starting", "loading", "down"}
    BY <1>0 DEF Running
  <1>9. /\ Names' /\ Terminals' /\ Descriptors' /\ WritesInv' /\ Counting' /\ Held' /\ Handed' /\ Releases'
        /\ term' \in [PaneId -> Fd \cup {Nothing}] /\ seen' \in [PaneId -> 0 .. MaxRead]
        /\ master' \in [Fd -> Shells \cup {Nothing}] /\ shell' \in [Shells -> Statuses]
        /\ shellOf' \in [PaneId -> Shells \cup {Nothing}] /\ read' \in [Shells -> 0 .. MaxRead]
        /\ term'[p] # Nothing /\ \A q \in PaneId : q # p => term'[q] = term[q]
        /\ UNCHANGED <<adopted, fdClosed, reading, writes, postponed>>
    BY <1>0, <1>1, <1>2, <1>3, <1>4, <1>5, <1>6, <1>7, <1>8, StartKeeps
  <1>10. TypeOK'
    BY <1>0, <1>1, <1>7, <1>9 DEF IInv, TypeOK, Statuses
  <1>11. StagesInv'
    BY <1>0, <1>8, <1>9 DEF IInv, StagesInv
  <1>12. Ids'
    <2>1. nextPane' \in 1 .. MaxPane + 1
      BY <1>a, <1>0, <1>1, PaneIds DEF PaneId
    <2>2. ASSUME NEW q \in open' \cup opening' \cup todo' \cup held' \cup late' PROVE q < nextPane'
      <3>1. q = p \/ (q \in open \cup opening \cup todo \cup held \cup late)
        BY <1>0, <2>2
      <3>2. open \cup opening \cup todo \cup held \cup late \subseteq PaneId
        BY DEF IInv, TypeOK
      <3>3. q \in Nat /\ q <= nextPane
        BY <1>a, <1>1, <3>1, <3>2 DEF IInv, Ids, PaneId
      <3> QED BY <1>0, <1>1, <3>3
    <2> QED BY <1>0, <1>2, <2>1, <2>2 DEF IInv, Ids
  <1>13. Restoring'
    BY <1>0, <1>2, <1>9 DEF IInv, Restoring, TypeOK
  <1> QED BY <1>9, <1>10, <1>11, <1>12, <1>13 DEF IInv

LEMMA RestoreShellIInv == ASSUME IInv, NEW p \in PaneId, RestoreShell(p) PROVE IInv'
  <1>0. /\ stage = "restoring" /\ current = Nothing /\ p \in todo
        /\ current' = p
        /\ Start(p)
        /\ UNCHANGED <<control, todo, held, late, collected, files, session>>
    BY DEF RestoreShell
  <1> USE DEF control, files, session
  <1>1. p # Nothing /\ term[p] = Nothing /\ p \notin Dead /\ p \in open
    BY <1>0 DEF IInv, Restoring, Dead, PaneId, Nothing
  <1>2. collected = {} /\ held = {} /\ late = {}
    BY <1>0 DEF IInv, StagesInv, Holding
  <1>3. todo' \ {current'} \subseteq todo \ {current, p}
    BY <1>0 DEF IInv, TypeOK, PaneId, Nothing
  <1>4. nextPane' \in Nat /\ nextPane <= nextPane'
    BY <1>0 DEF IInv, TypeOK
  <1>9. /\ Names' /\ Terminals' /\ Descriptors' /\ WritesInv' /\ Counting' /\ Held' /\ Handed' /\ Releases'
        /\ term' \in [PaneId -> Fd \cup {Nothing}] /\ seen' \in [PaneId -> 0 .. MaxRead]
        /\ master' \in [Fd -> Shells \cup {Nothing}] /\ shell' \in [Shells -> Statuses]
        /\ shellOf' \in [PaneId -> Shells \cup {Nothing}] /\ read' \in [Shells -> 0 .. MaxRead]
        /\ term'[p] # Nothing /\ \A q \in PaneId : q # p => term'[q] = term[q]
        /\ UNCHANGED <<adopted, fdClosed, reading, writes, postponed>>
    BY <1>0, <1>1, <1>2, <1>3, <1>4, StartKeeps
  <1>10. TypeOK'
    BY <1>0, <1>9 DEF IInv, TypeOK, Statuses
  <1>11. StagesInv'
    BY <1>0, <1>9 DEF IInv, StagesInv
  <1>12. Ids'
    BY <1>0 DEF IInv, Ids
  <1>13. Restoring'
    <2>1. \A q \in todo : q \in PaneId /\ q # Nothing
      BY DEF IInv, TypeOK, PaneId, Nothing
    <2>2. todo \subseteq open /\ \A q \in todo : term[q] = Nothing
      BY <1>0, <2>1 DEF IInv, Restoring
    <2> QED BY <1>0, <1>9, <2>1, <2>2 DEF Restoring
  <1> QED BY <1>9, <1>10, <1>11, <1>12, <1>13 DEF IInv

-----------------------------------------------------------------------------
(* The new version, and the ends of a server.                              *)

LEMMA AdoptIInv == ASSUME IInv, NEW h \in taken, Adopt(h) PROVE IInv'
  <1>a. PICK p : p = h.pane
    OBVIOUS
  <1>0. /\ stage = "restoring" /\ current = Nothing /\ p \in todo
        /\ todo' = todo \ {p}
        /\ taken' = taken \ {h}
        /\ term' = [term EXCEPT ![p] = h.fd]
        /\ adopted' = adopted \cup {p}
        /\ seen' = [seen EXCEPT ![p] = h.screen]
        /\ UNCHANGED <<control, current, held, late, collected, manifest, saved, session, fdClosed, reading, system, input>>
    BY <1>a DEF Adopt
  <1> USE DEF control, session, system, input
  <1>1. p \in PaneId /\ h.fd \in Fd /\ h.screen \in 0 .. MaxRead /\ p # Nothing /\ h.fd # Nothing
    BY <1>a DEF IInv, TypeOK, HandedOff, PaneId, Fd, Nothing
  <1>2. p \in open /\ term[p] = Nothing
    BY <1>0, <1>1 DEF IInv, Restoring
  <1>3. p \notin adopted /\ p \notin fdClosed
    BY <1>2 DEF IInv, Terminals
  <1>4. collected = {} /\ held = {} /\ late = {}
    BY <1>0 DEF IInv, StagesInv, Holding
  <1>5. HandedOver(h)
    BY <1>a, <1>0, <1>1 DEF IInv, Handed
  <1>6. /\ term' \in [PaneId -> Fd \cup {Nothing}] /\ seen' \in [PaneId -> 0 .. MaxRead]
        /\ \A q \in PaneId : term'[q] = (IF q = p THEN h.fd ELSE term[q]) /\ seen'[q] = IF q = p THEN h.screen ELSE seen[q]
    BY <1>0, <1>1 DEF IInv, TypeOK
  <1>7. TypeOK'
    BY <1>0, <1>1, <1>6 DEF IInv, TypeOK
  <1>8. /\ Live(p)'
        /\ \A q \in PaneId : q # p => (Live(q)' <=> Live(q))
        /\ \A q : Ended(q)' <=> Ended(q)
    BY <1>0, <1>1, <1>3, <1>6 DEF Live, Ended
  <1>9. /\ master[h.fd] # Nothing /\ h.fd \notin postponed
        /\ (\A i \in taken' : i.fd # h.fd) /\ \A q \in PaneId : Live(q) => term[q] # h.fd
    <2>1. master[h.fd] # Nothing /\ h.fd \notin postponed
      BY DEF IInv, Descriptors
    <2>2. \A i \in taken' : i.fd # h.fd
      BY <1>0 DEF IInv, Handed, Apart
    <2>3. \A q \in PaneId : Live(q) => term[q] # h.fd
      BY DEF IInv, Terminals
    <2> QED BY <2>1, <2>2, <2>3
  <1>10. Terminals'
    <2>1. ASSUME NEW q \in PaneId, term'[q] # Nothing
          PROVE  /\ q \in open' \cup opening' /\ shellOf'[q] # Nothing
                 /\ master'[term'[q]] = shellOf'[q] \/ Ended(q)'
      <3>1. CASE q = p
        BY <1>a, <1>0, <1>2, <1>5, <1>6, <1>8, <3>1 DEF HandedOver
      <3>2. CASE q # p
        BY <1>0, <1>6, <1>8, <2>1, <3>2 DEF IInv, Terminals
      <3> QED BY <3>1, <3>2
    <2>2. ASSUME NEW q \in fdClosed' PROVE term'[q] # Nothing /\ reading'[q] = "on" /\ Ended(q)'
      BY <1>0, <1>3, <1>6, <1>8 DEF IInv, Terminals, TypeOK
    <2>3. \A q \in adopted' : term'[q] # Nothing
      BY <1>0, <1>1, <1>6 DEF IInv, Terminals, TypeOK
    <2>4. ASSUME NEW q \in PaneId, Live(q)'
          PROVE  /\ master'[term'[q]] # Nothing
                 /\ term'[q] \notin postponed'
                 /\ \A i \in taken' : i.fd # term'[q]
                 /\ master'[term'[q]] = shellOf'[q] => seen'[q] = read'[shellOf'[q]]
      <3>1. CASE q = p
        BY <1>a, <1>0, <1>5, <1>6, <1>9, <3>1 DEF HandedOver, Shown
      <3>2. CASE q # p
        BY <1>0, <1>6, <1>8, <2>4, <3>2 DEF IInv, Terminals
      <3> QED BY <3>1, <3>2
    <2>5. \A q, r \in PaneId : Live(q)' /\ Live(r)' /\ term'[q] = term'[r] => q = r
      BY <1>6, <1>8, <1>9 DEF IInv, Terminals
    <2> QED BY <2>1, <2>2, <2>3, <2>4, <2>5 DEF Terminals
  <1>11. Names' /\ Ids' /\ Releases'
    BY <1>0, <1>4 DEF IInv, Names, Known, Ids, Releases
  <1>12. Descriptors'
    <2>1. \A f \in postponed' : master'[f] # Nothing
      BY <1>0 DEF IInv, Descriptors
    <2>2. \A i \in taken' : master'[i.fd] # Nothing /\ i.fd \notin postponed'
      BY <1>0 DEF IInv, Descriptors
    <2>3. ASSUME NEW f \in Fd, master'[f] # Nothing, f \notin postponed', \A i \in taken' : i.fd # f
          PROVE  \E q \in PaneId : Live(q)' /\ term'[q] = f
      <3>1. CASE f = h.fd
        BY <1>1, <1>6, <1>8, <3>1
      <3>2. CASE f # h.fd
        <4>1. \A i \in taken : i.fd # f
          BY <1>0, <2>3, <3>2
        <4>2. PICK q \in PaneId : Live(q) /\ term[q] = f
          BY <1>0, <2>3, <4>1 DEF IInv, Descriptors
        <4>3. q # p
          BY <1>2, <4>2 DEF Live
        <4> QED BY <1>6, <1>8, <4>2, <4>3
      <3> QED BY <3>1, <3>2
    <2> QED BY <2>1, <2>2, <2>3 DEF Descriptors
  <1>13. WritesInv'
    BY <1>0 DEF IInv, WritesInv
  <1>14. Counting'
    <2>1. Dead' = Dead
      BY <1>0, <1>1, <1>6 DEF Dead
    <2> QED BY <1>0, <2>1 DEF IInv, Counting
  <1>15. Held'
    BY <1>0, <1>4, NothingHeld
  <1>16. Handed'
    BY <1>0 DEF IInv, Handed, Apart, HandedOver, Shown, Ended
  <1>17. StagesInv'
    BY <1>0, <1>4 DEF IInv, StagesInv
  <1>18. Restoring'
    BY <1>0, <1>6 DEF IInv, Restoring, TypeOK
  <1> QED BY <1>7, <1>10, <1>11, <1>12, <1>13, <1>14, <1>15, <1>16, <1>17, <1>18 DEF IInv

\* The process ends, with all its terminals and descriptors.
LEMMA DownIInv ==
  ASSUME IInv, stage' = "down", closing' \in BOOLEAN, clients' = FALSE, handoffs' = handoffs,
         todo' = {}, current' = Nothing, held' = {}, late' = late, collected' = {}, manifest' = {}, taken' = {},
         saved' = saved \/ saved' = Unsaved, open' = {}, opening' = {}, asked' = 0, nextPane' = nextPane,
         Gone(PaneId, Fd, {})
  PROVE  IInv'
  <1> DEFINE hung == {master[f] : f \in Fd} \cup {shellOf[q] : q \in PaneId}
  <1>1. /\ term' = [p \in PaneId |-> IF p \in PaneId THEN Nothing ELSE term[p]]
        /\ reading' = [p \in PaneId |-> IF p \in PaneId THEN "on" ELSE reading[p]]
        /\ seen' = [p \in PaneId |-> IF p \in PaneId THEN 0 ELSE seen[p]]
        /\ adopted' = adopted \ PaneId /\ fdClosed' = fdClosed \ PaneId
    BY DEF Gone
  <1>2. master' = [f \in Fd |-> IF f \in Fd THEN Nothing ELSE master[f]]
    BY DEF Gone
  <1>3. shellOf' = [p \in PaneId |-> IF p \in PaneId /\ p \notin {h.pane : h \in collected \cup manifest}
                                      THEN Nothing ELSE shellOf[p]]
    BY DEF Gone
  <1>4. postponed' = postponed \cup {} /\ writes' = writes /\ BecomeShells(Hungup(hung), read)
    BY DEF Gone
  <1> HIDE DEF hung
  <1>5. /\ term' \in [PaneId -> Fd \cup {Nothing}] /\ \A p \in PaneId : term'[p] = Nothing /\ reading'[p] = "on"
        /\ reading' \in [PaneId -> {"on", "flushing", "taken", "stranded"}] /\ seen' \in [PaneId -> 0 .. MaxRead]
        /\ adopted' = {} /\ fdClosed' = {}
    BY <1>1, BoundsAssumption DEF IInv, TypeOK
  <1>6. master' \in [Fd -> Shells \cup {Nothing}] /\ \A f \in Fd : master'[f] = Nothing
    BY <1>2
  <1>7. shellOf' \in [PaneId -> Shells \cup {Nothing}] /\ \A q \in PaneId : shellOf'[q] = shellOf[q] \/ shellOf'[q] = Nothing
    BY <1>3 DEF IInv, TypeOK
  <1>8. Less /\ shell' \in [Shells -> Statuses] /\ read' \in [Shells -> 0 .. MaxRead]
    BY <1>4, <1>6, <1>7, HungupStatuses, BecomeLess DEF IInv
  <1>9. /\ saved' \in [panes : SUBSET PaneId, next : Nat]
        /\ saved'.next \in 1 .. MaxPane + 1 /\ \A p \in saved'.panes : p < saved'.next
    BY PaneIds DEF IInv, TypeOK, Ids, Unsaved
  <1>10. postponed' = postponed
    BY <1>4
  <1>11. TypeOK'
    BY <1>4, <1>5, <1>6, <1>7, <1>8, <1>9, <1>10 DEF IInv, TypeOK, Statuses, Stages
  <1>12. Names'
    BY <1>8, <1>11, LessNames DEF IInv
  <1>13. StagesInv'
    BY <1>5, <1>6 DEF StagesInv
  <1>14. Ids'
    BY <1>9 DEF IInv, Ids
  <1>15. Terminals'
    BY <1>5 DEF Terminals, Live
  <1>16. Descriptors' /\ WritesInv'
    BY <1>4, <1>6 DEF IInv, Descriptors, WritesInv
  <1>17. Counting'
    <2>1. Dead \subseteq Dead'
      BY <1>5 DEF Dead
    <2>2. IsFiniteSet(Dead')
      BY PaneIds, SubsetBound DEF Dead
    <2>3. Cardinality(Dead) \in Nat /\ Cardinality(Dead') \in Nat /\ Cardinality(Dead) <= Cardinality(Dead')
      BY <2>1, <2>2, SubsetBound
    <2>4. Cardinality(postponed) \in Nat
      BY Fds, SubsetBound DEF IInv, TypeOK
    <2> QED BY <1>10, <2>3, <2>4 DEF IInv, Counting
  <1>18. Held'
    BY NothingHeld
  <1>19. Handed' /\ Restoring'
    BY DEF Handed, Restoring, Apart
  <1>20. Releases'
    BY <1>5 DEF Releases, IInv, TypeOK
  <1> QED BY <1>11, <1>12, <1>13, <1>14, <1>15, <1>16, <1>17, <1>18, <1>19, <1>20 DEF IInv

LEMMA ServerStopsIInv == ASSUME IInv, ServerStops PROVE IInv'
  <1>1. /\ stage = "idle" /\ stage' = "down" /\ clients' = FALSE
        /\ asked' = 0 /\ open' = {} /\ opening' = {}
        /\ Gone(PaneId, Fd, {})
        /\ UNCHANGED <<closing, handoffs, handoff, files, nextPane>>
    BY DEF ServerStops
  <1>2. todo = {} /\ current = Nothing /\ held = {} /\ collected = {} /\ manifest = {} /\ taken = {}
    BY <1>1 DEF IInv, StagesInv, Holding
  <1>3. closing \in BOOLEAN
    BY DEF IInv, TypeOK
  <1> QED BY <1>1, <1>2, <1>3, DownIInv DEF handoff, files

LEMMA StartFailsIInv == ASSUME IInv, StartFails PROVE IInv'
  <1>1. /\ stage \in {"loading", "restoring", "fresh"} /\ stage' = "down"
        /\ todo' = {} /\ current' = Nothing /\ taken' = {} /\ saved' = Unsaved
        /\ asked' = 0 /\ open' = {} /\ opening' = {}
        /\ Gone(PaneId, Fd, {})
        /\ UNCHANGED <<closing, clients, handoffs, held, late, collected, manifest, nextPane>>
    BY DEF StartFails
  <1>2. held = {} /\ collected = {} /\ manifest = {} /\ clients = FALSE
    BY <1>1 DEF IInv, StagesInv, Holding, TypeOK
  <1>3. closing \in BOOLEAN
    BY DEF IInv, TypeOK
  <1> QED BY <1>1, <1>2, <1>3, DownIInv

LEMMA NonePostponed == ASSUME postponed' = {} PROVE Counting'
  <1>1. Cardinality({}) = 0
    BY FS_EmptySet
  <1>2. IsFiniteSet(Dead') /\ Cardinality(Dead') \in Nat
    BY PaneIds, SubsetBound DEF Dead
  <1> QED BY <1>1, <1>2 DEF Counting

LEMMA ExecIInv == ASSUME IInv, Exec PROVE IInv'
  <1>0. /\ stage = "leaving" /\ stage' = "starting" /\ closing' = FALSE
        /\ todo' = {} /\ current' = Nothing /\ held' = {} /\ late' = {} /\ collected' = {}
        /\ asked' = 0 /\ open' = {} /\ opening' = {} /\ nextPane' = 1
        /\ term' = [p \in PaneId |-> Nothing]
        /\ adopted' = {} /\ fdClosed' = {}
        /\ reading' = [p \in PaneId |-> "on"] /\ seen' = [p \in PaneId |-> 0]
        /\ writes' = {} /\ postponed' = {}
        /\ UNCHANGED <<clients, handoffs, files, master, shellOf>>
        /\ BecomeShells(shell, read)
    BY DEF Exec
  <1> USE DEF files
  <1>1. Less /\ shell' \in [Shells -> Statuses] /\ read' \in [Shells -> 0 .. MaxRead]
    <2>1. master' \in [Fd -> Shells \cup {Nothing}] /\ \A f \in Fd : master'[f] = master[f] \/ master'[f] = Nothing
      BY <1>0 DEF IInv, TypeOK
    <2> QED BY <1>0, <2>1, ClosedLess DEF IInv
  <1>2. /\ term' \in [PaneId -> Fd \cup {Nothing}] /\ \A p \in PaneId : term'[p] = Nothing
        /\ reading' \in [PaneId -> {"on", "flushing", "taken", "stranded"}] /\ seen' \in [PaneId -> 0 .. MaxRead]
    BY <1>0, BoundsAssumption
  <1>3. TypeOK'
    BY <1>0, <1>1, <1>2 DEF IInv, TypeOK, Statuses, Stages
  <1>4. Names'
    BY <1>1, <1>3, LessNames DEF IInv
  <1>5. taken = {} /\ manifest = collected /\ clients = FALSE
    BY <1>0 DEF IInv, StagesInv, TypeOK
  <1>6. StagesInv'
    BY <1>0, <1>2, <1>5 DEF StagesInv
  <1>7. Ids'
    BY <1>0, PaneIds DEF IInv, Ids
  <1>8. Terminals' /\ Releases'
    BY <1>0, <1>2 DEF Terminals, Live, Releases
  <1>9. Descriptors' /\ WritesInv'
    BY <1>0, <1>5 DEF Descriptors, WritesInv
  <1>10. Counting'
    BY <1>0, NonePostponed
  <1>11. Held'
    BY <1>0, NothingHeld
  <1>12. Handed'
    <2>1. ASSUME NEW h \in collected PROVE HandedOver(h)'
      <3>1. h.pane \in PaneId /\ h.fd \in Fd
        BY DEF IInv, TypeOK, HandedOff
      <3>2. /\ shellOf[h.pane] # Nothing /\ Shown(h)
            /\ \/ Live(h.pane) /\ term[h.pane] = h.fd
               \/ Ended(h.pane)
        BY DEF IInv, Held
      <3>3. master[h.fd] = shellOf[h.pane] \/ Ended(h.pane)
        BY <3>1, <3>2 DEF IInv, Terminals, Live
      <3>4. read'[shellOf'[h.pane]] = read[shellOf[h.pane]] /\ (Ended(h.pane) => Ended(h.pane)')
        BY <1>0, <1>1, <1>3, <3>1, <3>2, LessPane
      <3> QED BY <1>0, <3>2, <3>3, <3>4 DEF HandedOver, Shown
    <2>2. Apart(collected)
      BY DEF IInv, Held
    <2> QED BY <1>0, <1>5, <2>1, <2>2 DEF Handed, Apart
  <1>13. Restoring'
    BY <1>0 DEF Restoring
  <1> QED BY <1>3, <1>4, <1>6, <1>7, <1>8, <1>9, <1>10, <1>11, <1>12, <1>13 DEF IInv

\* closeSync, and the hangup of the shells behind.
LEMMA CloseAllFacts ==
  ASSUME TypeOK, Names, NEW fds, CloseAll(fds)
  PROVE  /\ Less /\ shellOf' = shellOf /\ writes' = writes
         /\ master' \in [Fd -> Shells \cup {Nothing}] /\ \A f \in Fd : master'[f] = IF f \in fds THEN Nothing ELSE master[f]
         /\ shell' \in [Shells -> Statuses] /\ read' \in [Shells -> 0 .. MaxRead]
  <1> DEFINE hung == {master[f] : f \in fds}
  <1>1. /\ master' = [f \in Fd |-> IF f \in fds THEN Nothing ELSE master[f]]
        /\ shellOf' = shellOf /\ writes' = writes
        /\ BecomeShells(Hungup(hung), read)
    BY DEF CloseAll
  <1> HIDE DEF hung
  <1>2. master' \in [Fd -> Shells \cup {Nothing}] /\ \A f \in Fd : master'[f] = IF f \in fds THEN Nothing ELSE master[f]
    BY <1>1 DEF TypeOK
  <1>3. shellOf' \in [PaneId -> Shells \cup {Nothing}] /\ \A q \in PaneId : shellOf'[q] = shellOf[q] \/ shellOf'[q] = Nothing
    BY <1>1 DEF TypeOK
  <1>4. writes' \subseteq writes /\ \A f \in Fd : master'[f] = master[f] \/ master'[f] = Nothing
    BY <1>1, <1>2
  <1>5. Less /\ shell' \in [Shells -> Statuses] /\ read' \in [Shells -> 0 .. MaxRead]
    BY <1>1, <1>2, <1>3, <1>4, HungupStatuses, BecomeLess
  <1> QED BY <1>1, <1>2, <1>5

LEMMA TakeIInv == ASSUME IInv, NEW usable \in BOOLEAN, Take(usable) PROVE IInv'
  <1>a. PICK mine : mine = IF usable THEN {h \in manifest : master[h.fd] # Nothing} ELSE {}
    OBVIOUS
  <1>b. PICK fds : fds = Fd \ {h.fd : h \in mine}
    OBVIOUS
  <1>0. /\ stage = "starting" /\ stage' = "loading"
        /\ taken' = mine
        /\ CloseAll(fds)
        /\ manifest' = {}
        /\ UNCHANGED <<closing, clients, handoffs, handoff, saved, session, terminals, postponed>>
    BY <1>a, <1>b DEF Take
  <1> USE DEF handoff, session, terminals
  <1>1. /\ Less /\ shellOf' = shellOf /\ writes' = writes
        /\ master' \in [Fd -> Shells \cup {Nothing}] /\ \A f \in Fd : master'[f] = IF f \in fds THEN Nothing ELSE master[f]
        /\ shell' \in [Shells -> Statuses] /\ read' \in [Shells -> 0 .. MaxRead]
    BY <1>0, CloseAllFacts DEF IInv
  <1>2. mine \subseteq manifest /\ mine \subseteq HandedOff /\ \A h \in mine : h.fd \in Fd /\ h.fd \notin fds /\ master[h.fd] # Nothing
    BY <1>a, <1>b DEF IInv, TypeOK, HandedOff
  <1>3. TypeOK'
    BY <1>0, <1>1, <1>2 DEF IInv, TypeOK, Statuses, Stages
  <1>4. Names'
    BY <1>1, <1>3, LessNames DEF IInv
  <1>5. /\ todo = {} /\ held = {} /\ collected = {} /\ late = {} /\ writes = {} /\ postponed = {} /\ opening = {}
        /\ clients = FALSE /\ current = Nothing /\ \A p \in PaneId : term[p] = Nothing
    BY <1>0 DEF IInv, StagesInv, Holding, TypeOK
  <1>6. StagesInv'
    BY <1>0, <1>1, <1>5 DEF StagesInv
  <1>7. Ids'
    BY <1>0 DEF IInv, Ids
  <1>8. Terminals' /\ Releases'
    <2>1. adopted = {} /\ fdClosed = {}
      BY <1>5 DEF IInv, Terminals, TypeOK
    <2> QED BY <1>0, <1>5, <2>1 DEF Terminals, Live, Releases
  <1>9. Descriptors'
    <2>1. \A h \in taken' : master'[h.fd] # Nothing /\ h.fd \notin postponed'
      BY <1>0, <1>1, <1>2, <1>5
    <2>2. \A f \in Fd : master'[f] # Nothing => \E h \in taken' : h.fd = f
      BY <1>b, <1>0, <1>1
    <2> QED BY <1>0, <1>5, <2>1, <2>2 DEF Descriptors
  <1>10. WritesInv'
    BY <1>1, <1>5 DEF WritesInv
  <1>11. Counting'
    BY <1>0, <1>5, NonePostponed
  <1>12. Held'
    BY <1>0, <1>5, NothingHeld
  <1>13. Handed'
    <2>1. ASSUME NEW h \in mine PROVE HandedOver(h)'
      <3>1. HandedOver(h) /\ h.pane \in PaneId /\ h.fd \in Fd
        BY <1>0, <1>2 DEF IInv, Handed, TypeOK, HandedOff
      <3>2. master'[h.fd] = master[h.fd]
        BY <1>1, <1>2
      <3>3. read'[shellOf'[h.pane]] = read[shellOf[h.pane]] /\ (Ended(h.pane) => Ended(h.pane)')
        BY <1>1, <1>3, <3>1, LessPane DEF HandedOver
      <3> QED BY <1>1, <3>1, <3>2, <3>3 DEF HandedOver, Shown
    <2>2. Apart(mine)
      BY <1>0, <1>2 DEF IInv, Handed, Apart
    <2> QED BY <1>0, <2>1, <2>2 DEF Handed, Apart
  <1>14. Restoring'
    BY <1>0 DEF Restoring
  <1> QED BY <1>3, <1>4, <1>6, <1>7, <1>8, <1>9, <1>10, <1>11, <1>12, <1>13, <1>14 DEF IInv

LEMMA SessionLoadedIInv == ASSUME IInv, NEW readable \in BOOLEAN, SessionLoaded(readable) PROVE IInv'
  <1>a. PICK ps : ps = IF readable THEN saved.panes \cap {h.pane : h \in taken} ELSE {}
    OBVIOUS
  <1>0. /\ stage = "loading"
        /\ stage' = IF readable THEN "restoring" ELSE "fresh"
        /\ todo' = IF readable THEN saved.panes ELSE {}
        /\ open' = IF readable THEN saved.panes ELSE {}
        /\ nextPane' = IF readable THEN saved.next ELSE 1
        /\ asked' = IF readable THEN 0 ELSE 1
        /\ UNCHANGED <<closing, clients, handoffs, current, held, late, collected, files, opening,
                       terminals, master, input>>
        /\ OnlyTheirShells(ps)
    BY <1>a DEF SessionLoaded
  <1> USE DEF files, terminals, input
  <1>1. ps \in SUBSET PaneId /\ saved.panes \in SUBSET PaneId /\ saved.next \in Nat
    BY <1>a DEF IInv, TypeOK
  <1>2. /\ Less /\ shellOf' \in [PaneId -> Shells \cup {Nothing}]
        /\ shell' \in [Shells -> Statuses] /\ read' \in [Shells -> 0 .. MaxRead]
        /\ \A p \in ps : shellOf'[p] = shellOf[p]
    BY <1>0, <1>1, OnlyTheirShellsLess DEF IInv
  <1>3. stage' \in {"restoring", "fresh"} /\ (stage' = "restoring" <=> readable)
    BY <1>0
  <1>4. TypeOK'
    BY <1>0, <1>1, <1>2, <1>3 DEF IInv, TypeOK, Statuses, Stages
  <1>5. Names'
    BY <1>2, <1>4, LessNames DEF IInv
  <1>6. /\ held = {} /\ collected = {} /\ late = {} /\ writes = {} /\ postponed = {} /\ opening = {} /\ manifest = {}
        /\ clients = FALSE /\ current = Nothing /\ \A p \in PaneId : term[p] = Nothing
    BY <1>0 DEF IInv, StagesInv, Holding, TypeOK
  <1>7. StagesInv'
    BY <1>0, <1>3, <1>6 DEF StagesInv
  <1>8. Ids'
    <2>1. saved.next \in 1 .. MaxPane + 1 /\ \A p \in saved.panes : p < saved.next
      BY DEF IInv, Ids
    <2> QED BY <1>0, <1>6, <2>1, PaneIds DEF Ids
  <1>9. Terminals' /\ Releases'
    <2>1. adopted = {} /\ fdClosed = {}
      BY <1>6 DEF IInv, Terminals, TypeOK
    <2> QED BY <1>0, <1>3, <1>6, <2>1 DEF Terminals, Live, Releases
  <1>10. Descriptors'
    <2>1. \A f \in Fd : master[f] # Nothing => \E h \in taken : h.fd = f
      BY <1>0, <1>6 DEF IInv, Descriptors, Live
    <2> QED BY <1>0, <1>6, <2>1 DEF IInv, Descriptors
  <1>11. WritesInv'
    BY <1>0, <1>6 DEF WritesInv
  <1>12. Counting'
    BY <1>0, <1>6, NonePostponed
  <1>13. Held'
    BY <1>0, <1>6, NothingHeld
  <1>14. Handed'
    <2>1. ASSUME readable, NEW h \in taken, h.pane \in todo' PROVE HandedOver(h)'
      <3>1. HandedOver(h) /\ h.pane \in PaneId /\ h.fd \in Fd
        BY <1>0 DEF IInv, Handed, TypeOK, HandedOff
      <3>2. shellOf'[h.pane] = shellOf[h.pane]
        BY <1>a, <1>0, <1>2, <2>1
      <3>3. read'[shellOf'[h.pane]] = read[shellOf[h.pane]] /\ (Ended(h.pane) => Ended(h.pane)')
        BY <1>2, <1>4, <3>1, <3>2, LessPane DEF HandedOver
      <3> QED BY <1>0, <3>1, <3>2, <3>3 DEF HandedOver, Shown
    <2>2. Apart(taken)
      BY DEF IInv, Handed
    <2> QED BY <1>0, <1>3, <2>1, <2>2 DEF Handed, Apart
  <1>15. Restoring'
    <2>1. \A p \in PaneId : p # Nothing
      BY DEF PaneId, Nothing
    <2> QED BY <1>0, <1>1, <1>3, <1>6, <2>1 DEF Restoring
  <1> QED BY <1>4, <1>5, <1>7, <1>8, <1>9, <1>10, <1>11, <1>12, <1>13, <1>14, <1>15 DEF IInv

LEMMA RestoredIInv == ASSUME IInv, Restored PROVE IInv'
  <1>a. PICK fds : fds = {h.fd : h \in taken}
    OBVIOUS
  <1>0. /\ (stage = "restoring" /\ todo = {}) \/ (stage = "fresh" /\ open # {})
        /\ stage' = "idle" /\ clients' = TRUE
        /\ CloseAll(fds)
        /\ taken' = {} /\ saved' = Unsaved
        /\ UNCHANGED <<closing, handoffs, handoff, manifest, session, terminals, postponed>>
    BY <1>a DEF Restored
  <1> USE DEF handoff, session, terminals
  <1>1. /\ Less /\ shellOf' = shellOf /\ writes' = writes
        /\ master' \in [Fd -> Shells \cup {Nothing}] /\ \A f \in Fd : master'[f] = IF f \in fds THEN Nothing ELSE master[f]
        /\ shell' \in [Shells -> Statuses] /\ read' \in [Shells -> 0 .. MaxRead]
    BY <1>0, CloseAllFacts DEF IInv
  <1>2. /\ todo = {} /\ held = {} /\ collected = {} /\ late = {} /\ manifest = {} /\ current = Nothing
    BY <1>0 DEF IInv, StagesInv, Holding
  <1>3. TypeOK'
    <2>1. Unsaved \in [panes : SUBSET PaneId, next : Nat]
      BY DEF Unsaved
    <2> QED BY <1>0, <1>1, <2>1 DEF IInv, TypeOK, Statuses, Stages
  <1>4. Names'
    BY <1>1, <1>3, LessNames DEF IInv
  <1>5. StagesInv'
    BY <1>0, <1>2 DEF StagesInv
  <1>6. Ids'
    BY <1>0, PaneIds DEF IInv, Ids, Unsaved
  <1>7. \A q : Live(q)' <=> Live(q)
    BY <1>0 DEF Live
  <1>8. \A q \in PaneId : Live(q) => term[q] \in Fd /\ master'[term[q]] = master[term[q]] /\ term[q] \notin postponed
    BY <1>a, <1>1 DEF IInv, Terminals, Live, TypeOK
  <1>9. Terminals'
    <2>1. ASSUME NEW q \in PaneId, term'[q] # Nothing
          PROVE  term'[q] = term[q] /\ shellOf'[q] = shellOf[q] /\ seen'[q] = seen[q] /\ q \in open' \cup opening'
      BY <1>0, <1>1, <2>1 DEF IInv, Terminals
    <2>2. \A q \in fdClosed' : term'[q] # Nothing /\ reading'[q] = "on" /\ (q \in fdClosed \/ Ended(q))
      BY <1>0 DEF IInv, Terminals
    <2>3. \A q \in adopted' : term'[q] # Nothing
      BY <1>0 DEF IInv, Terminals
    <2>4. TermsKept
      BY <1>0, <1>7, <1>8, <2>1, <2>2, <2>3 DEF TermsKept
    <2> QED BY <1>1, <1>3, <2>4, LessTerminals DEF IInv
  <1>10. Descriptors'
    <2>1. \A f \in postponed' : master'[f] # Nothing
      BY <1>a, <1>0, <1>1 DEF IInv, Descriptors, TypeOK
    <2>2. ASSUME NEW f \in Fd, master'[f] # Nothing, f \notin postponed'
          PROVE  \E q \in PaneId : Live(q)' /\ term'[q] = f
      <3>1. f \notin fds /\ master[f] # Nothing
        BY <1>1, <2>2
      <3>2. PICK q \in PaneId : Live(q) /\ term[q] = f
        BY <1>a, <1>0, <2>2, <3>1 DEF IInv, Descriptors
      <3> QED BY <1>0, <1>7, <3>2
    <2> QED BY <1>0, <2>1, <2>2 DEF Descriptors
  <1>11. WritesInv'
    <2>1. ASSUME NEW w \in writes PROVE master'[w.fd] = w.shell \/ shell'[w.shell] = "ended"
      <3>1. w.fd \in Fd /\ w.shell \in Shells /\ w.fd \notin fds
        BY <1>a DEF IInv, TypeOK, WritesInv
      <3>2. shell[w.shell] = "ended" => shell'[w.shell] = "ended"
        BY <1>1, <3>1, LessKeeps
      <3>3. master[w.fd] = w.shell \/ shell[w.shell] = "ended"
        BY <1>0 DEF IInv, WritesInv
      <3> QED BY <1>1, <3>1, <3>2, <3>3
    <2> QED BY <1>0, <1>1, <2>1 DEF IInv, WritesInv
  <1>12. Counting'
    <2>1. Dead' = Dead
      BY <1>0, <1>2 DEF Dead
    <2> QED BY <1>0, <2>1 DEF IInv, Counting
  <1>13. Held'
    BY <1>0, <1>2, NothingHeld
  <1>14. Handed' /\ Restoring' /\ Releases'
    BY <1>0, <1>2 DEF Handed, Apart, Restoring, Releases
  <1> QED BY <1>3, <1>4, <1>5, <1>6, <1>9, <1>10, <1>11, <1>12, <1>13, <1>14 DEF IInv

-----------------------------------------------------------------------------
LEMMA InitIInv == Init => IInv
  <1> SUFFICES ASSUME Init PROVE IInv
    OBVIOUS
  <1> USE DEF Init
  <1>1. 1 \in PaneId /\ 1 \in Fd /\ 1 \in Shells /\ Nothing \notin PaneId
    BY BoundsAssumption, FdAssumption DEF PaneId, Fd, Shells, Nothing
  <1>2. TypeOK
    <2>1. /\ term \in [PaneId -> Fd \cup {Nothing}] /\ master \in [Fd -> Shells \cup {Nothing}]
          /\ shellOf \in [PaneId -> Shells \cup {Nothing}]
      BY <1>1
    <2>2. /\ reading \in [PaneId -> {"on", "flushing", "taken", "stranded"}] /\ seen \in [PaneId -> 0 .. MaxRead]
          /\ shell \in [Shells -> {"none", "running", "ended", "killed"}] /\ read \in [Shells -> 0 .. MaxRead]
      BY BoundsAssumption
    <2>3. saved \in [panes : SUBSET PaneId, next : Nat] /\ handoffs \in 0 .. MaxHandoffs /\ stage \in Stages
      BY BoundsAssumption DEF Unsaved, Stages
    <2> HIDE DEF Init
    <2>4. /\ closing \in BOOLEAN /\ clients \in BOOLEAN
          /\ todo \subseteq PaneId /\ current \in PaneId \cup {Nothing} /\ held \subseteq PaneId /\ late \subseteq PaneId
          /\ collected \subseteq HandedOff /\ manifest \subseteq HandedOff /\ taken \subseteq HandedOff
          /\ open \subseteq PaneId /\ asked \in Nat /\ opening \subseteq PaneId /\ nextPane \in Nat
          /\ adopted \subseteq PaneId /\ fdClosed \subseteq PaneId
          /\ writes \subseteq [fd : Fd, shell : Shells] /\ postponed \subseteq Fd
      BY <1>1 DEF Init
    <2> QED BY <2>1, <2>2, <2>3, <2>4 DEF TypeOK
  <1>3. /\ \A p \in PaneId : term[p] = (IF p = 1 THEN 1 ELSE Nothing) /\ shellOf[p] = IF p = 1 THEN 1 ELSE Nothing
        /\ \A f \in Fd : master[f] = IF f = 1 THEN 1 ELSE Nothing
        /\ \A s \in Shells : shell[s] = (IF s = 1 THEN "running" ELSE "none") /\ read[s] = 0
        /\ \A p \in PaneId : seen[p] = 0
    OBVIOUS
  <1>4. Names
    <2>1. \A s \in Shells : Known(s) <=> s = 1
      BY <1>1, <1>3 DEF Known, Shells, Nothing
    <2> QED BY <1>3, <2>1 DEF Names, Nothing
  <1>5. StagesInv
    BY DEF StagesInv
  <1>6. Ids
    BY PaneIds DEF Ids, Unsaved
  <1>7. Live(1) /\ \A p \in PaneId : Live(p) => p = 1
    BY <1>1, <1>3 DEF Live, Nothing
  <1>8. Terminals
    BY <1>1, <1>3, <1>7 DEF Terminals, Nothing
  <1>9. Descriptors
    BY <1>1, <1>3, <1>7 DEF Descriptors
  <1>10. WritesInv /\ Held /\ Handed /\ Restoring /\ Releases
    BY DEF WritesInv, Held, Handed, Restoring, Releases, Apart
  <1>11. Counting
    <2>1. Cardinality({}) = 0
      BY FS_EmptySet
    <2>2. Cardinality(Dead) \in Nat
      BY PaneIds, SubsetBound DEF Dead
    <2> QED BY <2>1, <2>2 DEF Counting
  <1> QED BY <1>2, <1>4, <1>5, <1>6, <1>8, <1>9, <1>10, <1>11 DEF IInv

LEMMA SameIInv == ASSUME IInv, UNCHANGED vars PROVE IInv'
  <1> USE DEF vars, control, handoff, files, session, terminals, system, input
  <1>1. TypeOK' /\ Names' /\ StagesInv' /\ Ids'
    BY DEF IInv, TypeOK, Names, Known, StagesInv, Ids
  <1>2. Terminals' /\ Descriptors' /\ WritesInv'
    BY DEF IInv, Terminals, Live, Ended, Descriptors, WritesInv
  <1>3. Counting' /\ Restoring' /\ Releases'
    BY DEF IInv, Counting, Dead, Restoring, Releases
  <1>4. Held' /\ Handed'
    BY DEF IInv, Held, Handed, HandedOver, Shown, Apart, Live, Ended
  <1> QED BY <1>1, <1>2, <1>3, <1>4 DEF IInv

LEMMA NextIInv == ASSUME IInv, [Next]_vars PROVE IInv'
  <1>1. CASE SessionNext
    <2> USE DEF SessionNext
    <2>1. ASSUME CallOpen PROVE IInv'  BY <2>1, CallOpenIInv
    <2>2. ASSUME PlaceKnown PROVE IInv'  BY <2>2, PlaceKnownIInv
    <2>3. ASSUME NEW p \in PaneId, SpawnEnds(p) PROVE IInv'  BY <2>3, SpawnEndsIInv
    <2>4. ASSUME NEW p \in PaneId, SpawnFails(p) PROVE IInv'  BY <2>4, SpawnFailsIInv
    <2>5. ASSUME NEW p \in PaneId, CallClose(p) PROVE IInv'  BY <2>5, CallCloseIInv
    <2>6. ASSUME NEW s \in Shells, ShellEnds(s) PROVE IInv'  BY <2>6, ShellEndsIInv
    <2>7. ASSUME NEW p \in PaneId, StreamCloses(p) PROVE IInv'  BY <2>7, StreamClosesIInv
    <2>8. ASSUME NEW p \in PaneId, PaneEnds(p) PROVE IInv'  BY <2>8, PaneEndsIInv
    <2>9. ASSUME NEW p \in PaneId, PaneReads(p) PROVE IInv'  BY <2>9, PaneReadsIInv
    <2>10. ASSUME NEW p \in PaneId, WriteStarts(p) PROVE IInv'  BY <2>10, WriteStartsIInv
    <2>11. ASSUME NEW w \in writes, NEW failed \in BOOLEAN, WriteReturns(w, failed) PROVE IInv'  BY <2>11, WriteReturnsIInv
    <2>12. ASSUME SessionSaved PROVE IInv'  BY <2>12, SessionSavedIInv
    <2> QED BY <1>1, <2>1, <2>2, <2>3, <2>4, <2>5, <2>6, <2>7, <2>8, <2>9, <2>10, <2>11, <2>12
  <1>2. CASE OldNext
    <2> USE DEF OldNext
    <2>1. ASSUME RequestHandoff PROVE IInv'  BY <2>1, RequestHandoffIInv
    <2>2. ASSUME NEW ok \in BOOLEAN, PreflightEnds(ok) PROVE IInv'  BY <2>2, PreflightEndsIInv
    <2>3. ASSUME PollersStopped PROVE IInv'  BY <2>3, PollersStoppedIInv
    <2>4. ASSUME PausingFails PROVE IInv'  BY <2>4, PausingFailsIInv
    <2>5. ASSUME NEW p \in PaneId, HoldNext(p) PROVE IInv'  BY <2>5, HoldNextIInv
    <2>6. ASSUME HoldTaken PROVE IInv'  BY <2>6, HoldTakenIInv
    <2>7. ASSUME HoldFails PROVE IInv'  BY <2>7, HoldFailsIInv
    <2>8. ASSUME HoldTimesOut PROVE IInv'  BY <2>8, HoldTimesOutIInv
    <2>9. ASSUME NEW p \in PaneId, LateHoldReleased(p) PROVE IInv'  BY <2>9, LateHoldReleasedIInv
    <2>10. ASSUME NEW p \in PaneId, LateHoldFails(p) PROVE IInv'  BY <2>10, LateHoldFailsIInv
    <2>11. ASSUME AllHeld PROVE IInv'  BY <2>11, AllHeldIInv
    <2>12. ASSUME SessionFlushed PROVE IInv'  BY <2>12, SessionFlushedIInv
    <2>13. ASSUME ManifestWritten PROVE IInv'  BY <2>13, ManifestWrittenIInv
    <2>14. ASSUME SavingFails PROVE IInv'  BY <2>14, SavingFailsIInv
    <2>15. ASSUME ExecFails PROVE IInv'  BY <2>15, ExecFailsIInv
    <2>16. ASSUME ManifestRemoved PROVE IInv'  BY <2>16, ManifestRemovedIInv
    <2>17. ASSUME NEW signal \in BOOLEAN, StopAsked(signal) PROVE IInv'  BY <2>17, StopAskedIInv
    <2>18. ASSUME ServerStops PROVE IInv'  BY <2>18, ServerStopsIInv
    <2> QED BY <1>2, <2>1, <2>2, <2>3, <2>4, <2>5, <2>6, <2>7, <2>8, <2>9, <2>10, <2>11, <2>12, <2>13, <2>14, <2>15,
               <2>16, <2>17, <2>18
  <1>3. CASE NewNext
    <2> USE DEF NewNext
    <2>1. ASSUME Exec PROVE IInv'  BY <2>1, ExecIInv
    <2>2. ASSUME NEW usable \in BOOLEAN, Take(usable) PROVE IInv'  BY <2>2, TakeIInv
    <2>3. ASSUME NEW readable \in BOOLEAN, SessionLoaded(readable) PROVE IInv'  BY <2>3, SessionLoadedIInv
    <2>4. ASSUME NEW h \in taken, Adopt(h) PROVE IInv'  BY <2>4, AdoptIInv
    <2>5. ASSUME NEW p \in PaneId, RestoreShell(p) PROVE IInv'  BY <2>5, RestoreShellIInv
    <2>6. ASSUME NEW failed \in BOOLEAN, RestoreEnds(failed) PROVE IInv'  BY <2>6, RestoreEndsIInv
    <2>7. ASSUME Restored PROVE IInv'  BY <2>7, RestoredIInv
    <2>8. ASSUME StartFails PROVE IInv'  BY <2>8, StartFailsIInv
    <2> QED BY <1>3, <2>1, <2>2, <2>3, <2>4, <2>5, <2>6, <2>7, <2>8
  <1>4. CASE UNCHANGED vars
    BY <1>4, SameIInv
  <1> QED BY <1>1, <1>2, <1>3, <1>4 DEF Next

\* The inductive invariant of a handoff: who has which shell by which descriptor, in the
\* old server, in what it leaves and in the new one.
THEOREM Invariance == Spec => []IInv
  <1>1. Init => IInv
    BY InitIInv
  <1>2. IInv /\ [Next]_vars => IInv'
    BY NextIInv
  <1> QED BY <1>1, <1>2, PTL DEF Spec

\* The types of the state of the controller, of the start and of the system around them.
THEOREM TypeCorrect == Spec => []TypeOK
  <1>1. IInv => TypeOK
    BY DEF IInv
  <1> QED BY <1>1, Invariance, PTL

\* A pane that kept its shell, through holdForHandoff, handoff.json and adoptForPane, shows
\* all that was ever read of it.
THEOREM NothingLost == Spec => []HandoverLosesNothing
  <1>1. IInv => HandoverLosesNothing
    <2> SUFFICES ASSUME IInv, NEW p \in open, term[p] # Nothing, p \notin fdClosed, master[term[p]] = shellOf[p]
                 PROVE  seen[p] = read[shellOf[p]]
      BY DEF HandoverLosesNothing
    <2>1. p \in PaneId /\ Live(p)
      BY DEF IInv, TypeOK, Live
    <2> QED BY <2>1 DEF IInv, Terminals
  <1> QED BY <1>1, Invariance, PTL

\* While a server is up, no running shell is behind a descriptor that none of its panes has:
\* what a handoff or a start that went wrong left open was closed.
THEOREM NoneUnseen == Spec => []NoShellUnseen
  <1>1. IInv => NoShellUnseen
    <2> SUFFICES ASSUME IInv, Serving, NEW f \in Fd \ postponed, master[f] # Nothing
                 PROVE  \E p \in open \cup opening : term[p] = f
      BY DEF NoShellUnseen
    <2>1. taken = {} /\ stage # "starting"
      BY DEF Serving, IInv, StagesInv
    <2>2. PICK p \in PaneId : Live(p) /\ term[p] = f
      BY <2>1 DEF IInv, Descriptors
    <2>3. p \in open \cup opening
      BY <2>2 DEF IInv, Terminals, Live
    <2> QED BY <2>2, <2>3
  <1> QED BY <1>1, Invariance, PTL

\* No pane and no write that a thread is at reaches another shell by a number that was
\* handed out again.
THEOREM NumbersAreSafe == Spec => []OwnShell
  <1>1. IInv => OwnShell
    <2> SUFFICES ASSUME IInv PROVE OwnShell
      OBVIOUS
    <2>1. ASSUME NEW p \in open \cup opening, term[p] # Nothing
          PROVE  master[term[p]] = shellOf[p] \/ shell[shellOf[p]] = "ended"
      <3>1. p \in PaneId
        BY DEF IInv, TypeOK
      <3> QED BY <2>1, <3>1 DEF IInv, Terminals, Ended
    <2>2. ASSUME NEW w \in writes PROVE master[w.fd] \in {Nothing, w.shell} \/ shell[w.shell] = "ended"
      <3>1. w.fd \in Fd
        BY DEF IInv, TypeOK
      <3>2. CASE stage = "down"
        BY <3>1, <3>2 DEF IInv, StagesInv
      <3>3. CASE stage # "down"
        BY <3>3 DEF IInv, WritesInv
      <3> QED BY <3>2, <3>3
    <2> QED BY <2>1, <2>2 DEF OwnShell
  <1> QED BY <1>1, Invariance, PTL
=============================================================================
