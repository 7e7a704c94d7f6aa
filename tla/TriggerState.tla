---------------------------- MODULE TriggerState ----------------------------
(***************************************************************************)
(* TriggerState (packages/server/src/graph/TriggerState.ts): when a link   *)
(* between two agents sends.  Pure: each operator takes the trigger and an *)
(* input and gives the new trigger and what was decided.                   *)
(*                                                                         *)
(* Time is left to the caller: HoldElapses and WaitExpires are the tick at *)
(* which the second of a blocked spell, or the half hour of a wait, is     *)
(* over.  The settings on and whenBusy of a link do not change.            *)
(***************************************************************************)
EXTENDS Naturals

\* An agent as a port reports it: which one, its state, how often it completed.
Nobody == [inst |-> 0, state |-> "absent", seq |-> 0]
AgentStates == {"absent", "unknown", "idle", "working", "blocked"}

SkipReasons == {"paused", "limit", "machine_unavailable", "target_absent", "blocked", "busy",
                "busy_timeout", "resolved"}
Suppressions == {"no", "paused", "limit", "machine_unavailable"}

\* unknown is the time after a start: not ready yet.
Verdict(a) == CASE a.state = "absent"  -> "absent"
                [] a.state = "blocked" -> "blocked"
                [] a.state = "idle"    -> "ready"
                [] OTHER               -> "busy"

NoBase == [inst |-> 0, seq |-> 0]
Base(a) == [inst |-> a.inst, seq |-> a.seq]

\* spell is the blocked spell of the source: none, fresh (it has not fired), or
\* handled (fired, or seen from the start).  target is what the target looks like.
Baseline(t, source) ==
  [t EXCEPT !.base = Base(source),
            !.spell = IF source.state = "blocked" THEN "handled" ELSE "none"]

NewTrigger(on, whenBusy, suppress, source, target) ==
  Baseline([on |-> on, whenBusy |-> whenBusy, suppress |-> suppress, base |-> NoBase,
            spell |-> "none", target |-> Verdict(target), waiting |-> FALSE], source)

\* replaced: a firing that waited made way for this one.
Decide(t, d) == [trigger |-> t, decision |-> d, replaced |-> FALSE]

Fire(t) ==
  LET answer == CASE t.suppress # "no"                        -> t.suppress
                  [] t.suppress = "no" /\ t.target = "absent"  -> "target_absent"
                  [] t.suppress = "no" /\ t.target = "blocked" -> "blocked"
                  [] t.suppress = "no" /\ t.target = "ready"   -> "send"
                  [] OTHER -> IF t.whenBusy = "skip" THEN "busy" ELSE "wait"
  IN  [trigger |-> [t EXCEPT !.waiting = (answer = "wait")], decision |-> answer,
       replaced |-> t.waiting]

\* A wait for a blocked spell is pointless once the spell is over.
ResolveBlockedWait(t) ==
  IF t.on = "blocked" /\ t.waiting THEN Decide([t EXCEPT !.waiting = FALSE], "resolved")
  ELSE Decide(t, "none")

\* Mutant: the completion is not remembered, so every later report of the
\* source counts it again.
ObserveSourceForgetful(t, a) ==
  LET completed == a.seq > t.base.seq
      resolved == a.state # "blocked" /\ t.on = "blocked" /\ t.waiting
      spell == CASE a.state # "blocked"                     -> "none"
                 [] a.state = "blocked" /\ t.spell = "none" -> "fresh"
                 [] OTHER                                   -> t.spell
      seen == [t EXCEPT !.spell = spell]
  IN  IF a.state = "absent" THEN ResolveBlockedWait([t EXCEPT !.base = NoBase, !.spell = "none"])
      ELSE IF t.base.inst # a.inst THEN Decide(Baseline(t, a), "none")
      ELSE IF resolved THEN ResolveBlockedWait(seen)
      ELSE IF completed /\ t.on = "done" THEN Fire(seen)
      ELSE Decide(seen, "none")

\* What is seen first, and what a new agent shows, is the baseline.
ObserveSource(t, a) ==
  LET completed == a.seq > t.base.seq
      resolved == a.state # "blocked" /\ t.on = "blocked" /\ t.waiting
      spell == CASE a.state # "blocked"                     -> "none"
                 [] a.state = "blocked" /\ t.spell = "none" -> "fresh"
                 [] OTHER                                   -> t.spell
      seen == [t EXCEPT !.base = Base(a), !.spell = spell]
  IN  IF a.state = "absent" THEN ResolveBlockedWait([t EXCEPT !.base = NoBase, !.spell = "none"])
      ELSE IF t.base.inst # a.inst THEN Decide(Baseline(t, a), "none")
      ELSE IF resolved THEN ResolveBlockedWait(seen)
      ELSE IF completed /\ t.on = "done" THEN Fire(seen)
      ELSE Decide(seen, "none")

\* A blocked spell has lasted its second.
HoldIsOpen(t) == t.on = "blocked" /\ t.spell = "fresh"
HoldElapses(t) == Fire([t EXCEPT !.spell = "handled"])

WaitExpires(t) == Decide([t EXCEPT !.waiting = FALSE], "busy_timeout")

\* A blocked target is waited for: a person may answer it.
SeeTarget(t, a) ==
  LET seen == [t EXCEPT !.target = Verdict(a)]
      over == [seen EXCEPT !.waiting = FALSE]
  IN  CASE t.waiting /\ seen.target = "absent" -> Decide(over, "target_absent")
        [] t.waiting /\ seen.target = "ready" ->
             Decide([over EXCEPT !.spell = IF @ = "none" THEN @ ELSE "handled"], "send")
        [] OTHER -> Decide(seen, "none")

Configure(t, suppress) ==
  IF t.waiting /\ suppress # "no"
  THEN Decide([t EXCEPT !.suppress = suppress, !.waiting = FALSE], suppress)
  ELSE Decide([t EXCEPT !.suppress = suppress], "none")
=============================================================================
