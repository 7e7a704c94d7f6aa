----------------------------- MODULE GraphEngine -----------------------------
(***************************************************************************)
(* GraphEngine (packages/server/src/graph/GraphEngine.ts) with the         *)
(* GraphStore (packages/server/src/persist/GraphStore.ts): links between   *)
(* agents.  A trigger sends a prompt to its target when its source         *)
(* completes or waits for an answer, an approval link tells a supervisor   *)
(* that one waits, a supervise link tells a supervisor who is under it.    *)
(*                                                                         *)
(* Everything that reports to the engine - a status, the timer, a change   *)
(* of the graph, a connection that comes or goes - is one turn, in which   *)
(* several links may decide one after the other.  A send awaits the screen *)
(* of its source and then the prompt; the store writes one change at a     *)
(* time, and the engine hears of it when it is written.                    *)
(***************************************************************************)
EXTENDS TriggerState, Integers, SequencesExt

CONSTANTS
  Panes,      \* the panes on the graph, with or without an agent
  Remote,     \* those of another machine, behind one connection
  LinkSeq,    \* the links ever made, in the order they were
  Def,        \* link -> [kind, on, whenBusy, from, to, reads, limit]
  Scenarios,  \* what a behaviour starts from, and what may happen in it; seq bounds the
              \* completions of an agent
  MaxInst,    \* bound on the agents a pane ever has
  MaxCalls,   \* bound on the calls of clients
  MaxQueue,   \* bound on the changes that are not written yet
  MaxStops    \* bound on how often the engine stops and starts again

Links == ToSet(LinkSeq)
Supervise == {l \in Links : Def[l].kind = "supervise"}
Triggers == Links \ Supervise
Supervisors == {Def[l].to : l \in Supervise}
Senders == Triggers \cup Supervisors  \* a notice is sent for a supervisor, not a link

Requests == {"add", "pause", "resume", "remove", "pause all", "resume all"}

ASSUME GraphAssumption ==
  /\ Remote \subseteq Panes
  /\ LinkSeq \in Seq(Links)
  /\ Def \in [Links -> [kind : {"trigger", "approval", "supervise"}, on : {"done", "blocked"},
                       whenBusy : {"skip", "wait"}, from : Panes, to : Panes,
                       reads : BOOLEAN, limit : Nat \ {0}]]
  /\ \A l \in Links : Def[l].from # Def[l].to
  /\ Panes \cap Links = {} /\ "nobody" \notin Panes \cup Links
  /\ {MaxInst, MaxCalls, MaxQueue, MaxStops} \subseteq Nat
  /\ \A s \in Scenarios : s.seq \in [Panes -> Nat] /\ s.calls \subseteq Requests \X Links

VARIABLES
  scenario,
  agent,    \* pane -> its agent; inst counts those it has had
  up,       \* the other machine is connected
  graph,    \* the graph as it is stored: paused, and link -> state, pause and count
  queue,    \* the store's changes that are not written yet
  calls,    \* how many calls clients have made
  gen,      \* how often the engine has stopped
  running,
  live,     \* the links with a runtime
  rt,       \* link -> its trigger, while live
  busy,     \* pane -> why it is assumed to be busy
  sends,    \* sender -> generation -> how far its send has come
  sup,      \* supervisor -> its notifier
  \* What follows is history: no guard reads it.
  open,     \* link -> firings without an answer (what must be sent or skipped)
  notice,   \* supervisor -> what its last notice was about, and what became of it
  early,    \* prompts under way that left before an earlier one of their link was counted
  tally,    \* link -> what it sent since it was last resumed: how many prompts, how many
            \* of these left early, and how many counts were lost
  doubled,  \* engaged panes to which a second send began, or whose prompt went out
  excused,  \* engaged panes where one of the ways to that was taken
  shown     \* those whose real state came while a send to them was under way

vars == <<scenario, agent, up, graph, queue, calls, gen, running, live, rt, busy, sends, sup,
          open, notice, early, tally, doubled, excused, shown>>

NotBusy == [by |-> "nobody", gen |-> 0, settled |-> FALSE, inst |-> 0, seq |-> 0]
NoTrigger == [on |-> "done", whenBusy |-> "skip", suppress |-> "no", base |-> NoBase,
              spell |-> "none", target |-> "absent", waiting |-> FALSE]
NoNotifier == [inst |-> 0, idle |-> FALSE, paused |-> FALSE, dirty |-> "no", subs |-> {}]
NoNotice == [inst |-> 0, subs |-> {}, outcome |-> "none"]
NoneSent == [sent |-> 0, early |-> 0, lost |-> 0]
Gens == 0 .. MaxStops

TargetOf(k) == IF k \in Links THEN Def[k].to ELSE k

\* The engine and what it reads, as one value that an operation maps to another.
State == [agent |-> agent, up |-> up, graph |-> graph, queue |-> queue, gen |-> gen,
          running |-> running, live |-> live, rt |-> rt, busy |-> busy, sends |-> sends,
          sup |-> sup, open |-> open, notice |-> notice, early |-> early, tally |-> tally,
          doubled |-> doubled, excused |-> excused, shown |-> shown]

\* A send to p is under way, or p is assumed busy.
Engaged(e, p) ==
  \/ e.busy[p] # NotBusy
  \/ \E k \in Senders, g \in Gens : TargetOf(k) = p /\ e.sends[k][g] # "none"

\* Of a pane that is not engaged any more the history starts anew.
Become(e) ==
  /\ agent' = e.agent /\ up' = e.up /\ graph' = e.graph /\ queue' = e.queue
  /\ gen' = e.gen /\ running' = e.running /\ live' = e.live /\ rt' = e.rt
  /\ busy' = e.busy /\ sends' = e.sends /\ sup' = e.sup /\ open' = e.open
  /\ notice' = e.notice /\ early' = e.early /\ tally' = e.tally
  /\ doubled' = {p \in e.doubled : Engaged(e, p)}
  /\ excused' = {p \in e.excused : Engaged(e, p)}
  /\ shown' = {p \in e.shown : Engaged(e, p)}
  /\ UNCHANGED scenario

-----------------------------------------------------------------------------
(* What the ports say.                                                     *)

Available(e, p) == p \notin Remote \/ e.up

Status(e, p) ==
  IF Available(e, p) /\ e.agent[p].state # "absent" THEN e.agent[p] ELSE Nobody

\* Mutant: a target that is assumed busy is shown as it is.
AsTargetPlain(e, p) == Status(e, p)

\* A target that is assumed busy looks as if it worked.
AsTarget(e, p) ==
  IF Status(e, p) # Nobody /\ e.busy[p] # NotBusy
  THEN [Status(e, p) EXCEPT !.state = "working"]
  ELSE Status(e, p)

SuppressOf(e, l) ==
  LET link == e.graph.links[l]
  IN  IF e.graph.paused \/ link.paused = "user" THEN "paused"
      ELSE IF link.paused = "limit" THEN "limit"
      ELSE IF Available(e, Def[l].from) /\ Available(e, Def[l].to) THEN "no"
      ELSE "machine_unavailable"

There(e, l) == e.graph.links[l].state = "there"

-----------------------------------------------------------------------------
(* Sending.                                                                *)

\* A firing was sent, skipped or failed, with a reason in the history.
Answered(e, k) == IF k \in e.live THEN [e EXCEPT !.open[k] = @ - 1] ELSE e

Sending(e, k) == e.sends[k][e.gen] # "none"

SeeSupervisor(s, a) ==
  [s EXCEPT !.inst = a.inst, !.idle = (a.state = "idle"),
            !.dirty = IF a # Nobody /\ a.inst # s.inst THEN "fresh" ELSE @]

\* From the start of a send its target looks busy to every link and notifier;
\* that makes none of them send.  One that is not there is not assumed busy.
AssumeBusy(e, k) ==
  LET p == TargetOf(k)
      a == Status(e, p)
      works == [a EXCEPT !.state = "working"]
  IN  IF a = Nobody THEN [e EXCEPT !.excused = @ \cup {p}]
      ELSE [e EXCEPT
              !.busy[p] = [by |-> k, gen |-> e.gen, settled |-> FALSE,
                           inst |-> a.inst, seq |-> a.seq],
              !.rt = [l \in Triggers |-> IF l \in e.live /\ Def[l].to = p
                                         THEN SeeTarget(@[l], works).trigger ELSE @[l]],
              !.sup = [q \in Supervisors |-> IF q = p /\ @[q] # NoNotifier
                                            THEN SeeSupervisor(@[q], works) ELSE @[q]]]

\* The send is over: its target is assumed busy for five seconds more.
SettleBusy(e, k, g) ==
  LET p == TargetOf(k)
  IN  IF e.busy[p].by = k /\ e.busy[p].gen = g THEN [e EXCEPT !.busy[p].settled = TRUE] ELSE e

Finish(e, k, g) == SettleBusy([e EXCEPT !.sends[k][g] = "none"], k, g)

\* Mutant: what happened while the screen was read does not matter.
RecheckNothing(e, l) == "ok"

\* Is the link still there, and is it allowed to send?
Recheck(e, l) ==
  LET link == e.graph.links[l]
  IN  IF ~There(e, l) THEN "gone"
      ELSE IF e.graph.paused \/ link.paused = "user" THEN "paused"
      ELSE IF link.paused = "limit" \/ link.count >= Def[l].limit THEN "limit"
      ELSE "ok"

\* A prompt of this link was delivered, or is on its way, and is not counted.
Uncounted(e, l) ==
  \/ \E g \in Gens : e.sends[l][g] = "prompt"
  \/ \E i \in DOMAIN e.queue : e.queue[i] = <<"count", l>>

\* A second send to a pane that is engaged.
Doubling(e, k, engaged) ==
  [e EXCEPT !.doubled = IF engaged THEN @ \cup {TargetOf(k)} ELSE @]

Leaves(e, l) ==
  [e EXCEPT !.early = IF Uncounted(e, l) THEN @ \cup {<<l, e.gen>>} ELSE @ \ {<<l, e.gen>>},
            !.sends[l][e.gen] = "prompt"]

BeginPrompt(e, l, engaged) ==
  LET now == Recheck(e, l)
  IN  IF now = "ok" THEN Doubling(Leaves(e, l), l, engaged)
      ELSE Finish(IF now = "gone" THEN e ELSE Answered(e, l), l, e.gen)

\* The first turn of a send, when its target is assumed busy; engaged is how it was before.
Launch(e, l, engaged) ==
  LET usable == Available(e, Def[l].from) /\ Available(e, Def[l].to)
      resolved == Def[l].kind = "approval" /\ Status(e, Def[l].from).state # "blocked"
  IN  CASE ~usable \/ resolved -> Finish(Answered(e, l), l, e.gen)
        [] usable /\ ~resolved /\ Def[l].reads ->
             Doubling([e EXCEPT !.sends[l][e.gen] = "tail"], l, engaged)
        [] OTHER -> BeginPrompt(e, l, engaged)

StartSend(e, l) == Launch(AssumeBusy(e, l), l, Engaged(e, Def[l].to))

\* A send of the same link under way makes it busy.
Decided(e, l, decision) ==
  CASE decision \in {"none", "wait"}          -> e
    [] decision = "send" /\ ~Sending(e, l)    -> StartSend(e, l)
    [] OTHER                                  -> Answered(e, l)

\* What a link decided, and what becomes of the firing it replaced.
Apply(e, l, r) ==
  Decided([e EXCEPT !.rt[l] = r.trigger,
                    !.open[l] = IF r.replaced /\ l \in e.live THEN @ - 1 ELSE @],
          l, r.decision)

\* The notifier decides: a notice is due, its two seconds are over, and the
\* supervisor is idle.  One that is under way makes it wait for the next time.
ApplyNotifier(e, p, s) ==
  LET due == s.dirty = "due" /\ ~s.paused /\ s.idle
      taken == [e EXCEPT !.sup[p] = [s EXCEPT !.dirty = "no"],
                         !.notice[p] = [inst |-> s.inst, subs |-> s.subs,
                                        outcome |-> "under way"]]
  IN  IF ~due THEN [e EXCEPT !.sup[p] = s]
      ELSE IF Sending(e, p) THEN [e EXCEPT !.sup[p] = [s EXCEPT !.dirty = "fresh"]]
      ELSE Doubling([AssumeBusy(taken, p) EXCEPT !.sends[p][e.gen] = "prompt"], p, Engaged(e, p))

-----------------------------------------------------------------------------
(* What one link, or one notifier, is told.                                *)

TellSource(f, l) == Apply(f, l, ObserveSource(f.rt[l], Status(f, Def[l].from)))
TellTarget(f, l, a) == Apply(f, l, SeeTarget(f.rt[l], a))
TellSettings(f, l) == Apply(f, l, Configure(f.rt[l], SuppressOf(f, l)))
TellSupervisor(f, p, a) == ApplyNotifier(f, p, SeeSupervisor(f.sup[p], a))

NoticePaused(e, p) ==
  \/ e.graph.paused
  \/ ~Available(e, p)
  \/ \A l \in Supervise : Def[l].to = p /\ There(e, l) => e.graph.links[l].paused # "no"

TellPaused(f, p) == ApplyNotifier(f, p, [f.sup[p] EXCEPT !.paused = NoticePaused(f, p)])

\* One of the ways to a second prompt is taken at those of the panes that are engaged.
Excuse(e, panes) == [e EXCEPT !.excused = @ \cup {p \in panes : Engaged(e, p)}]

\* A new link starts from what its ends show now, assumed busy or not.
Create(e, l) ==
  [Excuse(e, {Def[l].to}) EXCEPT
     !.live = @ \cup {l},
     !.rt[l] = NewTrigger(Def[l].on, Def[l].whenBusy, SuppressOf(e, l),
                          Status(e, Def[l].from), Status(e, Def[l].to))]

\* What is gone takes its state with it, a wait too.
Forget(e, ls) ==
  [e EXCEPT !.live = @ \ ls,
            !.rt = [l \in Triggers |-> IF l \in ls THEN NoTrigger ELSE @[l]],
            !.open = [l \in Triggers |-> IF l \in ls THEN 0 ELSE @[l]]]

Subordinates(e, p) ==
  LET subs == {l \in Supervise : Def[l].to = p /\ There(e, l)}
  IN  ApplyNotifier(e, p, [e.sup[p] EXCEPT !.subs = subs,
                                           !.dirty = IF subs = e.sup[p].subs THEN @ ELSE "fresh"])

NewNotifier(e, p) ==
  [inst |-> Status(e, p).inst, idle |-> Status(e, p).state = "idle",
   paused |-> NoticePaused(e, p), dirty |-> "fresh",
   subs |-> {l \in Supervise : Def[l].to = p /\ There(e, l)}]

-----------------------------------------------------------------------------
(* What the engine hears - a status, the end of the five seconds, a        *)
(* connection that comes or goes, a change of the graph - it tells link    *)
(* after link, and then the notifiers.  A send that one of them starts     *)
(* makes its target busy for those after it.                               *)

News(of, panes) == [of |-> of, panes |-> panes]

SettingsHeard(f, l, news) ==
  IF \/ news.of = "graph" /\ There(f, l)
     \/ news.of = "connection" /\ {Def[l].from, Def[l].to} \cap news.panes # {}
  THEN TellSettings(f, l) ELSE f

SourceHeard(f, l, news) ==
  IF news.of \in {"status", "connection"} /\ Def[l].from \in news.panes
  THEN TellSource(f, l) ELSE f

\* feedTarget shows the target as it is to all, also when one of them sends at once.
TargetHeard(f, l, news) ==
  IF news.of # "graph" /\ Def[l].to \in news.panes
  THEN TellTarget(f, l, IF news.of = "free" THEN Status(f, Def[l].to) ELSE AsTarget(f, Def[l].to))
  ELSE f

LinkHears(f, l, news) == TargetHeard(SourceHeard(SettingsHeard(f, l, news), l, news), l, news)

PausedHeard(f, p, news) ==
  CASE news.of = "graph"      -> TellPaused(Subordinates(f, p), p)
    [] news.of = "connection" -> Excuse(TellPaused(f, p), {p})
    [] OTHER                  -> f

\* While its machine is away a supervisor keeps looking as it did.
SupervisorHeard(f, p, news) ==
  IF news.of = "graph" \/ (news.of = "connection" /\ ~f.up) THEN f
  ELSE TellSupervisor(f, p, IF news.of = "status" THEN AsTarget(f, p) ELSE Status(f, p))

NotifierHears(f, p, news) == SupervisorHeard(PausedHeard(f, p, news), p, news)

Hears(f, k, news) ==
  CASE k \in f.live                                   -> LinkHears(f, k, news)
    [] k \in Triggers \ f.live                        -> IF news.of = "graph" /\ There(f, k)
                                                         THEN Create(f, k) ELSE f
    [] k \in news.panes \cap Supervisors /\ f.sup[k] # NoNotifier -> NotifierHears(f, k, news)
    [] OTHER                                           -> f

\* The supervisors, each in the place of the first link that names it.
SupervisorSeq ==
  [n \in DOMAIN LinkSeq |->
     LET named(i) == LinkSeq[i] \in Supervise /\ Def[LinkSeq[i]].to = Def[LinkSeq[n]].to
     IN  IF named(n) /\ ~\E i \in 1 .. n - 1 : named(i) THEN Def[LinkSeq[n]].to ELSE "nobody"]

Tell(e, listeners, news) ==
  LET heard[n \in 0 .. Len(LinkSeq)] ==
        IF n = 0 THEN e ELSE Hears(heard[n - 1], listeners[n], news)
  IN  heard[Len(LinkSeq)]

TellAll(e, news) == Tell(Tell(e, LinkSeq, news), SupervisorSeq, news)

\* feedTarget.
FeedTarget(e, p) == TellAll(e, News("free", {p}))

\* The work that was sent has begun or ended, or another agent is there.
StartedOrReplaced(b, a) == a.inst # b.inst \/ a.state # "idle" \/ a.seq > b.seq

ClearBusy(e, ps) ==
  [e EXCEPT !.busy = [p \in Panes |-> IF p \in ps THEN NotBusy ELSE @[p]]]

\* What was assumed is given up, also of a pane with a send under way.
GiveUpBusy(e, ps) == Excuse(ClearBusy(e, ps), ps)

\* onStatus.
OnStatus(e, p) ==
  LET real == {q \in {p} : /\ e.busy[p] # NotBusy
                            /\ StartedOrReplaced(e.busy[p], Status(e, p))}
      freed == GiveUpBusy(e, real)
      seen == [freed EXCEPT !.shown = @ \cup {q \in real : Engaged(freed, q)}]
  IN  IF e.running /\ Available(e, p) THEN TellAll(seen, News("status", {p})) ELSE e

\* onAvailability: what is on the other machine is seen anew, and none of it is
\* assumed busy.
OnAvailability(e) ==
  IF e.running THEN TellAll(GiveUpBusy(e, Remote), News("connection", Remote)) ELSE e

\* reconcile: the engine follows the stored graph, links first.
ReconcileLinks(e) ==
  Forget(Tell(e, LinkSeq, News("graph", {})), {l \in Triggers : ~There(e, l)})

\* New notifiers see their supervisor as it is, assumed busy or not.
MakeNotifiers(e, has, new) ==
  [Excuse(e, new) EXCEPT !.sup = [p \in Supervisors |-> CASE p \in new -> NewNotifier(e, p)
                                                           [] p \in has \ new -> @[p]
                                                           [] OTHER -> NoNotifier]]

ReconcileSupervisors(e) ==
  LET has == {Def[l].to : l \in {k \in Supervise : There(e, k)}}
  IN  MakeNotifiers(Tell(e, SupervisorSeq, News("graph", has)), has,
                    {p \in has : e.sup[p] = NoNotifier})

Reconcile(e) == ReconcileSupervisors(ReconcileLinks(e))

-----------------------------------------------------------------------------
InitialGraph(s) ==
  [paused |-> FALSE,
   links |-> [l \in Links |-> [state |-> IF l \in s.links THEN "there" ELSE "new",
                               paused |-> "no", count |-> 0]]]

\* The engine has started on a graph whose panes have agents that are idle.
Blank(s) ==
  [agent |-> [p \in Panes |-> [inst |-> 1, state |-> "idle", seq |-> 0]],
   up |-> TRUE, graph |-> InitialGraph(s), queue |-> <<>>, gen |-> 0, running |-> TRUE,
   live |-> {}, rt |-> [l \in Triggers |-> NoTrigger], busy |-> [p \in Panes |-> NotBusy],
   sends |-> [k \in Senders |-> [g \in 0 .. MaxStops |-> "none"]],
   sup |-> [p \in Supervisors |-> NoNotifier], open |-> [l \in Triggers |-> 0],
   notice |-> [p \in Supervisors |-> NoNotice], early |-> {},
   tally |-> [l \in Triggers |-> NoneSent], doubled |-> {}, excused |-> {},
   shown |-> {}]

BeginAs(e) ==
  /\ agent = e.agent /\ up = e.up /\ graph = e.graph /\ queue = e.queue
  /\ gen = e.gen /\ running = e.running /\ live = e.live /\ rt = e.rt
  /\ busy = e.busy /\ sends = e.sends /\ sup = e.sup /\ open = e.open
  /\ notice = e.notice /\ early = e.early /\ tally = e.tally
  /\ doubled = e.doubled /\ excused = e.excused /\ shown = e.shown

Init ==
  /\ scenario \in Scenarios
  /\ calls = 0
  /\ BeginAs(Reconcile(Blank(scenario)))

-----------------------------------------------------------------------------
(* The agents (AgentTracker).                                              *)

Shows(p, a) == [State EXCEPT !.agent[p] = a]

\* Completions that a link on "done" must answer.
Owed(e, p) ==
  [e EXCEPT !.open = [l \in Triggers |->
     IF l \in e.live /\ Def[l].from = p /\ Def[l].on = "done" /\ Available(e, p)
     THEN @[l] + 1 ELSE @[l]]]

\* From working to idle is a completion.
AgentCompletes(p) ==
  /\ p \in scenario.moving
  /\ agent[p].state = "working"
  /\ agent[p].seq < scenario.seq[p]
  /\ Become(OnStatus(Owed(Shows(p, [agent[p] EXCEPT !.state = "idle", !.seq = @ + 1]), p), p))
  /\ UNCHANGED calls

AgentChanges(p, state) ==
  /\ p \in scenario.moving
  /\ agent[p].state \in {"unknown", "idle", "working", "blocked"} \ {state}
  /\ ~(agent[p].state = "working" /\ state = "idle")
  /\ Become(OnStatus(Shows(p, [agent[p] EXCEPT !.state = state]), p))
  /\ UNCHANGED calls

\* markSeen and the like: a report without a change.
AgentReported(p) ==
  /\ p \in scenario.moving
  /\ agent[p].state # "absent"
  /\ Become(OnStatus(State, p))
  /\ UNCHANGED calls

AgentLeaves(p) ==
  /\ p \in scenario.leaving
  /\ agent[p].state # "absent"
  /\ Become(OnStatus(Shows(p, [agent[p] EXCEPT !.state = "absent"]), p))
  /\ UNCHANGED calls

\* A new agent, also in the place of one that was there.
AgentStarts(p) ==
  /\ p \in scenario.leaving
  /\ agent[p].inst < MaxInst
  /\ Become(OnStatus(Shows(p, [inst |-> agent[p].inst + 1, state |-> "unknown", seq |-> 0]), p))
  /\ UNCHANGED calls

ConnectionChanges ==
  /\ "remote" \in scenario.may
  /\ calls < MaxCalls
  /\ calls' = calls + 1
  /\ Become(OnAvailability([State EXCEPT !.up = ~up]))

-----------------------------------------------------------------------------
(* The timer (tick), one of the things it may find due at a time.          *)

\* Mutant: who waits for the target is not told that it is free again.
BusyExpiresUntold(p) ==
  /\ running
  /\ busy[p].settled
  /\ Become(ClearBusy(State, {p}))
  /\ UNCHANGED calls

\* The five seconds are over without a sign of work.
BusyExpires(p) ==
  /\ running
  /\ busy[p].settled
  /\ Become([FeedTarget(ClearBusy(State, {p}), p) EXCEPT !.excused = @ \cup {p}])
  /\ UNCHANGED calls

SpellHolds(l) ==
  /\ running
  /\ l \in live /\ HoldIsOpen(rt[l])
  /\ Become(Apply([State EXCEPT !.open[l] = @ + 1], l, HoldElapses(rt[l])))
  /\ UNCHANGED calls

WaitTooLong(l) ==
  /\ running
  /\ l \in live /\ rt[l].waiting
  /\ Become(Apply(State, l, WaitExpires(rt[l])))
  /\ UNCHANGED calls

\* Two seconds since the last change.
NoticeDue(p) ==
  /\ running
  /\ sup[p].dirty = "fresh"
  /\ Become(ApplyNotifier(State, p, [sup[p] EXCEPT !.dirty = "due"]))
  /\ UNCHANGED calls

-----------------------------------------------------------------------------
(* The turns of a send, of this generation or of one before a stop.        *)

\* Its target is engaged by another send.
EngagedOtherwise(e, l) ==
  LET own == e.busy[Def[l].to].by = l /\ e.busy[Def[l].to].gen = e.gen
  IN  Engaged([e EXCEPT !.sends[l][e.gen] = "none",
                        !.busy[Def[l].to] = IF own THEN NotBusy ELSE @], Def[l].to)

TailRead(l, g) ==
  /\ sends[l][g] = "tail" /\ Available(State, Def[l].from)
  /\ Become(IF g = gen THEN BeginPrompt(State, l, EngagedOtherwise(State, l))
            ELSE Finish(State, l, g))
  /\ UNCHANGED calls

TailFails(l, g) ==
  /\ sends[l][g] = "tail"
  /\ Become(Finish(IF g = gen THEN Answered(State, l) ELSE State, l, g))
  /\ UNCHANGED calls

Prompted(l, g) ==
  [Finish(IF g = gen THEN Answered(State, l) ELSE State, l, g) EXCEPT !.early = @ \ {<<l, g>>}]

\* Delivered: counted also after a stop.
PromptDelivered(l, g) ==
  /\ sends[l][g] = "prompt" /\ Available(State, Def[l].to)
  /\ Len(queue) < MaxQueue
  /\ Become([Prompted(l, g) EXCEPT
               !.queue = Append(@, <<"count", l>>),
               !.tally[l].sent = @ + 1,
               !.tally[l].early = IF <<l, g>> \in early THEN @ + 1 ELSE @])
  /\ UNCHANGED calls

\* The target is blocked or gone by now, or cannot be reached.  A prompt whose answer is
\* lost with the connection is taken for one that did not arrive.
PromptFails(l, g) ==
  /\ sends[l][g] = "prompt"
  /\ Become(Prompted(l, g))
  /\ UNCHANGED calls

\* A notice of the engine that runs has come to its end.
Ended(e, p, g, outcome) ==
  [e EXCEPT !.notice[p].outcome = IF g = e.gen THEN outcome ELSE @]

NoticeDelivered(p, g) ==
  /\ sends[p][g] = "prompt" /\ Available(State, p)
  /\ Become(Ended(Finish(State, p, g), p, g, "told"))
  /\ UNCHANGED calls

\* Mutant: a notice that could not be given is not tried again.
NoticeFailsForgotten(p, g, later) ==
  /\ sends[p][g] = "prompt"
  /\ Become(Ended(Finish(State, p, g), p, g, IF later THEN "none" ELSE "given up"))
  /\ UNCHANGED calls

\* A supervisor that is blocked, gone or out of reach is told later; any other failure
\* is only noted.
NoticeFails(p, g, later) ==
  LET e == Ended(Finish(State, p, g), p, g, IF later THEN "none" ELSE "given up")
  IN  /\ sends[p][g] = "prompt"
      /\ Become(IF later /\ g = gen /\ sup[p] # NoNotifier
                THEN [e EXCEPT !.sup[p].dirty = "fresh"] ELSE e)
      /\ UNCHANGED calls

-----------------------------------------------------------------------------
(* The store.                                                              *)

Call(change) ==
  /\ change \in scenario.calls
  /\ calls < MaxCalls /\ Len(queue) < MaxQueue
  /\ calls' = calls + 1
  /\ Become([State EXCEPT !.queue = Append(@, change)])

\* recordRun: at the limit the link is paused, unless a person paused it.
Counted(link, limit) ==
  [link EXCEPT !.count = @ + 1,
               !.paused = IF link.count + 1 >= limit /\ @ = "no" THEN "limit" ELSE @]

\* A change as it is applied when its turn comes; the same graph if it is void.
Changed(g, change) ==
  LET l == change[2]
      here == l \in Links /\ g.links[l].state = "there"
  IN  CASE change[1] = "pause all"  -> [g EXCEPT !.paused = TRUE]
        [] change[1] = "resume all" -> [g EXCEPT !.paused = FALSE]
        [] change[1] = "add" /\ g.links[l].state = "new" -> [g EXCEPT !.links[l].state = "there"]
        [] change[1] = "pause" /\ here ->
             [g EXCEPT !.links[l].paused = IF @ = "no" THEN "user" ELSE @]
        [] change[1] = "resume" /\ here ->
             [g EXCEPT !.links[l].paused = "no", !.links[l].count = 0]
        [] change[1] = "remove" /\ here -> [g EXCEPT !.links[l].state = "gone"]
        [] change[1] = "count" /\ here  -> [g EXCEPT !.links[l] = Counted(@, Def[l].limit)]
        [] OTHER -> g

\* A link that is resumed may send up to its limit anew.
Recount(e, change) ==
  IF change[1] = "resume" /\ change[2] \in Triggers /\ There(e, change[2])
  THEN [e EXCEPT !.tally[change[2]] = NoneSent] ELSE e

\* The next change is written; then the engine hears of it, if it changed anything.
Written ==
  LET e == [Recount(State, Head(queue)) EXCEPT !.queue = Tail(@),
                                               !.graph = Changed(@, Head(queue))]
  IN  /\ queue # <<>>
      /\ Become(IF running /\ e.graph # graph THEN Reconcile(e) ELSE e)
      /\ UNCHANGED calls

\* A count that is not written is lost.
WriteFails ==
  LET l == Head(queue)[2]
      e == [State EXCEPT !.queue = Tail(@)]
  IN  /\ "fail" \in scenario.may
      /\ queue # <<>>
      /\ Become(IF Head(queue)[1] = "count" /\ l \in Triggers
                THEN [e EXCEPT !.tally[l].lost = @ + 1] ELSE e)
      /\ UNCHANGED calls

-----------------------------------------------------------------------------
(* A handoff stops the engine, and starts it again when it is given up.    *)

Stop ==
  /\ "stop" \in scenario.may
  /\ running
  /\ gen < MaxStops
  /\ Become([Forget(GiveUpBusy(State, Panes), Triggers) EXCEPT
               !.running = FALSE, !.gen = @ + 1, !.sup = [p \in Supervisors |-> NoNotifier]])
  /\ UNCHANGED calls

Start ==
  /\ ~running
  /\ Become(Reconcile([State EXCEPT !.running = TRUE]))
  /\ UNCHANGED calls

-----------------------------------------------------------------------------
Changes == {"unknown", "idle", "working", "blocked"}

Sent ==
  \/ \E l \in Triggers, g \in Gens : TailRead(l, g)
  \/ \E l \in Triggers, g \in Gens : TailFails(l, g)
  \/ \E l \in Triggers, g \in Gens : PromptDelivered(l, g)
  \/ \E l \in Triggers, g \in Gens : PromptFails(l, g)
  \/ \E p \in Supervisors, g \in Gens : NoticeDelivered(p, g)
  \/ \E p \in Supervisors, g \in Gens, later \in BOOLEAN : NoticeFails(p, g, later)

Next ==
  \/ \E p \in Panes : AgentCompletes(p)
  \/ \E p \in Panes, state \in Changes \ {"unknown"} : AgentChanges(p, state)
  \/ \E p \in Panes : AgentReported(p)
  \/ \E p \in Panes : AgentLeaves(p)
  \/ \E p \in Panes : AgentStarts(p)
  \/ ConnectionChanges
  \/ \E p \in Panes : BusyExpires(p)
  \/ \E l \in Triggers : SpellHolds(l)
  \/ \E l \in Triggers : WaitTooLong(l)
  \/ \E p \in Supervisors : NoticeDue(p)
  \/ Sent
  \/ \E change \in scenario.calls : Call(change)
  \/ Written
  \/ WriteFails
  \/ Stop
  \/ Start

Spec == Init /\ [][Next]_vars

-----------------------------------------------------------------------------
(* Properties.                                                             *)

\* A completion, or a blocked spell that has lasted, gets one answer: sent,
\* skipped or failed, or a newer one takes its place.  What has none yet is the
\* firing that waits or the one that is being sent, never both forgotten or both
\* answered twice.
EachFiringAnsweredOnce ==
  \A l \in live :
    open[l] = (IF rt[l].waiting THEN 1 ELSE 0) + (IF sends[l][gen] # "none" THEN 1 ELSE 0)

\* A link waits only while its target cannot take a prompt, and what is only assumed
\* of a target has an end in sight - five seconds, or the send that is the reason:
\* nobody sleeps on when the target has become free.
NoLostWakeup ==
  \A l \in live : rt[l].waiting =>
    LET why == busy[Def[l].to]
    IN  \/ Status(State, Def[l].to).state \notin {"idle", "absent"}
        \/ why # NotBusy /\ (why.settled \/ sends[why.by][why.gen] # "none")

\* While a target is being sent to, and for five seconds after, it gets no second
\* prompt, unless its real state comes meanwhile (docs/agent-graph.md:81, GraphEngine.ts:70).
OneAtATime == doubled \subseteq shown

\* A pane gets a second prompt only if, since it was last free, one of these happened.
\* Someone was shown it as it is and not as it is assumed: when five seconds ended, all who
\* wait for it, of whom the first makes it busy again; a link or notifier made meanwhile;
\* a notifier, when the connection comes back.  Or the engine gave up what it assumed while
\* a send was under way: a real status of the pane came (which docs/agent-graph.md:81
\* allows), its connection changed, or the engine stopped.  Or the pane was not there when
\* the first send began.
OneAtATimeOtherwise == doubled \subseteq excused

\* Since it was last resumed a link has delivered no more prompts than its limit, but for
\* those that left before an earlier one was counted, and one for each count whose write
\* failed.  docs/agent-graph.md:93 and 113 know no such exceptions.
LimitKept ==
  \A l \in Triggers : tally[l].sent <= Def[l].limit + tally[l].early + tally[l].lost

\* No prompt leaves for a link that is removed, paused or used up, nor from an
\* engine that has stopped, however long the screen took to read.
OnlyAllowedPromptsLeave ==
  [][\A l \in Triggers, g \in Gens :
       LET link == graph'.links[l]
       IN  sends[l][g] # "prompt" /\ sends'[l][g] = "prompt" =>
             /\ g = gen' /\ running'
             /\ link.state = "there" /\ link.count < Def[l].limit
             /\ ~graph'.paused /\ link.paused = "no"]_vars

\* A supervisor has been told of its subordinates as they are, and is the agent that was
\* told, or will be: a notice about just that is due or under way.  The exception is one
\* that failed for a reason for which it is not tried again.
NoticeOwed ==
  \A p \in Supervisors :
    sup[p] # NoNotifier /\ sup[p].inst # 0 /\ sup[p].dirty = "no" =>
      /\ notice[p].inst = sup[p].inst /\ notice[p].subs = sup[p].subs
      /\ \/ notice[p].outcome \in {"told", "given up"}
         \/ notice[p].outcome = "under way" /\ sends[p][gen] = "prompt"

=============================================================================
