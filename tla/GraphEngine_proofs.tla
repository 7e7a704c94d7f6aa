------------------------- MODULE GraphEngine_proofs -------------------------
(***************************************************************************)
(* Proofs about the graph engine, for any panes, links and scenarios and   *)
(* runs of any length.                                                     *)
(***************************************************************************)
EXTENDS GraphEngine, TLAPS, NaturalsInduction, WellFoundedInduction, SequenceTheorems,
        FiniteSetTheorems

\* The values the variables have.
Agents == [inst : Nat, state : AgentStates, seq : Nat]
Trigger == [on : {"done", "blocked"}, whenBusy : {"skip", "wait"}, suppress : Suppressions,
            base : [inst : Nat, seq : Nat], spell : {"none", "fresh", "handled"},
            target : {"absent", "blocked", "ready", "busy"}, waiting : BOOLEAN]
Notifier == [inst : Nat, idle : BOOLEAN, paused : BOOLEAN, dirty : {"no", "fresh", "due"},
             subs : SUBSET Supervise]
Notice == [inst : Nat, subs : SUBSET Supervise,
           outcome : {"none", "under way", "told", "given up"}]
Tally == [sent : Nat, early : Nat, lost : Nat]
Stored == [paused : BOOLEAN,
           links : [Links -> [state : {"new", "there", "gone"}, paused : {"no", "user", "limit"},
                              count : Nat]]]

Tracked == [Panes -> Agents]
Stores == (Requests \cup {"count"}) \X Links
Queues == Seq(Stores)
Runtimes == [Triggers -> Trigger]
Assumed == [Panes -> [by : Senders \cup {"nobody"}, gen : Gens, settled : BOOLEAN,
                     inst : Nat, seq : Nat]]
Sendings == [Senders -> [Gens -> {"none", "tail", "prompt"}]]
Notifiers == [Supervisors -> Notifier]
Firings == [Triggers -> Int]
Notices == [Supervisors -> Notice]
Early == SUBSET (Triggers \X Gens)
Tallies == [Triggers -> Tally]

Engine ==
  [agent : Tracked, up : BOOLEAN, graph : Stored, queue : Queues, gen : Gens, running : BOOLEAN,
   live : SUBSET Triggers, rt : Runtimes, busy : Assumed, sends : Sendings, sup : Notifiers,
   open : Firings, notice : Notices, early : Early, tally : Tallies,
   doubled : SUBSET Panes, excused : SUBSET Panes, shown : SUBSET Panes]

\* Whoever is there has a number.
Numbered(e) == \A p \in Panes : e.agent[p].inst # 0

\* A prompt of the link l is on its way, or delivered and not counted: one of these.
InFlight(e, l) == {g \in Gens : e.sends[l][g] = "prompt"}
ToCount(e, l) == {i \in DOMAIN e.queue : e.queue[i] = <<"count", l>>}

\* A prompt on its way that left when all earlier ones were counted.
InTime(e, l) == {g \in InFlight(e, l) : <<l, g>> \notin e.early}

\* The link has the tally t, and count is what is written: what it sent is counted, to be
\* counted or lost, and what leaves in time leaves alone and is within the limit.
Bounded(e, l, t) ==
  /\ e.graph.links[l].state # "gone" =>
       t.sent <= e.graph.links[l].count + Cardinality(ToCount(e, l)) + t.lost
  /\ e.graph.links[l].state = "new" => t.sent = 0 /\ InFlight(e, l) = {}
  /\ \A g, h \in InTime(e, l) : g = h
  /\ t.sent <= Def[l].limit + t.early + t.lost
  /\ InTime(e, l) # {} => t.sent + 1 <= Def[l].limit + t.early + t.lost

Limited(e) == \A l \in Triggers : Bounded(e, l, e.tally[l])

\* A notifier that has nothing to tell: its last notice, which is about what it knows, was
\* given, or is being given.
Tells(s, t, sending) ==
  s.inst # 0 /\ s.dirty = "no" =>
    /\ t.inst = s.inst /\ t.subs = s.subs
    /\ t.outcome \in {"told", "given up"} \/ (t.outcome = "under way" /\ sending)

\* The notice of p is under way, or in hand.
Telling(e, p, O) == e.sends[p][e.gen] = "prompt" \/ p \in O

Informed(e, O) ==
  \A p \in Supervisors :
    e.sup[p] # NoNotifier => Tells(e.sup[p], e.notice[p], Telling(e, p, O))

\* Nothing is sent in generations to come, nor by an engine that has stopped.
Later(e) ==
  \A k \in Senders, g \in Gens : g > e.gen \/ (g = e.gen /\ ~e.running) => e.sends[k][g] = "none"

\* What is assumed busy has a send under way (or in hand, of O), or its time is running.
Explained(e, O) ==
  \A p \in Panes : e.busy[p] # NotBusy =>
    LET b == e.busy[p]
    IN  /\ b.by \in Senders /\ TargetOf(b.by) = p /\ b.inst # 0
        /\ b.settled \/ e.sends[b.by][b.gen] # "none" \/ (b.by \in O /\ b.gen = e.gen)

\* A completion that the link has not been told of.
Due(e, l, t) ==
  LET a == Status(e, Def[l].from)
  IN  IF t.on = "done" /\ a.state # "absent" /\ t.base.inst = a.inst /\ a.seq > t.base.seq
      THEN 1 ELSE 0

\* A firing that waits, one that is being sent.
Waits(t) == IF t.waiting THEN 1 ELSE 0
InHand(e, l, O) == IF e.sends[l][e.gen] # "none" \/ l \in O THEN 1 ELSE 0

\* The link l may have the trigger t: it knows its source, unless it is in U, and whoever
\* waits has reason to, unless it is in V.  X are panes about to be sent a second prompt.
Fits(e, l, t, U, V, X) ==
  /\ t.on = Def[l].on
  /\ l \notin U => t.base = Base(Status(e, Def[l].from))
  /\ l \notin V => (t.waiting \/ t.target = "busy" =>
                      \/ Status(e, Def[l].to).state \notin {"idle", "absent"}
                      \/ e.busy[Def[l].to] # NotBusy)
  /\ e.busy[Def[l].to] # NotBusy /\ Def[l].to \notin e.excused \cup X => t.target # "ready"

\* With n firings open.
Linked(e, l, t, n, U, V, X, O) ==
  /\ Fits(e, l, t, U, V, X)
  /\ n = Waits(t) + Due(e, l, t) + InHand(e, l, O)

Served(e, U, V, X, O) ==
  /\ \A l \in e.live : Linked(e, l, e.rt[l], e.open[l], U, V, X, O)
  /\ \A l \in e.live : e.graph.links[l].state # "new"
  /\ \A l \in Triggers \ e.live :
       /\ e.open[l] = 0
       /\ e.sends[l][e.gen] # "none" => e.graph.links[l].state = "gone"

\* The send of k, of this generation g, is why its target is assumed busy.
Owns(e, k, g) ==
  LET b == e.busy[TargetOf(k)] IN b.by = k /\ b.gen = g /\ ~b.settled

\* But for excused targets every send has its own, and a second send goes to none of these.
Owned(e, X) ==
  \A k \in Senders, g \in Gens :
    e.sends[k][g] # "none" /\ TargetOf(k) \notin e.excused \cup X => Owns(e, k, g)

Careful(e, X) ==
  /\ \A p \in Supervisors : e.busy[p] # NotBusy /\ p \notin e.excused \cup X => ~e.sup[p].idle
  /\ e.doubled \subseteq e.excused \cup X
  /\ Owned(e, X)

\* In the middle of a turn: U are the links not told of their sources yet, V those not
\* told of their targets, X the panes whose second prompt is still to be excused, and O
\* the link that has decided to send and has not begun.
Good(e, U, V, X, O) ==
  /\ e \in Engine
  /\ Numbered(e) /\ Limited(e) /\ Informed(e, O) /\ Later(e)
  /\ Explained(e, O) /\ Served(e, U, V, X, O) /\ Careful(e, X)

LiveThere(e) == \A l \in e.live : There(e, l)

\* What a turn leaves.
Sound(f) ==
  /\ Good(f, {}, {}, {}, {})
  /\ LiveThere(f)
  /\ ~f.running => f.live = {}

IInv == Sound(State) /\ scenario \in Scenarios

-----------------------------------------------------------------------------
(* Link after link.                                                        *)

N == Len(LinkSeq)

LEMMA NNat == N \in Nat
  BY GraphAssumption, LenProperties DEF N, GraphAssumption

LEMMA Least == ASSUME NEW T \in SUBSET Nat, T # {} PROVE \E x \in T : \A y \in T : x <= y
<1> DEFINE R == OpToRel(<, Nat)
<1>1. IsWellFoundedOn(R, Nat)
  BY NatLessThanWellFounded, Zenon
<1>2. \A x, y \in Nat : <<y, x>> \in R <=> y < x
  BY DEF OpToRel
<1> HIDE DEF R
<1>3. PICK x \in T : \A y \in T : ~ (<<y, x>> \in R)
  BY <1>1, WFMin
<1>4. ASSUME NEW y \in T PROVE x <= y
  <2>1. ~ (y < x)
    BY <1>2, <1>3
  <2> QED BY <2>1
<1> QED BY <1>4

\* Counting from 0 to n.
LEMMA Counting ==
  ASSUME NEW n \in Nat, NEW B \in SUBSET Nat, 0 \in B, \A i \in 1 .. n : i - 1 \in B => i \in B
  PROVE  \A i \in 0 .. n : i \in B
<1> DEFINE T == {i \in 0 .. n : i \notin B}
<1> SUFFICES ASSUME T # {} PROVE FALSE
  OBVIOUS
<1>1. T \in SUBSET Nat
  OBVIOUS
<1>2. PICK x \in T : \A y \in T : x <= y
  BY <1>1, Least, Zenon
<1>3. x # 0 /\ x \in 0 .. n /\ x \notin B
  OBVIOUS
<1>4. x \in 1 .. n /\ x - 1 \in 0 .. n /\ ~(x <= x - 1)
  BY <1>3
<1>5. x - 1 \notin T
  BY <1>2, <1>4
<1>6. x - 1 \in B
  BY <1>4, <1>5
<1> QED BY <1>3, <1>4, <1>6

\* What each listener leaves for the next one.
Passed(f, e, listeners, news, n) ==
  f = [i \in 0 .. n |-> IF i = 0 THEN e ELSE Hears(f[i - 1], listeners[i], news)]

LEMMA PassedExists ==
  ASSUME NEW e, NEW listeners, NEW news, NEW m \in Nat
  PROVE  \E f : Passed(f, e, listeners, news, m)
<1> DEFINE B == {n \in Nat : \E f : Passed(f, e, listeners, news, n)}
<1>1. 0 \in B
  <2> DEFINE f == [i \in 0 .. 0 |-> e]
  <2>1. Passed(f, e, listeners, news, 0)
    BY DEF Passed
  <2> QED BY <2>1, Zenon
<1>2. ASSUME NEW n \in 1 .. m, n - 1 \in B PROVE n \in B
  <2>1. PICK f : Passed(f, e, listeners, news, n - 1)
    BY <1>2
  <2> DEFINE h == [i \in 0 .. n |-> IF i = n THEN Hears(f[n - 1], listeners[n], news) ELSE f[i]]
  <2>2. \A i \in 0 .. n - 1 : h[i] = f[i]
    BY Z3
  <2>3. f = [i \in 0 .. n - 1 |-> IF i = 0 THEN e ELSE Hears(f[i - 1], listeners[i], news)]
    BY <2>1 DEF Passed
  <2>4. ASSUME NEW i \in 0 .. n
        PROVE  h[i] = IF i = 0 THEN e ELSE Hears(h[i - 1], listeners[i], news)
    <3>1. CASE i = n
      <4>1. h[i] = Hears(f[n - 1], listeners[n], news)
        BY <3>1
      <4>2. h[i - 1] = f[n - 1]
        BY <3>1, <2>2
      <4> QED BY <3>1, <4>1, <4>2
    <3>2. CASE i # n /\ i # 0
      <4>1. i \in 0 .. n - 1 /\ i - 1 \in 0 .. n - 1
        BY <3>2
      <4>2. h[i] = f[i] /\ h[i - 1] = f[i - 1]
        BY <4>1, <2>2
      <4>3. f[i] = Hears(f[i - 1], listeners[i], news)
        BY <2>3, <4>1, <3>2, Zenon
      <4> QED BY <4>2, <4>3, <3>2, Zenon
    <3>3. CASE i # n /\ i = 0
      <4>1. i \in 0 .. n - 1
        BY <3>3
      <4>2. h[i] = f[i]
        BY <4>1, <2>2
      <4>3. f[i] = e
        BY <2>3, <4>1, <3>3, Zenon
      <4> QED BY <4>2, <4>3, <3>3, Zenon
    <3> QED BY <3>1, <3>2, <3>3
  <2> HIDE DEF h
  <2>5. h = [i \in 0 .. n |-> h[i]]
    BY DEF h
  <2>6. Passed(h, e, listeners, news, n)
    BY <2>4, <2>5, Zenon DEF Passed
  <2> QED BY <2>6
<1> HIDE DEF B
<1>3. B \in SUBSET Nat
  BY DEF B
<1>4. \A i \in 0 .. m : i \in B
  BY <1>1, <1>2, <1>3, Counting
<1> QED BY <1>4, m \in 0 .. m DEF B

LEMMA TellSteps ==
  ASSUME NEW e, NEW listeners, NEW news
  PROVE  \E h : /\ h[0] = e /\ Tell(e, listeners, news) = h[N]
                /\ \A n \in 1 .. N : h[n] = Hears(h[n - 1], listeners[n], news)
<1> DEFINE h == CHOOSE f : Passed(f, e, listeners, news, N)
<1>1. Passed(h, e, listeners, news, N)
  BY PassedExists, NNat
<1>2. h = [i \in 0 .. N |-> IF i = 0 THEN e ELSE Hears(h[i - 1], listeners[i], news)]
  BY <1>1 DEF Passed
<1>3. Tell(e, listeners, news) = h[N]
  BY Zenon DEF Tell, Passed, N
<1> HIDE DEF h
<1>4. \A i \in 0 .. N : h[i] = IF i = 0 THEN e ELSE Hears(h[i - 1], listeners[i], news)
  BY <1>2, Zenon
<1>5. h[0] = e
  BY <1>4, NNat
<1>6. ASSUME NEW n \in 1 .. N PROVE h[n] = Hears(h[n - 1], listeners[n], news)
  <2>1. n \in 0 .. N /\ n # 0
    BY NNat
  <2> QED BY <2>1, <1>4
<1> QED BY <1>3, <1>5, <1>6, Zenon

-----------------------------------------------------------------------------
(* The trigger: what every answer keeps, and who waits after it.           *)

\* k firings came in; each of those, and the one that waited, waits, was replaced,
\* or has an answer.
Answers(t, r, k) ==
  /\ r.trigger \in Trigger /\ r.replaced \in BOOLEAN /\ r.trigger.on = t.on
  /\ Waits(r.trigger) + (IF r.decision \in {"none", "wait"} THEN 0 ELSE 1)
       + (IF r.replaced THEN 1 ELSE 0) = Waits(t) + k
  /\ r.decision = "send" => r.trigger.target = "ready"

LEMMA TriggerFields ==
  ASSUME NEW t \in Trigger
  PROVE  /\ t.on \in {"done", "blocked"} /\ t.whenBusy \in {"skip", "wait"}
         /\ t.suppress \in Suppressions /\ t.base \in [inst : Nat, seq : Nat]
         /\ t.base.inst \in Nat /\ t.base.seq \in Nat
         /\ t.spell \in {"none", "fresh", "handled"}
         /\ t.target \in {"absent", "blocked", "ready", "busy"} /\ t.waiting \in BOOLEAN
  BY DEF Trigger

LEMMA FireAnswers ==
  ASSUME NEW t \in Trigger
  PROVE  /\ Answers(t, Fire(t), 1)
         /\ Fire(t).trigger.base = t.base /\ Fire(t).trigger.target = t.target
         /\ Fire(t).trigger.waiting => t.target = "busy"
<1> DEFINE answer == CASE t.suppress # "no"                        -> t.suppress
                  [] t.suppress = "no" /\ t.target = "absent"  -> "target_absent"
                  [] t.suppress = "no" /\ t.target = "blocked" -> "blocked"
                  [] t.suppress = "no" /\ t.target = "ready"   -> "send"
                  [] OTHER -> IF t.whenBusy = "skip" THEN "busy" ELSE "wait"
           u == [t EXCEPT !.waiting = (answer = "wait")]
<1>1. Fire(t) = [trigger |-> u, decision |-> answer, replaced |-> t.waiting]
  BY DEF Fire
<1>2. /\ answer # "none"
      /\ answer = "send" => t.target = "ready"
      /\ answer = "wait" => t.target = "busy"
  BY TriggerFields DEF Suppressions
<1> HIDE DEF answer
<1>3. /\ u \in Trigger /\ u.on = t.on /\ u.base = t.base /\ u.target = t.target
      /\ u.waiting = (answer = "wait")
  BY DEF Trigger
<1>4. t.waiting \in BOOLEAN
  BY TriggerFields
<1> HIDE DEF u
<1>5. CASE answer = "wait"
  <2>1. u.waiting = TRUE
    BY <1>3, <1>5
  <2> QED BY <1>1, <1>2, <1>3, <1>4, <1>5, <2>1 DEF Answers, Waits
<1>6. CASE answer # "wait"
  <2>1. u.waiting = FALSE
    BY <1>3, <1>6
  <2> QED BY <1>1, <1>2, <1>3, <1>4, <1>6, <2>1 DEF Answers, Waits
<1> QED BY <1>5, <1>6

LEMMA ObserveSourceAnswers ==
  ASSUME NEW t \in Trigger, NEW a \in Agents, a.state = "absent" => a = Nobody
  PROVE  /\ Answers(t, ObserveSource(t, a),
                    IF /\ t.on = "done" /\ a.state # "absent" /\ t.base.inst = a.inst
                       /\ a.seq > t.base.seq THEN 1 ELSE 0)
         /\ ObserveSource(t, a).trigger.base = Base(a)
         /\ ObserveSource(t, a).trigger.target = t.target
         /\ ObserveSource(t, a).trigger.waiting => t.waiting \/ t.target = "busy"
<1> DEFINE completed == a.seq > t.base.seq
           resolved == a.state # "blocked" /\ t.on = "blocked" /\ t.waiting
           spell == CASE a.state # "blocked"                     -> "none"
                      [] a.state = "blocked" /\ t.spell = "none" -> "fresh"
                      [] OTHER                                   -> t.spell
           seen == [t EXCEPT !.base = Base(a), !.spell = spell]
           gone == [t EXCEPT !.base = NoBase, !.spell = "none"]
           r == ObserveSource(t, a)
<1>1. r = IF a.state = "absent" THEN ResolveBlockedWait(gone)
          ELSE IF t.base.inst # a.inst THEN Decide(Baseline(t, a), "none")
          ELSE IF resolved THEN ResolveBlockedWait(seen)
          ELSE IF completed /\ t.on = "done" THEN Fire(seen)
          ELSE Decide(seen, "none")
  BY DEF ObserveSource
<1>2. Base(a) \in [inst : Nat, seq : Nat] /\ NoBase \in [inst : Nat, seq : Nat]
  BY DEF Base, NoBase, Agents
<1>3. spell \in {"none", "fresh", "handled"}
  BY TriggerFields
<1> HIDE DEF spell, r
<1>4. /\ seen \in Trigger /\ seen.on = t.on /\ seen.base = Base(a) /\ seen.target = t.target
      /\ seen.waiting = t.waiting
  BY <1>2, <1>3 DEF Trigger
<1>5. /\ gone \in Trigger /\ gone.on = t.on /\ gone.base = NoBase /\ gone.target = t.target
      /\ gone.waiting = t.waiting
  BY <1>2 DEF Trigger
<1> HIDE DEF seen, gone
<1>6. ASSUME NEW u \in Trigger
      PROVE  /\ Answers(u, ResolveBlockedWait(u), 0)
             /\ ResolveBlockedWait(u).trigger.base = u.base
             /\ ResolveBlockedWait(u).trigger.target = u.target
             /\ ResolveBlockedWait(u).trigger.waiting => u.waiting
  <2> DEFINE w == [u EXCEPT !.waiting = FALSE]
  <2>1. w \in Trigger /\ w.on = u.on /\ w.base = u.base /\ w.target = u.target /\ w.waiting = FALSE
    BY DEF Trigger
  <2>2. ResolveBlockedWait(u) = IF u.on = "blocked" /\ u.waiting THEN Decide(w, "resolved")
                                ELSE Decide(u, "none")
    BY DEF ResolveBlockedWait
  <2>3. u.waiting \in BOOLEAN
    BY TriggerFields
  <2> HIDE DEF w
  <2> QED BY <2>1, <2>2, <2>3 DEF Decide, Answers, Waits
<1>7. t.waiting \in BOOLEAN /\ t.on \in {"done", "blocked"}
  BY TriggerFields
<1>8. CASE a.state = "absent"
  <2>1. Base(a) = NoBase
    BY <1>8 DEF Nobody, Base, NoBase
  <2>2. r = ResolveBlockedWait(gone)
    BY <1>1, <1>8
  <2> QED BY <2>1, <2>2, <1>5, <1>6, <1>8, <1>7 DEF Answers, Waits, r
<1>9. CASE a.state # "absent" /\ t.base.inst # a.inst
  <2> DEFINE u == Baseline(t, a)
  <2>1. u \in Trigger /\ u.on = t.on /\ u.base = Base(a) /\ u.target = t.target /\ u.waiting = t.waiting
    BY <1>2 DEF Baseline, Trigger
  <2>2. r = Decide(u, "none")
    BY <1>1, <1>9
  <2> HIDE DEF u
  <2> QED BY <2>1, <2>2, <1>9, <1>7 DEF Decide, Answers, Waits, r
<1>10. CASE a.state # "absent" /\ t.base.inst = a.inst /\ resolved
  <2>1. r = ResolveBlockedWait(seen)
    BY <1>1, <1>10
  <2>2. /\ Answers(seen, ResolveBlockedWait(seen), 0)
        /\ ResolveBlockedWait(seen).trigger.base = seen.base
        /\ ResolveBlockedWait(seen).trigger.target = seen.target
        /\ ResolveBlockedWait(seen).trigger.waiting => seen.waiting
    BY <1>4, <1>6
  <2>3. t.on # "done"
    BY <1>10
  <2> QED BY <2>1, <2>2, <2>3, <1>4, <1>7 DEF Answers, Waits, r
<1>11. CASE a.state # "absent" /\ t.base.inst = a.inst /\ ~resolved /\ completed /\ t.on = "done"
  <2>1. r = Fire(seen)
    BY <1>1, <1>11
  <2>2. /\ Answers(seen, Fire(seen), 1)
        /\ Fire(seen).trigger.base = seen.base /\ Fire(seen).trigger.target = seen.target
        /\ Fire(seen).trigger.waiting => seen.target = "busy"
    BY <1>4, FireAnswers
  <2> QED BY <2>1, <2>2, <1>4, <1>11, <1>7 DEF Answers, Waits, r
<1>12. CASE a.state # "absent" /\ t.base.inst = a.inst /\ ~resolved /\ ~(completed /\ t.on = "done")
  <2>1. r = Decide(seen, "none")
    BY <1>1, <1>12
  <2> QED BY <2>1, <1>4, <1>12, <1>7 DEF Decide, Answers, Waits, r
<1> QED BY <1>8, <1>9, <1>10, <1>11, <1>12, Zenon

LEMMA SeeTargetAnswers ==
  ASSUME NEW t \in Trigger, NEW a
  PROVE  /\ Answers(t, SeeTarget(t, a), 0)
         /\ SeeTarget(t, a).trigger.base = t.base
         /\ SeeTarget(t, a).trigger.target = Verdict(a)
         /\ SeeTarget(t, a).trigger.waiting => Verdict(a) \notin {"absent", "ready"}
         /\ Verdict(a) = "busy" => SeeTarget(t, a).trigger = [t EXCEPT !.target = "busy"]
<1> DEFINE seen == [t EXCEPT !.target = Verdict(a)]
           over == [seen EXCEPT !.waiting = FALSE]
           sent == [over EXCEPT !.spell = IF @ = "none" THEN @ ELSE "handled"]
<1>1. SeeTarget(t, a) =
        CASE t.waiting /\ seen.target = "absent" -> Decide(over, "target_absent")
          [] t.waiting /\ seen.target = "ready"  -> Decide(sent, "send")
          [] OTHER                               -> Decide(seen, "none")
  BY DEF SeeTarget
<1>2. Verdict(a) \in {"absent", "blocked", "ready", "busy"}
  BY DEF Verdict
<1>3. /\ seen \in Trigger /\ seen.on = t.on /\ seen.base = t.base /\ seen.target = Verdict(a)
      /\ seen.waiting = t.waiting
  BY <1>2 DEF Trigger
<1>4. /\ over \in Trigger /\ over.on = t.on /\ over.base = t.base /\ over.target = Verdict(a)
      /\ over.waiting = FALSE
  BY <1>2 DEF Trigger
<1>5. over.spell \in {"none", "fresh", "handled"}
  BY <1>4, TriggerFields
<1> HIDE DEF over
<1>6. /\ sent \in Trigger /\ sent.on = t.on /\ sent.base = t.base /\ sent.target = Verdict(a)
      /\ sent.waiting = FALSE
  BY <1>4, <1>5 DEF Trigger
<1>7. t.waiting \in BOOLEAN
  BY TriggerFields
<1>8. Verdict(a) = "busy" => seen = [t EXCEPT !.target = "busy"]
  OBVIOUS
<1> HIDE DEF seen, sent
<1> QED BY <1>1, <1>2, <1>3, <1>4, <1>6, <1>7, <1>8 DEF Decide, Answers, Waits

LEMMA ConfigureAnswers ==
  ASSUME NEW t \in Trigger, NEW s \in Suppressions
  PROVE  /\ Answers(t, Configure(t, s), 0) /\ Configure(t, s).decision # "send"
         /\ Configure(t, s).trigger.base = t.base /\ Configure(t, s).trigger.target = t.target
         /\ Configure(t, s).trigger.waiting => t.waiting
<1> DEFINE u == [t EXCEPT !.suppress = s]
           over == [t EXCEPT !.suppress = s, !.waiting = FALSE]
<1>1. Configure(t, s) = IF t.waiting /\ s # "no" THEN Decide(over, s) ELSE Decide(u, "none")
  BY DEF Configure
<1>2. /\ u \in Trigger /\ u.on = t.on /\ u.base = t.base /\ u.target = t.target
      /\ u.waiting = t.waiting
  BY DEF Trigger
<1>3. /\ over \in Trigger /\ over.on = t.on /\ over.base = t.base /\ over.target = t.target
      /\ over.waiting = FALSE
  BY DEF Trigger
<1>4. t.waiting \in BOOLEAN /\ s \notin {"none", "wait", "send"}
  BY TriggerFields DEF Suppressions
<1> HIDE DEF u, over
<1> QED BY <1>1, <1>2, <1>3, <1>4 DEF Decide, Answers, Waits

LEMMA WaitExpiresAnswers ==
  ASSUME NEW t \in Trigger, t.waiting
  PROVE  /\ Answers(t, WaitExpires(t), 0) /\ WaitExpires(t).decision # "send"
         /\ WaitExpires(t).trigger.base = t.base /\ WaitExpires(t).trigger.target = t.target
         /\ ~WaitExpires(t).trigger.waiting
<1> DEFINE over == [t EXCEPT !.waiting = FALSE]
<1>1. WaitExpires(t) = Decide(over, "busy_timeout")
  BY DEF WaitExpires
<1>2. /\ over \in Trigger /\ over.on = t.on /\ over.base = t.base /\ over.target = t.target
      /\ over.waiting = FALSE
  BY DEF Trigger
<1> HIDE DEF over
<1> QED BY <1>1, <1>2 DEF Decide, Answers, Waits

LEMMA HoldElapsesAnswers ==
  ASSUME NEW t \in Trigger
  PROVE  /\ Answers(t, HoldElapses(t), 1)
         /\ HoldElapses(t).trigger.base = t.base /\ HoldElapses(t).trigger.target = t.target
         /\ HoldElapses(t).trigger.waiting => t.target = "busy"
<1> DEFINE u == [t EXCEPT !.spell = "handled"]
<1>1. u \in Trigger /\ u.on = t.on /\ u.base = t.base /\ u.target = t.target /\ u.waiting = t.waiting
  BY DEF Trigger
<1>2. HoldElapses(t) = Fire(u)
  BY DEF HoldElapses
<1> HIDE DEF u
<1>3. /\ Answers(u, Fire(u), 1)
      /\ Fire(u).trigger.base = u.base /\ Fire(u).trigger.target = u.target
      /\ Fire(u).trigger.waiting => u.target = "busy"
  BY <1>1, FireAnswers
<1> QED BY <1>1, <1>2, <1>3 DEF Answers, Waits

-----------------------------------------------------------------------------
(* The engine.                                                             *)

LEMMA Ends ==
  /\ Triggers \subseteq Links /\ Supervise \subseteq Links /\ Supervisors \subseteq Panes
  /\ Senders = Triggers \cup Supervisors
  /\ \A l \in Links : /\ Def[l].from \in Panes /\ Def[l].to \in Panes
                      /\ Def[l].limit \in Nat \ {0} /\ Def[l].on \in {"done", "blocked"}
                      /\ Def[l].whenBusy \in {"skip", "wait"}
  /\ \A l \in Triggers : TargetOf(l) = Def[l].to /\ l \notin Panes /\ l \in Senders
  /\ \A p \in Supervisors : TargetOf(p) = p /\ p \notin Links /\ p \in Senders
  /\ "nobody" \notin Senders \cup Links
<1>1. \A l \in Links : /\ Def[l].from \in Panes /\ Def[l].to \in Panes
                       /\ Def[l].limit \in Nat \ {0} /\ Def[l].on \in {"done", "blocked"}
                      /\ Def[l].whenBusy \in {"skip", "wait"}
  BY GraphAssumption DEF GraphAssumption
<1>2. Triggers \subseteq Links /\ Supervise \subseteq Links
  BY DEF Triggers, Supervise
<1>3. Supervisors \subseteq Panes
  BY <1>1, <1>2 DEF Supervisors
<1>4. Panes \cap Links = {} /\ "nobody" \notin Panes \cup Links
  BY GraphAssumption DEF GraphAssumption
<1> QED BY <1>1, <1>2, <1>3, <1>4 DEF Senders, TargetOf

LEMMA EngineFields ==
  ASSUME NEW e \in Engine
  PROVE  /\ e.agent \in [Panes -> Agents] /\ e.up \in BOOLEAN /\ e.graph \in Stored
         /\ e.queue \in Seq((Requests \cup {"count"}) \X Links) /\ e.gen \in Gens
         /\ e.running \in BOOLEAN /\ e.live \in SUBSET Triggers /\ e.rt \in [Triggers -> Trigger]
         /\ e.busy \in [Panes -> [by : Senders \cup {"nobody"}, gen : Gens, settled : BOOLEAN,
                                  inst : Nat, seq : Nat]]
         /\ e.sends \in [Senders -> [Gens -> {"none", "tail", "prompt"}]]
         /\ e.sup \in [Supervisors -> Notifier] /\ e.open \in [Triggers -> Int]
         /\ e.notice \in [Supervisors -> Notice] /\ e.early \in SUBSET (Triggers \X Gens)
         /\ e.tally \in [Triggers -> Tally]
         /\ e.doubled \in SUBSET Panes /\ e.excused \in SUBSET Panes /\ e.shown \in SUBSET Panes
<1>1. /\ e.agent \in Tracked /\ e.up \in BOOLEAN /\ e.graph \in Stored /\ e.queue \in Queues
      /\ e.gen \in Gens /\ e.running \in BOOLEAN /\ e.live \in SUBSET Triggers
      /\ e.rt \in Runtimes /\ e.busy \in Assumed /\ e.sends \in Sendings
      /\ e.sup \in Notifiers /\ e.open \in Firings /\ e.notice \in Notices
      /\ e.early \in Early /\ e.tally \in Tallies
      /\ e.doubled \in SUBSET Panes /\ e.excused \in SUBSET Panes /\ e.shown \in SUBSET Panes
  BY DEF Engine
<1> QED BY <1>1, Zenon DEF Tracked, Stores, Queues, Runtimes, Assumed, Sendings, Notifiers, Firings,
                           Notices, Early, Tallies

\* The same history of the sends of links.
SameTally(e, f) == f.early = e.early /\ f.tally = e.tally

\* The same world around the engine.
SameWorld(e, f) ==
  /\ f.agent = e.agent /\ f.up = e.up /\ f.graph = e.graph /\ f.queue = e.queue
  /\ f.gen = e.gen /\ f.running = e.running

\* The link l may send.
Allowed(gr, l) ==
  /\ gr.links[l].state = "there" /\ gr.links[l].count < Def[l].limit
  /\ ~gr.paused /\ gr.links[l].paused = "no"

\* What a part of a turn does to what the rest of it rests on.
Turn(e, f) ==
  /\ SameWorld(e, f)
  /\ e.live \subseteq f.live /\ \A l \in f.live \ e.live : There(e, l)
  /\ \A p \in Panes : e.busy[p] # NotBusy => f.busy[p] # NotBusy
  /\ e.excused \subseteq f.excused
  /\ \A l \in Triggers, g \in Gens :
       e.sends[l][g] # "prompt" /\ f.sends[l][g] = "prompt" => g = e.gen /\ Allowed(e.graph, l)

LEMMA TurnTransitive ==
  ASSUME NEW e, NEW f, NEW h, Turn(e, f), Turn(f, h)
  PROVE  Turn(e, h)
  BY DEF Turn, SameWorld, There

LEMMA TurnReflexive == ASSUME NEW e PROVE Turn(e, e)
  BY DEF Turn, SameWorld

LEMMA WorldSame ==
  ASSUME NEW e, NEW f, SameWorld(e, f)
  PROVE  /\ \A p : Status(f, p) = Status(e, p) /\ Available(f, p) = Available(e, p)
         /\ \A l : There(f, l) = There(e, l)
         /\ \A l, t : Due(f, l, t) = Due(e, l, t)
  BY DEF SameWorld, Status, Available, There, Due

\* The parts of Good rest on few fields each.
LEMMA NumberedSame ==
  ASSUME NEW e, NEW f, f.agent = e.agent, Numbered(e)
  PROVE  Numbered(f)
  BY DEF Numbered

LEMMA LimitedSame ==
  ASSUME NEW e, NEW f, f.graph = e.graph, f.queue = e.queue, f.sends = e.sends,
         SameTally(e, f), Limited(e)
  PROVE  Limited(f)
<1>1. \A l : InFlight(f, l) = InFlight(e, l) /\ ToCount(f, l) = ToCount(e, l)
  BY DEF InFlight, ToCount
<1>2. \A l : InTime(f, l) = InTime(e, l)
  BY <1>1 DEF InTime, SameTally
<1> QED BY <1>1, <1>2 DEF Limited, Bounded, SameTally

LEMMA InformedSame ==
  ASSUME NEW e, NEW f, NEW O, f.sup = e.sup, f.notice = e.notice, f.gen = e.gen,
         f.sends = e.sends, Informed(e, O)
  PROVE  Informed(f, O)
  BY DEF Informed, Telling

LEMMA LaterSame ==
  ASSUME NEW e, NEW f, f.gen = e.gen, f.running = e.running, f.sends = e.sends, Later(e)
  PROVE  Later(f)
  BY DEF Later

LEMMA ExplainedSame ==
  ASSUME NEW e, NEW f, NEW O, f.gen = e.gen, f.busy = e.busy, f.sends = e.sends, Explained(e, O)
  PROVE  Explained(f, O)
  BY DEF Explained

LEMMA CarefulSame ==
  ASSUME NEW e, NEW f, NEW X, f.busy = e.busy, f.sup = e.sup, f.excused = e.excused,
         f.doubled = e.doubled, f.sends = e.sends, Careful(e, X)
  PROVE  Careful(f, X)
  BY DEF Careful, Owned, Owns

LEMMA StatusFacts ==
  ASSUME NEW e \in Engine, Numbered(e), NEW p \in Panes
  PROVE  /\ Status(e, p) \in Agents
         /\ Status(e, p).state = "absent" <=> Status(e, p) = Nobody
         /\ Status(e, p) # Nobody => Status(e, p).inst # 0
<1>1. e.agent[p] \in Agents
  BY EngineFields
<1>2. Nobody \in Agents /\ Nobody.state = "absent"
  BY DEF Nobody, Agents, AgentStates
<1> QED BY <1>1, <1>2 DEF Status, Numbered

-----------------------------------------------------------------------------
(* One link gets another trigger and another count.                        *)

\* f is e with the trigger t and n open firings for the link l.
Retriggered(e, f, l, t, n) ==
  /\ SameWorld(e, f)
  /\ f.live = e.live /\ f.busy = e.busy /\ f.sends = e.sends /\ f.sup = e.sup
  /\ f.notice = e.notice /\ f.doubled = e.doubled /\ f.excused = e.excused /\ SameTally(e, f)
  /\ f.rt = [e.rt EXCEPT ![l] = t] /\ f.open = [e.open EXCEPT ![l] = n]

LEMMA RetriggeredGood ==
  ASSUME NEW e, NEW f \in Engine, NEW l \in e.live, NEW t, NEW n, NEW U, NEW V, NEW X, NEW U2, NEW V2, NEW O2,
         Good(e, U, V, X, {}), Retriggered(e, f, l, t, n),
         U \subseteq U2 \cup {l}, V \subseteq V2 \cup {l}, O2 \subseteq {l},
         Linked(e, l, t, n, U2, V2, X, O2)
  PROVE  Good(f, U2, V2, X, O2) /\ Turn(e, f)
<1> e \in Engine
  BY DEF Good
<1> USE DEF Retriggered
<1>1. Numbered(f) /\ Limited(f) /\ Later(f) /\ Careful(f, X)
  BY NumberedSame, LimitedSame, LaterSame, CarefulSame DEF Good, SameWorld
<1>1a. Informed(f, O2)
  <2>1. Informed(e, {})
    BY DEF Good
  <2>2. /\ f.sup = e.sup /\ f.notice = e.notice
        /\ \A p : Telling(e, p, {}) => Telling(f, p, O2)
    BY DEF Telling, SameWorld
  <2> QED BY <2>1, <2>2 DEF Informed, Tells
<1>2. Explained(f, O2)
  BY DEF Good, Explained, SameWorld
<1>3. ASSUME NEW k \in f.live PROVE Linked(f, k, f.rt[k], f.open[k], U2, V2, X, O2)
  <2>1. /\ \A p : Status(f, p) = Status(e, p)
        /\ \A u : Due(f, k, u) = Due(e, k, u)
    BY WorldSame
  <2>2. CASE k = l
    <3>1. f.rt[k] = t /\ f.open[k] = n
      BY <2>2, EngineFields
    <3> QED BY <2>1, <2>2, <3>1 DEF Linked, Fits, InHand, SameWorld
  <2>3. CASE k # l
    <3>1. f.rt[k] = e.rt[k] /\ f.open[k] = e.open[k]
      BY <2>3, EngineFields
    <3>2. Linked(e, k, e.rt[k], e.open[k], U, V, X, {})
      BY DEF Good, Served
    <3> QED BY <2>1, <2>3, <3>1, <3>2 DEF Linked, Fits, InHand, SameWorld
  <2> QED BY <2>2, <2>3
<1>4. Served(f, U2, V2, X, O2)
  <2>1. \A k \in Triggers \ f.live : f.open[k] = e.open[k]
    BY EngineFields
  <2> QED BY <1>3, <2>1 DEF Good, Served, SameWorld
<1>5. Turn(e, f)
  BY DEF Turn, SameWorld
<1> QED BY <1>1, <1>1a, <1>2, <1>4, <1>5 DEF Good

-----------------------------------------------------------------------------
(* The parts of a send.                                                    *)

LEMMA SeeSupervisorFacts ==
  ASSUME NEW s \in Notifier, NEW a \in Agents
  PROVE  /\ SeeSupervisor(s, a) \in Notifier
         /\ SeeSupervisor(s, a).idle = (a.state = "idle")
         /\ SeeSupervisor(s, a).subs = s.subs /\ SeeSupervisor(s, a).inst = a.inst
         /\ SeeSupervisor(s, a).dirty = IF a # Nobody /\ a.inst # s.inst THEN "fresh" ELSE s.dirty
  BY DEF SeeSupervisor, Notifier, Agents

LEMMA SeeSupervisorTells ==
  ASSUME NEW s \in Notifier, NEW a \in Agents, NEW t, NEW sending, a = Nobody \/ a.inst # 0,
         Tells(s, t, sending)
  PROVE  Tells(SeeSupervisor(s, a), t, sending)
<1> DEFINE r == SeeSupervisor(s, a)
<1>1. a = Nobody => a.inst = 0
  BY DEF Nobody
<1>2. /\ r.subs = s.subs /\ r.inst = a.inst
      /\ r.dirty = IF a # Nobody /\ a.inst # s.inst THEN "fresh" ELSE s.dirty
  BY SeeSupervisorFacts
<1> HIDE DEF r
<1>3. r.inst # 0 /\ r.dirty = "no" => s.inst # 0 /\ s.dirty = "no" /\ s.inst = r.inst
  BY <1>1, <1>2
<1>4. Tells(r, t, sending)
  BY <1>2, <1>3 DEF Tells
<1> QED BY <1>4 DEF r

ToBusy(t) == [t EXCEPT !.target = "busy"]

LEMMA ToBusyFacts ==
  ASSUME NEW t \in Trigger
  PROVE  /\ ToBusy(t) \in Trigger /\ ToBusy(t).on = t.on /\ ToBusy(t).base = t.base
         /\ ToBusy(t).target = "busy" /\ ToBusy(t).waiting = t.waiting
  BY DEF Trigger, ToBusy

\* More panes are excused than before, by d rather than by X.
LEMMA ExcusedGood ==
  ASSUME NEW e, NEW d \in SUBSET Panes, NEW U, NEW V, NEW X, NEW X2, NEW O,
         Good(e, U, V, X, O), e.excused \subseteq d, X \subseteq d \cup X2
  PROVE  LET f == [e EXCEPT !.excused = d]
         IN  /\ Good(f, U, V, X2, O) /\ Turn(e, f) /\ f.excused = d
             /\ f.live = e.live /\ f.sends = e.sends /\ f.open = e.open /\ f.notice = e.notice
             /\ f.doubled = e.doubled /\ f.busy = e.busy /\ f.sup = e.sup /\ f.rt = e.rt
             /\ SameTally(e, f)
<1> DEFINE f == [e EXCEPT !.excused = d]
<1>0. e \in Engine
  BY DEF Good
<1>1. /\ f \in Engine /\ SameWorld(e, f) /\ f.excused = d
      /\ f.live = e.live /\ f.sup = e.sup /\ f.notice = e.notice /\ SameTally(e, f)
      /\ f.doubled = e.doubled /\ f.rt = e.rt /\ f.sends = e.sends /\ f.busy = e.busy
      /\ f.open = e.open
  BY <1>0 DEF Engine, SameWorld, SameTally
<1> HIDE DEF f
<1>2. /\ Numbered(f) /\ Limited(f) /\ Informed(f, O) /\ Later(f) /\ Explained(f, O)
  BY <1>1, NumberedSame, LimitedSame, InformedSame, LaterSame, ExplainedSame DEF Good, SameWorld
<1>3. Careful(f, X2)
  BY <1>1 DEF Good, Careful, Owned, Owns
<1>4. ASSUME NEW l \in f.live PROVE Linked(f, l, f.rt[l], f.open[l], U, V, X2, O)
  <2>1. /\ \A q : Status(f, q) = Status(e, q)
        /\ \A u : Due(f, l, u) = Due(e, l, u)
    BY <1>1, WorldSame
  <2> QED BY <1>1, <2>1 DEF Good, Served, Linked, Fits, InHand, SameWorld
<1>5. Served(f, U, V, X2, O)
  BY <1>1, <1>4 DEF Good, Served, SameWorld
<1>6. Turn(e, f)
  BY <1>1 DEF Turn
<1> QED BY <1>1, <1>2, <1>3, <1>5, <1>6 DEF Good, f

\* A pane that is neither excused nor engaged has no send of its own.
LEMMA Unengaged ==
  ASSUME NEW e, NEW p \in Panes, NEW X, Owned(e, X), p \notin e.excused \cup X,
         e.busy[p] = NotBusy
  PROVE  ~Engaged(e, p)
<1>1. \A k \in Senders, g \in Gens : TargetOf(k) = p => e.sends[k][g] = "none"
  <2>1. NotBusy.by \notin Senders
    BY Ends DEF NotBusy
  <2> QED BY <2>1 DEF Owned, Owns
<1> QED BY <1>1 DEF Engaged

LEMMA AssumeBusyGood ==
  ASSUME NEW e, NEW k \in Senders, NEW U, NEW V, NEW X, NEW O, Good(e, U, V, X, O), k \in O,
         Engaged(e, TargetOf(k)) => TargetOf(k) \in e.excused \cup X
  PROVE  LET f == AssumeBusy(e, k)
         IN  /\ Good(f, U, V, X, O) /\ Turn(e, f)
             /\ f.live = e.live /\ f.sends = e.sends /\ f.open = e.open /\ f.notice = e.notice
             /\ f.doubled = e.doubled /\ SameTally(e, f)
             /\ TargetOf(k) \in f.excused \cup X \/ Owns(f, k, f.gen)
<1> DEFINE p == TargetOf(k)
           a == Status(e, p)
           works == [a EXCEPT !.state = "working"]
           b == [by |-> k, gen |-> e.gen, settled |-> FALSE, inst |-> a.inst, seq |-> a.seq]
           r == [l \in Triggers |-> IF l \in e.live /\ Def[l].to = p
                                    THEN SeeTarget(e.rt[l], works).trigger ELSE e.rt[l]]
           s == [q \in Supervisors |-> IF q = p /\ e.sup[q] # NoNotifier
                                       THEN SeeSupervisor(e.sup[q], works) ELSE e.sup[q]]
           f == AssumeBusy(e, k)
<1>0. e \in Engine /\ Numbered(e)
  BY DEF Good
<1>1. p \in Panes
  BY Ends
<1>2. a \in Agents /\ (a # Nobody => a.inst # 0)
  BY <1>0, <1>1, StatusFacts
<1>3. CASE a = Nobody
  <2> DEFINE d == e.excused \cup {p}
  <2>1. f = [e EXCEPT !.excused = d]
    BY <1>3 DEF AssumeBusy
  <2>2. d \in SUBSET Panes /\ e.excused \subseteq d /\ X \subseteq d \cup X /\ p \in d
    BY <1>0, <1>1, EngineFields
  <2> HIDE DEF d, f
  <2> QED BY <2>1, <2>2, ExcusedGood DEF f
<1>4. CASE a # Nobody
  <2>1. f = [e EXCEPT !.busy[p] = b, !.rt = r, !.sup = s]
    BY <1>4 DEF AssumeBusy
  <2>2. /\ works \in Agents /\ works.state = "working" /\ works.inst = a.inst /\ works # Nobody
        /\ Verdict(works) = "busy"
    BY <1>2 DEF Agents, AgentStates, Verdict, Nobody
  <2>3. b \in [by : Senders \cup {"nobody"}, gen : Gens, settled : BOOLEAN, inst : Nat, seq : Nat]
        /\ b # NotBusy /\ b.by = k /\ b.gen = e.gen /\ b.inst # 0
    BY <1>0, <1>2, <1>4, EngineFields DEF Agents, NotBusy
  <2> HIDE DEF works, b
  <2>4. \A l \in Triggers :
          \/ r[l] = e.rt[l] /\ ~(l \in e.live /\ Def[l].to = p)
          \/ l \in e.live /\ Def[l].to = p /\ r[l] = ToBusy(e.rt[l])
    <3> SUFFICES ASSUME NEW l \in Triggers, l \in e.live, Def[l].to = p
                 PROVE  r[l] = ToBusy(e.rt[l])
      OBVIOUS
    <3>1. e.rt[l] \in Trigger
      BY <1>0, EngineFields
    <3> QED BY <3>1, <2>2, SeeTargetAnswers DEF ToBusy
  <2>5. \A l \in Triggers : e.rt[l] \in Trigger
    BY <1>0, EngineFields
  <2>6. r \in [Triggers -> Trigger]
    <3>1. \A l \in Triggers : r[l] \in Trigger
      BY <2>4, <2>5, ToBusyFacts
    <3> QED BY <3>1
  <2>7. \A q \in Supervisors :
          \/ s[q] = e.sup[q] /\ (q = p => ~e.sup[q].idle)
          \/ q = p /\ e.sup[q] # NoNotifier /\ s[q] = SeeSupervisor(e.sup[q], works)
    BY DEF NoNotifier
  <2>8. \A q \in Supervisors : LET w == SeeSupervisor(e.sup[q], works)
                                   o == Telling(e, q, O)
                               IN  /\ w \in Notifier /\ w.idle = FALSE
                                   /\ Tells(e.sup[q], e.notice[q], o) => Tells(w, e.notice[q], o)
    <3> TAKE q \in Supervisors
    <3>1. e.sup[q] \in Notifier
      BY <1>0, EngineFields
    <3>2. works.inst # 0
      BY <1>2, <1>4, <2>2
    <3>3. \A o : Tells(e.sup[q], e.notice[q], o) => Tells(SeeSupervisor(e.sup[q], works), e.notice[q], o)
      BY <2>2, <3>1, <3>2, SeeSupervisorTells
    <3> QED BY <2>2, <3>1, <3>3, SeeSupervisorFacts
  <2>9. s \in [Supervisors -> Notifier]
    <3>1. \A q \in Supervisors : s[q] \in Notifier
      BY <2>7, <2>8, <1>0, EngineFields
    <3> QED BY <3>1
  <2> HIDE DEF r, s
  <2>10. /\ f \in Engine /\ SameWorld(e, f)
         /\ f.live = e.live /\ f.sends = e.sends /\ f.open = e.open /\ f.notice = e.notice
         /\ f.doubled = e.doubled /\ SameTally(e, f) /\ f.excused = e.excused
         /\ f.rt = r /\ f.sup = s
         /\ f.busy = [e.busy EXCEPT ![p] = b]
    <3> DEFINE d == [e.busy EXCEPT ![p] = b]
    <3>1. d \in [Panes -> [by : Senders \cup {"nobody"}, gen : Gens, settled : BOOLEAN,
                           inst : Nat, seq : Nat]]
      BY <1>0, <2>3, EngineFields
    <3>2. f = [e EXCEPT !.busy = d, !.rt = r, !.sup = s]
      BY <2>1
    <3> HIDE DEF d, f
    <3>3. f \in Engine /\ f.busy = d /\ f.rt = r /\ f.sup = s
      BY <1>0, <2>6, <2>9, <3>1, <3>2 DEF Engine, Assumed, Runtimes, Notifiers
    <3>4. /\ SameWorld(e, f)
          /\ f.live = e.live /\ f.sends = e.sends /\ f.open = e.open /\ f.notice = e.notice
          /\ f.doubled = e.doubled /\ SameTally(e, f) /\ f.excused = e.excused
      BY <1>0, <3>2 DEF Engine, SameWorld, SameTally
    <3> QED BY <3>3, <3>4 DEF d
  <2> HIDE DEF f
  <2>11. f.busy[p] = b /\ \A q \in Panes \ {p} : f.busy[q] = e.busy[q]
    BY <1>0, <1>1, <2>10, EngineFields
  <2>12. Numbered(f) /\ Limited(f) /\ Later(f)
    BY <2>10, NumberedSame, LimitedSame, LaterSame DEF Good, SameWorld
  <2>13. Informed(f, O)
    <3>1. \A q \in Supervisors : e.sup[q] # NoNotifier => Tells(e.sup[q], e.notice[q], Telling(e, q, O))
      BY DEF Good, Informed
    <3>2. \A q \in Supervisors : s[q] # NoNotifier => Tells(s[q], e.notice[q], Telling(e, q, O))
      BY <3>1, <2>7, <2>8
    <3>3. \A q : Telling(f, q, O) = Telling(e, q, O)
      BY <2>10 DEF Telling, SameWorld
    <3> QED BY <3>2, <3>3, <2>10 DEF Informed
  <2>14. Explained(f, O)
    <3> SUFFICES ASSUME NEW q \in Panes, f.busy[q] # NotBusy
                 PROVE  LET c == f.busy[q]
                        IN  /\ c.by \in Senders /\ TargetOf(c.by) = q /\ c.inst # 0
                            /\ c.settled \/ f.sends[c.by][c.gen] # "none"
                                 \/ (c.by \in O /\ c.gen = f.gen)
      BY DEF Explained
    <3>1. CASE q = p
      BY <3>1, <2>3, <2>10, <2>11 DEF SameWorld
    <3>2. CASE q # p
      BY <3>2, <2>10, <2>11 DEF Good, Explained, SameWorld
    <3> QED BY <3>1, <3>2
  <2>15. ASSUME NEW l \in e.live PROVE Linked(f, l, f.rt[l], f.open[l], U, V, X, O)
    <3>1. /\ \A q : Status(f, q) = Status(e, q)
          /\ \A u : Due(f, l, u) = Due(e, l, u)
      BY <2>10, WorldSame
    <3>2. Linked(e, l, e.rt[l], e.open[l], U, V, X, O)
      BY DEF Good, Served
    <3>3. l \in Triggers /\ Def[l].to \in Panes
      BY <1>0, EngineFields, Ends
    <3>4. CASE r[l] = e.rt[l] /\ Def[l].to # p
      <4>1. f.busy[Def[l].to] = e.busy[Def[l].to]
        BY <3>3, <3>4, <2>11
      <4> QED BY <3>1, <3>2, <3>4, <4>1, <2>10 DEF Linked, Fits, InHand, SameWorld
    <3>5. CASE Def[l].to = p /\ r[l] = ToBusy(e.rt[l])
      <4>1. /\ r[l].on = e.rt[l].on /\ r[l].base = e.rt[l].base /\ r[l].target = "busy"
            /\ r[l].waiting = e.rt[l].waiting
        BY <3>3, <3>5, <2>5, ToBusyFacts
      <4>2. Due(f, l, r[l]) = Due(e, l, e.rt[l])
        BY <3>1, <4>1 DEF Due
      <4> QED BY <3>1, <3>2, <3>3, <3>5, <4>1, <4>2, <2>3, <2>10, <2>11
              DEF Linked, Fits, InHand, SameWorld, Waits
    <3> QED BY <2>4, <3>3, <3>4, <3>5
  <2>16. Served(f, U, V, X, O)
    BY <2>10, <2>15 DEF Good, Served, SameWorld
  <2>17. Careful(f, X)
    <3>1. \A q \in Supervisors : f.busy[q] # NotBusy /\ q \notin f.excused \cup X => ~f.sup[q].idle
      <4> TAKE q \in Supervisors
      <4>1. q \in Panes
        BY Ends
      <4>2. CASE q = p
        BY <4>2, <2>7, <2>8, <2>10
      <4>3. CASE q # p
        BY <4>1, <4>3, <2>7, <2>10, <2>11 DEF Good, Careful
      <4> QED BY <4>2, <4>3
    <3>2. f.doubled \subseteq f.excused \cup X
      BY <2>10 DEF Good, Careful
    <3>3. Owned(f, X)
      <4> SUFFICES ASSUME NEW i \in Senders, NEW j \in Gens, f.sends[i][j] # "none",
                          TargetOf(i) \notin f.excused \cup X
                   PROVE  Owns(f, i, j)
        BY DEF Owned
      <4>1. e.sends[i][j] # "none" /\ TargetOf(i) \notin e.excused \cup X /\ TargetOf(i) \in Panes
        BY <2>10, Ends
      <4>2. Owns(e, i, j) /\ Engaged(e, TargetOf(i))
        BY <4>1 DEF Good, Careful, Owned, Engaged
      <4>3. TargetOf(i) # p
        BY <4>1, <4>2
      <4> QED BY <4>1, <4>2, <4>3, <2>11 DEF Owns
    <3> QED BY <3>1, <3>2, <3>3 DEF Careful
  <2>18. Turn(e, f)
    BY <2>3, <2>10, <2>11 DEF Turn
  <2>19. Owns(f, k, f.gen)
    <3>1. b.settled = FALSE
      BY DEF b
    <3> QED BY <2>3, <2>10, <2>11, <3>1 DEF Owns, SameWorld
  <2> QED BY <2>10, <2>12, <2>13, <2>14, <2>16, <2>17, <2>18, <2>19 DEF Good, f
<1> QED BY <1>3, <1>4

\* A send reaches its next stage.
Staged(e, f, k, stage) ==
  /\ SameWorld(e, f)
  /\ f.live = e.live /\ f.busy = e.busy /\ f.sup = e.sup /\ f.rt = e.rt /\ f.open = e.open
  /\ f.notice = e.notice /\ f.doubled = e.doubled /\ f.excused = e.excused
  /\ f.sends = [e.sends EXCEPT ![k][e.gen] = stage]
  /\ f.tally = e.tally
  /\ f.early = IF stage = "prompt" /\ k \in Triggers
               THEN IF Uncounted(e, k) THEN e.early \cup {<<k, e.gen>>}
                    ELSE e.early \ {<<k, e.gen>>}
               ELSE e.early

LEMMA SendsExcept ==
  ASSUME NEW s \in [Senders -> [Gens -> {"none", "tail", "prompt"}]], NEW k \in Senders,
         NEW g \in Gens, NEW x \in {"none", "tail", "prompt"}
  PROVE  LET r == [s EXCEPT ![k][g] = x]
         IN  /\ r \in [Senders -> [Gens -> {"none", "tail", "prompt"}]]
             /\ r[k][g] = x
             /\ \A i \in Senders, j \in Gens : i # k \/ j # g => r[i][j] = s[i][j]
  OBVIOUS

LEMMA StagedGood ==
  ASSUME NEW e, NEW f \in Engine, NEW k \in Senders, NEW stage \in {"tail", "prompt"},
         NEW U, NEW V, NEW X,
         Good(e, U, V, X, {k}), Staged(e, f, k, stage), e.running,
         k \in Triggers => k \in e.live /\ (stage = "prompt" => Allowed(e.graph, k)),
         k \in Supervisors => stage = "prompt",
         TargetOf(k) \in e.excused \cup X \/ Owns(e, k, e.gen)
  PROVE  Good(f, U, V, X, {}) /\ Turn(e, f)
<1>0. e \in Engine /\ e.gen \in Gens
  BY EngineFields DEF Good
<1>1. /\ SameWorld(e, f)
      /\ f.live = e.live /\ f.busy = e.busy /\ f.sup = e.sup /\ f.rt = e.rt /\ f.open = e.open
      /\ f.notice = e.notice /\ f.doubled = e.doubled /\ f.excused = e.excused
  BY DEF Staged
<1>2. /\ f.sends[k][e.gen] = stage
      /\ \A i \in Senders, j \in Gens : i # k \/ j # e.gen => f.sends[i][j] = e.sends[i][j]
  BY <1>0, EngineFields, SendsExcept DEF Staged
<1>3. Numbered(f)
  BY <1>1, NumberedSame DEF Good, SameWorld
<1>3a. Informed(f, {})
  <2> SUFFICES ASSUME NEW p \in Supervisors, f.sup[p] # NoNotifier
               PROVE  Tells(f.sup[p], f.notice[p], Telling(f, p, {}))
    BY DEF Informed
  <2>1. Tells(e.sup[p], e.notice[p], Telling(e, p, {k}))
    BY <1>1 DEF Good, Informed
  <2>2. Telling(e, p, {k}) => Telling(f, p, {})
    BY <1>1, <1>2, <1>0, Ends DEF Telling, SameWorld
  <2> QED BY <1>1, <2>1, <2>2 DEF Tells
<1>3b. Careful(f, X)
  <2>1. Owned(f, X)
    <3> SUFFICES ASSUME NEW i \in Senders, NEW j \in Gens, f.sends[i][j] # "none",
                        TargetOf(i) \notin f.excused \cup X
                 PROVE  Owns(f, i, j)
      BY DEF Owned
    <3>1. CASE i = k /\ j = e.gen
      BY <1>1, <3>1 DEF Owns
    <3>2. CASE i # k \/ j # e.gen
      BY <1>1, <1>2, <3>2 DEF Good, Careful, Owned, Owns
    <3> QED BY <3>1, <3>2
  <2> QED BY <1>1, <2>1 DEF Good, Careful
<1>4. Later(f)
  BY <1>1, <1>2 DEF Good, Later, SameWorld, Gens
<1>5. Limited(f)
  <2> SUFFICES ASSUME NEW l \in Triggers PROVE Bounded(f, l, f.tally[l])
    BY DEF Limited
  <2>1. l \in Senders /\ l \in Links
    BY Ends
  <2>2. Bounded(e, l, e.tally[l])
    BY DEF Good, Limited
  <2>3. ToCount(f, l) = ToCount(e, l) /\ f.graph = e.graph /\ f.tally = e.tally
    BY <1>1 DEF ToCount, SameWorld, Staged
  <2>4. CASE l # k \/ stage = "tail"
    <3>1. InFlight(f, l) \subseteq InFlight(e, l)
      BY <1>0, <1>2, <2>1, <2>4 DEF InFlight
    <3>2. \A g : <<l, g>> \in e.early <=> <<l, g>> \in f.early
      BY <2>4 DEF Staged
    <3>3. InTime(f, l) \subseteq InTime(e, l)
      BY <3>1, <3>2 DEF InTime
    <3> QED BY <3>1, <3>3, <2>2, <2>3 DEF Bounded
  <2>5. CASE l = k /\ stage = "prompt"
    <3>1. e.graph.links[l].count < Def[l].limit /\ e.graph.links[l].state = "there"
      BY <2>5 DEF Allowed
    <3>2. InFlight(f, l) \subseteq InFlight(e, l) \cup {e.gen}
      BY <1>2, <2>1, <2>5 DEF InFlight
    <3>3. CASE Uncounted(e, l)
      <4>1. f.early = e.early \cup {<<l, e.gen>>}
        BY <2>5, <3>3 DEF Staged
      <4>2. InTime(f, l) \subseteq InTime(e, l)
        BY <3>2, <4>1 DEF InTime
      <4> QED BY <4>2, <3>1, <2>2, <2>3 DEF Bounded
    <3>4. CASE ~Uncounted(e, l)
      <4>1. InFlight(e, l) = {} /\ ToCount(e, l) = {}
        BY <3>4 DEF Uncounted, InFlight, ToCount
      <4>2. InTime(f, l) \subseteq {e.gen}
        BY <3>2, <4>1 DEF InTime
      <4> DEFINE t == e.tally[l]
                 c == e.graph.links[l].count
      <4>3. t.sent <= c + t.lost
        <5>1. Cardinality(ToCount(e, l)) = 0
          BY <4>1, FS_EmptySet
        <5>2. t.sent <= c + Cardinality(ToCount(e, l)) + t.lost
          BY <2>2, <3>1 DEF Bounded
        <5>3. c \in Nat /\ t \in Tally
          BY <1>0, <2>1, EngineFields DEF Stored
        <5> QED BY <5>1, <5>2, <5>3 DEF Tally
      <4>4. t.sent + 1 <= Def[l].limit + t.early + t.lost
        <5>1. c \in Nat /\ t \in Tally /\ Def[l].limit \in Nat
          BY <1>0, <2>1, EngineFields, Ends DEF Stored
        <5> QED BY <5>1, <4>3, <3>1 DEF Tally
      <4> HIDE DEF t, c
      <4>5. t.sent <= Def[l].limit + t.early + t.lost
        BY <2>2 DEF Bounded, t
      <4>6. f.graph.links[l].state # "new"
        BY <2>3, <3>1
      <4>7. f.graph.links[l].state # "gone" =>
              t.sent <= f.graph.links[l].count + Cardinality(ToCount(f, l)) + t.lost
        BY <2>2, <2>3 DEF Bounded, t
      <4> QED BY <2>3, <4>2, <4>4, <4>5, <4>6, <4>7 DEF Bounded, t
    <3> QED BY <3>3, <3>4
  <2> QED BY <2>4, <2>5
<1>6. Explained(f, {})
  <2> SUFFICES ASSUME NEW p \in Panes, f.busy[p] # NotBusy
               PROVE  LET b == f.busy[p]
                      IN  /\ b.by \in Senders /\ TargetOf(b.by) = p /\ b.inst # 0
                          /\ b.settled \/ f.sends[b.by][b.gen] # "none"
    BY DEF Explained
  <2> DEFINE b == e.busy[p]
  <2>1. /\ b.by \in Senders /\ TargetOf(b.by) = p /\ b.inst # 0 /\ b.gen \in Gens
        /\ b.settled \/ e.sends[b.by][b.gen] # "none" \/ (b.by = k /\ b.gen = e.gen)
    BY <1>0, <1>1, EngineFields DEF Good, Explained
  <2> QED BY <1>1, <1>2, <2>1
<1>7. ASSUME NEW l \in f.live PROVE Linked(f, l, f.rt[l], f.open[l], U, V, X, {})
  <2>1. /\ \A q : Status(f, q) = Status(e, q)
        /\ \A u : Due(f, l, u) = Due(e, l, u)
    BY <1>1, WorldSame
  <2>2. Linked(e, l, e.rt[l], e.open[l], U, V, X, {k})
    BY <1>1 DEF Good, Served
  <2>3. l \in Senders
    BY <1>0, <1>1, EngineFields, Ends
  <2>4. InHand(f, l, {}) = InHand(e, l, {k})
    BY <1>0, <1>1, <1>2, <2>3 DEF InHand, SameWorld
  <2> QED BY <1>1, <2>1, <2>2, <2>4 DEF Linked, Fits
<1>8. Served(f, U, V, X, {})
  <2>1. \A l \in Triggers \ f.live : f.sends[l][f.gen] = e.sends[l][e.gen]
    BY <1>0, <1>1, <1>2, Ends DEF SameWorld
  <2> QED BY <1>1, <1>7, <2>1 DEF Good, Served, SameWorld
<1>9. Turn(e, f)
  <2>1. \A l \in Triggers, g \in Gens :
          e.sends[l][g] # "prompt" /\ f.sends[l][g] = "prompt" => g = e.gen /\ Allowed(e.graph, l)
    BY <1>2, Ends
  <2> QED BY <1>1, <2>1 DEF Turn
<1> QED BY <1>3, <1>3a, <1>3b, <1>4, <1>5, <1>6, <1>8, <1>9 DEF Good

\* A send ends, and its firing is answered if the engine has not stopped since.
Over(e, k, g) == Finish(IF g = e.gen THEN Answered(e, k) ELSE e, k, g)

\* No notifier waits for its end.
Unawaited(e, k, g) ==
  k \in Supervisors /\ g = e.gen /\ e.sup[k] # NoNotifier => Tells(e.sup[k], e.notice[k], FALSE)

LEMMA OverGood ==
  ASSUME NEW e, NEW k \in Senders, NEW g \in Gens, NEW U, NEW V, NEW X, NEW O,
         Good(e, U, V, X, O), O = IF g = e.gen THEN {k} ELSE {}, Unawaited(e, k, g)
  PROVE  LET f == Over(e, k, g)
         IN  /\ Good(f, U, V, X, {}) /\ Turn(e, f)
             /\ f.live = e.live /\ f.sup = e.sup /\ f.notice = e.notice /\ SameTally(e, f)
             /\ f.doubled = e.doubled /\ f.excused = e.excused
             /\ f.queue = e.queue /\ f.graph = e.graph
             /\ f.sends = [e.sends EXCEPT ![k][g] = "none"]
<1> DEFINE p == TargetOf(k)
           open_ == IF g = e.gen /\ k \in e.live THEN [e.open EXCEPT ![k] = @ - 1] ELSE e.open
           sends_ == [e.sends EXCEPT ![k][g] = "none"]
           mine == e.busy[p].by = k /\ e.busy[p].gen = g
           busy_ == IF mine THEN [e.busy EXCEPT ![p].settled = TRUE] ELSE e.busy
           f == Over(e, k, g)
<1>0. e \in Engine /\ e.gen \in Gens /\ p \in Panes
  BY EngineFields, Ends DEF Good
<1>1. /\ f \in Engine /\ SameWorld(e, f)
      /\ f.live = e.live /\ f.sup = e.sup /\ f.notice = e.notice /\ SameTally(e, f)
      /\ f.doubled = e.doubled /\ f.excused = e.excused /\ f.rt = e.rt
      /\ f.sends = sends_ /\ f.busy = busy_ /\ f.open = open_
  <2> DEFINE h == IF g = e.gen THEN Answered(e, k) ELSE e
             i == [h EXCEPT !.sends[k][g] = "none"]
  <2>1. open_ \in [Triggers -> Int]
    BY <1>0, EngineFields
  <2>2. h = [e EXCEPT !.open = open_]
    BY <1>0 DEF Answered, Engine
  <2> HIDE DEF h, open_
  <2>3. h \in Engine /\ h.open = open_
    BY <1>0, <2>1, <2>2 DEF Engine, Firings
  <2>4. /\ SameWorld(e, h) /\ h.live = e.live /\ h.sup = e.sup /\ h.notice = e.notice
        /\ SameTally(e, h) /\ h.doubled = e.doubled /\ h.excused = e.excused /\ h.rt = e.rt
        /\ h.sends = e.sends /\ h.busy = e.busy
    BY <1>0, <2>2 DEF Engine, SameWorld, SameTally
  <2>5. sends_ \in [Senders -> [Gens -> {"none", "tail", "prompt"}]]
    BY <1>0, EngineFields, SendsExcept
  <2>6. i = [h EXCEPT !.sends = sends_]
    BY <2>4
  <2> HIDE DEF i, sends_
  <2>7. i \in Engine /\ i.sends = sends_
    BY <2>3, <2>5, <2>6 DEF Engine, Sendings
  <2>8. /\ SameWorld(e, i) /\ i.live = e.live /\ i.sup = e.sup /\ i.notice = e.notice
        /\ SameTally(e, i) /\ i.doubled = e.doubled /\ i.excused = e.excused /\ i.rt = e.rt
        /\ i.open = open_ /\ i.busy = e.busy
    BY <2>3, <2>4, <2>6 DEF Engine, SameWorld, SameTally
  <2>9. busy_ \in [Panes -> [by : Senders \cup {"nobody"}, gen : Gens, settled : BOOLEAN,
                            inst : Nat, seq : Nat]]
    <3> DEFINE b == [e.busy[p] EXCEPT !.settled = TRUE]
    <3>0. e.busy[p] \in [by : Senders \cup {"nobody"}, gen : Gens, settled : BOOLEAN, inst : Nat,
                        seq : Nat]
      BY <1>0, EngineFields
    <3>1. b \in [by : Senders \cup {"nobody"}, gen : Gens, settled : BOOLEAN, inst : Nat, seq : Nat]
      BY <3>0
    <3>2. busy_ = IF mine THEN [e.busy EXCEPT ![p] = b] ELSE e.busy
      OBVIOUS
    <3> QED BY <1>0, <3>1, <3>2, EngineFields
  <2>10. f = IF mine THEN [i EXCEPT !.busy = busy_] ELSE i
    BY <2>8 DEF Over, Finish, SettleBusy, i, h
  <2>11. mine \/ busy_ = e.busy
    OBVIOUS
  <2> HIDE DEF f, busy_, mine
  <2>12. f \in Engine /\ f.busy = busy_
    BY <2>7, <2>8, <2>9, <2>10, <2>11 DEF Engine, Assumed
  <2> QED BY <2>7, <2>8, <2>10, <2>12 DEF Engine, SameWorld, SameTally
<1>2. /\ f.sends[k][g] = "none"
      /\ \A i \in Senders, j \in Gens : i # k \/ j # g => f.sends[i][j] = e.sends[i][j]
  BY <1>0, <1>1, EngineFields, SendsExcept
<1>3. \A q \in Panes :
        /\ f.busy[q].by = e.busy[q].by /\ f.busy[q].gen = e.busy[q].gen
        /\ f.busy[q].inst = e.busy[q].inst
        /\ f.busy[q].settled = (e.busy[q].settled \/ (q = p /\ mine))
        /\ f.busy[q] # NotBusy <=> e.busy[q] # NotBusy
  <2> TAKE q \in Panes
  <2>1. e.busy[q] \in [by : Senders \cup {"nobody"}, gen : Gens, settled : BOOLEAN,
                      inst : Nat, seq : Nat]
    BY <1>0, EngineFields
  <2>2. CASE q = p /\ mine
    <3>1. f.busy[q] = [e.busy[q] EXCEPT !.settled = TRUE]
      BY <1>0, <1>1, <2>2, EngineFields
    <3>2. e.busy[q].by # "nobody"
      BY <2>2, Ends
    <3>3. /\ f.busy[q].by = e.busy[q].by /\ f.busy[q].gen = e.busy[q].gen
          /\ f.busy[q].inst = e.busy[q].inst /\ f.busy[q].settled = TRUE
      BY <2>1, <3>1
    <3>4. e.busy[q] # NotBusy /\ f.busy[q] # NotBusy
      BY <3>2, <3>3 DEF NotBusy
    <3> QED BY <2>2, <3>3, <3>4
  <2>3. CASE ~(q = p /\ mine)
    <3>1. f.busy[q] = e.busy[q]
      BY <1>0, <1>1, <2>3, EngineFields
    <3> QED BY <2>1, <2>3, <3>1
  <2> QED BY <2>2, <2>3
<1>4. \A l \in Triggers : f.open[l] = IF l = k /\ g = e.gen /\ k \in e.live
                                      THEN e.open[l] - 1 ELSE e.open[l]
  BY <1>0, <1>1, EngineFields
<1> HIDE DEF f, mine, busy_, sends_, open_
<1>5. Numbered(f)
  BY <1>1, NumberedSame DEF Good, SameWorld
<1>5a. Informed(f, {})
  <2> SUFFICES ASSUME NEW q \in Supervisors, f.sup[q] # NoNotifier
               PROVE  Tells(f.sup[q], f.notice[q], Telling(f, q, {}))
    BY DEF Informed
  <2>1. Tells(e.sup[q], e.notice[q], Telling(e, q, O))
    BY <1>1 DEF Good, Informed
  <2>2. CASE q = k /\ g = e.gen
    BY <1>1, <2>2 DEF Unawaited, Tells
  <2>3. CASE ~(q = k /\ g = e.gen)
    <3>1. Telling(e, q, O) => Telling(f, q, {})
      BY <1>0, <1>1, <1>2, <2>3, Ends DEF Telling, SameWorld
    <3> QED BY <1>1, <2>1, <3>1 DEF Tells
  <2> QED BY <2>2, <2>3
<1>6. Careful(f, X)
  <2>1. Supervisors \subseteq Panes
    BY Ends
  <2>2. Owned(f, X)
    <3> SUFFICES ASSUME NEW i \in Senders, NEW j \in Gens, f.sends[i][j] # "none",
                        TargetOf(i) \notin f.excused \cup X
                 PROVE  Owns(f, i, j)
      BY DEF Owned
    <3>1. e.sends[i][j] # "none" /\ ~(i = k /\ j = g) /\ TargetOf(i) \in Panes
      BY <1>2, Ends
    <3>2. Owns(e, i, j)
      BY <1>1, <3>1 DEF Good, Careful, Owned
    <3>3. ~(TargetOf(i) = p /\ mine)
      BY <3>1, <3>2 DEF Owns, mine
    <3> QED BY <1>3, <3>1, <3>2, <3>3 DEF Owns
  <2> QED BY <1>1, <1>3, <2>1, <2>2 DEF Good, Careful
<1>7. Later(f)
  BY <1>1, <1>2 DEF Good, Later, SameWorld
<1>8. Limited(f)
  <2>1. \A l \in Triggers : InFlight(f, l) \subseteq InFlight(e, l) /\ ToCount(f, l) = ToCount(e, l)
    BY <1>1, <1>2, Ends DEF InFlight, ToCount, SameWorld
  <2>2. \A l \in Triggers : InTime(f, l) \subseteq InTime(e, l)
    BY <1>1, <2>1 DEF InTime, SameTally
  <2>3. f.graph = e.graph /\ f.tally = e.tally
    BY <1>1 DEF SameWorld, SameTally
  <2> QED BY <2>1, <2>2, <2>3 DEF Good, Limited, Bounded
<1>9. Explained(f, {})
  <2> SUFFICES ASSUME NEW q \in Panes, f.busy[q] # NotBusy
               PROVE  LET b == f.busy[q]
                      IN  /\ b.by \in Senders /\ TargetOf(b.by) = q /\ b.inst # 0
                          /\ b.settled \/ f.sends[b.by][b.gen] # "none"
    BY DEF Explained
  <2> DEFINE b == e.busy[q]
  <2>1. /\ b.by \in Senders /\ TargetOf(b.by) = q /\ b.inst # 0 /\ b.gen \in Gens
        /\ b.settled \/ e.sends[b.by][b.gen] # "none" \/ (b.by \in O /\ b.gen = e.gen)
    BY <1>0, <1>3, EngineFields DEF Good, Explained
  <2>2. CASE b.by = k /\ b.gen = g
    <3>1. q = p /\ mine
      BY <2>1, <2>2 DEF mine
    <3> QED BY <3>1, <2>1, <1>3
  <2>3. CASE ~(b.by = k /\ b.gen = g)
    <3>1. f.sends[b.by][b.gen] = e.sends[b.by][b.gen]
      BY <2>1, <2>3, <1>2
    <3> QED BY <3>1, <2>1, <2>3, <1>3
  <2> QED BY <2>2, <2>3
<1>10. ASSUME NEW l \in f.live PROVE Linked(f, l, f.rt[l], f.open[l], U, V, X, {})
  <2>1. /\ \A q : Status(f, q) = Status(e, q)
        /\ \A u : Due(f, l, u) = Due(e, l, u)
    BY <1>1, WorldSame
  <2>2. Linked(e, l, e.rt[l], e.open[l], U, V, X, O)
    BY <1>1 DEF Good, Served
  <2>3. l \in Senders /\ l \in Triggers /\ Def[l].to \in Panes /\ l \in e.live
    BY <1>0, <1>1, EngineFields, Ends
  <2>4. f.gen = e.gen
    BY <1>1 DEF SameWorld
  <2>5. e.open[l] \in Int /\ Waits(e.rt[l]) \in Int /\ Due(e, l, e.rt[l]) \in Int
    BY <1>0, <2>3, EngineFields DEF Waits, Due
  <2>6. CASE l = k /\ g = e.gen
    <3>1. InHand(e, l, O) = 1 /\ InHand(f, l, {}) = 0 /\ f.open[l] = e.open[l] - 1
      BY <1>2, <1>4, <2>3, <2>4, <2>6 DEF InHand
    <3>2. f.open[l] = Waits(f.rt[l]) + Due(f, l, f.rt[l]) + InHand(f, l, {})
      BY <3>1, <1>1, <2>1, <2>2, <2>5 DEF Linked, Fits
    <3> QED BY <3>2, <1>1, <1>3, <2>1, <2>2, <2>3 DEF Linked, Fits
  <2>7. CASE ~(l = k /\ g = e.gen)
    <3>1. InHand(e, l, O) = InHand(f, l, {}) /\ f.open[l] = e.open[l]
      BY <1>0, <1>2, <1>4, <2>3, <2>4, <2>7 DEF InHand
    <3> QED BY <3>1, <1>1, <1>3, <2>1, <2>2, <2>3 DEF Linked, Fits
  <2> QED BY <2>6, <2>7
<1>11. Served(f, U, V, X, {})
  <2>1. \A l \in Triggers \ f.live : f.open[l] = e.open[l]
    BY <1>1, <1>4
  <2>2. \A l \in Triggers \ f.live : f.sends[l][f.gen] # "none" => e.sends[l][e.gen] # "none"
    BY <1>0, <1>1, <1>2, Ends DEF SameWorld
  <2> QED BY <1>1, <1>10, <2>1, <2>2 DEF Good, Served, SameWorld
<1>12. Turn(e, f)
  <2>1. \A l \in Triggers, i \in Gens : f.sends[l][i] = "prompt" => e.sends[l][i] = "prompt"
    BY <1>2, Ends
  <2> QED BY <1>1, <1>3, <2>1 DEF Turn
<1> QED BY <1>1, <1>5, <1>5a, <1>6, <1>7, <1>8, <1>9, <1>11, <1>12 DEF Good, f, sends_, SameWorld

LEMMA OverNowGood ==
  ASSUME NEW e, NEW k \in Triggers, NEW U, NEW V, NEW X, Good(e, U, V, X, {k})
  PROVE  LET f == Over(e, k, e.gen)
         IN  Good(f, U, V, X, {}) /\ Turn(e, f)
<1> DEFINE O == IF e.gen = e.gen THEN {k} ELSE {}
<1>1. O = {k}
  OBVIOUS
<1>2. e.gen \in Gens
  BY EngineFields DEF Good
<1>3. Good(e, U, V, X, O)
  BY <1>1
<1> HIDE DEF O
<1>4. O = IF e.gen = e.gen THEN {k} ELSE {}
  BY DEF O
<1>5. k \in Senders /\ Unawaited(e, k, e.gen)
  BY Ends DEF Unawaited
<1> QED BY <1>2, <1>3, <1>4, <1>5, OverGood

LEMMA DoublingGood ==
  ASSUME NEW e, NEW k \in Senders, NEW engaged \in BOOLEAN, NEW U, NEW V, NEW X, NEW O,
         Good(e, U, V, X, O), engaged => TargetOf(k) \in e.excused \cup X
  PROVE  LET f == Doubling(e, k, engaged)
         IN  Good(f, U, V, X, O) /\ Turn(e, f)
<1> DEFINE p == TargetOf(k)
           d == IF engaged THEN e.doubled \cup {p} ELSE e.doubled
           f == Doubling(e, k, engaged)
<1>0. e \in Engine /\ p \in Panes
  BY EngineFields, Ends DEF Good
<1>1. d \in SUBSET Panes
  BY <1>0, EngineFields
<1>2. f = [e EXCEPT !.doubled = d]
  BY DEF Doubling
<1>3. d \subseteq e.excused \cup X
  BY DEF Good, Careful
<1> HIDE DEF d, f
<1>4. /\ f \in Engine /\ SameWorld(e, f) /\ f.doubled = d
      /\ f.live = e.live /\ f.sup = e.sup /\ f.notice = e.notice /\ SameTally(e, f)
      /\ f.excused = e.excused /\ f.rt = e.rt /\ f.sends = e.sends /\ f.busy = e.busy
      /\ f.open = e.open
  BY <1>0, <1>1, <1>2 DEF Engine, SameWorld, SameTally
<1>5. /\ Numbered(f) /\ Limited(f) /\ Informed(f, O) /\ Later(f)
      /\ Explained(f, O)
  BY <1>4, NumberedSame, LimitedSame, InformedSame, LaterSame, ExplainedSame DEF Good, SameWorld
<1>6. Careful(f, X)
  BY <1>3, <1>4 DEF Good, Careful, Owned, Owns
<1>7. ASSUME NEW l \in f.live PROVE Linked(f, l, f.rt[l], f.open[l], U, V, X, O)
  <2>1. /\ \A q : Status(f, q) = Status(e, q)
        /\ \A u : Due(f, l, u) = Due(e, l, u)
    BY <1>4, WorldSame
  <2> QED BY <1>4, <2>1 DEF Good, Served, Linked, Fits, InHand, SameWorld
<1>8. Served(f, U, V, X, O)
  BY <1>4, <1>7 DEF Good, Served, SameWorld
<1>9. Turn(e, f)
  BY <1>4 DEF Turn
<1> QED BY <1>4, <1>5, <1>6, <1>8, <1>9 DEF Good, f

-----------------------------------------------------------------------------
(* A send begins.                                                          *)

LEMMA BeginPromptGood ==
  ASSUME NEW e, NEW l \in Triggers, NEW engaged \in BOOLEAN, NEW U, NEW V, NEW X,
         Good(e, U, V, X, {l}), e.running, LiveThere(e), l \in e.live \/ ~There(e, l),
         Def[l].to \in e.excused \cup X \/ (Owns(e, l, e.gen) /\ ~engaged)
  PROVE  LET f == BeginPrompt(e, l, engaged)
         IN  Good(f, U, V, X, {}) /\ Turn(e, f)
<1> DEFINE f == BeginPrompt(e, l, engaged)
           h == Leaves(e, l)
           early_ == IF Uncounted(e, l) THEN e.early \cup {<<l, e.gen>>}
                     ELSE e.early \ {<<l, e.gen>>}
           sends_ == [e.sends EXCEPT ![l][e.gen] = "prompt"]
<1>0. e \in Engine /\ l \in Senders /\ l \in Links /\ e.gen \in Gens /\ TargetOf(l) = Def[l].to
      /\ l \notin Supervisors
  BY EngineFields, Ends DEF Good
<1>1. CASE Recheck(e, l) = "ok"
  <2>0. f = Doubling(h, l, engaged)
    BY <1>1 DEF BeginPrompt
  <2>1. h = [e EXCEPT !.early = early_, !.sends = sends_]
    BY DEF Leaves
  <2>2. early_ \in SUBSET (Triggers \X Gens)
    BY <1>0, EngineFields
  <2>3. sends_ \in [Senders -> [Gens -> {"none", "tail", "prompt"}]]
    BY <1>0, EngineFields, SendsExcept
  <2> HIDE DEF early_, sends_, f, h
  <2>4. /\ h \in Engine /\ SameWorld(e, h) /\ h.early = early_ /\ h.tally = e.tally
        /\ h.sends = sends_
        /\ h.live = e.live /\ h.busy = e.busy /\ h.sup = e.sup /\ h.rt = e.rt /\ h.open = e.open
        /\ h.notice = e.notice /\ h.doubled = e.doubled /\ h.excused = e.excused
    BY <1>0, <2>1, <2>2, <2>3 DEF Engine, SameWorld, Early, Sendings
  <2>5. Staged(e, h, l, "prompt")
    BY <2>4 DEF Staged, early_, sends_
  <2>6. l \in e.live /\ Allowed(e.graph, l)
    <3>1. e.graph.links[l] \in [state : {"new", "there", "gone"}, paused : {"no", "user", "limit"},
                                count : Nat]
      BY <1>0, EngineFields DEF Stored
    <3>2. Def[l].limit \in Nat
      BY <1>0, Ends
    <3> QED BY <1>1, <3>1, <3>2 DEF Recheck, There, Allowed
  <2>7. Good(h, U, V, X, {}) /\ Turn(e, h)
    BY <1>0, <2>4, <2>5, <2>6, StagedGood
  <2>8. Good(f, U, V, X, {}) /\ Turn(h, f)
    BY <1>0, <2>0, <2>4, <2>7, DoublingGood
  <2> QED BY <2>7, <2>8, TurnTransitive DEF f
<1>2. CASE Recheck(e, l) # "ok"
  <2>1. f = Over(e, l, e.gen)
    <3>1. Recheck(e, l) = "gone" => l \notin e.live
      BY DEF Recheck, LiveThere
    <3>2. l \notin e.live => Answered(e, l) = e
      BY DEF Answered
    <3> QED BY <1>2, <3>1, <3>2 DEF BeginPrompt, Over
  <2> QED BY <1>0, <2>1, OverNowGood
<1> QED BY <1>1, <1>2

LEMMA LaunchGood ==
  ASSUME NEW e, NEW l \in e.live, NEW engaged \in BOOLEAN, NEW U, NEW V, NEW X,
         Good(e, U, V, X, {l}), e.running, LiveThere(e),
         Def[l].to \in e.excused \cup X \/ (Owns(e, l, e.gen) /\ ~engaged)
  PROVE  LET f == Launch(e, l, engaged)
         IN  Good(f, U, V, X, {}) /\ Turn(e, f)
<1> DEFINE usable == Available(e, Def[l].from) /\ Available(e, Def[l].to)
           resolved == Def[l].kind = "approval" /\ Status(e, Def[l].from).state # "blocked"
           f == Launch(e, l, engaged)
<1>0. e \in Engine /\ l \in Triggers /\ l \in Senders /\ e.gen \in Gens /\ TargetOf(l) = Def[l].to
      /\ Def[l].to \in Panes /\ l \notin Supervisors
  BY EngineFields, Ends DEF Good
<1>1. CASE ~usable \/ resolved
  <2>1. f = Over(e, l, e.gen)
    BY <1>1 DEF Launch, Over
  <2> QED BY <1>0, <2>1, OverNowGood
<1>2. CASE usable /\ ~resolved /\ Def[l].reads
  <2> DEFINE sends_ == [e.sends EXCEPT ![l][e.gen] = "tail"]
             h == [e EXCEPT !.sends = sends_]
  <2>1. f = Doubling(h, l, engaged)
    BY <1>2 DEF Launch
  <2>2. sends_ \in [Senders -> [Gens -> {"none", "tail", "prompt"}]]
    BY <1>0, EngineFields, SendsExcept
  <2> HIDE DEF sends_
  <2>3. /\ h \in Engine /\ SameWorld(e, h) /\ SameTally(e, h) /\ h.sends = sends_
        /\ h.live = e.live /\ h.busy = e.busy /\ h.sup = e.sup /\ h.rt = e.rt /\ h.open = e.open
        /\ h.notice = e.notice /\ h.doubled = e.doubled /\ h.excused = e.excused
    BY <1>0, <2>2 DEF Engine, SameWorld, SameTally, Sendings
  <2>4. Staged(e, h, l, "tail")
    BY <2>3 DEF Staged, sends_, SameTally
  <2> HIDE DEF h, f
  <2>5. Good(h, U, V, X, {}) /\ Turn(e, h)
    BY <1>0, <2>3, <2>4, StagedGood
  <2>6. Good(f, U, V, X, {}) /\ Turn(h, f)
    BY <1>0, <2>1, <2>3, <2>5, DoublingGood
  <2> QED BY <2>5, <2>6, TurnTransitive DEF f
<1>3. CASE usable /\ ~resolved /\ ~Def[l].reads
  <2>1. f = BeginPrompt(e, l, engaged)
    BY <1>3 DEF Launch
  <2> QED BY <1>0, <2>1, BeginPromptGood
<1> QED BY <1>1, <1>2, <1>3

LEMMA StartSendGood ==
  ASSUME NEW e, NEW l \in e.live, NEW U, NEW V, NEW X,
         Good(e, U, V, X, {l}), e.running, LiveThere(e), e.rt[l].target = "ready"
  PROVE  Good(StartSend(e, l), U, V, X, {}) /\ Turn(e, StartSend(e, l))
<1> DEFINE h == AssumeBusy(e, l)
           engaged == Engaged(e, Def[l].to)
<1>0. e \in Engine /\ l \in Triggers /\ l \in Senders /\ Def[l].to \in Panes
      /\ TargetOf(l) = Def[l].to
  BY EngineFields, Ends DEF Good
<1>1. engaged \in BOOLEAN
  BY DEF Engaged
<1>2. engaged => Def[l].to \in e.excused \cup X
  <2>1. Def[l].to \notin e.excused \cup X => e.busy[Def[l].to] = NotBusy
    BY DEF Good, Served, Linked, Fits
  <2>2. Owned(e, X)
    BY DEF Good, Careful
  <2> QED BY <1>0, <2>1, <2>2, Unengaged
<1> HIDE DEF engaged
<1>3. /\ Good(h, U, V, X, {l}) /\ Turn(e, h) /\ h.live = e.live
      /\ Def[l].to \in h.excused \cup X \/ Owns(h, l, h.gen)
  BY <1>0, <1>2, AssumeBusyGood DEF engaged
<1>4. engaged => Def[l].to \in h.excused \cup X
  BY <1>2, <1>3 DEF Turn
<1>5. h.running /\ LiveThere(h)
  BY <1>3 DEF Turn, SameWorld, LiveThere, There
<1>6. StartSend(e, l) = Launch(h, l, engaged)
  BY DEF StartSend, engaged
<1> HIDE DEF h
<1>7. Good(StartSend(e, l), U, V, X, {}) /\ Turn(h, StartSend(e, l))
  BY <1>1, <1>3, <1>4, <1>5, <1>6, LaunchGood
<1> QED BY <1>3, <1>7, TurnTransitive

-----------------------------------------------------------------------------
(* A link decides.                                                         *)

Replies(d) == IF d \in {"none", "wait"} THEN 0 ELSE 1

LEMMA DecidedGood ==
  ASSUME NEW e, NEW l \in e.live, NEW t \in Trigger, NEW n \in Int, NEW d,
         NEW U, NEW V, NEW X, NEW U2, NEW V2,
         Good(e, U, V, X, {}), U \subseteq U2 \cup {l}, V \subseteq V2 \cup {l},
         Linked(e, l, t, n - Replies(d), U2, V2, X, {}),
         d = "send" => t.target = "ready" /\ e.running /\ LiveThere(e)
  PROVE  LET f == Decided([e EXCEPT !.rt[l] = t, !.open[l] = n], l, d)
         IN  Good(f, U2, V2, X, {}) /\ Turn(e, f)
<1> DEFINE h == [e EXCEPT !.rt[l] = t, !.open[l] = n]
           f == Decided(h, l, d)
<1>0. e \in Engine /\ l \in Triggers /\ e.live \subseteq Triggers
  BY EngineFields DEF Good
<1>1. h \in Engine /\ Retriggered(e, h, l, t, n)
  <2>1. [e.rt EXCEPT ![l] = t] \in [Triggers -> Trigger] /\ [e.open EXCEPT ![l] = n] \in [Triggers -> Int]
    BY <1>0, EngineFields
  <2> QED BY <1>0, <2>1 DEF Engine, Retriggered, SameWorld, SameTally, Runtimes, Firings
<1>2. h.live = e.live /\ h.rt[l] = t /\ h.open[l] = n /\ h.gen = e.gen /\ h.sends = e.sends
  BY <1>0, <1>1, EngineFields DEF Retriggered, SameWorld
<1>3. CASE d \in {"none", "wait"}
  <2>1. f = h
    BY <1>3 DEF Decided
  <2>2. n - Replies(d) = n
    BY <1>3 DEF Replies
  <2> HIDE DEF h
  <2>3. Linked(e, l, t, n, U2, V2, X, {})
    BY <2>2
  <2>4. Good(h, U2, V2, X, {}) /\ Turn(e, h)
    BY <1>1, <2>3, {} \subseteq {l}, RetriggeredGood
  <2> QED BY <2>1, <2>4 DEF h
<1>4. CASE d = "send" /\ ~Sending(h, l)
  <2>1. f = StartSend(h, l)
    BY <1>4 DEF Decided
  <2> HIDE DEF h
  <2>2. Linked(e, l, t, n, U2, V2, X, {l})
    <3>1. InHand(e, l, {}) = 0 /\ InHand(e, l, {l}) = 1 /\ Replies(d) = 1
      BY <1>2, <1>4 DEF InHand, Sending, Replies
    <3>2. Waits(t) \in Int /\ Due(e, l, t) \in Int
      BY DEF Waits, Due
    <3> QED BY <3>1, <3>2 DEF Linked
  <2>3. Good(h, U2, V2, X, {l}) /\ Turn(e, h)
    BY <1>1, <2>2, RetriggeredGood
  <2>4. h.running /\ LiveThere(h) /\ h.rt[l].target = "ready"
    BY <1>1, <1>2, <1>4 DEF Retriggered, SameWorld, LiveThere, There
  <2>5. Good(f, U2, V2, X, {}) /\ Turn(h, f)
    BY <1>2, <2>1, <2>3, <2>4, StartSendGood
  <2> QED BY <2>3, <2>5, TurnTransitive DEF h
<1>5. CASE d \notin {"none", "wait"} /\ ~(d = "send" /\ ~Sending(h, l))
  <2> HIDE DEF h
  <2>1. f = [h EXCEPT !.open[l] = @ - 1]
    BY <1>2, <1>5 DEF Decided, Answered
  <2>2. Replies(d) = 1 /\ n - 1 \in Int
    BY <1>5 DEF Replies
  <2> HIDE DEF f
  <2>3. f \in Engine /\ Retriggered(e, f, l, t, n - 1)
    <3> DEFINE o == [h.open EXCEPT ![l] = @ - 1]
    <3>1. h.open = [e.open EXCEPT ![l] = n] /\ h.rt = [e.rt EXCEPT ![l] = t]
      BY <1>1 DEF Retriggered
    <3>2. o = [e.open EXCEPT ![l] = n - 1]
      BY <1>0, <3>1, EngineFields
    <3>3. o \in [Triggers -> Int]
      <4>1. \A m \in Int : [e.open EXCEPT ![l] = m] \in [Triggers -> Int]
        BY <1>0, EngineFields
      <4> HIDE DEF o
      <4> QED BY <2>2, <3>2, <4>1
    <3>4. f = [h EXCEPT !.open = o]
      BY <2>1
    <3> HIDE DEF o
    <3>5. f \in Engine /\ f.open = o
      BY <1>1, <3>3, <3>4 DEF Engine, Firings
    <3>6. /\ SameWorld(e, f)
          /\ f.live = e.live /\ f.busy = e.busy /\ f.sends = e.sends /\ f.sup = e.sup
          /\ f.notice = e.notice /\ f.doubled = e.doubled /\ f.excused = e.excused
          /\ SameTally(e, f) /\ f.rt = h.rt
      BY <1>1, <3>4 DEF Engine, Retriggered, SameWorld, SameTally
    <3> QED BY <3>1, <3>2, <3>5, <3>6 DEF Retriggered
  <2>4. Good(f, U2, V2, X, {}) /\ Turn(e, f)
    BY <2>2, <2>3, RetriggeredGood
  <2> QED BY <2>4 DEF f, h
<1> QED BY <1>3, <1>4, <1>5

LEMMA AnswerGood ==
  ASSUME NEW e, NEW l \in e.live, NEW r, NEW k \in {0, 1}, NEW m \in {0, 1},
         NEW U, NEW V, NEW X, NEW U2, NEW V2,
         Good(e, U, V, X, {}), U \subseteq U2 \cup {l}, V \subseteq V2 \cup {l},
         Answers(e.rt[l], r, k), Fits(e, l, r.trigger, U2, V2, X),
         Due(e, l, r.trigger) + k = Due(e, l, e.rt[l]) + m,
         r.decision = "send" => e.running /\ LiveThere(e)
  PROVE  LET n == e.open[l] + m - (IF r.replaced THEN 1 ELSE 0)
             f == Decided([e EXCEPT !.rt[l] = r.trigger, !.open[l] = n], l, r.decision)
         IN  Good(f, U2, V2, X, {}) /\ Turn(e, f)
<1> DEFINE w == IF r.replaced THEN 1 ELSE 0
           n == e.open[l] + m - w
<1>1. e \in Engine /\ l \in Triggers /\ e.open[l] \in Int
  BY EngineFields DEF Good
<1>2. e.open[l] = Waits(e.rt[l]) + Due(e, l, e.rt[l]) + InHand(e, l, {})
  BY DEF Good, Served, Linked
<1>3. /\ r.trigger \in Trigger
      /\ Waits(r.trigger) + Replies(r.decision) + w = Waits(e.rt[l]) + k
      /\ r.decision = "send" => r.trigger.target = "ready"
  BY DEF Answers, Replies
<1>4. /\ Waits(r.trigger) \in Int /\ Waits(e.rt[l]) \in Int /\ Due(e, l, e.rt[l]) \in Int
      /\ Due(e, l, r.trigger) \in Int /\ InHand(e, l, {}) \in Int /\ Replies(r.decision) \in Int
      /\ w \in Int /\ k \in Int /\ m \in Int
  BY DEF Waits, Due, InHand, Replies
<1> HIDE DEF w
<1>5. n - Replies(r.decision) = Waits(r.trigger) + Due(e, l, r.trigger) + InHand(e, l, {}) /\ n \in Int
  BY <1>1, <1>2, <1>3, <1>4
<1> HIDE DEF n
<1>6. Linked(e, l, r.trigger, n - Replies(r.decision), U2, V2, X, {})
  BY <1>5 DEF Linked
<1>7. LET f == Decided([e EXCEPT !.rt[l] = r.trigger, !.open[l] = n], l, r.decision)
      IN  Good(f, U2, V2, X, {}) /\ Turn(e, f)
  BY <1>3, <1>5, <1>6, DecidedGood
<1> QED BY <1>7 DEF n, w

LEMMA ApplyGood ==
  ASSUME NEW e, NEW l \in e.live, NEW r, NEW k \in {0, 1},
         NEW U, NEW V, NEW X, NEW U2, NEW V2,
         Good(e, U, V, X, {}), U \subseteq U2 \cup {l}, V \subseteq V2 \cup {l},
         Answers(e.rt[l], r, k), Fits(e, l, r.trigger, U2, V2, X),
         Due(e, l, r.trigger) + k = Due(e, l, e.rt[l]),
         r.decision = "send" => e.running /\ LiveThere(e)
  PROVE  Good(Apply(e, l, r), U2, V2, X, {}) /\ Turn(e, Apply(e, l, r))
<1>1. Due(e, l, r.trigger) + k = Due(e, l, e.rt[l]) + 0
  BY DEF Due
<1> DEFINE n == e.open[l] + 0 - (IF r.replaced THEN 1 ELSE 0)
<1>2. e \in Engine /\ l \in Triggers /\ e.open[l] \in Int
  BY EngineFields DEF Good
<1>3. n = IF r.replaced /\ l \in e.live THEN e.open[l] - 1 ELSE e.open[l]
  BY <1>2
<1>4. Apply(e, l, r) = Decided([e EXCEPT !.rt[l] = r.trigger, !.open[l] = n], l, r.decision)
  BY <1>2, <1>3 DEF Apply
<1>5. LET f == Decided([e EXCEPT !.rt[l] = r.trigger, !.open[l] = n], l, r.decision)
      IN  Good(f, U2, V2, X, {}) /\ Turn(e, f)
  BY <1>1, AnswerGood
<1> QED BY <1>4, <1>5

LEMMA TellSourceGood ==
  ASSUME NEW e, NEW l \in e.live, NEW U, NEW V, NEW X,
         Good(e, U, V, X, {}), e.running, LiveThere(e)
  PROVE  LET f == TellSource(e, l)
         IN  Good(f, U \ {l}, V, X, {}) /\ Turn(e, f)
<1> DEFINE a == Status(e, Def[l].from)
           t == e.rt[l]
           r == ObserveSource(t, a)
           k == IF /\ t.on = "done" /\ a.state # "absent" /\ t.base.inst = a.inst
                   /\ a.seq > t.base.seq THEN 1 ELSE 0
<1>0. e \in Engine /\ Numbered(e) /\ l \in Triggers /\ Def[l].from \in Panes /\ t \in Trigger
  BY EngineFields, Ends DEF Good
<1>1. a \in Agents /\ (a.state = "absent" => a = Nobody)
  BY <1>0, StatusFacts
<1>2. /\ Answers(t, r, k) /\ r.trigger.base = Base(a) /\ r.trigger.target = t.target
      /\ r.trigger.waiting => t.waiting \/ t.target = "busy"
  BY <1>0, <1>1, ObserveSourceAnswers
<1> HIDE DEF r
<1>3. Fits(e, l, r.trigger, U \ {l}, V, X)
  BY <1>2 DEF Good, Served, Linked, Fits, Answers
<1>4. Due(e, l, t) = k
  BY DEF Due
<1>5. Due(e, l, r.trigger) = 0
  BY <1>1, <1>2 DEF Due, Base, Agents
<1>6. k \in {0, 1} /\ Due(e, l, r.trigger) + k = Due(e, l, t)
  BY <1>4, <1>5
<1> DEFINE U2 == U \ {l}
<1>6a. U \subseteq U2 \cup {l} /\ V \subseteq V \cup {l}
  OBVIOUS
<1> HIDE DEF a, k, U2
<1>7. Good(Apply(e, l, r), U2, V, X, {}) /\ Turn(e, Apply(e, l, r))
  BY <1>2, <1>3, <1>6, <1>6a, ApplyGood DEF U2
<1> QED BY <1>7 DEF TellSource, r, a, U2

\* The target as it is shown to the link, a, is idle while it is assumed busy only where
\* a second prompt is excused.
LEMMA TellTargetGood ==
  ASSUME NEW e, NEW l \in e.live, NEW a, NEW U, NEW V, NEW X,
         Good(e, U, V, X, {}), e.running, LiveThere(e),
         a = AsTarget(e, Def[l].to) \/ (a = Status(e, Def[l].to) /\ Def[l].to \in X)
  PROVE  LET f == TellTarget(e, l, a)
         IN  Good(f, U, V \ {l}, X, {}) /\ Turn(e, f)
<1> DEFINE p == Def[l].to
           t == e.rt[l]
           r == SeeTarget(t, a)
           z == Status(e, p)
<1>0. e \in Engine /\ Numbered(e) /\ l \in Triggers /\ p \in Panes /\ t \in Trigger
  BY EngineFields, Ends DEF Good
<1>1. /\ Answers(t, r, 0) /\ r.trigger.base = t.base /\ r.trigger.target = Verdict(a)
      /\ r.trigger.waiting => Verdict(a) \notin {"absent", "ready"}
  BY <1>0, SeeTargetAnswers
<1> HIDE DEF r
<1>2. z \in Agents /\ (z.state = "absent" <=> z = Nobody)
  BY <1>0, StatusFacts
<1>3. /\ Verdict(a) \in {"blocked", "busy"} => z.state \notin {"idle", "absent"} \/ e.busy[p] # NotBusy
      /\ Verdict(a) = "ready" => e.busy[p] = NotBusy \/ p \in X
      /\ Verdict(a) \in {"absent", "ready", "blocked", "busy"}
  <2> HIDE DEF z
  <2>1. CASE z # Nobody /\ e.busy[p] # NotBusy /\ a = AsTarget(e, p)
    <3>1. a.state = "working"
      BY <1>2, <2>1 DEF AsTarget, Agents, z
    <3> QED BY <2>1, <3>1 DEF Verdict
  <2>2. CASE a = z /\ (e.busy[p] = NotBusy \/ p \in X \/ z = Nobody)
    BY <1>2, <2>2 DEF Verdict, Nobody
  <2>3. a = z \/ a = AsTarget(e, p)
    BY DEF z
  <2>4. a = AsTarget(e, p) => a = z \/ (z # Nobody /\ e.busy[p] # NotBusy)
    BY DEF AsTarget, z
  <2>5. AsTarget(e, p) = z => e.busy[p] = NotBusy \/ z = Nobody \/ z.state = "working"
    <3> SUFFICES ASSUME e.busy[p] # NotBusy, z # Nobody, AsTarget(e, p) = z PROVE z.state = "working"
      OBVIOUS
    <3>1. AsTarget(e, p) = [z EXCEPT !.state = "working"]
      BY DEF AsTarget, z
    <3> QED BY <3>1, <1>2 DEF Agents
  <2>6. CASE a = z /\ z.state = "working"
    BY <2>6 DEF Verdict
  <2> QED BY <2>1, <2>2, <2>3, <2>4, <2>5, <2>6 DEF z
<1>4. Fits(e, l, t, U, V, X)
  BY DEF Good, Served, Linked
<1>5. Fits(e, l, r.trigger, U, V \ {l}, X)
  <2>1. r.trigger.on = t.on /\ r.trigger.waiting \in BOOLEAN
    BY <1>1, TriggerFields DEF Answers
  <2>2. r.trigger.waiting \/ r.trigger.target = "busy" => Verdict(a) \in {"blocked", "busy"}
    BY <1>1, <1>3
  <2> QED BY <1>1, <1>3, <1>4, <2>1, <2>2 DEF Fits
<1>6. Due(e, l, r.trigger) + 0 = Due(e, l, t)
  BY <1>1 DEF Due, Answers
<1>7. Good(Apply(e, l, r), U, V \ {l}, X, {}) /\ Turn(e, Apply(e, l, r))
  BY <1>1, <1>5, <1>6, ApplyGood
<1> QED BY <1>7 DEF TellTarget, r

LEMMA TellSettingsGood ==
  ASSUME NEW e, NEW l \in e.live, NEW U, NEW V, NEW X, Good(e, U, V, X, {})
  PROVE  LET f == TellSettings(e, l)
         IN  Good(f, U, V, X, {}) /\ Turn(e, f)
<1> DEFINE t == e.rt[l]
           r == Configure(t, SuppressOf(e, l))
<1>0. e \in Engine /\ t \in Trigger
  BY EngineFields DEF Good
<1>1. SuppressOf(e, l) \in Suppressions
  BY DEF SuppressOf, Suppressions
<1>2. /\ Answers(t, r, 0) /\ r.decision # "send" /\ r.trigger.base = t.base
      /\ r.trigger.target = t.target /\ (r.trigger.waiting => t.waiting)
  BY <1>0, <1>1, ConfigureAnswers
<1> HIDE DEF r
<1>3. Fits(e, l, r.trigger, U, V, X)
  BY <1>2 DEF Good, Served, Linked, Fits, Answers
<1>4. Due(e, l, r.trigger) + 0 = Due(e, l, t)
  BY <1>2 DEF Due, Answers
<1>5. Good(Apply(e, l, r), U, V, X, {}) /\ Turn(e, Apply(e, l, r))
  BY <1>2, <1>3, <1>4, ApplyGood
<1> QED BY <1>5 DEF TellSettings, r

-----------------------------------------------------------------------------
(* A notifier decides.                                                     *)

\* f is e with the notifier s for the supervisor p, whose last notice is t.
Renotified(e, f, p, s, t) ==
  /\ SameWorld(e, f)
  /\ f.live = e.live /\ f.busy = e.busy /\ f.sends = e.sends /\ f.rt = e.rt /\ f.open = e.open
  /\ f.doubled = e.doubled /\ f.excused = e.excused /\ SameTally(e, f)
  /\ f.sup = [e.sup EXCEPT ![p] = s] /\ f.notice = [e.notice EXCEPT ![p] = t]

LEMMA RenotifiedGood ==
  ASSUME NEW e, NEW f \in Engine, NEW p \in Supervisors, NEW s, NEW t, NEW U, NEW V, NEW X,
         NEW O \in SUBSET {p}, Good(e, U, V, X, {}), Renotified(e, f, p, s, t),
         s # NoNotifier => Tells(s, t, Telling(e, p, O)),
         s.idle => e.busy[p] = NotBusy \/ p \in e.excused \cup X
  PROVE  Good(f, U, V, X, O) /\ Turn(e, f)
<1>0. e \in Engine /\ p \in Panes
  BY Ends DEF Good
<1>1. f.sup[p] = s /\ f.notice[p] = t
      /\ \A q \in Supervisors \ {p} : f.sup[q] = e.sup[q] /\ f.notice[q] = e.notice[q]
  BY <1>0, EngineFields DEF Renotified
<1>2. /\ Numbered(f) /\ Limited(f) /\ Later(f) /\ Explained(f, {})
  BY NumberedSame, LimitedSame, LaterSame, ExplainedSame DEF Good, Renotified, SameWorld
<1>2a. Explained(f, O)
  BY <1>2 DEF Explained
<1>3. Informed(f, O)
  <2> SUFFICES ASSUME NEW q \in Supervisors, f.sup[q] # NoNotifier
               PROVE  Tells(f.sup[q], f.notice[q], Telling(f, q, O))
    BY DEF Informed
  <2>1. Telling(f, q, O) = Telling(e, q, O)
    BY DEF Telling, Renotified, SameWorld
  <2>2. CASE q = p
    BY <1>1, <2>1, <2>2
  <2>3. CASE q # p
    <3>1. Telling(e, q, {}) => Telling(e, q, O)
      BY DEF Telling
    <3>2. Tells(e.sup[q], e.notice[q], Telling(e, q, {}))
      BY <1>1, <2>3 DEF Good, Informed
    <3> QED BY <1>1, <2>1, <2>3, <3>1, <3>2 DEF Tells
  <2> QED BY <2>2, <2>3
<1>4. Careful(f, X)
  <2>1. \A q \in Supervisors : f.busy[q] # NotBusy /\ q \notin f.excused \cup X => ~f.sup[q].idle
    BY <1>1 DEF Good, Careful, Renotified
  <2> QED BY <2>1 DEF Good, Careful, Renotified, Owned, Owns
<1>5. ASSUME NEW l \in f.live PROVE Linked(f, l, f.rt[l], f.open[l], U, V, X, O)
  <2>1. /\ \A q : Status(f, q) = Status(e, q)
        /\ \A u : Due(f, l, u) = Due(e, l, u)
    BY WorldSame DEF Renotified
  <2>2. l \notin O
    BY EngineFields, Ends
  <2> QED BY <2>1, <2>2 DEF Good, Served, Linked, Fits, InHand, Renotified, SameWorld
<1>6. Served(f, U, V, X, O)
  BY <1>5 DEF Good, Served, Renotified, SameWorld
<1>7. Turn(e, f)
  BY DEF Turn, Renotified
<1> QED BY <1>2, <1>2a, <1>3, <1>4, <1>6, <1>7 DEF Good

\* Who is sending, or is no link, may be the one that has a send in hand.
LEMMA InHandGood ==
  ASSUME NEW e, NEW k, NEW U, NEW V, NEW X, Good(e, U, V, X, {}),
         k \in e.live => e.sends[k][e.gen] # "none"
  PROVE  Good(e, U, V, X, {k})
<1>1. Explained(e, {k})
  BY DEF Good, Explained
<1>2. \A l \in e.live : InHand(e, l, {k}) = InHand(e, l, {})
  BY DEF InHand
<1>3. Served(e, U, V, X, {k})
  BY <1>2 DEF Good, Served, Linked
<1>4. Informed(e, {k})
  BY DEF Good, Informed, Tells, Telling
<1> QED BY <1>1, <1>3, <1>4 DEF Good

\* The notifier s has nothing to tell but what the supervisor knows, or is going to.
Right(e, p, s) == Tells(s, e.notice[p], Telling(e, p, {}))

LEMMA ApplyNotifierGood ==
  ASSUME NEW e, NEW p \in Supervisors, NEW s \in Notifier, NEW U, NEW V, NEW X,
         Good(e, U, V, X, {}), e.running, Right(e, p, s),
         s.idle => e.busy[p] = NotBusy \/ p \in e.excused \cup X
  PROVE  LET f == ApplyNotifier(e, p, s)
         IN  Good(f, U, V, X, {}) /\ Turn(e, f)
<1> DEFINE due == s.dirty = "due" /\ ~s.paused /\ s.idle
           calm == [s EXCEPT !.dirty = "no"]
           again == [s EXCEPT !.dirty = "fresh"]
           news == [inst |-> s.inst, subs |-> s.subs, outcome |-> "under way"]
           taken == [e EXCEPT !.sup[p] = calm, !.notice[p] = news]
           engaged == Engaged(e, p)
           f == ApplyNotifier(e, p, s)
<1>0. e \in Engine /\ p \in Panes /\ p \in Senders /\ p \notin Triggers /\ TargetOf(p) = p
  BY Ends DEF Good
<1>1. \A q \in Notifier, t \in Notice :
        /\ [e.sup EXCEPT ![p] = q] \in [Supervisors -> Notifier]
        /\ [e.notice EXCEPT ![p] = t] \in [Supervisors -> Notice]
  BY <1>0, EngineFields
<1>2. e.notice[p] \in Notice /\ e.notice = [e.notice EXCEPT ![p] = e.notice[p]]
  BY <1>0, EngineFields
<1>3. ASSUME NEW q \in Notifier, NEW h, h = [e EXCEPT !.sup[p] = q], Right(e, p, q),
             q.idle = s.idle
      PROVE  Good(h, U, V, X, {}) /\ Turn(e, h)
  <2>1. h \in Engine /\ Renotified(e, h, p, q, e.notice[p])
    BY <1>0, <1>1, <1>2, <1>3 DEF Engine, Renotified, SameWorld, SameTally, Notifiers, Notices
  <2> QED BY <1>3, <2>1, RenotifiedGood DEF Right
<1>4. /\ calm \in Notifier /\ again \in Notifier /\ calm.idle = s.idle /\ again.idle = s.idle
      /\ again.dirty = "fresh" /\ calm.inst = s.inst /\ calm.subs = s.subs
      /\ news \in Notice
  BY DEF Notifier, Notice
<1>5. CASE ~due
  <2>1. f = [e EXCEPT !.sup[p] = s]
    BY <1>5 DEF ApplyNotifier
  <2> QED BY <1>3, <2>1
<1>6. CASE due /\ Sending(e, p)
  <2>1. f = [e EXCEPT !.sup[p] = again]
    BY <1>6 DEF ApplyNotifier
  <2>2. Right(e, p, again)
    BY <1>4 DEF Tells, Right
  <2> HIDE DEF again, f
  <2>3. Good(f, U, V, X, {}) /\ Turn(e, f)
    BY <1>3, <1>4, <2>1, <2>2
  <2> QED BY <2>3 DEF f
<1>7. CASE due /\ ~Sending(e, p)
  <2> DEFINE g == AssumeBusy(taken, p)
             sends_ == [g.sends EXCEPT ![p][e.gen] = "prompt"]
             h == [g EXCEPT !.sends = sends_]
  <2>1. f = Doubling(h, p, engaged)
    BY <1>7 DEF ApplyNotifier
  <2> HIDE DEF f
  <2>2. taken \in Engine /\ Renotified(e, taken, p, calm, news)
    <3> HIDE DEF calm, news
    <3> QED BY <1>0, <1>1, <1>4 DEF Engine, Renotified, SameWorld, SameTally, Notifiers, Notices
  <2> HIDE DEF taken
  <2>3. Tells(calm, news, Telling(e, p, {p}))
    BY <1>4 DEF Tells, Telling
  <2>4. Good(taken, U, V, X, {p}) /\ Turn(e, taken)
    <3>1. calm.idle => e.busy[p] = NotBusy \/ p \in e.excused \cup X
      BY <1>4
    <3> HIDE DEF calm, news
    <3> QED BY <2>2, <2>3, <3>1, RenotifiedGood
  <2>5. engaged => p \in e.excused \cup X
    <3>1. Owned(e, X) /\ s.idle
      BY <1>7 DEF Good, Careful
    <3> QED BY <1>0, <3>1, Unengaged
  <2>6. Engaged(taken, p) => p \in taken.excused \cup X
    <3>1. taken.busy = e.busy /\ taken.sends = e.sends /\ taken.excused = e.excused
      BY <2>2 DEF Renotified
    <3>2. Engaged(taken, p) <=> Engaged(e, p)
      BY <3>1 DEF Engaged
    <3> QED BY <2>5, <3>1, <3>2
  <2>6a. engaged \in BOOLEAN
    BY DEF Engaged
  <2> HIDE DEF engaged
  <2>7. /\ Good(g, U, V, X, {p}) /\ Turn(taken, g)
        /\ p \in g.excused \cup X \/ Owns(g, p, g.gen)
    BY <1>0, <2>4, <2>6, AssumeBusyGood
  <2> HIDE DEF g
  <2>8. g \in Engine /\ g.gen = e.gen /\ g.gen \in Gens /\ g.running
    BY <2>4, <2>7, EngineFields DEF Good, Turn, SameWorld
  <2>9. sends_ \in [Senders -> [Gens -> {"none", "tail", "prompt"}]]
    BY <1>0, <2>8, EngineFields, SendsExcept
  <2> HIDE DEF sends_
  <2>10. h \in Engine /\ Staged(g, h, p, "prompt")
    <3>1. /\ h \in Engine /\ SameWorld(g, h) /\ SameTally(g, h) /\ h.sends = sends_
          /\ h.live = g.live /\ h.busy = g.busy /\ h.sup = g.sup /\ h.rt = g.rt /\ h.open = g.open
          /\ h.notice = g.notice /\ h.doubled = g.doubled /\ h.excused = g.excused
      BY <2>8, <2>9 DEF Engine, SameWorld, SameTally, Sendings
    <3> HIDE DEF h
    <3> QED BY <1>0, <2>8, <3>1 DEF Staged, SameTally, sends_
  <2> HIDE DEF h
  <2>11. Good(h, U, V, X, {}) /\ Turn(g, h)
    BY <1>0, <2>7, <2>8, <2>10, StagedGood
  <2>12. Turn(e, h)
    BY <2>4, <2>7, <2>11, TurnTransitive
  <2>13. engaged => p \in h.excused \cup X
    BY <2>5, <2>12 DEF Turn
  <2>14. Good(f, U, V, X, {}) /\ Turn(h, f)
    BY <1>0, <2>1, <2>6a, <2>11, <2>13, DoublingGood
  <2>15. Turn(e, f)
    BY <2>12, <2>14, TurnTransitive
  <2> QED BY <2>14, <2>15 DEF f
<1> QED BY <1>5, <1>6, <1>7

LEMMA InformedTells ==
  ASSUME NEW e, NEW O, Informed(e, O), NEW p \in Supervisors
  PROVE  Tells(e.sup[p], e.notice[p], Telling(e, p, O))
<1>1. NoNotifier.inst = 0
  BY DEF NoNotifier
<1>2. CASE e.sup[p] = NoNotifier
  BY <1>1, <1>2 DEF Tells
<1>3. CASE e.sup[p] # NoNotifier
  BY <1>3 DEF Informed
<1> QED BY <1>2, <1>3

LEMMA TellSupervisorGood ==
  ASSUME NEW e, NEW p \in Supervisors, NEW a, NEW U, NEW V, NEW X,
         Good(e, U, V, X, {}), e.running,
         a = AsTarget(e, p) \/ (a = Status(e, p) /\ (e.busy[p] = NotBusy \/ p \in e.excused \cup X))
  PROVE  LET f == TellSupervisor(e, p, a)
         IN  Good(f, U, V, X, {}) /\ Turn(e, f)
<1> DEFINE s == SeeSupervisor(e.sup[p], a)
           z == Status(e, p)
<1>0. e \in Engine /\ Numbered(e) /\ p \in Panes /\ e.sup[p] \in Notifier
  BY EngineFields, Ends DEF Good
<1>1. z \in Agents /\ (z = Nobody \/ z.inst # 0)
  BY <1>0, StatusFacts
<1>2. a \in Agents /\ (a = Nobody \/ a.inst # 0)
  <2>1. CASE a = z
    BY <1>1, <2>1
  <2>2. CASE a = [z EXCEPT !.state = "working"] /\ z # Nobody
    BY <1>1, <2>2 DEF Agents, AgentStates
  <2> QED BY <2>1, <2>2 DEF AsTarget
<1>3. a.state = "idle" => e.busy[p] = NotBusy \/ p \in e.excused \cup X
  <2>1. CASE a = [z EXCEPT !.state = "working"]
    BY <1>1, <2>1 DEF Agents
  <2>2. CASE e.busy[p] # NotBusy /\ z # Nobody /\ a = AsTarget(e, p)
    BY <2>1, <2>2 DEF AsTarget
  <2>3. CASE z = Nobody
    BY <2>3 DEF AsTarget, Nobody
  <2> QED BY <2>2, <2>3
<1>4. Right(e, p, e.sup[p])
  BY InformedTells DEF Good, Right
<1>5. s \in Notifier /\ Right(e, p, s) /\ s.idle = (a.state = "idle")
  BY <1>0, <1>2, <1>4, SeeSupervisorFacts, SeeSupervisorTells DEF Right
<1> HIDE DEF s
<1>6. LET f == ApplyNotifier(e, p, s)
      IN  Good(f, U, V, X, {}) /\ Turn(e, f)
  BY <1>3, <1>5, ApplyNotifierGood
<1> QED BY <1>6 DEF TellSupervisor, s

LEMMA TellPausedGood ==
  ASSUME NEW e, NEW p \in Supervisors, NEW U, NEW V, NEW X,
         Good(e, U, V, X, {}), e.running
  PROVE  LET f == TellPaused(e, p)
         IN  Good(f, U, V, X, {}) /\ Turn(e, f)
<1> DEFINE s == [e.sup[p] EXCEPT !.paused = NoticePaused(e, p)]
<1>0. e \in Engine /\ e.sup[p] \in Notifier
  BY EngineFields DEF Good
<1>1. NoticePaused(e, p) \in BOOLEAN
  BY DEF NoticePaused
<1>2. /\ s \in Notifier /\ s.idle = e.sup[p].idle /\ s.inst = e.sup[p].inst
      /\ s.subs = e.sup[p].subs /\ s.dirty = e.sup[p].dirty
  BY <1>0, <1>1 DEF Notifier
<1>3. Right(e, p, s)
  <2>1. Right(e, p, e.sup[p])
    BY InformedTells DEF Good, Right
  <2> HIDE DEF s
  <2> QED BY <1>2, <2>1 DEF Tells, Right
<1> HIDE DEF s
<1>4. s.idle => e.busy[p] = NotBusy \/ p \in e.excused \cup X
  BY <1>2 DEF Good, Careful
<1>5. LET f == ApplyNotifier(e, p, s)
      IN  Good(f, U, V, X, {}) /\ Turn(e, f)
  BY <1>2, <1>3, <1>4, ApplyNotifierGood
<1> QED BY <1>5 DEF TellPaused, s

LEMMA SubordinatesGood ==
  ASSUME NEW e, NEW p \in Supervisors, NEW U, NEW V, NEW X,
         Good(e, U, V, X, {}), e.running
  PROVE  LET f == Subordinates(e, p)
         IN  Good(f, U, V, X, {}) /\ Turn(e, f)
<1> DEFINE subs == {l \in Supervise : Def[l].to = p /\ There(e, l)}
           dirty == IF subs = e.sup[p].subs THEN e.sup[p].dirty ELSE "fresh"
           s == [e.sup[p] EXCEPT !.subs = subs, !.dirty = dirty]
<1>0. e \in Engine /\ e.sup[p] \in Notifier
  BY EngineFields DEF Good
<1>1. subs \in SUBSET Supervise /\ dirty \in {"no", "fresh", "due"}
  BY <1>0 DEF Notifier
<1>2. /\ s \in Notifier /\ s.idle = e.sup[p].idle /\ s.inst = e.sup[p].inst
      /\ s.subs = subs /\ s.dirty = dirty
  BY <1>0, <1>1 DEF Notifier
<1>3. Right(e, p, s)
  <2>1. Right(e, p, e.sup[p])
    BY InformedTells DEF Good, Right
  <2> HIDE DEF s, subs
  <2> QED BY <1>2, <2>1 DEF Tells, Right
<1> HIDE DEF s
<1>4. s.idle => e.busy[p] = NotBusy \/ p \in e.excused \cup X
  BY <1>2 DEF Good, Careful
<1>5. LET f == ApplyNotifier(e, p, s)
      IN  Good(f, U, V, X, {}) /\ Turn(e, f)
  BY <1>2, <1>3, <1>4, ApplyNotifierGood
<1>6. Subordinates(e, p) = ApplyNotifier(e, p, s)
  BY DEF Subordinates, s
<1> QED BY <1>5, <1>6

-----------------------------------------------------------------------------
(* News.                                                                   *)

LEMMA TurnKeeps ==
  ASSUME NEW e, NEW f, Turn(e, f), e.running, LiveThere(e)
  PROVE  f.running /\ LiveThere(f)
  BY DEF Turn, SameWorld, LiveThere, There

LEMMA GoodWeakens ==
  ASSUME NEW e, NEW U, NEW V, NEW X, NEW U2, NEW V2, NEW X2, NEW O, Good(e, U, V, X, O),
         U \subseteq U2, V \subseteq V2, X \subseteq X2
  PROVE  Good(e, U2, V2, X2, O)
<1>1. Served(e, U2, V2, X2, O)
  BY DEF Good, Served, Linked, Fits
<1>2. Careful(e, X2)
  BY DEF Good, Careful, Owned
<1> QED BY <1>1, <1>2 DEF Good

LEMMA ExcuseGood ==
  ASSUME NEW e, NEW P \in SUBSET Panes, NEW U, NEW V, NEW X, Good(e, U, V, X, {})
  PROVE  LET f == Excuse(e, P)
         IN  /\ Good(f, U, V, X, {}) /\ Turn(e, f)
             /\ \A p \in P : f.busy[p] = NotBusy \/ p \in f.excused
             /\ f.busy = e.busy /\ f.sup = e.sup /\ f.live = e.live /\ f.rt = e.rt
<1> DEFINE d == e.excused \cup {p \in P : Engaged(e, p)}
           f == Excuse(e, P)
<1>0. e \in Engine
  BY DEF Good
<1>1. d \in SUBSET Panes /\ e.excused \subseteq d /\ X \subseteq d \cup X
  BY <1>0, EngineFields
<1>2. f = [e EXCEPT !.excused = d]
  BY DEF Excuse
<1>3. \A p \in P : e.busy[p] = NotBusy \/ p \in d
  BY DEF Engaged
<1> HIDE DEF d, f
<1>4. /\ Good(f, U, V, X, {}) /\ Turn(e, f) /\ f.excused = d
      /\ f.busy = e.busy /\ f.sup = e.sup /\ f.live = e.live /\ f.rt = e.rt
  BY <1>1, <1>2, ExcusedGood
<1> QED BY <1>3, <1>4 DEF f

LEMMA CreateGood ==
  ASSUME NEW e, NEW l \in Triggers \ e.live, NEW U, NEW V, NEW X, Good(e, U, V, X, {}), There(e, l)
  PROVE  LET f == Create(e, l)
         IN  Good(f, U, V, X, {}) /\ Turn(e, f)
<1> DEFINE p == Def[l].to
           a == Status(e, Def[l].from)
           z == Status(e, p)
           t == NewTrigger(Def[l].on, Def[l].whenBusy, SuppressOf(e, l), a, z)
           g == Excuse(e, {p})
           f == Create(e, l)
           rt_ == [g.rt EXCEPT ![l] = t]
           live_ == g.live \cup {l}
<1>0. e \in Engine /\ Numbered(e) /\ l \in Links /\ p \in Panes /\ Def[l].from \in Panes
  BY Ends DEF Good
<1>1. /\ Good(g, U, V, X, {}) /\ Turn(e, g) /\ (g.busy[p] = NotBusy \/ p \in g.excused)
      /\ g.live = e.live
  <2> DEFINE P == {p}
  <2>1. P \in SUBSET Panes /\ p \in P
    BY <1>0
  <2> HIDE DEF P
  <2>2. LET h == Excuse(e, P)
        IN  /\ Good(h, U, V, X, {}) /\ Turn(e, h) /\ h.live = e.live
            /\ \A q \in P : h.busy[q] = NotBusy \/ q \in h.excused
    BY <2>1, ExcuseGood
  <2> QED BY <2>1, <2>2 DEF P
<1>2. a \in Agents /\ z \in Agents
  BY <1>0, StatusFacts
<1>3. /\ t \in Trigger /\ t.on = Def[l].on /\ t.base = Base(a) /\ t.target = Verdict(z)
      /\ t.waiting = FALSE
  <2> DEFINE u == [on |-> Def[l].on, whenBusy |-> Def[l].whenBusy, suppress |-> SuppressOf(e, l),
                   base |-> NoBase, spell |-> "none", target |-> Verdict(z), waiting |-> FALSE]
  <2>1. t = Baseline(u, a)
    BY DEF NewTrigger
  <2>2. /\ SuppressOf(e, l) \in Suppressions
        /\ Verdict(z) \in {"absent", "blocked", "ready", "busy"}
        /\ Base(a) \in [inst : Nat, seq : Nat] /\ NoBase \in [inst : Nat, seq : Nat]
    BY <1>2 DEF SuppressOf, Suppressions, Verdict, Base, NoBase, Agents
  <2> HIDE DEF t, a, z
  <2>3. u \in Trigger
    BY <1>0, <2>2, Ends DEF Trigger
  <2> QED BY <2>1, <2>2, <2>3 DEF Baseline, Trigger
<1> HIDE DEF t
<1>4. f = [g EXCEPT !.live = live_, !.rt = rt_]
  BY DEF Create, t
<1>5. g \in Engine /\ l \in Triggers
  BY <1>1 DEF Good
<1>6. live_ \in SUBSET Triggers /\ rt_ \in [Triggers -> Trigger]
  BY <1>3, <1>5, EngineFields
<1> HIDE DEF g
<1>7. /\ f \in Engine /\ SameWorld(g, f) /\ f.excused = g.excused
      /\ f.live = live_ /\ f.sup = g.sup /\ f.notice = g.notice /\ SameTally(g, f)
      /\ f.doubled = g.doubled /\ f.rt = rt_ /\ f.sends = g.sends /\ f.busy = g.busy
      /\ f.open = g.open
  <2> DEFINE h == [g EXCEPT !.live = live_]
  <2> HIDE DEF live_, rt_
  <2>1. /\ h \in Engine /\ SameWorld(g, h) /\ h.excused = g.excused
        /\ h.live = live_ /\ h.sup = g.sup /\ h.notice = g.notice /\ SameTally(g, h)
        /\ h.doubled = g.doubled /\ h.rt = g.rt /\ h.sends = g.sends /\ h.busy = g.busy
        /\ h.open = g.open
    BY <1>5, <1>6 DEF Engine, SameWorld, SameTally
  <2>2. f = [h EXCEPT !.rt = rt_]
    BY <1>4, <1>5 DEF Engine
  <2> HIDE DEF h, f
  <2>3. /\ f \in Engine /\ SameWorld(h, f) /\ f.excused = h.excused
        /\ f.live = h.live /\ f.sup = h.sup /\ f.notice = h.notice /\ SameTally(h, f)
        /\ f.doubled = h.doubled /\ f.rt = rt_ /\ f.sends = h.sends /\ f.busy = h.busy
        /\ f.open = h.open
    BY <1>6, <2>1, <2>2 DEF Engine, SameWorld, SameTally, Runtimes
  <2> QED BY <2>1, <2>3 DEF SameWorld, SameTally
<1>8. f.rt[l] = t /\ \A k \in g.live : k # l /\ f.rt[k] = g.rt[k]
  BY <1>1, <1>5, <1>7, EngineFields
<1> HIDE DEF f
<1>9. /\ Numbered(f) /\ Limited(f) /\ Informed(f, {}) /\ Later(f)
      /\ Explained(f, {}) /\ Careful(f, X)
  <2>1. SameWorld(g, f) /\ Good(g, U, V, X, {})
    BY <1>1, <1>7
  <2>2. Careful(f, X)
    BY <1>7, <2>1, CarefulSame DEF Good
  <2> QED BY <1>7, <2>1, <2>2, NumberedSame, LimitedSame, InformedSame, LaterSame, ExplainedSame DEF Good, SameWorld
<1>10. /\ \A q : Status(f, q) = Status(e, q) /\ Status(g, q) = Status(e, q)
       /\ \A k, u : Due(f, k, u) = Due(g, k, u)
       /\ There(g, l) /\ g.graph.links[l].state = "there"
  <2>1. SameWorld(e, g) /\ SameWorld(g, f)
    BY <1>1, <1>7 DEF Turn
  <2> QED BY <2>1, WorldSame DEF There
<1>11. ASSUME NEW k \in f.live PROVE Linked(f, k, f.rt[k], f.open[k], U, V, X, {})
  <2>1. CASE k = l
    <3>1. g.open[l] = 0 /\ g.sends[l][g.gen] = "none"
      BY <1>1, <1>5, <1>10 DEF Good, Served
    <3>2. Due(f, l, t) = 0
      BY <1>2, <1>3, <1>10 DEF Due, Base, Agents
    <3>3. InHand(f, l, {}) = 0 /\ Waits(t) = 0
      BY <1>3, <1>7, <3>1 DEF InHand, Waits, SameWorld
    <3>4. Verdict(z) = "busy" => z.state \notin {"idle", "absent"}
      BY DEF Verdict
    <3> HIDE DEF a, z
    <3> QED BY <1>1, <1>3, <1>7, <1>8, <1>10, <2>1, <3>1, <3>2, <3>3, <3>4 DEF Linked, Fits, a, z
  <2>2. CASE k # l
    <3>1. k \in g.live /\ f.rt[k] = g.rt[k]
      BY <1>7, <1>8, <2>2
    <3>2. Linked(g, k, g.rt[k], g.open[k], U, V, X, {})
      BY <1>1, <3>1 DEF Good, Served
    <3> QED BY <1>7, <1>10, <3>1, <3>2 DEF Linked, Fits, InHand, SameWorld
  <2> QED BY <2>1, <2>2
<1>12. Served(f, U, V, X, {})
  BY <1>1, <1>7, <1>10, <1>11 DEF Good, Served, SameWorld
<1>13. Turn(e, f)
  <2>1. Turn(g, f)
    BY <1>7, <1>10 DEF Turn
  <2> QED BY <1>1, <2>1, TurnTransitive
<1> QED BY <1>7, <1>9, <1>12, <1>13 DEF Good, f

\* Whom the news has not reached yet, as sources and as targets.
Concerned(U, V, news) ==
  /\ news.of \in {"status", "free", "connection", "graph"}
  /\ \A l \in U : news.of \in {"status", "connection"} /\ Def[l].from \in news.panes
  /\ \A l \in V : news.of # "graph" /\ Def[l].to \in news.panes

LEMMA SettingsHeardGood ==
  ASSUME NEW e, NEW l \in e.live, NEW news, NEW U, NEW V, NEW X, Good(e, U, V, X, {})
  PROVE  LET f == SettingsHeard(e, l, news)
         IN  Good(f, U, V, X, {}) /\ Turn(e, f)
<1> DEFINE f == SettingsHeard(e, l, news)
<1>1. CASE f = TellSettings(e, l)
  BY <1>1, TellSettingsGood
<1>2. CASE f = e
  BY <1>2, TurnReflexive
<1> QED BY <1>1, <1>2 DEF SettingsHeard

LEMMA SourceHeardGood ==
  ASSUME NEW e, NEW l \in e.live, NEW news, NEW U, NEW V, NEW X,
         Good(e, U, V, X, {}), e.running, Concerned(U, V, news),
         news.of # "graph" => LiveThere(e)
  PROVE  LET f == SourceHeard(e, l, news)
         IN  Good(f, U \ {l}, V, X, {}) /\ Turn(e, f)
<1> DEFINE f == SourceHeard(e, l, news)
<1>1. CASE news.of \in {"status", "connection"} /\ Def[l].from \in news.panes
  <2>1. f = TellSource(e, l)
    BY <1>1 DEF SourceHeard
  <2>2. LiveThere(e)
    BY <1>1
  <2> QED BY <2>1, <2>2, TellSourceGood
<1>2. CASE ~(news.of \in {"status", "connection"} /\ Def[l].from \in news.panes)
  <2>1. f = e
    BY <1>2 DEF SourceHeard
  <2>2. U \ {l} = U
    BY <1>2 DEF Concerned
  <2> QED BY <2>1, <2>2, TurnReflexive
<1> QED BY <1>1, <1>2

LEMMA TargetHeardGood ==
  ASSUME NEW e, NEW l \in e.live, NEW news, NEW U, NEW V, NEW X,
         Good(e, U, V, X, {}), e.running, Concerned(U, V, news),
         news.of # "graph" => LiveThere(e), news.of = "free" => news.panes \subseteq X
  PROVE  LET f == TargetHeard(e, l, news)
         IN  Good(f, U, V \ {l}, X, {}) /\ Turn(e, f)
<1> DEFINE f == TargetHeard(e, l, news)
           p == Def[l].to
           a == IF news.of = "free" THEN Status(e, p) ELSE AsTarget(e, p)
<1>1. CASE news.of # "graph" /\ p \in news.panes
  <2>1. f = TellTarget(e, l, a)
    BY <1>1 DEF TargetHeard
  <2>2. a = AsTarget(e, p) \/ (a = Status(e, p) /\ p \in X)
    BY <1>1
  <2>3. LiveThere(e)
    BY <1>1
  <2> HIDE DEF a, f
  <2>4. Good(TellTarget(e, l, a), U, V \ {l}, X, {}) /\ Turn(e, TellTarget(e, l, a))
    BY <2>2, <2>3, TellTargetGood
  <2> QED BY <2>1, <2>4 DEF f
<1>2. CASE ~(news.of # "graph" /\ p \in news.panes)
  <2>1. f = e
    BY <1>2 DEF TargetHeard
  <2>2. V \ {l} = V
    BY <1>2 DEF Concerned
  <2> QED BY <2>1, <2>2, TurnReflexive
<1> QED BY <1>1, <1>2

LEMMA LinkHearsGood ==
  ASSUME NEW e, NEW l \in e.live, NEW news, NEW U, NEW V, NEW X,
         Good(e, U, V, X, {}), e.running, Concerned(U, V, news),
         news.of # "graph" => LiveThere(e), news.of = "free" => news.panes \subseteq X
  PROVE  LET f == LinkHears(e, l, news)
         IN  Good(f, U \ {l}, V \ {l}, X, {}) /\ Turn(e, f)
<1> DEFINE g == SettingsHeard(e, l, news)
           h == SourceHeard(g, l, news)
           f == TargetHeard(h, l, news)
<1>1. Good(g, U, V, X, {}) /\ Turn(e, g)
  BY SettingsHeardGood
<1> HIDE DEF g
<1>2. l \in g.live /\ g.running /\ (news.of # "graph" => LiveThere(g))
  BY <1>1, TurnKeeps DEF Turn, SameWorld
<1>3. Good(h, U \ {l}, V, X, {}) /\ Turn(g, h)
  BY <1>1, <1>2, SourceHeardGood
<1> HIDE DEF h
<1>4. l \in h.live /\ h.running /\ (news.of # "graph" => LiveThere(h))
  BY <1>2, <1>3, TurnKeeps DEF Turn, SameWorld
<1>5. Concerned(U \ {l}, V, news)
  BY DEF Concerned
<1>6. Good(f, U \ {l}, V \ {l}, X, {}) /\ Turn(h, f)
  BY <1>3, <1>4, <1>5, TargetHeardGood
<1> HIDE DEF f
<1>7. Turn(e, f)
  BY <1>1, <1>3, <1>6, TurnTransitive
<1> QED BY <1>6, <1>7 DEF LinkHears, f, g, h

LEMMA NotifierHearsGood ==
  ASSUME NEW e, NEW p \in Supervisors, NEW news, NEW U, NEW V, NEW X,
         Good(e, U, V, X, {}), e.running, p \in news.panes,
         news.of \in {"status", "free", "connection", "graph"},
         news.of = "free" => news.panes \subseteq X
  PROVE  LET f == NotifierHears(e, p, news)
         IN  Good(f, U, V, X, {}) /\ Turn(e, f)
<1> DEFINE f == NotifierHears(e, p, news)
<1>0. p \in Panes
  BY Ends
<1>1. CASE news.of = "status"
  <2>1. f = TellSupervisor(e, p, AsTarget(e, p))
    BY <1>1 DEF NotifierHears, PausedHeard, SupervisorHeard
  <2> QED BY <2>1, TellSupervisorGood
<1>2. CASE news.of = "free"
  <2>1. f = TellSupervisor(e, p, Status(e, p))
    BY <1>2 DEF NotifierHears, PausedHeard, SupervisorHeard
  <2> QED BY <1>2, <2>1, TellSupervisorGood
<1>3. ASSUME NEW g, Good(g, U, V, X, {}), Turn(e, g)
      PROVE  g.running
  BY <1>3 DEF Turn, SameWorld
<1>4. CASE news.of = "connection"
  <2> DEFINE g == TellPaused(e, p)
             h == Excuse(g, {p})
  <2>1. Good(g, U, V, X, {}) /\ Turn(e, g)
    BY TellPausedGood
  <2> HIDE DEF g
  <2>2. /\ Good(h, U, V, X, {}) /\ Turn(g, h) /\ (h.busy[p] = NotBusy \/ p \in h.excused)
        /\ h.sup = g.sup
    BY <1>0, <2>1, ExcuseGood
  <2> HIDE DEF h
  <2>3. Good(h, U, V, X, {}) /\ Turn(e, h)
    BY <2>1, <2>2, TurnTransitive
  <2>4. f = IF h.up THEN TellSupervisor(h, p, Status(h, p)) ELSE h
    BY <1>4 DEF NotifierHears, PausedHeard, SupervisorHeard, h, g
  <2>5. CASE h.up
    <3>2. Good(f, U, V, X, {}) /\ Turn(h, f)
      BY <1>3, <2>2, <2>3, <2>4, <2>5, TellSupervisorGood
    <3>3. Turn(e, f)
      BY <2>3, <3>2, TurnTransitive
    <3> QED BY <3>2, <3>3
  <2>6. CASE ~h.up
    BY <2>3, <2>4, <2>6
  <2> QED BY <2>5, <2>6
<1>5. CASE news.of = "graph"
  <2> DEFINE g == Subordinates(e, p)
  <2>1. Good(g, U, V, X, {}) /\ Turn(e, g)
    BY SubordinatesGood
  <2> HIDE DEF g
  <2>2. f = TellPaused(g, p)
    BY <1>5 DEF NotifierHears, PausedHeard, SupervisorHeard, g
  <2>3. Good(f, U, V, X, {}) /\ Turn(g, f)
    BY <1>3, <2>1, <2>2, TellPausedGood
  <2> QED BY <2>1, <2>3, TurnTransitive
<1> QED BY <1>1, <1>2, <1>4, <1>5

\* Nothing is asked of a link that has no trigger.
LEMMA GoodUnconcerned ==
  ASSUME NEW e, NEW U, NEW V, NEW X, NEW O, NEW k, Good(e, U, V, X, O), k \notin e.live
  PROVE  Good(e, U \ {k}, V \ {k}, X, O)
<1>1. Served(e, U \ {k}, V \ {k}, X, O)
  BY DEF Good, Served, Linked, Fits
<1> QED BY <1>1 DEF Good

LEMMA HearsGood ==
  ASSUME NEW e, NEW k, NEW news, NEW U, NEW V, NEW X,
         Good(e, U, V, X, {}), e.running, Concerned(U, V, news),
         news.of # "graph" => LiveThere(e), news.of = "free" => news.panes \subseteq X
  PROVE  LET f == Hears(e, k, news)
         IN  Good(f, U \ {k}, V \ {k}, X, {}) /\ Turn(e, f)
<1> DEFINE f == Hears(e, k, news)
<1>0. e.live \subseteq Triggers /\ (k \in Triggers => k \notin Supervisors)
  BY EngineFields, Ends DEF Good
<1>1. CASE k \in e.live
  <2>1. f = LinkHears(e, k, news)
    BY <1>0, <1>1 DEF Hears
  <2> QED BY <1>1, <2>1, LinkHearsGood
<1>2. CASE k \in Triggers \ e.live /\ news.of = "graph" /\ There(e, k)
  <2>1. f = Create(e, k)
    BY <1>0, <1>2 DEF Hears
  <2>2. U \ {k} = U /\ V \ {k} = V
    BY <1>2 DEF Concerned
  <2> QED BY <1>2, <2>1, <2>2, CreateGood
<1>3. CASE k \notin Triggers /\ k \in news.panes \cap Supervisors /\ e.sup[k] # NoNotifier
  <2>1. f = NotifierHears(e, k, news)
    BY <1>0, <1>3 DEF Hears
  <2>2. Good(f, U, V, X, {}) /\ Turn(e, f)
    BY <1>3, <2>1, NotifierHearsGood DEF Concerned
  <2> HIDE DEF f
  <2>3. k \notin f.live
    BY <1>3, <2>2, EngineFields DEF Good
  <2> QED BY <2>2, <2>3, GoodUnconcerned DEF f
<1>4. CASE k \notin e.live /\ f = e
  BY <1>4, GoodUnconcerned, TurnReflexive
<1>5. \/ k \in e.live
      \/ k \in Triggers \ e.live /\ news.of = "graph" /\ There(e, k)
      \/ k \notin Triggers /\ k \in news.panes \cap Supervisors /\ e.sup[k] # NoNotifier
      \/ k \notin e.live /\ f = e
  BY <1>0 DEF Hears
<1> QED BY <1>1, <1>2, <1>3, <1>4, <1>5

LEMMA TellGood ==
  ASSUME NEW e, NEW listeners, NEW news, NEW U, NEW V, NEW X,
         Good(e, U, V, X, {}), e.running, Concerned(U, V, news),
         news.of # "graph" => LiveThere(e), news.of = "free" => news.panes \subseteq X
  PROVE  LET f == Tell(e, listeners, news)
             heard == {listeners[i] : i \in 1 .. N}
         IN  Good(f, U \ heard, V \ heard, X, {}) /\ Turn(e, f)
<1>1. PICK h : /\ h[0] = e /\ Tell(e, listeners, news) = h[N]
               /\ \A n \in 1 .. N : h[n] = Hears(h[n - 1], listeners[n], news)
  BY TellSteps
<1> DEFINE Told(n) == {listeners[i] : i \in 1 .. n}
           Reached(n) == Good(h[n], U \ Told(n), V \ Told(n), X, {}) /\ Turn(e, h[n])
           B == {n \in Nat : Reached(n)}
<1>2. 0 \in B
  <2>1. Told(0) = {} /\ U \ {} = U /\ V \ {} = V
    OBVIOUS
  <2> QED BY <1>1, <2>1, TurnReflexive
<1>3. ASSUME NEW n \in 1 .. N, n - 1 \in B PROVE n \in B
  <2> DEFINE g == h[n - 1]
             U1 == U \ Told(n - 1)
             V1 == V \ Told(n - 1)
             k == listeners[n]
             f == Hears(g, k, news)
  <2>1. Good(g, U1, V1, X, {}) /\ Turn(e, g)
    BY <1>3
  <2>2. Told(n) = Told(n - 1) \cup {k} /\ n \in Nat
    <3>1. 1 .. n = 1 .. (n - 1) \cup {n}
      BY NNat
    <3> QED BY <3>1, NNat
  <2>3. U \ Told(n) = U1 \ {k} /\ V \ Told(n) = V1 \ {k}
    BY <2>2
  <2>4. f = h[n]
    BY <1>1
  <2>5. Concerned(U1, V1, news)
    BY DEF Concerned
  <2>6. g.running /\ (news.of # "graph" => LiveThere(g))
    BY <2>1, TurnKeeps DEF Turn, SameWorld
  <2> HIDE DEF g, U1, V1, k, f, Told
  <2>7. Good(f, U1 \ {k}, V1 \ {k}, X, {}) /\ Turn(g, f)
    BY <2>1, <2>5, <2>6, HearsGood DEF f
  <2>8. Turn(e, f)
    BY <2>1, <2>7, TurnTransitive
  <2> QED BY <2>2, <2>3, <2>4, <2>7, <2>8
<1> HIDE DEF Reached
<1>4. B \in SUBSET Nat
  OBVIOUS
<1>5. \A n \in 1 .. N : n - 1 \in B => n \in B
  BY <1>3, Zenon
<1> HIDE DEF B
<1>6. \A n \in 0 .. N : n \in B
  BY <1>2, <1>4, <1>5, NNat, Counting
<1>7. N \in B
  BY <1>6, NNat
<1> QED BY <1>1, <1>7 DEF B, Reached

LEMMA LinksTold == {LinkSeq[i] : i \in 1 .. N} = Links
  BY GraphAssumption DEF N, Links, ToSet, GraphAssumption

LEMMA TellAllGood ==
  ASSUME NEW e, NEW news, NEW U \in SUBSET Links, NEW V \in SUBSET Links, NEW X,
         Good(e, U, V, X, {}), e.running, LiveThere(e), Concerned(U, V, news),
         news.of = "free" => news.panes \subseteq X
  PROVE  LET f == TellAll(e, news)
         IN  Good(f, {}, {}, X, {}) /\ Turn(e, f)
<1> DEFINE g == Tell(e, LinkSeq, news)
           f == Tell(g, SupervisorSeq, news)
           heard == {SupervisorSeq[i] : i \in 1 .. N}
<1>1. U \ Links = {} /\ V \ Links = {} /\ {} \ heard = {}
  OBVIOUS
<1>2. Good(g, {}, {}, X, {}) /\ Turn(e, g)
  BY <1>1, LinksTold, TellGood
<1> HIDE DEF g
<1>3. g.running /\ LiveThere(g) /\ Concerned({}, {}, news)
  BY <1>2, TurnKeeps DEF Concerned
<1>4. Good(f, {}, {}, X, {}) /\ Turn(g, f)
  <2> HIDE DEF heard, f
  <2>1. Good(f, {} \ heard, {} \ heard, X, {}) /\ Turn(g, f)
    BY <1>2, <1>3, TellGood DEF heard, f
  <2> QED BY <1>1, <2>1
<1>5. Turn(e, f)
  BY <1>2, <1>4, TurnTransitive
<1> QED BY <1>4, <1>5 DEF TellAll, g

-----------------------------------------------------------------------------
(* Turns.                                                                  *)

\* From means the links whose source is among the panes P, To those whose target is.
From(P) == {l \in Links : Def[l].from \in P}
To(P) == {l \in Links : Def[l].to \in P}

\* Prompts leave for links that may send only, and from an engine that runs.
AllowedLeave(sent, f) ==
  \A l \in Triggers, g \in Gens :
    sent[l][g] # "prompt" /\ f.sends[l][g] = "prompt" =>
      g = f.gen /\ f.running /\ Allowed(f.graph, l)

LEMMA TurnLeaves ==
  ASSUME NEW e, NEW f, Good(f, {}, {}, {}, {}), Turn(e, f), e.running
  PROVE  AllowedLeave(e.sends, f)
  BY DEF Turn, SameWorld, AllowedLeave

LEMMA TurnSound ==
  ASSUME NEW e, NEW f, Good(f, {}, {}, {}, {}), Turn(e, f), e.running, LiveThere(e)
  PROVE  Sound(f) /\ AllowedLeave(e.sends, f)
  BY TurnLeaves, TurnKeeps DEF Sound

\* Why the panes P are assumed busy is forgotten; of those in X a second prompt is excused.
LEMMA ClearBusyGood ==
  ASSUME NEW e, NEW P \in SUBSET Panes, NEW U, NEW V, Good(e, U, V, {}, {})
  PROVE  LET f == ClearBusy(e, P)
         IN  /\ Good(f, U, V \cup To(P), P, {})
             /\ SameWorld(e, f) /\ f.live = e.live /\ f.sends = e.sends /\ f.excused = e.excused
             /\ f.doubled = e.doubled /\ f.sup = e.sup /\ f.rt = e.rt /\ f.open = e.open
             /\ \A p \in Panes : f.busy[p] = IF p \in P THEN NotBusy ELSE e.busy[p]
<1> DEFINE b == [p \in Panes |-> IF p \in P THEN NotBusy ELSE e.busy[p]]
           f == ClearBusy(e, P)
           V2 == V \cup To(P)
<1>0. e \in Engine
  BY DEF Good
<1>1. NotBusy \in [by : Senders \cup {"nobody"}, gen : Gens, settled : BOOLEAN,
                   inst : Nat, seq : Nat]
  <2>1. 0 \in Gens
    BY GraphAssumption DEF Gens, GraphAssumption
  <2> QED BY <2>1 DEF NotBusy
<1>2. /\ b \in [Panes -> [by : Senders \cup {"nobody"}, gen : Gens, settled : BOOLEAN,
                          inst : Nat, seq : Nat]]
      /\ \A p \in Panes : b[p] = IF p \in P THEN NotBusy ELSE e.busy[p]
  BY <1>0, <1>1, EngineFields
<1>3. f = [e EXCEPT !.busy = b]
  BY DEF ClearBusy
<1> HIDE DEF b, f
<1>4. /\ f \in Engine /\ SameWorld(e, f) /\ f.excused = e.excused
      /\ f.live = e.live /\ f.sup = e.sup /\ f.notice = e.notice /\ SameTally(e, f)
      /\ f.doubled = e.doubled /\ f.rt = e.rt /\ f.sends = e.sends /\ f.busy = b
      /\ f.open = e.open
  BY <1>0, <1>2, <1>3 DEF Engine, SameWorld, SameTally, Assumed
<1>5. /\ Numbered(f) /\ Limited(f) /\ Informed(f, {}) /\ Later(f)
  BY <1>4, NumberedSame, LimitedSame, InformedSame, LaterSame DEF Good, SameWorld
<1>6. Explained(f, {})
  BY <1>2, <1>4 DEF Good, Explained, SameWorld
<1>7. Careful(f, P)
  <2>1. Owned(f, P)
    <3> SUFFICES ASSUME NEW i \in Senders, NEW j \in Gens, f.sends[i][j] # "none",
                        TargetOf(i) \notin f.excused \cup P
                 PROVE  Owns(f, i, j)
      BY DEF Owned
    <3>1. TargetOf(i) \in Panes /\ Owns(e, i, j)
      BY <1>4, Ends DEF Good, Careful, Owned
    <3> QED BY <1>2, <1>4, <3>1 DEF Owns
  <2> QED BY <1>2, <1>4, <2>1, Ends DEF Good, Careful
<1>8. ASSUME NEW l \in f.live PROVE Linked(f, l, f.rt[l], f.open[l], U, V2, P, {})
  <2>1. /\ \A q : Status(f, q) = Status(e, q)
        /\ \A u : Due(f, l, u) = Due(e, l, u)
    BY <1>4, WorldSame
  <2>2. l \in Links /\ Def[l].to \in Panes /\ l \in e.live
    BY <1>0, <1>4, EngineFields, Ends
  <2>3. Linked(e, l, e.rt[l], e.open[l], U, V, {}, {})
    BY <2>2 DEF Good, Served
  <2>4. b[Def[l].to] = e.busy[Def[l].to] \/ (l \in V2 /\ b[Def[l].to] = NotBusy)
    BY <1>2, <2>2 DEF To
  <2>5. Fits(f, l, f.rt[l], U, V2, P)
    BY <1>4, <2>1, <2>3, <2>4 DEF Linked, Fits
  <2> QED BY <1>4, <2>1, <2>3, <2>5 DEF Linked, InHand, SameWorld
<1>9. Served(f, U, V2, P, {})
  BY <1>4, <1>8 DEF Good, Served, SameWorld
<1> QED BY <1>2, <1>4, <1>5, <1>6, <1>7, <1>9 DEF Good, f

\* What is not engaged needs no excuse.
LEMMA UnengagedGood ==
  ASSUME NEW e, NEW U, NEW V, NEW X, NEW O, Good(e, U, V, X, O),
         \A p \in X : Engaged(e, p) => p \in e.excused,
         e.doubled \subseteq e.excused
  PROVE  Good(e, U, V, {}, O)
<1>0. e \in Engine
  BY DEF Good
<1>1. \A p \in X : p \in e.excused \/ e.busy[p] = NotBusy
  BY DEF Engaged
<1>2. Owned(e, {})
  <2> SUFFICES ASSUME NEW i \in Senders, NEW j \in Gens, e.sends[i][j] # "none",
                      TargetOf(i) \notin e.excused
               PROVE  Owns(e, i, j)
    BY DEF Owned
  <2>1. Engaged(e, TargetOf(i))
    BY DEF Engaged
  <2> QED BY <2>1 DEF Good, Careful, Owned
<1>3. Careful(e, {})
  BY <1>1, <1>2 DEF Good, Careful
<1>4. ASSUME NEW l \in e.live PROVE Linked(e, l, e.rt[l], e.open[l], U, V, {}, O)
  BY <1>1 DEF Good, Served, Linked, Fits
<1>5. Served(e, U, V, {}, O)
  BY <1>4 DEF Good, Served
<1> QED BY <1>3, <1>5 DEF Good

LEMMA GiveUpBusyGood ==
  ASSUME NEW e, NEW P \in SUBSET Panes, NEW U, NEW V, Good(e, U, V, {}, {})
  PROVE  LET f == GiveUpBusy(e, P)
         IN  /\ Good(f, U, V \cup To(P), {}, {})
             /\ SameWorld(e, f) /\ f.live = e.live /\ f.sends = e.sends
             /\ \A p \in Panes : f.busy[p] = IF p \in P THEN NotBusy ELSE e.busy[p]
             /\ \A k \in Senders, g \in Gens :
                  TargetOf(k) \in P /\ f.sends[k][g] # "none" => TargetOf(k) \in f.excused
<1> DEFINE c == ClearBusy(e, P)
           d == c.excused \cup {p \in P : Engaged(c, p)}
           f == GiveUpBusy(e, P)
<1>1. /\ Good(c, U, V \cup To(P), P, {})
      /\ SameWorld(e, c) /\ c.live = e.live /\ c.sends = e.sends /\ c.excused = e.excused
      /\ c.doubled = e.doubled
      /\ \A p \in Panes : c.busy[p] = IF p \in P THEN NotBusy ELSE e.busy[p]
  BY ClearBusyGood, SMTT(30)
<1>2. f = [c EXCEPT !.excused = d]
  BY DEF GiveUpBusy, Excuse
<1> HIDE DEF c, f
<1>3. d \in SUBSET Panes /\ c.excused \subseteq d /\ P \subseteq d \cup P
      /\ \A p \in P : Engaged(c, p) => p \in d
  BY <1>1, EngineFields DEF Good
<1> HIDE DEF d
<1>4. /\ Good(f, U, V \cup To(P), P, {}) /\ Turn(c, f) /\ f.excused = d
      /\ f.live = c.live /\ f.sends = c.sends /\ f.doubled = c.doubled /\ f.busy = c.busy
  <2> DEFINE W == V \cup To(P)
  <2> HIDE DEF W
  <2>1. Good(c, U, W, P, {})
    BY <1>1 DEF W
  <2>2. LET h == [c EXCEPT !.excused = d]
        IN  /\ Good(h, U, W, P, {}) /\ Turn(c, h) /\ h.excused = d
            /\ h.live = c.live /\ h.sends = c.sends /\ h.doubled = c.doubled /\ h.busy = c.busy
    BY <1>3, <2>1, ExcusedGood
  <2> QED BY <1>2, <2>2 DEF W
<1>5. \A p : Engaged(f, p) <=> Engaged(c, p)
  BY <1>4 DEF Engaged
<1>6. f.doubled \subseteq f.excused
  BY <1>1, <1>3, <1>4 DEF Good, Careful
<1>7. Good(f, U, V \cup To(P), {}, {})
  BY <1>3, <1>4, <1>5, <1>6, UnengagedGood
<1>8. SameWorld(e, f)
  BY <1>1, <1>4 DEF Turn, SameWorld
<1>9. ASSUME NEW k \in Senders, NEW g \in Gens, TargetOf(k) \in P, f.sends[k][g] # "none"
      PROVE  TargetOf(k) \in f.excused
  BY <1>3, <1>4, <1>9 DEF Engaged
<1> QED BY <1>1, <1>4, <1>7, <1>8, <1>9 DEF f

\* Nothing rests on whose real state came.
LEMMA ShownOnlyGood ==
  ASSUME NEW e, NEW d \in SUBSET Panes, NEW U, NEW V, NEW X, NEW O, Good(e, U, V, X, O)
  PROVE  LET f == [e EXCEPT !.shown = d]
         IN  Good(f, U, V, X, O) /\ SameWorld(e, f) /\ f.live = e.live /\ f.sends = e.sends
<1> DEFINE f == [e EXCEPT !.shown = d]
<1>1. /\ f \in Engine /\ SameWorld(e, f) /\ f.excused = e.excused
      /\ f.live = e.live /\ f.sup = e.sup /\ f.notice = e.notice /\ SameTally(e, f)
      /\ f.doubled = e.doubled /\ f.rt = e.rt /\ f.sends = e.sends /\ f.busy = e.busy
      /\ f.open = e.open
  BY DEF Good, Engine, SameWorld, SameTally
<1> HIDE DEF f
<1>2. /\ Numbered(f) /\ Limited(f) /\ Informed(f, O) /\ Later(f) /\ Explained(f, O)
      /\ Careful(f, X)
  BY <1>1, NumberedSame, LimitedSame, InformedSame, LaterSame, ExplainedSame, CarefulSame
     DEF Good, SameWorld
<1>3. ASSUME NEW l \in f.live PROVE Linked(f, l, f.rt[l], f.open[l], U, V, X, O)
  <2>1. /\ \A q : Status(f, q) = Status(e, q)
        /\ \A u : Due(f, l, u) = Due(e, l, u)
    BY <1>1, WorldSame
  <2> QED BY <1>1, <2>1 DEF Good, Served, Linked, Fits, InHand, SameWorld
<1>4. Served(f, U, V, X, O)
  BY <1>1, <1>3 DEF Good, Served, SameWorld
<1> QED BY <1>1, <1>2, <1>4 DEF Good, f

LEMMA OnStatusGood ==
  ASSUME NEW e, NEW p \in Panes, Good(e, From({p}), To({p}), {}, {}), LiveThere(e),
         ~(e.running /\ Available(e, p)) => Sound(e)
  PROVE  LET f == OnStatus(e, p)
         IN  Sound(f) /\ AllowedLeave(e.sends, f)
<1> DEFINE f == OnStatus(e, p)
<1>1. CASE ~(e.running /\ Available(e, p))
  BY <1>1 DEF OnStatus, AllowedLeave
<1>2. CASE e.running /\ Available(e, p)
  <2> DEFINE P == {q \in {p} : /\ e.busy[q] # NotBusy
                               /\ StartedOrReplaced(e.busy[q], Status(e, q))}
             h == GiveUpBusy(e, P)
             d == h.shown \cup {q \in P : Engaged(h, q)}
             g == [h EXCEPT !.shown = d]
             U == From({p})
             V == To({p})
             news == News("status", {p})
  <2>1. f = TellAll(g, news)
    <3>1. P = {q \in {p} : /\ e.busy[p] # NotBusy
                           /\ StartedOrReplaced(e.busy[p], Status(e, p))}
      OBVIOUS
    <3> QED BY <1>2, <3>1 DEF OnStatus
  <2>2. P \in SUBSET {p}
    OBVIOUS
  <2> HIDE DEF P
  <2>3. /\ Good(h, U, V \cup To(P), {}, {})
        /\ SameWorld(e, h) /\ h.live = e.live /\ h.sends = e.sends
    BY <2>2, GiveUpBusyGood
  <2> HIDE DEF h
  <2>4. V \cup To(P) = V /\ U \in SUBSET Links /\ V \in SUBSET Links
    BY <2>2 DEF To, From
  <2>5. d \in SUBSET Panes
    BY <2>2, <2>3, EngineFields DEF Good
  <2> HIDE DEF d
  <2>6. /\ Good(g, U, V, {}, {}) /\ SameWorld(h, g) /\ g.live = h.live /\ g.sends = h.sends
    BY <2>3, <2>4, <2>5, ShownOnlyGood
  <2>7. Concerned(U, V, news) /\ news.of = "status"
    BY DEF Concerned, From, To, News
  <2> HIDE DEF g
  <2>8. g.running /\ LiveThere(g)
    <3>1. e.running /\ LiveThere(e)
      BY <1>2
    <3> QED BY <2>3, <2>6, <3>1 DEF SameWorld, LiveThere, There
  <2> HIDE DEF f, U, V, news
  <2>9. Good(f, {}, {}, {}, {}) /\ Turn(g, f)
    BY <2>1, <2>4, <2>6, <2>7, <2>8, TellAllGood
  <2>10. Sound(f) /\ AllowedLeave(g.sends, f)
    BY <2>8, <2>9, TurnSound
  <2> QED BY <2>3, <2>6, <2>10 DEF f
<1> QED BY <1>1, <1>2

\* The five seconds are over.
LEMMA BusyExpiresGood ==
  ASSUME NEW e, NEW p \in Panes, Sound(e), e.running
  PROVE  LET f == [FeedTarget(ClearBusy(e, {p}), p) EXCEPT !.excused = @ \cup {p}]
         IN  Sound(f) /\ AllowedLeave(e.sends, f)
<1> DEFINE g == ClearBusy(e, {p})
           V == To({p})
           news == News("free", {p})
           h == TellAll(g, news)
           d == h.excused \cup {p}
           f == [h EXCEPT !.excused = d]
<1>1. /\ Good(g, {}, V, {p}, {})
      /\ SameWorld(e, g) /\ g.live = e.live /\ g.sends = e.sends
  <2>1. {} \cup To({p}) = V
    OBVIOUS
  <2> QED BY <2>1, ClearBusyGood DEF Sound
<1>2. V \in SUBSET Links /\ Concerned({}, V, news) /\ news.of = "free" /\ news.panes = {p}
  BY DEF Concerned, To, News
<1>3. g.running /\ LiveThere(g)
  BY <1>1 DEF Sound, SameWorld, LiveThere, There
<1> HIDE DEF g, V, news
<1>4. Good(h, {}, {}, {p}, {}) /\ Turn(g, h)
  BY <1>1, <1>2, <1>3, TellAllGood
<1>4a. [FeedTarget(ClearBusy(e, {p}), p) EXCEPT !.excused = @ \cup {p}] = f
  BY DEF FeedTarget, g, news
<1> HIDE DEF h
<1>5. d \in SUBSET Panes /\ h.excused \subseteq d /\ {p} \subseteq d \cup {}
  BY <1>4, EngineFields DEF Good
<1> HIDE DEF d
<1>6. Good(f, {}, {}, {}, {}) /\ Turn(h, f)
  BY <1>4, <1>5, ExcusedGood
<1> HIDE DEF f
<1>7. Turn(g, f)
  BY <1>4, <1>6, TurnTransitive
<1>8. Sound(f) /\ AllowedLeave(g.sends, f)
  BY <1>3, <1>6, <1>7, TurnSound
<1> QED BY <1>1, <1>4a, <1>8

\* The connection came or went.
LEMMA OnAvailabilityGood ==
  ASSUME NEW e, Good(e, From(Remote), To(Remote), {}, {}), LiveThere(e),
         ~e.running => e.live = {}
  PROVE  LET f == OnAvailability(e)
         IN  Sound(f) /\ AllowedLeave(e.sends, f)
<1> DEFINE f == OnAvailability(e)
           U == From(Remote)
           V == To(Remote)
           g == GiveUpBusy(e, Remote)
           news == News("connection", Remote)
<1>1. CASE ~e.running
  <2>1. Good(e, {}, {}, {}, {})
    BY <1>1 DEF Good, Served
  <2> QED BY <1>1, <2>1 DEF OnAvailability, AllowedLeave, Sound
<1>2. CASE e.running
  <2>1. /\ Good(g, U, V, {}, {})
        /\ SameWorld(e, g) /\ g.live = e.live /\ g.sends = e.sends
    <3>1. Remote \in SUBSET Panes /\ V \cup To(Remote) = V
      BY GraphAssumption DEF GraphAssumption
    <3> QED BY <3>1, GiveUpBusyGood
  <2>2. /\ U \in SUBSET Links /\ V \in SUBSET Links
        /\ Concerned(U, V, news) /\ news.of = "connection"
    BY DEF Concerned, From, To, News
  <2>3. g.running /\ LiveThere(g)
    BY <1>2, <2>1 DEF SameWorld, LiveThere, There
  <2>4. f = TellAll(g, news)
    BY <1>2 DEF OnAvailability
  <2> HIDE DEF f, g, U, V, news
  <2>5. Good(f, {}, {}, {}, {}) /\ Turn(g, f)
    BY <2>1, <2>2, <2>3, <2>4, TellAllGood
  <2>6. Sound(f) /\ AllowedLeave(g.sends, f)
    BY <2>3, <2>5, TurnSound
  <2> QED BY <2>1, <2>6 DEF f
<1> QED BY <1>1, <1>2

-----------------------------------------------------------------------------
(* The engine follows the graph.                                           *)

\* The links that are gone lose their triggers.
LEMMA ForgetGood ==
  ASSUME NEW e, Good(e, {}, {}, {}, {})
  PROVE  LET f == Forget(e, {l \in Triggers : ~There(e, l)})
         IN  /\ Good(f, {}, {}, {}, {}) /\ LiveThere(f)
             /\ SameWorld(e, f) /\ f.sends = e.sends
<1> DEFINE gone == {l \in Triggers : ~There(e, l)}
           rt_ == [l \in Triggers |-> IF l \in gone THEN NoTrigger ELSE e.rt[l]]
           open_ == [l \in Triggers |-> IF l \in gone THEN 0 ELSE e.open[l]]
           live_ == e.live \ gone
           f == Forget(e, gone)
<1>0. e \in Engine /\ e.live \in SUBSET Triggers
  BY EngineFields DEF Good
<1>1. NoTrigger \in Trigger
  BY DEF NoTrigger, Trigger, NoBase, Suppressions
<1>2. /\ \A l \in live_ : rt_[l] = e.rt[l] /\ open_[l] = e.open[l]
      /\ \A l \in Triggers \ live_ : open_[l] = 0 \/ (l \notin e.live /\ open_[l] = e.open[l])
  BY <1>0
<1>2a. /\ rt_ \in [Triggers -> Trigger] /\ open_ \in [Triggers -> Int]
      /\ live_ \in SUBSET Triggers
  BY <1>0, <1>1, EngineFields
<1>3. f = [e EXCEPT !.live = live_, !.rt = rt_, !.open = open_]
  BY DEF Forget
<1>4. \A l \in Triggers \ live_ : l \in e.live => ~There(e, l)
  OBVIOUS
<1>5. \A l \in live_ : There(e, l)
  BY <1>0
<1> HIDE DEF rt_, open_, live_, f
<1>6. /\ f \in Engine /\ SameWorld(e, f) /\ f.excused = e.excused
      /\ f.live = live_ /\ f.sup = e.sup /\ f.notice = e.notice /\ SameTally(e, f)
      /\ f.doubled = e.doubled /\ f.rt = rt_ /\ f.sends = e.sends /\ f.busy = e.busy
      /\ f.open = open_
  BY <1>0, <1>2a, <1>3 DEF Engine, SameWorld, SameTally, Runtimes, Firings
<1>7. /\ Numbered(f) /\ Limited(f) /\ Informed(f, {}) /\ Later(f)
      /\ Explained(f, {}) /\ Careful(f, {})
  BY <1>6, NumberedSame, LimitedSame, InformedSame, LaterSame, ExplainedSame, CarefulSame
  DEF Good, SameWorld
<1>8. live_ \subseteq e.live
  BY DEF live_
<1>9. ASSUME NEW l \in live_ PROVE Linked(f, l, f.rt[l], f.open[l], {}, {}, {}, {})
  <2>1. /\ \A q : Status(f, q) = Status(e, q)
        /\ \A u : Due(f, l, u) = Due(e, l, u)
    BY <1>6, WorldSame
  <2>2. Linked(e, l, e.rt[l], e.open[l], {}, {}, {}, {})
    BY <1>8 DEF Good, Served
  <2> QED BY <1>2, <1>6, <2>1, <2>2 DEF Linked, Fits, InHand, SameWorld
<1>10. ASSUME NEW l \in Triggers \ live_
       PROVE  /\ f.open[l] = 0
              /\ f.sends[l][f.gen] # "none" => f.graph.links[l].state = "gone"
  <2>1. CASE l \in e.live
    <3>1. f.open[l] = 0
      BY <1>2, <1>6, <2>1
    <3>2. e.graph.links[l].state \notin {"new", "there"}
      BY <1>4, <2>1 DEF Good, Served, There
    <3>3. e.graph.links[l].state \in {"new", "there", "gone"}
      BY <1>0, EngineFields, Ends DEF Stored
    <3> QED BY <1>6, <3>1, <3>2, <3>3 DEF SameWorld
  <2>2. CASE l \notin e.live
    <3>1. e.open[l] = 0 /\ (e.sends[l][e.gen] # "none" => e.graph.links[l].state = "gone")
      BY <2>2 DEF Good, Served
    <3> QED BY <1>2, <1>6, <3>1 DEF SameWorld
  <2> QED BY <2>1, <2>2
<1>11. Served(f, {}, {}, {}, {})
  BY <1>6, <1>8, <1>9, <1>10 DEF Good, Served, SameWorld
<1>12. LiveThere(f)
  BY <1>5, <1>6 DEF LiveThere, There, SameWorld
<1> QED BY <1>6, <1>7, <1>11, <1>12 DEF Good, f

LEMMA ReconcileLinksGood ==
  ASSUME NEW e, Good(e, {}, {}, {}, {}), e.running
  PROVE  LET f == ReconcileLinks(e)
         IN  /\ Good(f, {}, {}, {}, {}) /\ LiveThere(f) /\ f.running
             /\ f.gen = e.gen /\ f.graph = e.graph /\ AllowedLeave(e.sends, f)
<1> DEFINE news == News("graph", {})
           heard == {LinkSeq[i] : i \in 1 .. N}
           g == Tell(e, LinkSeq, news)
           gone == {l \in Triggers : ~There(e, l)}
           f == Forget(g, gone)
<1>1. Concerned({}, {}, news) /\ news.of = "graph"
  BY DEF Concerned, News
<1>2. Good(g, {}, {}, {}, {}) /\ Turn(e, g)
  <2> HIDE DEF news, heard, g
  <2>1. Good(g, {} \ heard, {} \ heard, {}, {}) /\ Turn(e, g)
    BY <1>1, TellGood DEF heard, g
  <2>2. {} \ heard = {}
    OBVIOUS
  <2> QED BY <2>1, <2>2
<1> HIDE DEF g
<1>3. gone = {l \in Triggers : ~There(g, l)}
  BY <1>2, WorldSame DEF Turn
<1> HIDE DEF gone
<1>4. /\ Good(f, {}, {}, {}, {}) /\ LiveThere(f)
      /\ SameWorld(g, f) /\ f.sends = g.sends
  BY <1>2, <1>3, ForgetGood
<1> HIDE DEF f
<1>5. AllowedLeave(e.sends, f)
  BY <1>2, <1>4 DEF Turn, SameWorld, AllowedLeave
<1>6. f.running /\ f.gen = e.gen /\ f.graph = e.graph
  BY <1>2, <1>4 DEF Turn, SameWorld
<1> QED BY <1>4, <1>5, <1>6 DEF ReconcileLinks, f, g, gone

LEMMA MakeNotifiersGood ==
  ASSUME NEW e, NEW has \in SUBSET Supervisors, NEW new \in SUBSET has, Good(e, {}, {}, {}, {})
  PROVE  LET f == MakeNotifiers(e, has, new)
         IN  Good(f, {}, {}, {}, {}) /\ Turn(e, f)
<1> DEFINE s(p) == CASE p \in new -> NewNotifier(e, p)
                     [] p \in has \ new -> e.sup[p]
                     [] OTHER -> NoNotifier
           sup_ == [p \in Supervisors |-> s(p)]
           d == e.excused \cup {p \in new : Engaged(e, p)}
           f == MakeNotifiers(e, has, new)
<1>0. e \in Engine /\ Supervisors \subseteq Panes
  BY Ends DEF Good
<1>1. ASSUME NEW p \in Supervisors
      PROVE  /\ s(p) \in Notifier
             /\ Right(e, p, s(p))
             /\ s(p).idle => e.busy[p] = NotBusy \/ p \in d
  <2>1. CASE p \in new
    <3>1. s(p) = NewNotifier(e, p)
      BY <2>1
    <3>2. Status(e, p) \in Agents
      BY <1>0, StatusFacts DEF Good
    <3>3. NoticePaused(e, p) \in BOOLEAN
      BY DEF NoticePaused
    <3>4. NewNotifier(e, p) \in Notifier /\ NewNotifier(e, p).dirty = "fresh"
      BY <3>2, <3>3 DEF NewNotifier, Notifier, Agents
    <3>5. e.busy[p] = NotBusy \/ p \in d
      BY <2>1 DEF Engaged
    <3> HIDE DEF s, d
    <3> QED BY <3>1, <3>4, <3>5 DEF Tells, Right
  <2>2. CASE p \in has \ new
    <3>1. s(p) = e.sup[p]
      BY <2>2
    <3>2. Right(e, p, e.sup[p])
      BY InformedTells DEF Good, Right
    <3>3. e.sup[p].idle => e.busy[p] = NotBusy \/ p \in d
      BY DEF Good, Careful
    <3> HIDE DEF s, d
    <3> QED BY <1>0, <3>1, <3>2, <3>3, EngineFields
  <2>3. CASE p \notin has
    <3>1. s(p) = NoNotifier
      BY <2>3
    <3> HIDE DEF s, d
    <3> QED BY <3>1 DEF NoNotifier, Notifier, Tells, Right
  <2> QED BY <2>1, <2>2, <2>3
<1>2. /\ sup_ \in [Supervisors -> Notifier] /\ \A p \in Supervisors : sup_[p] = s(p)
  BY <1>1
<1>3. d \in SUBSET Panes /\ e.excused \subseteq d
  BY <1>0, EngineFields
<1>4. f = [e EXCEPT !.sup = sup_, !.excused = d]
  BY DEF MakeNotifiers, Excuse
<1> HIDE DEF s, sup_, d, f
<1>5. /\ f \in Engine /\ SameWorld(e, f) /\ f.excused = d
      /\ f.live = e.live /\ f.sup = sup_ /\ f.notice = e.notice /\ SameTally(e, f)
      /\ f.doubled = e.doubled /\ f.rt = e.rt /\ f.sends = e.sends /\ f.busy = e.busy
      /\ f.open = e.open
  BY <1>0, <1>2, <1>3, <1>4 DEF Engine, SameWorld, SameTally, Notifiers
<1>6. /\ Numbered(f) /\ Limited(f) /\ Later(f) /\ Explained(f, {})
  BY <1>5, NumberedSame, LimitedSame, LaterSame, ExplainedSame DEF Good, SameWorld
<1>7. Informed(f, {})
  BY <1>1, <1>2, <1>5 DEF Informed, Right, Telling, SameWorld
<1>8. Careful(f, {})
  BY <1>1, <1>2, <1>3, <1>5 DEF Good, Careful, Owned, Owns
<1>9. ASSUME NEW l \in f.live PROVE Linked(f, l, f.rt[l], f.open[l], {}, {}, {}, {})
  <2>1. /\ \A q : Status(f, q) = Status(e, q)
        /\ \A u : Due(f, l, u) = Due(e, l, u)
    BY <1>5, WorldSame
  <2> QED BY <1>3, <1>5, <2>1 DEF Good, Served, Linked, Fits, InHand, SameWorld
<1>10. Served(f, {}, {}, {}, {})
  BY <1>5, <1>9 DEF Good, Served, SameWorld
<1>11. Turn(e, f)
  BY <1>3, <1>5 DEF Turn
<1> QED BY <1>5, <1>6, <1>7, <1>8, <1>10, <1>11 DEF Good, f

LEMMA ReconcileGood ==
  ASSUME NEW e, Good(e, {}, {}, {}, {}), e.running
  PROVE  LET f == Reconcile(e)
         IN  Sound(f) /\ AllowedLeave(e.sends, f) /\ f.running
<1> DEFINE g == ReconcileLinks(e)
           has == {Def[l].to : l \in {k \in Supervise : There(g, k)}}
           news == News("graph", has)
           heard == {SupervisorSeq[i] : i \in 1 .. N}
           h == Tell(g, SupervisorSeq, news)
           new == {p \in has : g.sup[p] = NoNotifier}
           f == MakeNotifiers(h, has, new)
<1>1. /\ Good(g, {}, {}, {}, {}) /\ LiveThere(g) /\ g.running
      /\ g.gen = e.gen /\ g.graph = e.graph /\ AllowedLeave(e.sends, g)
  BY ReconcileLinksGood
<1>2. has \in SUBSET Supervisors /\ new \in SUBSET has
  BY DEF Supervisors
<1>3. Concerned({}, {}, news) /\ news.of = "graph"
  BY DEF Concerned, News
<1>4. Reconcile(e) = f
  BY DEF Reconcile, ReconcileSupervisors
<1> HIDE DEF g, has, new, news
<1>5. Good(h, {}, {}, {}, {}) /\ Turn(g, h)
  <2> HIDE DEF heard, h
  <2>1. Good(h, {} \ heard, {} \ heard, {}, {}) /\ Turn(g, h)
    BY <1>1, <1>3, TellGood DEF heard, h
  <2>2. {} \ heard = {}
    OBVIOUS
  <2> QED BY <2>1, <2>2
<1> HIDE DEF h
<1>6. Good(f, {}, {}, {}, {}) /\ Turn(h, f)
  BY <1>2, <1>5, MakeNotifiersGood
<1> HIDE DEF f
<1>7. Turn(g, f)
  BY <1>5, <1>6, TurnTransitive
<1>8. Sound(f) /\ AllowedLeave(g.sends, f)
  BY <1>1, <1>6, <1>7, TurnSound
<1>9. f.running /\ f.gen = e.gen /\ f.graph = e.graph
  BY <1>1, <1>7 DEF Turn, SameWorld
<1>10. ASSUME NEW l \in Triggers, NEW i \in Gens, e.sends[l][i] # "prompt", f.sends[l][i] = "prompt"
       PROVE  i = f.gen /\ f.running /\ Allowed(f.graph, l)
  <2>1. CASE g.sends[l][i] = "prompt"
    BY <1>1, <1>9, <1>10, <2>1 DEF AllowedLeave
  <2>2. CASE g.sends[l][i] # "prompt"
    BY <1>8, <1>10, <2>2 DEF AllowedLeave
  <2> QED BY <2>1, <2>2
<1>11. AllowedLeave(e.sends, f)
  BY <1>10 DEF AllowedLeave
<1> QED BY <1>4, <1>8, <1>9, <1>11

-----------------------------------------------------------------------------
(* The actions.                                                            *)

\* A step that leaves what is sound, and sends what may be sent.
Steps == \E f : Become(f) /\ Sound(f) /\ AllowedLeave(sends, f)

LEMMA StateFields ==
  /\ State.agent = agent /\ State.up = up /\ State.graph = graph /\ State.queue = queue
  /\ State.gen = gen /\ State.running = running /\ State.live = live /\ State.rt = rt
  /\ State.busy = busy /\ State.sends = sends /\ State.sup = sup /\ State.open = open
  /\ State.notice = notice /\ State.early = early /\ State.tally = tally
  /\ State.doubled = doubled /\ State.excused = excused /\ State.shown = shown
  BY DEF State

\* What Become leaves of e.
Calm(e) ==
  [e EXCEPT !.doubled = {p \in e.doubled : Engaged(e, p)},
            !.excused = {p \in e.excused : Engaged(e, p)},
            !.shown = {p \in e.shown : Engaged(e, p)}]

LEMMA CalmFields ==
  ASSUME NEW e \in Engine
  PROVE  LET f == Calm(e)
         IN  /\ f \in Engine /\ SameWorld(e, f) /\ SameTally(e, f)
             /\ f.live = e.live /\ f.rt = e.rt /\ f.busy = e.busy /\ f.sends = e.sends
             /\ f.sup = e.sup /\ f.open = e.open /\ f.notice = e.notice
             /\ f.doubled = {p \in e.doubled : Engaged(e, p)}
             /\ f.excused = {p \in e.excused : Engaged(e, p)}
             /\ f.shown = {p \in e.shown : Engaged(e, p)}
<1> DEFINE d == {p \in e.doubled : Engaged(e, p)}
           x == {p \in e.excused : Engaged(e, p)}
           r == {p \in e.shown : Engaged(e, p)}
<1>1. d \in SUBSET Panes /\ x \in SUBSET Panes /\ r \in SUBSET Panes
  BY EngineFields
<1>2. Calm(e) = [e EXCEPT !.doubled = d, !.excused = x, !.shown = r]
  BY DEF Calm
<1> HIDE DEF d, x, r
<1>3. LET f == Calm(e)
      IN  /\ f \in Engine /\ SameWorld(e, f) /\ SameTally(e, f)
          /\ f.live = e.live /\ f.rt = e.rt /\ f.busy = e.busy /\ f.sends = e.sends
          /\ f.sup = e.sup /\ f.open = e.open /\ f.notice = e.notice
          /\ f.doubled = d /\ f.excused = x /\ f.shown = r
  <2>1. Calm(e) \in Engine
    <3> DEFINE i == [e EXCEPT !.doubled = d]
               j == [i EXCEPT !.excused = x]
    <3>1. i \in Engine
      BY <1>1, SMTT(30) DEF Engine
    <3> HIDE DEF i
    <3>2. j \in Engine
      BY <1>1, <3>1, SMTT(30) DEF Engine
    <3> HIDE DEF j
    <3>3. [j EXCEPT !.shown = r] \in Engine
      BY <1>1, <3>2, SMTT(30) DEF Engine
    <3>4. Calm(e) = [j EXCEPT !.shown = r]
      BY <1>2 DEF i, j
    <3> QED BY <3>3, <3>4
  <2>2. SameWorld(e, Calm(e)) /\ SameTally(e, Calm(e))
    BY <1>2, SMTT(30) DEF Engine, SameWorld, SameTally
  <2>3. LET f == Calm(e)
        IN  /\ f.live = e.live /\ f.rt = e.rt /\ f.busy = e.busy /\ f.sends = e.sends
            /\ f.sup = e.sup /\ f.open = e.open /\ f.notice = e.notice
            /\ f.doubled = d /\ f.excused = x /\ f.shown = r
    BY <1>2, SMTT(30) DEF Engine
  <2> QED BY <2>1, <2>2, <2>3
<1> QED BY <1>3 DEF d, x, r

\* Of what is not engaged nothing was assumed.
LEMMA CalmSound ==
  ASSUME NEW e, Sound(e)
  PROVE  Sound(Calm(e)) /\ Calm(e).sends = e.sends
<1> DEFINE f == Calm(e)
<1>0. Good(e, {}, {}, {}, {}) /\ e \in Engine
  BY DEF Sound, Good
<1>1. /\ f \in Engine /\ SameWorld(e, f) /\ SameTally(e, f)
      /\ f.live = e.live /\ f.rt = e.rt /\ f.busy = e.busy /\ f.sends = e.sends
      /\ f.sup = e.sup /\ f.open = e.open /\ f.notice = e.notice
      /\ f.doubled = {p \in e.doubled : Engaged(e, p)}
      /\ f.excused = {p \in e.excused : Engaged(e, p)}
  BY <1>0, CalmFields
<1> HIDE DEF f
<1>2. /\ Numbered(f) /\ Limited(f) /\ Informed(f, {}) /\ Later(f) /\ Explained(f, {})
  BY <1>0, <1>1, NumberedSame, LimitedSame, InformedSame, LaterSame, ExplainedSame
     DEF Good, SameWorld
<1>3. \A p : e.busy[p] # NotBusy /\ p \in e.excused => p \in f.excused
  BY <1>1 DEF Engaged
<1>4. ASSUME NEW k \in Senders, NEW g \in Gens, f.sends[k][g] # "none",
             TargetOf(k) \notin f.excused
      PROVE  Owns(f, k, g)
  <2>1. Engaged(e, TargetOf(k))
    BY <1>1, <1>4 DEF Engaged
  <2>2. TargetOf(k) \notin e.excused
    BY <1>1, <1>4, <2>1
  <2> QED BY <1>0, <1>1, <1>4, <2>2 DEF Good, Careful, Owned, Owns
<1>5. Careful(f, {})
  BY <1>0, <1>1, <1>3, <1>4 DEF Good, Careful, Owned
<1>6. ASSUME NEW l \in f.live PROVE Linked(f, l, f.rt[l], f.open[l], {}, {}, {}, {})
  <2>1. /\ \A q : Status(f, q) = Status(e, q)
        /\ \A u : Due(f, l, u) = Due(e, l, u)
    BY <1>1, WorldSame
  <2>2. Fits(f, l, f.rt[l], {}, {}, {})
    BY <1>0, <1>1, <1>3, <2>1 DEF Good, Served, Linked, Fits
  <2>3. InHand(f, l, {}) = InHand(e, l, {})
    BY <1>1 DEF InHand, SameWorld
  <2> QED BY <1>0, <1>1, <2>1, <2>2, <2>3 DEF Good, Served, Linked
<1>7. Served(f, {}, {}, {}, {})
  BY <1>0, <1>1, <1>6 DEF Good, Served, SameWorld
<1>8. LiveThere(f) /\ (~f.running => f.live = {})
  BY <1>1 DEF Sound, LiveThere, There, SameWorld
<1> QED BY <1>1, <1>2, <1>5, <1>7, <1>8 DEF Good, Sound, f

LEMMA StepsSound == ASSUME Steps PROVE Sound(State)' /\ UNCHANGED scenario
<1>1. PICK f : Become(f) /\ Sound(f)
  BY DEF Steps
<1>2. f \in Engine
  BY <1>1 DEF Sound, Good
<1>3. State' = Calm(f)
  <2> DEFINE d == {p \in f.doubled : Engaged(f, p)}
             x == {p \in f.excused : Engaged(f, p)}
             r == {p \in f.shown : Engaged(f, p)}
  <2>1. /\ agent' = f.agent /\ up' = f.up /\ graph' = f.graph /\ queue' = f.queue
        /\ gen' = f.gen /\ running' = f.running /\ live' = f.live /\ rt' = f.rt
        /\ busy' = f.busy /\ sends' = f.sends /\ sup' = f.sup /\ open' = f.open
        /\ notice' = f.notice /\ early' = f.early /\ tally' = f.tally
        /\ doubled' = d /\ excused' = x /\ shown' = r
    BY <1>1, Zenon DEF Become
  <2>2. /\ Calm(f) \in Engine /\ SameWorld(f, Calm(f)) /\ SameTally(f, Calm(f))
        /\ Calm(f).live = f.live /\ Calm(f).rt = f.rt /\ Calm(f).busy = f.busy
        /\ Calm(f).sends = f.sends /\ Calm(f).sup = f.sup /\ Calm(f).open = f.open
        /\ Calm(f).notice = f.notice
        /\ Calm(f).doubled = d /\ Calm(f).excused = x /\ Calm(f).shown = r
    BY <1>2, CalmFields
  <2> HIDE DEF d, x, r
  <2>3. ASSUME NEW c \in Engine
        PROVE  c = [agent |-> c.agent, up |-> c.up, graph |-> c.graph, queue |-> c.queue,
                    gen |-> c.gen, running |-> c.running, live |-> c.live, rt |-> c.rt,
                    busy |-> c.busy, sends |-> c.sends, sup |-> c.sup, open |-> c.open,
                    notice |-> c.notice, early |-> c.early, tally |-> c.tally,
                    doubled |-> c.doubled, excused |-> c.excused, shown |-> c.shown]
    BY <2>3, SMTT(30) DEF Engine
  <2>4. Calm(f) = [agent |-> f.agent, up |-> f.up, graph |-> f.graph, queue |-> f.queue,
             gen |-> f.gen,
             running |-> f.running, live |-> f.live, rt |-> f.rt, busy |-> f.busy,
             sends |-> f.sends, sup |-> f.sup, open |-> f.open, notice |-> f.notice,
             early |-> f.early, tally |-> f.tally, doubled |-> d, excused |-> x, shown |-> r]
    BY <2>2, <2>3, Zenon DEF SameWorld, SameTally
  <2> QED BY <2>1, <2>4, Zenon DEF State
<1>4. Sound(State')
  BY <1>1, <1>3, CalmSound
<1> QED BY <1>1, <1>4 DEF Become

\* Whoever hears of it is told: other agents, or another connection.
Shown(e, f) ==
  /\ f.graph = e.graph /\ f.queue = e.queue /\ f.gen = e.gen /\ f.running = e.running
  /\ f.live = e.live /\ f.rt = e.rt /\ f.busy = e.busy /\ f.sends = e.sends /\ f.sup = e.sup
  /\ f.notice = e.notice /\ f.doubled = e.doubled /\ f.excused = e.excused /\ SameTally(e, f)

LEMMA NothingDue ==
  ASSUME NEW e, NEW l \in e.live, Good(e, {}, {}, {}, {})
  PROVE  /\ e.rt[l].base = Base(Status(e, Def[l].from)) /\ e.rt[l].on = Def[l].on
         /\ Due(e, l, e.rt[l]) = 0
<1>1. Fits(e, l, e.rt[l], {}, {}, {})
  BY DEF Good, Served, Linked
<1>2. e.rt[l].base = Base(Status(e, Def[l].from)) /\ e.rt[l].on = Def[l].on
  BY <1>1 DEF Fits
<1>3. e \in Engine /\ l \in Triggers /\ Numbered(e)
  BY EngineFields DEF Good
<1>4. Def[l].from \in Panes
  BY <1>3, Ends
<1>5. Status(e, Def[l].from).seq \in Nat
  BY <1>3, <1>4, StatusFacts DEF Agents
<1> QED BY <1>2, <1>5 DEF Due, Base

LEMMA ShownGood ==
  ASSUME NEW e, NEW f \in Engine, NEW P \in SUBSET Panes, Good(e, {}, {}, {}, {}),
         Shown(e, f), Numbered(f), \A p \in Panes \ P : Status(f, p) = Status(e, p),
         \A l \in e.live : f.open[l] = e.open[l] + Due(f, l, e.rt[l]),
         \A l \in Triggers \ e.live : f.open[l] = 0
  PROVE  Good(f, From(P), To(P), {}, {})
<1>1. /\ Limited(f) /\ Informed(f, {}) /\ Later(f)
      /\ Explained(f, {}) /\ Careful(f, {})
  BY LimitedSame, InformedSame, LaterSame, ExplainedSame, CarefulSame DEF Shown, Good
<1>2. ASSUME NEW l \in f.live PROVE Linked(f, l, f.rt[l], f.open[l], From(P), To(P), {}, {})
  <2> DEFINE t == e.rt[l]
  <2>1. l \in e.live /\ f.rt[l] = t /\ f.open[l] = e.open[l] + Due(f, l, t)
    BY DEF Shown
  <2>2. Linked(e, l, t, e.open[l], {}, {}, {}, {}) /\ Due(e, l, t) = 0
    BY <2>1, NothingDue DEF Good, Served
  <2>3. l \in Links /\ Def[l].from \in Panes /\ Def[l].to \in Panes
    BY <2>1, EngineFields, Ends DEF Good
  <2>4. /\ l \notin From(P) => Status(f, Def[l].from) = Status(e, Def[l].from)
        /\ l \notin To(P) => Status(f, Def[l].to) = Status(e, Def[l].to)
    BY <2>3 DEF From, To
  <2>5. Fits(f, l, t, From(P), To(P), {})
    BY <2>2, <2>4 DEF Linked, Fits, Shown
  <2>6. Waits(t) \in Int /\ InHand(e, l, {}) \in Int /\ Due(f, l, t) \in Int
    BY DEF Waits, InHand, Due
  <2>7. InHand(f, l, {}) = InHand(e, l, {})
    BY DEF InHand, Shown
  <2>8. f.open[l] = Waits(t) + Due(f, l, t) + InHand(f, l, {})
    BY <2>1, <2>2, <2>6, <2>7 DEF Linked
  <2> QED BY <2>1, <2>5, <2>8 DEF Linked
<1>3. Served(f, From(P), To(P), {}, {})
  BY <1>2 DEF Good, Served, Shown
<1> QED BY <1>1, <1>3 DEF Good

\* The status of one pane.
LEMMA StatusSound ==
  ASSUME NEW e, NEW f \in Engine, NEW p \in Panes, Sound(e), Shown(e, f), Numbered(f),
         f.up = e.up, \A q \in Panes \ {p} : f.agent[q] = e.agent[q],
         \A l \in e.live : f.open[l] = e.open[l] + Due(f, l, e.rt[l]),
         \A l \in Triggers \ e.live : f.open[l] = 0
  PROVE  LET r == OnStatus(f, p)
         IN  Sound(r) /\ AllowedLeave(e.sends, r)
<1>0. Good(e, {}, {}, {}, {})
  BY DEF Sound
<1>1. \A q \in Panes \ {p} : Status(f, q) = Status(e, q)
  BY DEF Status, Available
<1>2. Good(f, From({p}), To({p}), {}, {})
  BY <1>0, <1>1, ShownGood
<1>3. LiveThere(f) /\ (~f.running => f.live = {})
  BY DEF Sound, Shown, LiveThere, There
<1>4. ASSUME ~(f.running /\ Available(f, p)) PROVE Sound(f)
  <2>1. CASE ~f.running
    <3>1. Good(f, {}, {}, {}, {})
      BY <1>2, <1>3, <2>1 DEF Good, Served
    <3> QED BY <1>3, <3>1 DEF Sound
  <2>2. CASE ~Available(f, p)
    <3>1. \A q \in Panes : Status(f, q) = Status(e, q)
      BY <1>1, <2>2 DEF Status, Available
    <3>2. Good(f, From({}), To({}), {}, {})
      BY <1>0, <3>1, ShownGood
    <3>3. From({}) = {} /\ To({}) = {}
      BY DEF From, To
    <3> QED BY <1>3, <3>2, <3>3 DEF Sound
  <2> QED BY <1>4, <2>1, <2>2
<1>5. f.sends = e.sends
  BY DEF Shown
<1> DEFINE r == OnStatus(f, p)
<1>6. Sound(r) /\ AllowedLeave(f.sends, r)
  BY <1>2, <1>3, <1>4, OnStatusGood
<1> QED BY <1>5, <1>6

LEMMA SoundFacts ==
  ASSUME Sound(State)
  PROVE  /\ Good(State, {}, {}, {}, {}) /\ State \in Engine /\ Numbered(State)
         /\ live \in SUBSET Triggers /\ open \in [Triggers -> Int]
         /\ agent \in [Panes -> Agents] /\ gen \in Gens /\ running \in BOOLEAN /\ up \in BOOLEAN
         /\ \A l \in Triggers \ live : open[l] = 0
         /\ \A p \in Panes : agent[p].inst # 0
<1>1. Good(State, {}, {}, {}, {}) /\ State \in Engine /\ Numbered(State)
  BY DEF Sound, Good
<1>2. /\ live \in SUBSET Triggers /\ open \in [Triggers -> Int]
      /\ agent \in [Panes -> Agents] /\ gen \in Gens /\ running \in BOOLEAN /\ up \in BOOLEAN
  BY <1>1, EngineFields, StateFields
<1>3. \A l \in Triggers \ live : open[l] = 0
  BY <1>1, StateFields DEF Good, Served
<1>4. \A p \in Panes : agent[p].inst # 0
  BY <1>1, StateFields DEF Numbered
<1> QED BY <1>1, <1>2, <1>3, <1>4

LEMMA OpenExcept ==
  ASSUME NEW e \in Engine, NEW f, NEW op \in [Triggers -> Int], f = [e EXCEPT !.open = op]
  PROVE  f \in Engine /\ Shown(e, f) /\ f.agent = e.agent /\ f.open = op /\ f.up = e.up
  BY DEF Engine, Shown, SameTally, Firings

LEMMA AgentExcept ==
  ASSUME NEW e \in Engine, NEW f, NEW ag \in [Panes -> Agents], f = [e EXCEPT !.agent = ag]
  PROVE  f \in Engine /\ Shown(e, f) /\ f.agent = ag /\ f.open = e.open /\ f.up = e.up
  BY DEF Engine, Shown, SameTally, Tracked

LEMMA CompletedAgent ==
  ASSUME NEW a \in Agents
  PROVE  LET b == [a EXCEPT !.state = "idle", !.seq = @ + 1]
         IN  b \in Agents /\ b.state = "idle" /\ b.inst = a.inst /\ b.seq = a.seq + 1
<1> DEFINE c == [a EXCEPT !.state = "idle"]
           b == [c EXCEPT !.seq = c.seq + 1]
<1>1. c \in Agents /\ c.state = "idle" /\ c.inst = a.inst /\ c.seq = a.seq /\ a.seq \in Nat
  BY DEF Agents, AgentStates
<1> HIDE DEF c
<1>2. b \in Agents /\ b.state = "idle" /\ b.inst = c.inst /\ b.seq = c.seq + 1
  BY <1>1 DEF Agents
<1>3. b = [a EXCEPT !.state = "idle", !.seq = @ + 1]
  BY <1>1 DEF c
<1> HIDE DEF b
<1> QED BY <1>1, <1>2, <1>3

\* What a pane shows changes, and nothing is completed by that.
LEMMA ShowsSound ==
  ASSUME NEW p \in Panes, NEW a \in Agents, Sound(State), a.inst # 0,
         \/ a.state = "absent"
         \/ a.inst # agent[p].inst
         \/ a.seq <= agent[p].seq
  PROVE  LET r == OnStatus(Shows(p, a), p)
         IN  Sound(r) /\ AllowedLeave(sends, r)
<1> DEFINE f == Shows(p, a)
           ag == [agent EXCEPT ![p] = a]
<1>0. /\ Good(State, {}, {}, {}, {}) /\ State \in Engine /\ Numbered(State)
      /\ agent \in [Panes -> Agents] /\ open \in [Triggers -> Int] /\ live \in SUBSET Triggers
      /\ \A l \in Triggers \ live : open[l] = 0
      /\ \A q \in Panes : agent[q].inst # 0
  BY SoundFacts
<1>1. /\ ag \in [Panes -> Agents] /\ ag[p] = a
      /\ \A q \in Panes \ {p} : ag[q] = agent[q]
  BY <1>0
<1>2. f = [State EXCEPT !.agent = ag]
  BY DEF Shows, State
<1> HIDE DEF ag, f
<1>3. f \in Engine /\ Shown(State, f) /\ f.agent = ag /\ f.up = State.up /\ f.open = State.open
  BY <1>0, <1>1, <1>2, AgentExcept
<1>4. Numbered(f)
  BY <1>0, <1>1, <1>3 DEF Numbered
<1>5. ASSUME NEW l \in live PROVE f.open[l] = State.open[l] + Due(f, l, State.rt[l])
  <2> DEFINE t == State.rt[l]
             q == Def[l].from
  <2>1. t.base = Base(Status(State, q)) /\ Due(State, l, t) = 0 /\ q \in Panes
    BY <1>0, NothingDue, Ends, StateFields
  <2>2. CASE q # p
    <3>1. Status(f, q) = Status(State, q)
      BY <1>1, <1>3, <2>1, <2>2, StateFields DEF Status, Available
    <3> QED BY <1>0, <1>3, <2>1, <3>1, StateFields DEF Due
  <2>3. CASE q = p
    <3>1. Status(f, q) = IF Available(f, p) /\ a.state # "absent" THEN a ELSE Nobody
      BY <1>1, <1>3, <2>3 DEF Status
    <3>2. Status(State, q) = agent[p] \/ Status(State, q) = Nobody
      BY <2>3, StateFields DEF Status
    <3>3. Due(f, l, t) = 0
      BY <1>0, <2>1, <3>1, <3>2 DEF Due, Base, Nobody, Agents
    <3> QED BY <1>0, <1>3, <3>3, StateFields
  <2> QED BY <2>2, <2>3
<1>6. /\ \A q \in Panes \ {p} : f.agent[q] = State.agent[q]
      /\ \A l \in State.live : f.open[l] = State.open[l] + Due(f, l, State.rt[l])
      /\ \A l \in Triggers \ State.live : f.open[l] = 0
  BY <1>0, <1>1, <1>3, <1>5, StateFields
<1> DEFINE r == OnStatus(f, p)
<1>7. Sound(r) /\ AllowedLeave(State.sends, r)
  BY <1>3, <1>4, <1>6, StatusSound
<1> QED BY <1>7, StateFields DEF f

LEMMA AgentChangesSteps ==
  ASSUME NEW p \in Panes, NEW state \in AgentStates, Sound(State), AgentChanges(p, state)
  PROVE  Steps
<1> DEFINE a == [agent[p] EXCEPT !.state = state]
<1>1. a \in Agents /\ a.inst # 0 /\ a.seq <= agent[p].seq
  BY SoundFacts DEF Agents
<1> HIDE DEF a
<1>2. LET r == OnStatus(Shows(p, a), p) IN Sound(r) /\ AllowedLeave(sends, r)
  BY <1>1, ShowsSound
<1> QED BY <1>2 DEF AgentChanges, Steps, a

LEMMA AgentLeavesSteps ==
  ASSUME NEW p \in Panes, Sound(State), AgentLeaves(p)
  PROVE  Steps
<1> DEFINE a == [agent[p] EXCEPT !.state = "absent"]
<1>1. a \in Agents /\ a.inst # 0 /\ a.state = "absent"
  BY SoundFacts DEF Agents, AgentStates
<1> HIDE DEF a
<1>2. LET r == OnStatus(Shows(p, a), p) IN Sound(r) /\ AllowedLeave(sends, r)
  BY <1>1, ShowsSound
<1> QED BY <1>2 DEF AgentLeaves, Steps, a

LEMMA AgentStartsSteps ==
  ASSUME NEW p \in Panes, Sound(State), AgentStarts(p)
  PROVE  Steps
<1> DEFINE a == [inst |-> agent[p].inst + 1, state |-> "unknown", seq |-> 0]
<1>1. a \in Agents /\ a.inst # 0 /\ a.inst # agent[p].inst
  BY SoundFacts DEF Agents, AgentStates
<1> HIDE DEF a
<1>2. LET r == OnStatus(Shows(p, a), p) IN Sound(r) /\ AllowedLeave(sends, r)
  BY <1>1, ShowsSound
<1> QED BY <1>2 DEF AgentStarts, Steps, a

LEMMA AgentReportedSteps ==
  ASSUME NEW p \in Panes, Sound(State), AgentReported(p)
  PROVE  Steps
<1>1. agent[p] \in Agents /\ agent[p].inst # 0 /\ agent[p].seq <= agent[p].seq
  BY SoundFacts DEF Agents
<1>2. LET r == OnStatus(Shows(p, agent[p]), p) IN Sound(r) /\ AllowedLeave(sends, r)
  BY <1>1, ShowsSound
<1>3. Shows(p, agent[p]) = State
  BY SoundFacts DEF Shows, State
<1> QED BY <1>2, <1>3 DEF AgentReported, Steps

LEMMA AgentCompletesSteps ==
  ASSUME NEW p \in Panes, Sound(State), AgentCompletes(p)
  PROVE  Steps
<1> DEFINE a == [agent[p] EXCEPT !.state = "idle", !.seq = @ + 1]
           ag == [agent EXCEPT ![p] = a]
           owed(l) == l \in live /\ Def[l].from = p /\ Def[l].on = "done" /\ Available(State, p)
           op == [l \in Triggers |-> IF owed(l) THEN open[l] + 1 ELSE open[l]]
           f == Owed(Shows(p, a), p)
           r == OnStatus(f, p)
<1>0. /\ Good(State, {}, {}, {}, {}) /\ State \in Engine /\ Numbered(State)
      /\ agent \in [Panes -> Agents] /\ open \in [Triggers -> Int] /\ live \in SUBSET Triggers
      /\ \A l \in Triggers \ live : open[l] = 0
      /\ \A q \in Panes : agent[q].inst # 0
  BY SoundFacts
<1>1. /\ a \in Agents /\ a.state = "idle" /\ a.inst = agent[p].inst /\ a.seq = agent[p].seq + 1
      /\ agent[p].seq \in Nat /\ agent[p].state = "working"
  <2>1. agent[p] \in Agents
    BY <1>0
  <2>2. agent[p].state = "working"
    BY DEF AgentCompletes
  <2>3. agent[p].seq \in Nat
    BY <2>1 DEF Agents
  <2>4. a \in Agents /\ a.state = "idle" /\ a.inst = agent[p].inst /\ a.seq = agent[p].seq + 1
    <3> DEFINE b == agent[p]
    <3>1. b \in Agents /\ a = [b EXCEPT !.state = "idle", !.seq = @ + 1]
      BY <2>1
    <3> HIDE DEF b, a
    <3>2. a \in Agents /\ a.state = "idle" /\ a.inst = b.inst /\ a.seq = b.seq + 1
      BY <3>1, CompletedAgent, Zenon
    <3> QED BY <3>2 DEF b
  <2> HIDE DEF a
  <2> QED BY <2>2, <2>3, <2>4
<1> HIDE DEF a
<1>2. /\ ag \in [Panes -> Agents] /\ ag[p] = a
      /\ \A q \in Panes \ {p} : ag[q] = agent[q]
  BY <1>0, <1>1
<1>3. /\ op \in [Triggers -> Int]
      /\ \A l \in Triggers : op[l] = IF owed(l) THEN open[l] + 1 ELSE open[l]
  BY <1>0
<1> DEFINE g == Shows(p, a)
<1>5. /\ f \in Engine /\ Shown(State, f) /\ f.agent = ag /\ f.up = State.up /\ f.open = op
  <2>1. g = [State EXCEPT !.agent = ag]
    BY DEF Shows, State
  <2>2. op = [l \in Triggers |->
                IF l \in g.live /\ Def[l].from = p /\ Def[l].on = "done" /\ Available(g, p)
                THEN g.open[l] + 1 ELSE g.open[l]]
    BY DEF Shows, State, Available
  <2>3. f = [g EXCEPT !.open = op]
    BY <2>2, Zenon DEF Owed
  <2> HIDE DEF g, op, ag, f
  <2>4. g \in Engine /\ Shown(State, g) /\ g.agent = ag /\ g.open = State.open /\ g.up = State.up
    BY <1>0, <1>2, <2>1, AgentExcept
  <2>5. f \in Engine /\ Shown(g, f) /\ f.agent = g.agent /\ f.open = op /\ f.up = g.up
    BY <1>3, <2>3, <2>4, OpenExcept
  <2> QED BY <2>4, <2>5 DEF Shown, SameTally
<1> HIDE DEF ag, op, f
<1>6. Numbered(f)
  BY <1>0, <1>1, <1>2, <1>5 DEF Numbered
<1>7. ASSUME NEW l \in live PROVE op[l] = open[l] + Due(f, l, State.rt[l])
  <2> DEFINE t == State.rt[l]
             q == Def[l].from
  <2>1. /\ t.base = Base(Status(State, q)) /\ t.on = Def[l].on /\ Due(State, l, t) = 0
        /\ q \in Panes /\ l \in Triggers
    BY <1>0, NothingDue, Ends, StateFields
  <2>2. CASE q # p
    <3>1. Status(f, q) = Status(State, q)
      BY <1>2, <1>5, <2>1, <2>2, StateFields DEF Status, Available
    <3>2. Due(f, l, t) = 0
      BY <2>1, <3>1 DEF Due
    <3> QED BY <1>0, <1>3, <2>1, <2>2, <3>2
  <2>3. CASE q = p
    <3>1. Available(f, p) = Available(State, p)
      BY <1>5 DEF Available
    <3>2. Status(f, q) = IF Available(State, p) THEN a ELSE Nobody
      BY <1>1, <1>2, <1>5, <2>3, <3>1 DEF Status
    <3>3. Status(State, q) = IF Available(State, p) THEN agent[p] ELSE Nobody
      BY <1>1, <2>3, StateFields DEF Status
    <3>4. CASE owed(l)
      <4>1. Due(f, l, t) = 1
        BY <1>1, <2>1, <3>2, <3>3, <3>4 DEF Due, Base
      <4> QED BY <1>3, <2>1, <3>4, <4>1
    <3>5. CASE ~owed(l)
      <4>1. Due(f, l, t) = 0
        BY <2>1, <2>3, <3>2, <3>5 DEF Due, Nobody
      <4> QED BY <1>0, <1>3, <2>1, <3>5, <4>1
    <3> QED BY <3>4, <3>5
  <2> QED BY <2>2, <2>3
<1>8. /\ \A q \in Panes \ {p} : f.agent[q] = State.agent[q]
      /\ \A l \in State.live : f.open[l] = State.open[l] + Due(f, l, State.rt[l])
      /\ \A l \in Triggers \ State.live : f.open[l] = 0
  BY <1>0, <1>2, <1>3, <1>5, <1>7, StateFields
<1>9. Sound(r) /\ AllowedLeave(State.sends, r)
  BY <1>5, <1>6, <1>8, StatusSound
<1>10. Become(r)
  BY DEF AgentCompletes, f, a
<1> QED BY <1>9, <1>10, StateFields DEF Steps

LEMMA UpExcept ==
  ASSUME NEW e \in Engine, NEW f, NEW b \in BOOLEAN, f = [e EXCEPT !.up = b]
  PROVE  f \in Engine /\ Shown(e, f) /\ f.agent = e.agent /\ f.open = e.open /\ f.up = b
  BY DEF Engine, Shown, SameTally

LEMMA ConnectionChangesSteps ==
  ASSUME Sound(State), ConnectionChanges
  PROVE  Steps
<1> DEFINE f == [State EXCEPT !.up = ~up]
           r == OnAvailability(f)
<1>0. /\ Good(State, {}, {}, {}, {}) /\ State \in Engine /\ Numbered(State)
      /\ open \in [Triggers -> Int] /\ live \in SUBSET Triggers
      /\ \A l \in Triggers \ live : open[l] = 0
      /\ (~up) \in BOOLEAN
  BY SoundFacts
<1>1. Become(r)
  BY DEF ConnectionChanges
<1>2. /\ f \in Engine /\ Shown(State, f) /\ f.agent = State.agent /\ f.open = State.open
      /\ f.up = ~up
  <2> DEFINE b == ~up
  <2>1. f = [State EXCEPT !.up = b] /\ b \in BOOLEAN
    BY <1>0
  <2> HIDE DEF f, b
  <2>2. /\ f \in Engine /\ Shown(State, f) /\ f.agent = State.agent /\ f.open = State.open
        /\ f.up = b
    BY <1>0, <2>1, UpExcept
  <2> QED BY <2>2 DEF b
<1> HIDE DEF f
<1>3. Numbered(f)
  BY <1>0, <1>2 DEF Numbered
<1>4. Remote \in SUBSET Panes /\ \A p \in Panes \ Remote : Status(f, p) = Status(State, p)
  BY <1>2, GraphAssumption DEF Status, Available, GraphAssumption
<1>5. ASSUME NEW l \in live PROVE f.open[l] = State.open[l] + Due(f, l, State.rt[l])
  <2> DEFINE t == State.rt[l]
             q == Def[l].from
             a == State.agent[q]
  <2>1. /\ t.base = Base(Status(State, q)) /\ q \in Panes /\ l \in Triggers
        /\ a \in Agents /\ a.inst # 0
    BY <1>0, NothingDue, Ends, StateFields, SoundFacts
  <2>2. Status(f, q) \in {a, Nobody} /\ Status(State, q) \in {a, Nobody}
    BY <1>2 DEF Status
  <2>3. Due(f, l, t) = 0
    BY <2>1, <2>2 DEF Due, Base, Nobody, Agents
  <2> QED BY <1>0, <1>2, <2>1, <2>3, StateFields
<1>6. Good(f, From(Remote), To(Remote), {}, {})
  <2>1. /\ \A l \in State.live : f.open[l] = State.open[l] + Due(f, l, State.rt[l])
        /\ \A l \in Triggers \ State.live : f.open[l] = 0
    BY <1>0, <1>2, <1>5, StateFields
  <2> QED BY <1>0, <1>2, <1>3, <1>4, <2>1, ShownGood
<1>7. LiveThere(f) /\ (~f.running => f.live = {}) /\ f.sends = sends
  BY <1>2, StateFields DEF Sound, Shown, LiveThere, There
<1>8. Sound(r) /\ AllowedLeave(f.sends, r)
  BY <1>6, <1>7, OnAvailabilityGood
<1> QED BY <1>1, <1>7, <1>8 DEF Steps

LEMMA BusyExpiresSteps ==
  ASSUME NEW p \in Panes, Sound(State), BusyExpires(p)
  PROVE  Steps
<1> DEFINE r == [FeedTarget(ClearBusy(State, {p}), p) EXCEPT !.excused = @ \cup {p}]
<1>1. Become(r) /\ State.running
  BY StateFields DEF BusyExpires
<1>2. Sound(r) /\ AllowedLeave(State.sends, r)
  BY <1>1, BusyExpiresGood
<1> QED BY <1>1, <1>2, StateFields DEF Steps

\* A turn that starts from the state.
LEMMA TurnSteps ==
  ASSUME NEW r, Sound(State), running, Become(r), Good(r, {}, {}, {}, {}), Turn(State, r)
  PROVE  Steps
<1>1. State.running /\ LiveThere(State) /\ State.sends = sends
  BY StateFields DEF Sound
<1>2. Sound(r) /\ AllowedLeave(State.sends, r)
  BY <1>1, TurnSound
<1> QED BY <1>1, <1>2 DEF Steps

\* A spell that has lasted is one more firing.
LEMMA HeldGood ==
  ASSUME NEW e, NEW l \in e.live, NEW U, NEW V, NEW X,
         Good(e, U, V, X, {}), e.running, LiveThere(e)
  PROVE  LET f == Apply([e EXCEPT !.open[l] = @ + 1], l, HoldElapses(e.rt[l]))
         IN  Good(f, U, V, X, {}) /\ Turn(e, f)
<1> DEFINE t == e.rt[l]
           r == HoldElapses(t)
           n == e.open[l] + 1 - (IF r.replaced THEN 1 ELSE 0)
<1>0. e \in Engine /\ l \in Triggers /\ t \in Trigger /\ e.open \in [Triggers -> Int]
  BY EngineFields DEF Good
<1>1. /\ Answers(t, r, 1) /\ r.trigger.base = t.base /\ r.trigger.target = t.target
      /\ r.trigger.waiting => t.target = "busy"
  BY <1>0, HoldElapsesAnswers
<1>2. Fits(e, l, t, U, V, X)
  BY DEF Good, Served, Linked
<1>3. r.trigger.on = t.on
  BY <1>1 DEF Answers
<1> HIDE DEF r
<1>4. Fits(e, l, r.trigger, U, V, X) /\ Due(e, l, r.trigger) + 1 = Due(e, l, e.rt[l]) + 1
  BY <1>1, <1>2, <1>3 DEF Fits, Due
<1>d. 1 \in {0, 1}
  OBVIOUS
<1>5. LET f == Decided([e EXCEPT !.rt[l] = r.trigger, !.open[l] = n], l, r.decision)
      IN  Good(f, U, V, X, {}) /\ Turn(e, f)
  BY <1>1, <1>4, <1>d, AnswerGood
<1>6. Apply([e EXCEPT !.open[l] = @ + 1], l, r)
        = Decided([e EXCEPT !.rt[l] = r.trigger, !.open[l] = n], l, r.decision)
  <2> DEFINE g == [e EXCEPT !.open[l] = e.open[l] + 1]
             v == IF r.replaced /\ l \in g.live THEN g.open[l] - 1 ELSE g.open[l]
  <2>1. g.live = e.live /\ g.open[l] = e.open[l] + 1
    BY <1>0 DEF Engine
  <2>2. v = n
    BY <1>0, <2>1
  <2>3. [g EXCEPT !.rt[l] = r.trigger, !.open[l] = v]
          = [e EXCEPT !.rt[l] = r.trigger, !.open[l] = v]
    <3> HIDE DEF v
    <3> QED BY <1>0 DEF Engine
  <2> HIDE DEF v, n
  <2>4. Apply(g, l, r) = Decided([g EXCEPT !.rt[l] = r.trigger, !.open[l] = v], l, r.decision)
    BY DEF Apply, v
  <2> QED BY <2>2, <2>3, <2>4
<1> QED BY <1>5, <1>6 DEF r

LEMMA SpellHoldsSteps ==
  ASSUME NEW l \in Triggers, Sound(State), SpellHolds(l)
  PROVE  Steps
<1> DEFINE f == Apply([State EXCEPT !.open[l] = @ + 1], l, HoldElapses(State.rt[l]))
<1>1. Good(State, {}, {}, {}, {}) /\ l \in State.live /\ State.running /\ LiveThere(State)
  BY StateFields DEF SpellHolds, Sound
<1>2. Good(f, {}, {}, {}, {}) /\ Turn(State, f)
  BY <1>1, HeldGood
<1>3. Become(f) /\ running
  BY StateFields DEF SpellHolds
<1> HIDE DEF f
<1> QED BY <1>2, <1>3, TurnSteps

LEMMA WaitedGood ==
  ASSUME NEW e, NEW l \in e.live, NEW U, NEW V, NEW X, Good(e, U, V, X, {}), e.rt[l].waiting
  PROVE  LET f == Apply(e, l, WaitExpires(e.rt[l]))
         IN  Good(f, U, V, X, {}) /\ Turn(e, f)
<1> DEFINE t == e.rt[l]
           r == WaitExpires(t)
<1>0. t \in Trigger
  BY EngineFields DEF Good
<1>1. /\ Answers(t, r, 0) /\ r.decision # "send" /\ r.trigger.base = t.base
      /\ r.trigger.target = t.target /\ ~r.trigger.waiting
  BY <1>0, WaitExpiresAnswers
<1>2. Fits(e, l, t, U, V, X)
  BY DEF Good, Served, Linked
<1>3. r.trigger.on = t.on
  BY <1>1 DEF Answers
<1> HIDE DEF r
<1>4. Fits(e, l, r.trigger, U, V, X) /\ Due(e, l, r.trigger) + 0 = Due(e, l, e.rt[l])
  BY <1>1, <1>2, <1>3 DEF Fits, Due
<1>5. Good(Apply(e, l, r), U, V, X, {}) /\ Turn(e, Apply(e, l, r))
  BY <1>1, <1>4, ApplyGood
<1> QED BY <1>5 DEF r

LEMMA WaitTooLongSteps ==
  ASSUME NEW l \in Triggers, Sound(State), WaitTooLong(l)
  PROVE  Steps
<1> DEFINE f == Apply(State, l, WaitExpires(State.rt[l]))
<1>1. Good(State, {}, {}, {}, {}) /\ l \in State.live /\ State.rt[l].waiting
  BY StateFields DEF WaitTooLong, Sound
<1>2. Good(f, {}, {}, {}, {}) /\ Turn(State, f)
  BY <1>1, WaitedGood
<1>3. Become(f) /\ running
  BY StateFields DEF WaitTooLong
<1> HIDE DEF f
<1> QED BY <1>2, <1>3, TurnSteps

LEMMA NoticedGood ==
  ASSUME NEW e, NEW p \in Supervisors, NEW d \in {"no", "fresh", "due"}, NEW U, NEW V, NEW X,
         Good(e, U, V, X, {}), d # "no"
  PROVE  LET s == [e.sup[p] EXCEPT !.dirty = d]
         IN  /\ s \in Notifier /\ Right(e, p, s)
             /\ s.idle => e.busy[p] = NotBusy \/ p \in e.excused \cup X
<1> DEFINE s == [e.sup[p] EXCEPT !.dirty = d]
<1>1. e.sup[p] \in Notifier
  BY EngineFields DEF Good
<1>2. s \in Notifier /\ s.dirty = d /\ s.idle = e.sup[p].idle
  BY <1>1 DEF Notifier
<1> HIDE DEF s
<1>3. Right(e, p, s)
  BY <1>2 DEF Right, Tells
<1>4. s.idle => e.busy[p] = NotBusy \/ p \in e.excused \cup X
  BY <1>2 DEF Good, Careful
<1> QED BY <1>2, <1>3, <1>4 DEF s

LEMMA DueGood ==
  ASSUME NEW e, NEW p \in Supervisors, NEW U, NEW V, NEW X, Good(e, U, V, X, {}), e.running
  PROVE  LET f == ApplyNotifier(e, p, [e.sup[p] EXCEPT !.dirty = "due"])
         IN  Good(f, U, V, X, {}) /\ Turn(e, f)
<1> DEFINE d == "due"
           s == [e.sup[p] EXCEPT !.dirty = d]
<1>1. d \in {"no", "fresh", "due"} /\ d # "no"
  OBVIOUS
<1>2. /\ s \in Notifier /\ Right(e, p, s)
      /\ s.idle => e.busy[p] = NotBusy \/ p \in e.excused \cup X
  <2> HIDE DEF d
  <2> QED BY <1>1, NoticedGood
<1> HIDE DEF s
<1>3. LET f == ApplyNotifier(e, p, s)
      IN  Good(f, U, V, X, {}) /\ Turn(e, f)
  BY <1>2, ApplyNotifierGood
<1> QED BY <1>3 DEF s

LEMMA NoticeDueSteps ==
  ASSUME NEW p \in Supervisors, Sound(State), NoticeDue(p)
  PROVE  Steps
<1> DEFINE f == ApplyNotifier(State, p, [State.sup[p] EXCEPT !.dirty = "due"])
<1>1. Good(State, {}, {}, {}, {}) /\ State.running
  BY StateFields DEF NoticeDue, Sound
<1>2. Good(f, {}, {}, {}, {}) /\ Turn(State, f)
  BY <1>1, DueGood
<1>3. Become(f) /\ running
  BY StateFields DEF NoticeDue
<1> HIDE DEF f
<1> QED BY <1>2, <1>3, TurnSteps

-----------------------------------------------------------------------------
(* The turns of a send.                                                    *)

\* A send that ends leaves less.
LEMMA OverSound ==
  ASSUME NEW e, NEW k \in Senders, NEW g \in Gens, Sound(e), e.sends[k][g] # "none",
         Unawaited(e, k, g)
  PROVE  LET f == Over(e, k, g)
         IN  /\ Sound(f) /\ SameWorld(e, f) /\ SameTally(e, f)
             /\ f.sends \in [Senders -> [Gens -> {"none", "tail", "prompt"}]]
             /\ f.sends[k][g] = "none"
             /\ \A i \in Senders, j \in Gens : i # k \/ j # g => f.sends[i][j] = e.sends[i][j]
<1> DEFINE f == Over(e, k, g)
           O == IF g = e.gen THEN {k} ELSE {}
<1>1. Good(e, {}, {}, {}, {}) /\ e \in Engine
  BY DEF Sound, Good
<1>2. Good(e, {}, {}, {}, O)
  <2>1. CASE g = e.gen
    <3>1. O = {k} /\ (k \in e.live => e.sends[k][e.gen] # "none")
      BY <2>1
    <3> HIDE DEF O
    <3> QED BY <1>1, <3>1, InHandGood
  <2>2. CASE g # e.gen
    BY <1>1, <2>2
  <2> QED BY <2>1, <2>2
<1>3. /\ Good(f, {}, {}, {}, {}) /\ Turn(e, f)
      /\ f.live = e.live /\ f.sup = e.sup /\ f.notice = e.notice /\ SameTally(e, f)
      /\ f.sends = [e.sends EXCEPT ![k][g] = "none"]
  <2> HIDE DEF f
  <2>1. O = IF g = e.gen THEN {k} ELSE {}
    OBVIOUS
  <2> HIDE DEF O
  <2> QED BY <1>2, <2>1, OverGood DEF f
<1> HIDE DEF f
<1>4. /\ f.sends \in [Senders -> [Gens -> {"none", "tail", "prompt"}]]
      /\ f.sends[k][g] = "none"
      /\ \A i \in Senders, j \in Gens : i # k \/ j # g => f.sends[i][j] = e.sends[i][j]
  BY <1>1, <1>3, EngineFields, SendsExcept
<1>5. Sound(f)
  BY <1>3 DEF Sound, LiveThere, There, Turn, SameWorld
<1> QED BY <1>3, <1>4, <1>5 DEF f, Turn

LEMMA OverSteps ==
  ASSUME NEW k \in Triggers, NEW g \in Gens, Sound(State), sends[k][g] # "none",
         Become(Over(State, k, g))
  PROVE  Steps
<1> DEFINE f == Over(State, k, g)
<1>0. k \in Senders /\ Unawaited(State, k, g)
  BY Ends DEF Unawaited
<1>1. /\ Sound(f) /\ f.sends[k][g] = "none"
      /\ \A i \in Senders, j \in Gens : i # k \/ j # g => f.sends[i][j] = State.sends[i][j]
  BY <1>0, OverSound, StateFields
<1> HIDE DEF f
<1>2. AllowedLeave(sends, f)
  BY <1>1, Ends, StateFields DEF AllowedLeave
<1> QED BY <1>1, <1>2 DEF Steps, f

LEMMA TailFailsSteps ==
  ASSUME NEW l \in Triggers, NEW g \in Gens, Sound(State), TailFails(l, g)
  PROVE  Steps
<1>1. sends[l][g] # "none" /\ Become(Over(State, l, g))
  BY StateFields DEF TailFails, Over
<1> QED BY <1>1, OverSteps

\* A send that needs no excuse is the only one to its target.
LEMMA AloneUnlessExcused ==
  ASSUME NEW e, NEW l \in Triggers, Good(e, {}, {}, {}, {}), e.sends[l][e.gen] # "none",
         Def[l].to \notin e.excused
  PROVE  Owns(e, l, e.gen) /\ ~EngagedOtherwise(e, l)
<1> DEFINE p == Def[l].to
           own == e.busy[p].by = l /\ e.busy[p].gen = e.gen
           sends_ == [e.sends EXCEPT ![l][e.gen] = "none"]
           busy_ == [e.busy EXCEPT ![p] = IF own THEN NotBusy ELSE @]
           f == [e EXCEPT !.sends[l][e.gen] = "none", !.busy[p] = IF own THEN NotBusy ELSE @]
<1>0. e \in Engine /\ e.gen \in Gens /\ l \in Senders /\ TargetOf(l) = p /\ p \in Panes
  BY EngineFields, Ends DEF Good
<1>1. \A k \in Senders, g \in Gens :
        e.sends[k][g] # "none" /\ TargetOf(k) = p => e.busy[p].by = k /\ e.busy[p].gen = g
  BY <1>0 DEF Good, Careful, Owned, Owns
<1>2. Owns(e, l, e.gen) /\ own
  BY <1>0, <1>1 DEF Good, Careful, Owned
<1>3. f.sends = sends_ /\ f.busy = busy_
  <2>1. f = [e EXCEPT !.sends = sends_, !.busy = busy_]
    OBVIOUS
  <2> HIDE DEF f, sends_, busy_
  <2> QED BY <1>0, <2>1 DEF Engine
<1>4. busy_[p] = NotBusy
  BY <1>0, <1>2, EngineFields
<1>5. ASSUME NEW k \in Senders, NEW g \in Gens, TargetOf(k) = p PROVE sends_[k][g] = "none"
  <2>1. /\ sends_[l][e.gen] = "none"
        /\ \A i \in Senders, j \in Gens : i # l \/ j # e.gen => sends_[i][j] = e.sends[i][j]
    BY <1>0, EngineFields, SendsExcept
  <2> QED BY <1>0, <1>1, <1>2, <1>5, <2>1
<1> HIDE DEF sends_, busy_
<1>6. ~Engaged(f, p)
  <2> HIDE DEF f
  <2> QED BY <1>3, <1>4, <1>5 DEF Engaged
<1>7. EngagedOtherwise(e, l) <=> Engaged(f, p)
  BY DEF EngagedOtherwise
<1> QED BY <1>2, <1>6, <1>7

\* The screen is read while the engine runs on.
LEMMA TailReadGood ==
  ASSUME NEW e, NEW l \in Triggers, NEW g \in Gens, Sound(e), g = e.gen, e.sends[l][g] = "tail"
  PROVE  LET f == BeginPrompt(e, l, EngagedOtherwise(e, l))
         IN  Good(f, {}, {}, {}, {}) /\ Turn(e, f) /\ e.running
<1> DEFINE engaged == EngagedOtherwise(e, l)
<1>1. Good(e, {}, {}, {}, {}) /\ LiveThere(e) /\ l \in Senders
  BY Ends DEF Sound
<1>2. Good(e, {}, {}, {}, {l})
  BY <1>1, InHandGood
<1>3. e.running
  BY <1>1 DEF Good, Later
<1>4. l \in e.live \/ ~There(e, l)
  BY <1>1 DEF Good, Served, There
<1>5. Def[l].to \in e.excused \cup {} \/ (Owns(e, l, e.gen) /\ ~engaged)
  BY <1>1, AloneUnlessExcused
<1>6. engaged \in BOOLEAN
  BY DEF EngagedOtherwise, Engaged
<1> HIDE DEF engaged
<1>7. LET f == BeginPrompt(e, l, engaged)
      IN  Good(f, {}, {}, {}, {}) /\ Turn(e, f)
  BY <1>1, <1>2, <1>3, <1>4, <1>5, <1>6, BeginPromptGood
<1> QED BY <1>3, <1>7 DEF engaged

LEMMA TailReadSteps ==
  ASSUME NEW l \in Triggers, NEW g \in Gens, Sound(State), TailRead(l, g)
  PROVE  Steps
<1>1. sends[l][g] = "tail"
  BY DEF TailRead
<1>2. CASE g = gen
  <2> DEFINE f == BeginPrompt(State, l, EngagedOtherwise(State, l))
  <2>1. Good(f, {}, {}, {}, {}) /\ Turn(State, f) /\ State.running
    BY <1>1, <1>2, TailReadGood, StateFields
  <2>2. Become(f)
    BY <1>2 DEF TailRead
  <2> HIDE DEF f
  <2> QED BY <2>1, <2>2, TurnSteps, StateFields
<1>3. CASE g # gen
  <2>1. Become(Over(State, l, g))
    BY <1>3, StateFields DEF TailRead, Over
  <2> QED BY <1>1, <2>1, OverSteps
<1> QED BY <1>2, <1>3

\* The notifier s and the notice t of p take the place of those before.
Renoticed(e, p, s, t) == [e EXCEPT !.sup[p] = s, !.notice[p] = t]

LEMMA RenoticedFields ==
  ASSUME NEW e \in Engine, NEW p \in Supervisors, NEW s \in Notifier, NEW t \in Notice
  PROVE  LET f == Renoticed(e, p, s, t)
         IN  f \in Engine /\ Renotified(e, f, p, s, t)
<1> DEFINE n == [e.sup EXCEPT ![p] = s]
           m == [e.notice EXCEPT ![p] = t]
           f == Renoticed(e, p, s, t)
<1>1. n \in [Supervisors -> Notifier] /\ m \in [Supervisors -> Notice]
  BY EngineFields
<1>2. f = [e EXCEPT !.sup = n, !.notice = m]
  BY DEF Renoticed
<1> HIDE DEF n, m, f
<1>3. /\ f \in Engine /\ SameWorld(e, f) /\ SameTally(e, f)
      /\ f.live = e.live /\ f.busy = e.busy /\ f.sends = e.sends /\ f.rt = e.rt
      /\ f.open = e.open /\ f.doubled = e.doubled /\ f.excused = e.excused
      /\ f.sup = n /\ f.notice = m
  BY <1>1, <1>2 DEF Engine, SameWorld, SameTally, Notifiers, Notices
<1> QED BY <1>3 DEF Renotified, n, m, f

\* A notice of p ends, and leaves the notifier s and the notice t.
LEMMA NoticeOver ==
  ASSUME NEW e, NEW p \in Supervisors, NEW g \in Gens, NEW s \in Notifier, NEW t \in Notice,
         Sound(e), e.sends[p][g] # "none", s.idle = e.sup[p].idle,
         g # e.gen => s = e.sup[p] /\ t = e.notice[p],
         g = e.gen /\ s # NoNotifier => Tells(s, t, FALSE)
  PROVE  LET f == Finish(Renoticed(e, p, s, t), p, g)
         IN  Sound(f) /\ AllowedLeave(e.sends, f)
<1> DEFINE d == Renoticed(e, p, s, t)
           f == Finish(d, p, g)
<1>0. Good(e, {}, {}, {}, {}) /\ e \in Engine /\ p \in Senders /\ p \notin Triggers
  BY Ends DEF Sound, Good
<1>1. d \in Engine /\ Renotified(e, d, p, s, t)
  BY <1>0, RenoticedFields
<1> HIDE DEF d
<1>2. s # NoNotifier => Tells(s, t, Telling(e, p, {}))
  <2>1. CASE g = e.gen
    BY <2>1 DEF Tells
  <2>2. CASE g # e.gen
    BY <1>0, <2>2, InformedTells DEF Good
  <2> QED BY <2>1, <2>2
<1>3. s.idle => e.busy[p] = NotBusy \/ p \in e.excused \cup {}
  BY <1>0 DEF Good, Careful
<1>4. Good(d, {}, {}, {}, {})
  <2> DEFINE O == {}
  <2>1. O \in SUBSET {p} /\ (s # NoNotifier => Tells(s, t, Telling(e, p, O)))
    BY <1>2
  <2> HIDE DEF O
  <2>2. Good(d, {}, {}, {}, O)
    BY <1>0, <1>1, <1>3, <2>1, RenotifiedGood
  <2> QED BY <2>2 DEF O
<1>5. d.sends = e.sends /\ d.gen = e.gen /\ d.sup[p] = s /\ d.notice[p] = t
  BY <1>0, <1>1, EngineFields DEF Renotified, SameWorld
<1>6. Sound(d)
  BY <1>1, <1>4 DEF Sound, LiveThere, There, Renotified, SameWorld
<1>7. Unawaited(d, p, g)
  BY <1>5 DEF Unawaited
<1>8. f = Over(d, p, g)
  <2>1. d.live \in SUBSET Triggers
    BY <1>1, EngineFields
  <2> QED BY <1>0, <2>1 DEF Over, Answered
<1> HIDE DEF f
<1>9. /\ Sound(f) /\ f.sends[p][g] = "none"
      /\ \A i \in Senders, j \in Gens : i # p \/ j # g => f.sends[i][j] = d.sends[i][j]
  BY <1>0, <1>5, <1>6, <1>7, <1>8, OverSound
<1>10. AllowedLeave(e.sends, f)
  BY <1>0, <1>5, <1>9, Ends DEF AllowedLeave
<1> QED BY <1>9, <1>10 DEF f, d

\* How a notice ends, told in the order of the code.
\* The end of a send to a supervisor, as one change.
Finished(e, p, g) ==
  LET mine == e.busy[TargetOf(p)].by = p /\ e.busy[TargetOf(p)].gen = g
  IN  [e EXCEPT !.sends = [e.sends EXCEPT ![p][g] = "none"],
                !.busy = IF mine THEN [e.busy EXCEPT ![TargetOf(p)].settled = TRUE] ELSE e.busy]

OutcomeOf(e, p, g, outcome) ==
  [e.notice[p] EXCEPT !.outcome = IF g = e.gen THEN outcome ELSE @]

Concluded(e, p, g, outcome) ==
  LET mine == e.busy[TargetOf(p)].by = p /\ e.busy[TargetOf(p)].gen = g
  IN  [e EXCEPT !.sends = [e.sends EXCEPT ![p][g] = "none"],
                !.busy = IF mine THEN [e.busy EXCEPT ![TargetOf(p)].settled = TRUE] ELSE e.busy,
                !.notice = [e.notice EXCEPT ![p] = OutcomeOf(e, p, g, outcome)]]

LEMMA FinishAsOne ==
  ASSUME NEW e \in Engine, NEW p \in Supervisors, NEW g \in Gens
  PROVE  Finish(e, p, g) = Finished(e, p, g)
<1> DEFINE q == [e.sends EXCEPT ![p][g] = "none"]
           mine == e.busy[TargetOf(p)].by = p /\ e.busy[TargetOf(p)].gen = g
           b == IF mine THEN [e.busy EXCEPT ![TargetOf(p)].settled = TRUE] ELSE e.busy
           i == [e EXCEPT !.sends = q]
<1>1. [e EXCEPT !.sends[p][g] = "none"] = [e EXCEPT !.sends = q]
  OBVIOUS
<1>2. i.busy = e.busy
  BY DEF Engine
<1>3. Finish(e, p, g) = IF mine THEN [i EXCEPT !.busy = b] ELSE i
  BY <1>1, <1>2 DEF Finish, SettleBusy
<1> HIDE DEF q
<1>4. ~mine => [e EXCEPT !.sends = q, !.busy = b] = [e EXCEPT !.sends = q]
  BY DEF Engine
<1>5. Finish(e, p, g) = [e EXCEPT !.sends = q, !.busy = b]
  BY <1>3, <1>4
<1> QED BY <1>5 DEF Finished, q

\* The engine hears nothing of the end of the send itself.
LEMMA EndedAsOne ==
  ASSUME NEW e \in Engine, NEW p \in Supervisors, NEW g \in Gens, NEW outcome
  PROVE  Ended(Finish(e, p, g), p, g, outcome) = Concluded(e, p, g, outcome)
<1> DEFINE q == [e.sends EXCEPT ![p][g] = "none"]
           mine == e.busy[TargetOf(p)].by = p /\ e.busy[TargetOf(p)].gen = g
           b == IF mine THEN [e.busy EXCEPT ![TargetOf(p)].settled = TRUE] ELSE e.busy
           t == OutcomeOf(e, p, g, outcome)
           m == [e.notice EXCEPT ![p] = t]
           h == [e EXCEPT !.sends = q, !.busy = b]
<1>1. Finish(e, p, g) = h
  BY FinishAsOne DEF Finished
<1> HIDE DEF q, b
<1>2. h.gen = e.gen /\ h.notice = e.notice
  BY DEF Engine
<1>3. Ended(h, p, g, outcome) = [h EXCEPT !.notice = m]
  <2> HIDE DEF h
  <2>1. [h.notice EXCEPT ![p].outcome = IF g = h.gen THEN outcome ELSE @] = m
    BY <1>2 DEF OutcomeOf
  <2> QED BY <2>1 DEF Ended
<1>4. Ended(Finish(e, p, g), p, g, outcome) = [e EXCEPT !.sends = q, !.busy = b, !.notice = m]
  <2> HIDE DEF m
  <2> QED BY <1>1, <1>3
<1> QED BY <1>4 DEF Concluded, q, b

EndedWith(e, p, g, outcome, s) ==
  [Ended(Finish(e, p, g), p, g, outcome) EXCEPT !.sup[p] = s]

LEMMA FinishRenoticed ==
  ASSUME NEW e \in Engine, NEW p \in Supervisors, NEW g \in Gens, NEW outcome, NEW s
  PROVE  EndedWith(e, p, g, outcome, s)
           = Finish(Renoticed(e, p, s, OutcomeOf(e, p, g, outcome)), p, g)
<1> DEFINE t == OutcomeOf(e, p, g, outcome)
           n == [e.sup EXCEPT ![p] = s]
           m == [e.notice EXCEPT ![p] = t]
           q == [e.sends EXCEPT ![p][g] = "none"]
           mine == e.busy[TargetOf(p)].by = p /\ e.busy[TargetOf(p)].gen = g
           b == IF mine THEN [e.busy EXCEPT ![TargetOf(p)].settled = TRUE] ELSE e.busy
<1>2. Renoticed(e, p, s, t) = [e EXCEPT !.sup = n, !.notice = m]
  BY DEF Renoticed
<1> DEFINE d == [e EXCEPT !.sup = n, !.notice = m]
<1>3. Finish(d, p, g) = [d EXCEPT !.sends = q, !.busy = b]
  <2> HIDE DEF n, m
  <2>0. d.sends = e.sends /\ d.busy = e.busy
    BY DEF Engine
  <2> DEFINE i == [d EXCEPT !.sends = q]
  <2>1. [d EXCEPT !.sends[p][g] = "none"] = i
    BY <2>0
  <2>2. i.busy = e.busy
    BY <2>0 DEF Engine
  <2> HIDE DEF d
  <2>3. Finish(d, p, g) = IF mine THEN [i EXCEPT !.busy = b] ELSE i
    BY <2>1, <2>2 DEF Finish, SettleBusy
  <2> HIDE DEF q
  <2>4. ~mine => [d EXCEPT !.sends = q, !.busy = b] = [d EXCEPT !.sends = q]
    BY <2>0 DEF Engine, d
  <2> QED BY <2>3, <2>4
<1>4. [Ended(Finish(e, p, g), p, g, outcome) EXCEPT !.sup[p] = s]
        = [e EXCEPT !.sends = q, !.busy = b, !.notice = m, !.sup = n]
  <2> DEFINE h == [e EXCEPT !.sends = q, !.busy = b, !.notice = m]
  <2>1. Ended(Finish(e, p, g), p, g, outcome) = h
    <3>1. Ended(Finish(e, p, g), p, g, outcome) = Concluded(e, p, g, outcome)
      BY EndedAsOne
    <3>2. Concluded(e, p, g, outcome) = h
      BY DEF Concluded
    <3> QED BY <3>1, <3>2, Zenon
  <2> HIDE DEF q, b, m
  <2>2. h.sup = e.sup
    BY DEF Engine
  <2>3. [h EXCEPT !.sup[p] = s] = [h EXCEPT !.sup = n]
    <3> HIDE DEF h
    <3> QED BY <2>2
  <2> QED BY <2>1, <2>3
<1> HIDE DEF n, m, q, b
<1>5. [d EXCEPT !.sends = q, !.busy = b]
        = [e EXCEPT !.sends = q, !.busy = b, !.notice = m, !.sup = n]
  BY DEF Engine
<1> QED BY <1>2, <1>3, <1>4, <1>5 DEF EndedWith

LEMMA NoticeEnds ==
  ASSUME NEW p \in Supervisors, NEW g \in Gens, NEW s \in Notifier,
         NEW outcome \in {"none", "told", "given up"},
         Sound(State), sends[p][g] # "none", s.idle = sup[p].idle,
         g # gen => s = sup[p],
         (s = sup[p] /\ outcome # "none") \/ s.dirty = "fresh" \/ s = NoNotifier \/ g # gen,
         Become([Ended(Finish(State, p, g), p, g, outcome) EXCEPT !.sup[p] = s])
  PROVE  Steps
<1> DEFINE t == OutcomeOf(State, p, g, outcome)
           f == Finish(Renoticed(State, p, s, t), p, g)
<1>0. Good(State, {}, {}, {}, {}) /\ State \in Engine /\ State.notice[p] \in Notice
  BY SoundFacts, EngineFields
<1>1. /\ t \in Notice /\ t.inst = State.notice[p].inst /\ t.subs = State.notice[p].subs
      /\ g = gen => t.outcome = outcome
      /\ g # gen => t = State.notice[p]
  BY <1>0, StateFields DEF Notice, OutcomeOf
<1>2. g = State.gen /\ s # NoNotifier => Tells(s, t, FALSE)
  <2>1. Tells(State.sup[p], State.notice[p], Telling(State, p, {}))
    BY <1>0, InformedTells DEF Good
  <2> HIDE DEF t
  <2> QED BY <1>1, <2>1, StateFields DEF Tells
<1>3. Become(f)
  <2>1. EndedWith(State, p, g, outcome, s) = f
    BY <1>0, FinishRenoticed
  <2>2. Become(EndedWith(State, p, g, outcome, s))
    BY DEF EndedWith
  <2> QED BY <2>1, <2>2, Zenon
<1> HIDE DEF t
<1>4. Sound(f) /\ AllowedLeave(State.sends, f)
  BY <1>1, <1>2, StateFields, NoticeOver
<1> QED BY <1>3, <1>4, StateFields DEF Steps

\* What is done to no notifier.
LEMMA SupSame ==
  ASSUME NEW e \in Engine, NEW p \in Supervisors, NEW g \in Gens, NEW outcome
  PROVE  LET f == Ended(Finish(e, p, g), p, g, outcome)
         IN  f.sup = e.sup /\ [f EXCEPT !.sup[p] = e.sup[p]] = f
<1> DEFINE m == [e.notice EXCEPT ![p] = OutcomeOf(e, p, g, outcome)]
           q == [e.sends EXCEPT ![p][g] = "none"]
           mine == e.busy[TargetOf(p)].by = p /\ e.busy[TargetOf(p)].gen = g
           b == IF mine THEN [e.busy EXCEPT ![TargetOf(p)].settled = TRUE] ELSE e.busy
           f == Ended(Finish(e, p, g), p, g, outcome)
<1>1. f = [e EXCEPT !.sends = q, !.busy = b, !.notice = m]
  <2>1. f = Concluded(e, p, g, outcome)
    BY EndedAsOne
  <2>2. Concluded(e, p, g, outcome) = [e EXCEPT !.sends = q, !.busy = b, !.notice = m]
    BY DEF Concluded
  <2> QED BY <2>1, <2>2, Zenon
<1> HIDE DEF m, q, b, f
<1>2. f.sup = e.sup
  BY <1>1 DEF Engine
<1>3. f = [f EXCEPT !.sup = e.sup]
  <2>1. [e EXCEPT !.sup = e.sup] = e
    BY DEF Engine
  <2>2. [f EXCEPT !.sup = e.sup]
          = [[e EXCEPT !.sup = e.sup] EXCEPT !.sends = q, !.busy = b, !.notice = m]
    BY <1>1 DEF Engine
  <2> QED BY <1>1, <2>1, <2>2, Zenon
<1>4. [f.sup EXCEPT ![p] = e.sup[p]] = e.sup
  BY <1>2, EngineFields
<1>5. [f EXCEPT !.sup[p] = e.sup[p]] = f
  BY <1>3, <1>4
<1> QED BY <1>2, <1>5 DEF f

LEMMA NoticeDeliveredSteps ==
  ASSUME NEW p \in Supervisors, NEW g \in Gens, Sound(State), NoticeDelivered(p, g)
  PROVE  Steps
<1> DEFINE s == State.sup[p]
           f == Ended(Finish(State, p, g), p, g, "told")
<1>1. State \in Engine /\ s \in Notifier
  BY SoundFacts, EngineFields
<1>2. Become([f EXCEPT !.sup[p] = s]) /\ sends[p][g] # "none"
  BY <1>1, SupSame DEF NoticeDelivered
<1> HIDE DEF s
<1>3. s = sup[p]
  BY StateFields DEF s
<1> QED BY <1>1, <1>2, <1>3, NoticeEnds

LEMMA NoticeFailsSteps ==
  ASSUME NEW p \in Supervisors, NEW g \in Gens, NEW later \in BOOLEAN, Sound(State),
         NoticeFails(p, g, later)
  PROVE  Steps
<1> DEFINE outcome == IF later THEN "none" ELSE "given up"
           e == Ended(Finish(State, p, g), p, g, outcome)
           again == later /\ g = gen /\ sup[p] # NoNotifier
           s == IF again THEN [sup[p] EXCEPT !.dirty = "fresh"] ELSE sup[p]
<1>1. State \in Engine /\ sup[p] \in Notifier
  BY SoundFacts, EngineFields, StateFields
<1>2. /\ sends[p][g] # "none"
      /\ Become(IF again THEN [e EXCEPT !.sup[p].dirty = "fresh"] ELSE e)
  BY DEF NoticeFails
<1>3. e.sup = sup /\ [e EXCEPT !.sup[p] = sup[p]] = e
  <2> HIDE DEF outcome
  <2>1. e.sup = State.sup /\ [e EXCEPT !.sup[p] = State.sup[p]] = e
    BY <1>1, SupSame
  <2> QED BY <2>1, StateFields, Zenon
<1> HIDE DEF e
<1>4. Become([e EXCEPT !.sup[p] = s])
  BY <1>2, <1>3
<1>5. s \in Notifier /\ s.idle = sup[p].idle /\ (again => s.dirty = "fresh")
  BY <1>1 DEF Notifier
<1>6. outcome \in {"none", "told", "given up"}
  OBVIOUS
<1>7. (s = sup[p] /\ outcome # "none") \/ s.dirty = "fresh" \/ s = NoNotifier \/ g # gen
  BY <1>5
<1>8. g # gen => s = sup[p]
  OBVIOUS
<1> HIDE DEF s, outcome, again
<1> QED BY <1>2, <1>4, <1>5, <1>6, <1>7, <1>8, NoticeEnds DEF e

-----------------------------------------------------------------------------
(* The store.                                                              *)

Count(l) == <<"count", l>>

\* The same but for what is stored, what is to be, and how it is counted.
OnlyStored(e, f) ==
  /\ f.agent = e.agent /\ f.up = e.up /\ f.gen = e.gen /\ f.running = e.running
  /\ f.live = e.live /\ f.rt = e.rt /\ f.busy = e.busy /\ f.sends = e.sends /\ f.sup = e.sup
  /\ f.open = e.open /\ f.notice = e.notice /\ f.doubled = e.doubled /\ f.excused = e.excused

LEMMA OnlyStoredGood ==
  ASSUME NEW e, NEW f \in Engine, Good(e, {}, {}, {}, {}), OnlyStored(e, f), Limited(f),
         \A l \in Links : /\ f.graph.links[l].state = "new" => e.graph.links[l].state = "new"
                          /\ e.graph.links[l].state = "gone" => f.graph.links[l].state = "gone"
  PROVE  Good(f, {}, {}, {}, {})
<1>1. /\ Numbered(f) /\ Informed(f, {}) /\ Later(f) /\ Explained(f, {}) /\ Careful(f, {})
  BY NumberedSame, InformedSame, LaterSame, ExplainedSame, CarefulSame DEF OnlyStored, Good
<1>2. /\ \A q : Status(f, q) = Status(e, q)
      /\ \A l, u : Due(f, l, u) = Due(e, l, u)
  BY DEF OnlyStored, Status, Available, Due
<1>3. ASSUME NEW l \in f.live PROVE Linked(f, l, f.rt[l], f.open[l], {}, {}, {}, {})
  BY <1>2 DEF OnlyStored, Good, Served, Linked, Fits, InHand
<1>4. f.live \subseteq Links
  BY EngineFields, Ends
<1>5. Served(f, {}, {}, {}, {})
  BY <1>3, <1>4, Ends DEF OnlyStored, Good, Served
<1> QED BY <1>1, <1>5 DEF Good

\* How often x stands in the sequence q.
Places(q, x) == {i \in DOMAIN q : q[i] = x}

LEMMA PlacesFinite ==
  ASSUME NEW q \in Seq(Stores), NEW x
  PROVE  IsFiniteSet(Places(q, x)) /\ Cardinality(Places(q, x)) \in Nat
<1>1. Places(q, x) \subseteq 1 .. Len(q) /\ Len(q) \in Nat
  BY LenProperties DEF Places
<1>2. IsFiniteSet(1 .. Len(q))
  BY <1>1, FS_Interval
<1>3. IsFiniteSet(Places(q, x))
  BY <1>1, <1>2, FS_Subset
<1> QED BY <1>3, FS_CardinalityType

LEMMA AppendPlaces ==
  ASSUME NEW q \in Seq(Stores), NEW c \in Stores, NEW x
  PROVE  Cardinality(Places(Append(q, c), x))
           = Cardinality(Places(q, x)) + (IF c = x THEN 1 ELSE 0)
<1>1. /\ DOMAIN Append(q, c) = 1 .. Len(q) + 1 /\ DOMAIN q = 1 .. Len(q) /\ Len(q) \in Nat
      /\ \A i \in 1 .. Len(q) : Append(q, c)[i] = q[i]
      /\ Append(q, c)[Len(q) + 1] = c
  BY AppendProperties, LenProperties
<1>2. 1 .. Len(q) + 1 = 1 .. Len(q) \cup {Len(q) + 1} /\ Len(q) + 1 \notin 1 .. Len(q)
  BY <1>1
<1> DEFINE P == Places(q, x)
           n == Len(q) + 1
<1>3. Places(Append(q, c), x) = P \cup (IF c = x THEN {n} ELSE {}) /\ n \notin P
  BY <1>1, <1>2 DEF Places
<1>4. IsFiniteSet(P) /\ Cardinality(P) \in Nat
  BY PlacesFinite
<1> HIDE DEF P, n
<1>5. Cardinality(P \cup {n}) = Cardinality(P) + 1
  BY <1>3, <1>4, FS_AddElement
<1>6. P \cup {} = P
  OBVIOUS
<1>7. CASE c = x
  BY <1>3, <1>5, <1>7 DEF P
<1>8. CASE c # x
  <2>1. Places(Append(q, c), x) = P
    BY <1>3, <1>6, <1>8
  <2> QED BY <1>4, <1>8, <2>1 DEF P
<1> QED BY <1>7, <1>8

LEMMA TailPlaces ==
  ASSUME NEW q \in Seq(Stores), q # <<>>, NEW x
  PROVE  Cardinality(Places(q, x))
           = Cardinality(Places(Tail(q), x)) + (IF Head(q) = x THEN 1 ELSE 0)
<1>1. /\ Tail(q) \in Seq(Stores) /\ Len(Tail(q)) = Len(q) - 1 /\ Len(q) \in Nat /\ Len(q) > 0
      /\ \A i \in 1 .. Len(Tail(q)) : Tail(q)[i] = q[i + 1]
      /\ Head(q) = q[1]
  BY HeadTailProperties, EmptySeq, LenProperties
<1>2. DOMAIN q = 1 .. Len(q) /\ DOMAIN Tail(q) = 1 .. Len(q) - 1
  BY <1>1, LenProperties
<1> DEFINE T == Places(Tail(q), x)
           Q == Places(q, x)
           R == Q \ {1}
           f == [i \in T |-> i + 1]
<1>3. \A i \in T : i \in Nat /\ i >= 1 /\ i + 1 \in R
  BY <1>1, <1>2 DEF Places
<1>4. \A i \in R : i \in Nat /\ i - 1 \in T /\ (i - 1) + 1 = i
  BY <1>1, <1>2 DEF Places
<1>5. 1 \in Q <=> Head(q) = x
  BY <1>1, <1>2 DEF Places
<1>6. IsFiniteSet(T) /\ IsFiniteSet(Q) /\ Cardinality(T) \in Nat /\ Cardinality(Q) \in Nat
  BY <1>1, PlacesFinite
<1> HIDE DEF T, Q
<1>7. f \in Bijection(T, R)
  <2>1. f \in Injection(T, R)
    <3>1. f \in [T -> R]
      BY <1>3
    <3>2. ASSUME NEW i \in T, NEW j \in T, f[i] = f[j] PROVE i = j
      BY <1>3, <3>2
    <3> QED BY <3>1, <3>2 DEF Injection, IsInjective
  <2>2. f \in Surjection(T, R)
    <3>1. f \in [T -> R]
      BY <1>3
    <3>2. ASSUME NEW i \in R PROVE \E j \in T : f[j] = i
      BY <1>4
    <3> QED BY <3>1, <3>2 DEF Surjection
  <2> QED BY <2>1, <2>2 DEF Bijection
<1>8. Cardinality(T) = Cardinality(R)
  <2>1. ExistsBijection(T, R)
    BY <1>7 DEF ExistsBijection
  <2>2. IsFiniteSet(R)
    BY <1>6, FS_Subset
  <2> QED BY <1>6, <2>1, <2>2, FS_Bijection
<1>9. CASE Head(q) = x
  <2>1. Cardinality(R) = Cardinality(Q) - 1
    BY <1>5, <1>6, <1>9, FS_RemoveElement
  <2> QED BY <1>6, <1>8, <1>9, <2>1 DEF T, Q
<1>10. CASE Head(q) # x
  <2>1. R = Q
    BY <1>5, <1>10
  <2>2. Cardinality(T) = Cardinality(Q)
    BY <1>8, <2>1
  <2> HIDE DEF R
  <2> QED BY <1>6, <1>10, <2>2 DEF T, Q
<1> QED BY <1>9, <1>10

\* How many counts of the link l are to be written.
LEMMA CountsToWrite ==
  ASSUME NEW e \in Engine, NEW l
  PROVE  ToCount(e, l) = Places(e.queue, Count(l)) /\ Cardinality(ToCount(e, l)) \in Nat
<1>1. ToCount(e, l) = Places(e.queue, Count(l))
  BY DEF ToCount, Places, Count
<1>2. e.queue \in Seq(Stores)
  BY EngineFields DEF Stores
<1> QED BY <1>1, <1>2, PlacesFinite

LEMMA TallyFields ==
  ASSUME NEW e \in Engine, NEW l \in Triggers
  PROVE  /\ e.tally[l] \in Tally /\ e.tally[l].sent \in Nat /\ e.tally[l].early \in Nat
         /\ e.tally[l].lost \in Nat
         /\ l \in Links /\ Def[l].limit \in Nat /\ Def[l].limit >= 1
         /\ e.graph.links[l].count \in Nat /\ e.graph.links[l].state \in {"new", "there", "gone"}
<1>1. e.tally[l] \in Tally
  BY EngineFields
<1>2. l \in Links /\ Def[l].limit \in Nat \ {0}
  BY Ends
<1>3. e.graph.links[l] \in [state : {"new", "there", "gone"}, paused : {"no", "user", "limit"},
                            count : Nat]
  BY <1>2, EngineFields DEF Stored
<1> QED BY <1>1, <1>2, <1>3 DEF Tally

LEMMA QueueExcept ==
  ASSUME NEW e \in Engine, NEW f, NEW q \in Seq(Stores), f = [e EXCEPT !.queue = q]
  PROVE  f \in Engine /\ OnlyStored(e, f) /\ f.graph = e.graph /\ f.queue = q /\ SameTally(e, f)
  BY DEF Engine, OnlyStored, Stores, SameTally, Queues

\* What a client asks for waits to be written.
LEMMA QueuedSound ==
  ASSUME NEW e, NEW f, NEW c \in Stores, Sound(e), f = [e EXCEPT !.queue = Append(@, c)],
         \A l \in Triggers : c # Count(l)
  PROVE  Sound(f) /\ f.sends = e.sends
<1> DEFINE q == Append(e.queue, c)
<1>1. Good(e, {}, {}, {}, {}) /\ e \in Engine /\ e.queue \in Seq(Stores)
  BY EngineFields DEF Sound, Good, Stores
<1>2. q \in Seq(Stores) /\ f = [e EXCEPT !.queue = q]
  BY <1>1, AppendProperties
<1> HIDE DEF q
<1>3. f \in Engine /\ OnlyStored(e, f) /\ f.graph = e.graph /\ f.queue = q /\ SameTally(e, f)
  BY <1>1, <1>2, QueueExcept
<1>4. ASSUME NEW l \in Triggers PROVE Bounded(f, l, f.tally[l])
  <2> DEFINE x == Count(l)
  <2>1. Cardinality(Places(q, x)) = Cardinality(Places(e.queue, x)) + 0
    <3>1. c # x
      OBVIOUS
    <3> HIDE DEF x
    <3> QED BY <1>1, <3>1, AppendPlaces DEF q
  <2>2. Cardinality(ToCount(f, l)) = Cardinality(ToCount(e, l))
    <3>1. /\ ToCount(f, l) = Places(q, x) /\ ToCount(e, l) = Places(e.queue, x)
          /\ Cardinality(ToCount(e, l)) \in Nat
      BY <1>1, <1>3, CountsToWrite
    <3> HIDE DEF x
    <3> QED BY <2>1, <3>1
  <2>3. InFlight(f, l) = InFlight(e, l)
    BY <1>3 DEF InFlight, OnlyStored
  <2>4. InTime(f, l) = InTime(e, l)
    BY <1>3, <2>3 DEF InTime, SameTally
  <2>5. Bounded(e, l, e.tally[l])
    BY <1>1 DEF Good, Limited
  <2> QED BY <1>3, <2>2, <2>3, <2>4, <2>5 DEF Bounded, SameTally
<1>5. Limited(f)
  BY <1>4 DEF Limited
<1>6. Good(f, {}, {}, {}, {})
  BY <1>1, <1>3, <1>5, OnlyStoredGood
<1> QED BY <1>3, <1>6 DEF Sound, OnlyStored, LiveThere, There

LEMMA CallSteps ==
  ASSUME NEW change \in scenario.calls, scenario \in Scenarios, Sound(State), Call(change)
  PROVE  Steps
<1> DEFINE f == [State EXCEPT !.queue = Append(@, change)]
<1>1. change \in Requests \X Links
  BY GraphAssumption DEF GraphAssumption
<1>2. change \in Stores /\ \A l : change # Count(l)
  <2>1. \A l : Count(l)[1] = "count" /\ "count" \notin Requests
    BY DEF Count, Requests
  <2>2. change[1] \in Requests
    BY <1>1
  <2> QED BY <1>1, <2>1, <2>2 DEF Stores
<1>3. Sound(f) /\ f.sends = State.sends
  BY <1>2, QueuedSound
<1>4. Become(f)
  BY DEF Call
<1> HIDE DEF f
<1> QED BY <1>3, <1>4, StateFields DEF Steps, AllowedLeave

\* The queue, what left early and the tallies change.
Requeued(e, q, y, t) == [e EXCEPT !.queue = q, !.early = y, !.tally = t]

LEMMA SendCounted ==
  ASSUME NEW e \in Engine, NEW q \in Seq(Stores), NEW y \in SUBSET (Triggers \X Gens),
         NEW t \in [Triggers -> Tally]
  PROVE  LET f == Requeued(e, q, y, t)
         IN
         /\ f \in Engine /\ OnlyStored(e, f) /\ f.graph = e.graph
         /\ f.queue = q /\ f.early = y /\ f.tally = t
<1>1. q \in Queues /\ y \in Early /\ t \in Tallies
  BY DEF Stores, Queues, Early, Tallies
<1> DEFINE i == [e EXCEPT !.queue = q]
           j == [i EXCEPT !.early = y]
           f == [j EXCEPT !.tally = t]
<1>2. f \in Engine
  <2>1. i \in Engine
    BY <1>1, SMTT(30) DEF Engine
  <2> HIDE DEF i
  <2>2. j \in Engine
    BY <1>1, <2>1, SMTT(30) DEF Engine
  <2> HIDE DEF j
  <2> QED BY <1>1, <2>2, SMTT(30) DEF Engine
<1>3. OnlyStored(e, f) /\ f.graph = e.graph /\ f.queue = q /\ f.early = y /\ f.tally = t
  BY SMTT(30) DEF Engine, OnlyStored
<1>4. Requeued(e, q, y, t) = f
  BY DEF Requeued
<1> HIDE DEF f
<1> QED BY <1>2, <1>3, <1>4

\* The figures of one link.
Figures(e, l) ==
  /\ e.graph.links[l].count \in Nat /\ Cardinality(ToCount(e, l)) \in Nat
  /\ Def[l].limit \in Nat /\ Def[l].limit >= 1
  /\ e.graph.links[l].state \in {"new", "there", "gone"}

LEMMA FiguresTyped ==
  ASSUME NEW e \in Engine, NEW l \in Triggers
  PROVE  Figures(e, l) /\ e.tally[l] \in Tally
BY TallyFields, CountsToWrite, EngineFields DEF Figures

\* One more prompt of l is delivered, and its count is to be written.
LEMMA CountedBounded ==
  ASSUME NEW e, NEW f, NEW l, NEW g, NEW o \in Tally, NEW t \in Tally,
         Bounded(e, l, o), Figures(e, l), f.graph = e.graph, g \in InFlight(e, l),
         InTime(f, l) = InTime(e, l) \ {g}, InFlight(f, l) \subseteq InFlight(e, l),
         Cardinality(ToCount(f, l)) = Cardinality(ToCount(e, l)) + 1,
         t.sent = o.sent + 1, t.lost = o.lost,
         \/ t.early = o.early + 1
         \/ t.early = o.early /\ g \in InTime(e, l)
  PROVE  Bounded(f, l, t)
<1> DEFINE m == Cardinality(ToCount(e, l))
           n == Cardinality(ToCount(f, l))
           c == e.graph.links[l].count
           limit == Def[l].limit
<1>1. /\ o.sent \in Nat /\ o.early \in Nat /\ o.lost \in Nat
      /\ c \in Nat /\ limit \in Nat /\ m \in Nat /\ n = m + 1
  BY DEF Figures, Tally
<1>2. /\ e.graph.links[l].state # "gone" => o.sent <= c + m + o.lost
      /\ \A i, j \in InTime(e, l) : i = j
      /\ o.sent <= limit + o.early + o.lost
      /\ InTime(e, l) # {} => o.sent + 1 <= limit + o.early + o.lost
      /\ e.graph.links[l].state # "new"
  BY DEF Bounded
<1> HIDE DEF m, n, c, limit
<1>3. e.graph.links[l].state # "gone" => t.sent <= c + n + t.lost
  BY <1>1, <1>2
<1>4. /\ t.sent <= limit + t.early + t.lost
      /\ InTime(f, l) # {} => t.sent + 1 <= limit + t.early + t.lost
  <2>1. CASE t.early = o.early + 1
    <3>1. InTime(f, l) # {} => InTime(e, l) # {}
      OBVIOUS
    <3> QED BY <1>1, <1>2, <2>1, <3>1
  <2>2. CASE t.early = o.early /\ g \in InTime(e, l)
    <3>1. InTime(f, l) = {}
      BY <1>2, <2>2
    <3> QED BY <1>1, <1>2, <2>2, <3>1
  <2> QED BY <2>1, <2>2
<1>5. \A i, j \in InTime(f, l) : i = j
  BY <1>2
<1> QED BY <1>2, <1>3, <1>4, <1>5 DEF Bounded, n, c, limit

\* The link is resumed, and starts anew.
LEMMA AnewBounded ==
  ASSUME NEW e, NEW f, NEW l, NEW o, Bounded(e, l, o), Figures(f, l),
         InTime(f, l) = InTime(e, l), f.graph.links[l].state # "new"
  PROVE  Bounded(f, l, NoneSent)
<1>1. NoneSent.sent = 0 /\ NoneSent.early = 0 /\ NoneSent.lost = 0
  BY DEF NoneSent
<1>2. \A i, j \in InTime(f, l) : i = j
  BY DEF Bounded
<1> DEFINE n == Cardinality(ToCount(f, l))
           c == f.graph.links[l].count
           limit == Def[l].limit
<1>3. c \in Nat /\ limit \in Nat /\ n \in Nat /\ limit >= 1
  BY DEF Figures
<1> HIDE DEF n, c, limit
<1>4. NoneSent.sent <= c + n + NoneSent.lost
  BY <1>1, <1>3
<1>5. /\ NoneSent.sent <= limit + NoneSent.early + NoneSent.lost
      /\ NoneSent.sent + 1 <= limit + NoneSent.early + NoneSent.lost
  BY <1>1, <1>3
<1> QED BY <1>2, <1>4, <1>5 DEF Bounded, n, c, limit

\* A change is written: a count of l, or something else.
LEMMA WrittenBounded ==
  ASSUME NEW e, NEW f, NEW l, NEW o \in Tally, NEW counted \in BOOLEAN, Bounded(e, l, o),
         Figures(e, l), Figures(f, l),
         InTime(f, l) = InTime(e, l), InFlight(f, l) = InFlight(e, l),
         Cardinality(ToCount(e, l)) = Cardinality(ToCount(f, l)) + (IF counted THEN 1 ELSE 0),
         f.graph.links[l].state = "new" => e.graph.links[l].state = "new",
         e.graph.links[l].state = "gone" => f.graph.links[l].state = "gone",
         e.graph.links[l].state = "there" =>
           f.graph.links[l].count = e.graph.links[l].count + (IF counted THEN 1 ELSE 0)
  PROVE  Bounded(f, l, o)
<1> DEFINE m == Cardinality(ToCount(e, l))
           n == Cardinality(ToCount(f, l))
           c == e.graph.links[l].count
           d == f.graph.links[l].count
           x == e.graph.links[l].state
           y == f.graph.links[l].state
<1>1. /\ o.sent \in Nat /\ o.lost \in Nat /\ c \in Nat /\ d \in Nat /\ m \in Nat /\ n \in Nat
      /\ m = n + (IF counted THEN 1 ELSE 0) /\ x \in {"new", "there", "gone"}
      /\ x = "there" => d = c + (IF counted THEN 1 ELSE 0)
      /\ x = "gone" => y = "gone"
  BY DEF Figures, Tally
<1>2. /\ x # "gone" => o.sent <= c + m + o.lost
      /\ x = "new" => o.sent = 0
  BY DEF Bounded
<1> HIDE DEF m, n, c, d, x, y
<1>3. y # "gone" => o.sent <= d + n + o.lost
  <2>1. CASE x = "there"
    BY <1>1, <1>2, <2>1
  <2>2. CASE x = "new"
    BY <1>1, <1>2, <2>2
  <2> QED BY <1>1, <2>1, <2>2
<1> QED BY <1>3 DEF Bounded, n, d, y

\* A count of l is lost.
LEMMA LostBounded ==
  ASSUME NEW e, NEW f, NEW l, NEW o \in Tally, NEW t, Bounded(e, l, o), Figures(e, l),
         f.graph = e.graph, InTime(f, l) = InTime(e, l), InFlight(f, l) = InFlight(e, l),
         Cardinality(ToCount(f, l)) \in Nat,
         Cardinality(ToCount(e, l)) = Cardinality(ToCount(f, l)) + 1,
         t.sent = o.sent, t.early = o.early, t.lost = o.lost + 1
  PROVE  Bounded(f, l, t)
<1> DEFINE m == Cardinality(ToCount(e, l))
           n == Cardinality(ToCount(f, l))
           c == e.graph.links[l].count
           limit == Def[l].limit
<1>1. /\ o.sent \in Nat /\ o.early \in Nat /\ o.lost \in Nat
      /\ c \in Nat /\ limit \in Nat /\ n \in Nat /\ m = n + 1
  BY DEF Figures, Tally
<1>2. /\ e.graph.links[l].state # "gone" => o.sent <= c + m + o.lost
      /\ o.sent <= limit + o.early + o.lost
      /\ InTime(e, l) # {} => o.sent + 1 <= limit + o.early + o.lost
      /\ e.graph.links[l].state = "new" => o.sent = 0
  BY DEF Bounded
<1> HIDE DEF m, n, c, limit
<1>3. /\ e.graph.links[l].state # "gone" => t.sent <= c + n + t.lost
      /\ t.sent <= limit + t.early + t.lost
      /\ InTime(e, l) # {} => t.sent + 1 <= limit + t.early + t.lost
  BY <1>1, <1>2
<1> QED BY <1>2, <1>3 DEF Bounded, n, c, limit

\* A prompt of l has come to its end: it is counted as t says, and q is to be written.
LEMMA PromptOver ==
  ASSUME NEW e, NEW f, NEW l \in Triggers, NEW g \in Gens, NEW q \in Seq(Stores),
         NEW t \in Tally, Sound(e), e.sends[l][g] = "prompt",
         f = [Over(e, l, g) EXCEPT !.queue = q, !.early = e.early \ {<<l, g>>},
                                   !.tally = [e.tally EXCEPT ![l] = t]],
         \/ q = e.queue /\ t = e.tally[l]
         \/ /\ q = Append(e.queue, Count(l))
            /\ t.sent = e.tally[l].sent + 1 /\ t.lost = e.tally[l].lost
            /\ t.early = IF <<l, g>> \in e.early THEN e.tally[l].early + 1 ELSE e.tally[l].early
  PROVE  Sound(f) /\ AllowedLeave(e.sends, f)
<1> DEFINE h == Over(e, l, g)
           y == e.early \ {<<l, g>>}
           u == [e.tally EXCEPT ![l] = t]
<1>0. Good(e, {}, {}, {}, {}) /\ e \in Engine /\ l \in Senders /\ Unawaited(e, l, g)
  BY Ends DEF Sound, Good, Unawaited
<1>1. /\ Sound(h) /\ SameWorld(e, h) /\ SameTally(e, h) /\ h.sends[l][g] = "none"
      /\ \A i \in Senders, j \in Gens : i # l \/ j # g => h.sends[i][j] = e.sends[i][j]
  BY <1>0, OverSound
<1>2. Good(h, {}, {}, {}, {}) /\ h \in Engine
  BY <1>1 DEF Sound, Good
<1>3. /\ y \in SUBSET (Triggers \X Gens) /\ u \in [Triggers -> Tally] /\ u[l] = t
      /\ \A k \in Triggers : k # l => u[k] = e.tally[k]
  BY <1>0, EngineFields
<1>3a. f = Requeued(h, q, y, u)
  BY DEF Requeued
<1> HIDE DEF h, y, u
<1>4. /\ f \in Engine /\ OnlyStored(h, f) /\ f.graph = h.graph
      /\ f.queue = q /\ f.early = y /\ f.tally = u
  <2> DEFINE r == Requeued(h, q, y, u)
  <2>1. /\ r \in Engine /\ OnlyStored(h, r) /\ r.graph = h.graph
        /\ r.queue = q /\ r.early = y /\ r.tally = u
    BY <1>2, <1>3, SendCounted
  <2>2. f = r
    BY <1>3a
  <2> HIDE DEF r
  <2> QED BY <2>1, <2>2
<1>5. ASSUME NEW k \in Triggers PROVE Bounded(f, k, u[k])
  <2> DEFINE x == Count(k)
  <2>1. Bounded(e, k, e.tally[k])
    BY <1>0 DEF Good, Limited
  <2>2. k \in Senders /\ f.graph = e.graph
    BY <1>1, <1>4, Ends DEF SameWorld
  <2>3. InFlight(f, k) = IF k = l THEN InFlight(e, k) \ {g} ELSE InFlight(e, k)
    BY <1>0, <1>1, <1>4, <2>2 DEF InFlight, OnlyStored
  <2>4. InTime(f, k) = IF k = l THEN InTime(e, k) \ {g} ELSE InTime(e, k)
    BY <1>4, <2>3 DEF InTime, y
  <2>5. Cardinality(ToCount(f, k)) = Cardinality(ToCount(e, k)) + (IF q # e.queue /\ k = l THEN 1 ELSE 0)
    <3>1. CASE q = e.queue
      <4>1. ToCount(f, k) = ToCount(e, k)
        BY <1>4, <3>1 DEF ToCount
      <4>2. Cardinality(ToCount(e, k)) \in Nat
        BY <1>0, CountsToWrite
      <4> QED BY <3>1, <4>1, <4>2
    <3>2. CASE q # e.queue
      <4>1. q = Append(e.queue, Count(l)) /\ e.queue \in Seq(Stores)
        BY <1>0, <3>2, EngineFields DEF Stores
      <4>2. Count(l) \in Stores /\ (Count(l) = x <=> k = l)
        BY Ends DEF Stores, Count
      <4> HIDE DEF x
      <4>3. Cardinality(Places(q, x)) = Cardinality(Places(e.queue, x)) + (IF k = l THEN 1 ELSE 0)
        BY <4>1, <4>2, AppendPlaces
      <4> QED BY <1>0, <1>4, <3>2, <4>3, CountsToWrite DEF x
    <3> QED BY <3>1, <3>2
  <2>6. /\ e.tally[k].sent \in Nat /\ e.tally[k].early \in Nat /\ e.tally[k].lost \in Nat
        /\ Def[k].limit \in Nat /\ e.graph.links[k].count \in Nat
        /\ Cardinality(ToCount(e, k)) \in Nat
    BY <1>0, TallyFields, CountsToWrite
  <2>7. CASE k # l
    <3>1. Cardinality(ToCount(f, k)) = Cardinality(ToCount(e, k))
      BY <2>5, <2>6, <2>7
    <3> QED BY <1>3, <2>1, <2>2, <2>3, <2>4, <2>7, <3>1 DEF Bounded
  <2>8. CASE k = l /\ q = e.queue /\ t = e.tally[l]
    <3>1. Cardinality(ToCount(f, k)) = Cardinality(ToCount(e, k))
      BY <2>5, <2>6, <2>8
    <3>2. u[k] = e.tally[k]
      BY <1>3, <2>8
    <3> QED BY <2>1, <2>2, <2>3, <2>4, <2>8, <3>1, <3>2 DEF Bounded
  <2>9. CASE /\ k = l /\ q = Append(e.queue, Count(l))
             /\ t.sent = e.tally[l].sent + 1 /\ t.lost = e.tally[l].lost
             /\ t.early = IF <<l, g>> \in e.early THEN e.tally[l].early + 1 ELSE e.tally[l].early
    <3>0. u[k] = t
      BY <1>3, <2>9
    <3>1. Cardinality(ToCount(f, k)) = Cardinality(ToCount(e, k)) + 1
      <4>1. e.queue \in Seq(Stores) /\ Count(l) \in Stores
        BY <1>0, EngineFields, Ends DEF Stores, Count
      <4>2. q # e.queue
        BY <4>1, <2>9, AppendProperties, LenProperties
      <4> QED BY <2>5, <2>9, <4>2
    <3>2. g \in InFlight(e, l)
      BY <2>9 DEF InFlight
    <3>3. InTime(f, l) = InTime(e, l) \ {g} /\ InFlight(f, l) \subseteq InFlight(e, l)
      BY <2>3, <2>4, <2>9
    <3>4. t.early = e.tally[l].early + 1 \/ (t.early = e.tally[l].early /\ g \in InTime(e, l))
      BY <2>9, <3>2 DEF InTime
    <3>5. Figures(e, l) /\ e.tally[l] \in Tally /\ Bounded(e, l, e.tally[l])
      BY <1>0, <2>1, <2>9, FiguresTyped
    <3>6. Bounded(f, l, t)
      BY <2>2, <2>9, <3>1, <3>2, <3>3, <3>4, <3>5, CountedBounded
    <3> QED BY <2>9, <3>0, <3>6
  <2> QED BY <2>7, <2>8, <2>9
<1>6. Limited(f)
  BY <1>4, <1>5 DEF Limited
<1>7. Good(f, {}, {}, {}, {})
  BY <1>2, <1>4, <1>6, OnlyStoredGood
<1>8. Sound(f)
  BY <1>1, <1>4, <1>7 DEF Sound, LiveThere, There, OnlyStored
<1>9. AllowedLeave(e.sends, f)
  BY <1>0, <1>1, <1>4, Ends DEF AllowedLeave, OnlyStored
<1> QED BY <1>8, <1>9

LEMMA PromptFailsSteps ==
  ASSUME NEW l \in Triggers, NEW g \in Gens, Sound(State), PromptFails(l, g)
  PROVE  Steps
<1> DEFINE e == Over(State, l, g)
           y == State.early \ {<<l, g>>}
           u == [State.tally EXCEPT ![l] = State.tally[l]]
           f == [e EXCEPT !.queue = State.queue, !.early = y, !.tally = u]
<1>0. State \in Engine /\ l \in Senders /\ Unawaited(State, l, g)
  BY SoundFacts, Ends DEF Unawaited
<1>1. sends[l][g] = "prompt" /\ Become([e EXCEPT !.early = @ \ {<<l, g>>}])
  BY StateFields DEF PromptFails, Prompted, Over
<1>2. Sound(e) /\ SameWorld(State, e) /\ SameTally(State, e)
  BY <1>0, <1>1, OverSound, StateFields
<1> HIDE DEF e
<1>3. [e EXCEPT !.early = @ \ {<<l, g>>}] = f
  <2>1. u = State.tally
    BY <1>0, EngineFields
  <2> HIDE DEF u
  <2>2. y = e.early \ {<<l, g>>}
    BY <1>2 DEF SameTally
  <2> HIDE DEF y
  <2>3. e \in Engine /\ e.queue = State.queue /\ e.tally = State.tally
    BY <1>2 DEF Sound, Good, SameWorld, SameTally
  <2> QED BY <2>1, <2>2, <2>3 DEF Engine
<1>4. State.queue \in Seq(Stores) /\ State.tally[l] \in Tally
  BY <1>0, EngineFields DEF Stores
<1>5. Sound(f) /\ AllowedLeave(State.sends, f)
  BY <1>1, <1>4, PromptOver, StateFields DEF e
<1> HIDE DEF f
<1> QED BY <1>1, <1>3, <1>5, StateFields DEF Steps

LEMMA PromptDeliveredSteps ==
  ASSUME NEW l \in Triggers, NEW g \in Gens, Sound(State), PromptDelivered(l, g)
  PROVE  Steps
<1> DEFINE e == Over(State, l, g)
           y == State.early \ {<<l, g>>}
           q == Append(State.queue, Count(l))
           w == [State.tally[l] EXCEPT !.sent = @ + 1]
           t == [w EXCEPT !.early = IF <<l, g>> \in State.early THEN @ + 1 ELSE @]
           u == [State.tally EXCEPT ![l] = t]
           f == [e EXCEPT !.queue = q, !.early = y, !.tally = u]
<1>0. State \in Engine /\ l \in Senders /\ Unawaited(State, l, g)
  BY SoundFacts, Ends DEF Unawaited
<1>1. /\ sends[l][g] = "prompt"
      /\ Become([[e EXCEPT !.early = @ \ {<<l, g>>}] EXCEPT
                   !.queue = Append(@, <<"count", l>>), !.tally[l].sent = @ + 1,
                   !.tally[l].early = IF <<l, g>> \in early THEN @ + 1 ELSE @])
  BY StateFields DEF PromptDelivered, Prompted, Over
<1>2. Sound(e) /\ SameWorld(State, e) /\ SameTally(State, e)
  BY <1>0, <1>1, OverSound, StateFields
<1> HIDE DEF e
<1>3. /\ t \in Tally /\ t.sent = State.tally[l].sent + 1 /\ t.lost = State.tally[l].lost
      /\ t.early = IF <<l, g>> \in State.early THEN State.tally[l].early + 1 ELSE State.tally[l].early
  <2>1. /\ State.tally[l] \in Tally /\ State.tally[l].sent \in Nat
        /\ State.tally[l].early \in Nat /\ State.tally[l].lost \in Nat
    BY <1>0, TallyFields
  <2>2. /\ w \in Tally /\ w.sent = State.tally[l].sent + 1 /\ w.lost = State.tally[l].lost
        /\ w.early = State.tally[l].early
    BY <2>1 DEF Tally
  <2> HIDE DEF w
  <2> DEFINE n == IF <<l, g>> \in State.early THEN w.early + 1 ELSE w.early
  <2>3. n \in Nat /\ t = [w EXCEPT !.early = n]
    BY <2>1, <2>2
  <2> HIDE DEF t
  <2>4. t \in Tally /\ t.sent = w.sent /\ t.lost = w.lost /\ t.early = n
    <3> HIDE DEF n
    <3> QED BY <2>2, <2>3 DEF Tally
  <2> QED BY <2>2, <2>4
<1>4. [[e EXCEPT !.early = @ \ {<<l, g>>}] EXCEPT
         !.queue = Append(@, <<"count", l>>), !.tally[l].sent = @ + 1,
         !.tally[l].early = IF <<l, g>> \in early THEN @ + 1 ELSE @] = f
  <2>1. e \in Engine /\ e.queue = State.queue /\ e.tally = State.tally /\ e.early = State.early
    BY <1>2 DEF Sound, Good, SameWorld, SameTally
  <2>2. [e EXCEPT !.early = @ \ {<<l, g>>}] = [e EXCEPT !.early = y]
    BY <2>1
  <2> DEFINE d == [e EXCEPT !.early = y]
             v == [State.tally EXCEPT ![l] = w]
  <2>3. d.queue = State.queue /\ d.tally = State.tally
    <3> HIDE DEF y
    <3> QED BY <2>1 DEF Engine
  <2>4. [v EXCEPT ![l].early = IF <<l, g>> \in early THEN @ + 1 ELSE @] = u
    <3>1. v[l] = w /\ [v EXCEPT ![l] = t] = u
      <4> HIDE DEF t, w
      <4> QED BY <1>0, EngineFields
    <3>2. early = State.early
      BY StateFields
    <3>3. [v EXCEPT ![l].early = IF <<l, g>> \in early THEN @ + 1 ELSE @] = [v EXCEPT ![l] = t]
      <4> HIDE DEF v, w
      <4> QED BY <3>1, <3>2
    <3> QED BY <3>1, <3>3
  <2>5. [d EXCEPT !.queue = Append(@, <<"count", l>>), !.tally[l].sent = @ + 1]
          = [d EXCEPT !.queue = q, !.tally = v]
    <3>1. [d.tally EXCEPT ![l].sent = @ + 1] = v
      BY <2>3
    <3>2. Append(d.queue, <<"count", l>>) = q
      BY <2>3 DEF Count
    <3> HIDE DEF d, q, v
    <3>3. [d EXCEPT !.queue = Append(@, <<"count", l>>)].tally = d.tally
      BY <2>1 DEF Engine, d
    <3> QED BY <3>1, <3>2, <3>3
  <2> DEFINE b == [d EXCEPT !.queue = q, !.tally = v]
  <2>6. b.tally = v
    <3> HIDE DEF y, q, v
    <3> QED BY <2>1 DEF Engine
  <2>7. [b EXCEPT !.tally[l].early = IF <<l, g>> \in early THEN @ + 1 ELSE @] = [b EXCEPT !.tally = u]
    <3> HIDE DEF b, v, u
    <3> QED BY <2>4, <2>6
  <2>8. [b EXCEPT !.tally = u] = f
    <3> HIDE DEF y, q, v, u
    <3> QED BY <2>1 DEF Engine
  <2> DEFINE x == [d EXCEPT !.queue = Append(@, <<"count", l>>), !.tally[l].sent = @ + 1]
  <2>9. [d EXCEPT !.queue = Append(@, <<"count", l>>), !.tally[l].sent = @ + 1,
                  !.tally[l].early = IF <<l, g>> \in early THEN @ + 1 ELSE @]
          = [x EXCEPT !.tally[l].early = IF <<l, g>> \in early THEN @ + 1 ELSE @]
    <3> HIDE DEF d
    <3> QED OBVIOUS
  <2>10. x = b
    BY <2>5
  <2>11. [x EXCEPT !.tally[l].early = IF <<l, g>> \in early THEN @ + 1 ELSE @]
           = [b EXCEPT !.tally[l].early = IF <<l, g>> \in early THEN @ + 1 ELSE @]
    <3> HIDE DEF x, b
    <3> QED BY <2>10
  <2> DEFINE a == [e EXCEPT !.early = @ \ {<<l, g>>}]
  <2>12. a = d
    BY <2>2
  <2>13. [a EXCEPT !.queue = Append(@, <<"count", l>>), !.tally[l].sent = @ + 1,
                   !.tally[l].early = IF <<l, g>> \in early THEN @ + 1 ELSE @]
           = [d EXCEPT !.queue = Append(@, <<"count", l>>), !.tally[l].sent = @ + 1,
                       !.tally[l].early = IF <<l, g>> \in early THEN @ + 1 ELSE @]
    <3> HIDE DEF a, d
    <3> QED BY <2>12
  <2>14. [a EXCEPT !.queue = Append(@, <<"count", l>>), !.tally[l].sent = @ + 1,
                   !.tally[l].early = IF <<l, g>> \in early THEN @ + 1 ELSE @] = f
    <3> HIDE DEF a, d, x, b, f, u
    <3> QED BY <2>7, <2>8, <2>9, <2>11, <2>13, Zenon
  <2> QED BY <2>14
<1>5. q \in Seq(Stores)
  BY <1>0, EngineFields, AppendProperties, Ends DEF Stores, Count
<1> HIDE DEF t
<1>6. Sound(f) /\ AllowedLeave(State.sends, f)
  <2> HIDE DEF f
  <2> QED BY <1>1, <1>3, <1>5, PromptOver, StateFields DEF e, f
<1> HIDE DEF f
<1> QED BY <1>1, <1>4, <1>6, StateFields DEF Steps

\* What a change that is written does to the link l.
LEMMA ChangedFacts ==
  ASSUME NEW gr \in Stored, NEW c \in Stores
  PROVE  LET h == Changed(gr, c)
         IN  /\ h \in Stored
             /\ \A l \in Links :
                  /\ h.links[l].state = "new" => gr.links[l].state = "new"
                  /\ gr.links[l].state = "gone" => h.links[l].state = "gone"
                  /\ gr.links[l].state = "there" /\ c = Count(l) =>
                       h.links[l].count = gr.links[l].count + 1
                  /\ gr.links[l].state = "there" /\ c \notin {Count(l), <<"resume", l>>} =>
                       h.links[l].count = gr.links[l].count
<1> DEFINE l == c[2]
           k == gr.links[l]
           L == [state : {"new", "there", "gone"}, paused : {"no", "user", "limit"}, count : Nat]
           h == Changed(gr, c)
           Fine(x) == /\ x \in L
                      /\ x.state = "new" => k.state = "new"
                      /\ k.state = "gone" => x.state = "gone"
                      /\ k.state = "there" /\ c[1] = "count" => x.count = k.count + 1
                      /\ k.state = "there" /\ c[1] \notin {"count", "resume"} => x.count = k.count
           none == ~(k.state = "there" /\ c[1] = "count")
<1>1. /\ c = <<c[1], l>> /\ l \in Links /\ c[1] \in Requests \cup {"count"}
      /\ gr.links \in [Links -> L] /\ gr.paused \in BOOLEAN /\ k \in L
  BY DEF Stores, Stored
<1>2. k.state \in {"new", "there", "gone"} /\ k.paused \in {"no", "user", "limit"} /\ k.count \in Nat
  BY <1>1
<1>3. \/ none /\ h = gr
      \/ none /\ h = [gr EXCEPT !.paused = TRUE]
      \/ none /\ h = [gr EXCEPT !.paused = FALSE]
      \/ \E x : h = [gr EXCEPT !.links[l] = x] /\ Fine(x)
  <2>1. CASE c[1] = "pause all"
    BY <2>1 DEF Changed
  <2>2. CASE c[1] = "resume all"
    BY <2>2 DEF Changed
  <2>3. CASE c[1] = "add" /\ k.state = "new"
    <3> DEFINE x == [k EXCEPT !.state = "there"]
    <3>1. h = [gr EXCEPT !.links[l] = x]
      BY <2>3 DEF Changed
    <3>2. Fine(x)
      BY <1>1, <1>2, <2>3
    <3> QED BY <3>1, <3>2
  <2>4. CASE c[1] = "pause" /\ k.state = "there"
    <3> DEFINE x == [k EXCEPT !.paused = IF @ = "no" THEN "user" ELSE @]
    <3>1. h = [gr EXCEPT !.links[l] = x]
      BY <1>1, <2>4 DEF Changed
    <3>2. Fine(x)
      BY <1>1, <1>2, <2>4
    <3> QED BY <3>1, <3>2
  <2>5. CASE c[1] = "resume" /\ k.state = "there"
    <3> DEFINE x == [k EXCEPT !.paused = "no", !.count = 0]
    <3>1. h = [gr EXCEPT !.links[l] = x]
      BY <1>1, <2>5 DEF Changed
    <3>2. Fine(x)
      BY <1>1, <1>2, <2>5
    <3> QED BY <3>1, <3>2
  <2>6. CASE c[1] = "remove" /\ k.state = "there"
    <3> DEFINE x == [k EXCEPT !.state = "gone"]
    <3>1. h = [gr EXCEPT !.links[l] = x]
      BY <1>1, <2>6 DEF Changed
    <3>2. Fine(x)
      BY <1>1, <1>2, <2>6
    <3> QED BY <3>1, <3>2
  <2>7. CASE c[1] = "count" /\ k.state = "there"
    <3> DEFINE x == Counted(k, Def[l].limit)
    <3>1. h = [gr EXCEPT !.links[l] = x]
      BY <1>1, <2>7 DEF Changed
    <3>2. x \in L /\ x.state = k.state /\ x.count = k.count + 1
      <4> DEFINE y == [k EXCEPT !.count = k.count + 1]
                 p == IF k.count + 1 >= Def[l].limit /\ y.paused = "no" THEN "limit" ELSE y.paused
      <4>1. y \in L /\ y.state = k.state /\ y.count = k.count + 1
        BY <1>1, <1>2
      <4>2. x = [y EXCEPT !.paused = p]
        BY DEF Counted
      <4> HIDE DEF x, y
      <4>3. p \in {"no", "user", "limit"}
        BY <4>1
      <4> HIDE DEF p
      <4> QED BY <4>1, <4>2, <4>3
    <3> HIDE DEF x
    <3>3. Fine(x)
      BY <2>7, <3>2
    <3> QED BY <3>1, <3>3
  <2>8. CASE /\ c[1] \notin {"pause all", "resume all"} /\ ~(c[1] = "add" /\ k.state = "new")
             /\ ~(c[1] \in {"pause", "resume", "remove", "count"} /\ k.state = "there")
    BY <1>1, <2>8 DEF Changed
  <2> HIDE DEF l, k, L, h, Fine, none
  <2> QED BY <2>1, <2>2, <2>3, <2>4, <2>5, <2>6, <2>7, <2>8, Zenon
<1>3a. \A j : (c = Count(j) <=> c[1] = "count" /\ l = j)
              /\ (c = <<"resume", j>> <=> c[1] = "resume" /\ l = j)
  BY <1>1 DEF Count
<1> HIDE DEF h
<1>4. CASE /\ none /\ h.links = gr.links /\ h.paused \in BOOLEAN
           /\ h = [paused |-> h.paused, links |-> h.links]
  <2>1. h \in Stored
    BY <1>1, <1>4 DEF Stored
  <2>2. \A j \in Links : ~(gr.links[j].state = "there" /\ c = Count(j))
    BY <1>3a, <1>4
  <2> QED BY <1>4, <2>1, <2>2 DEF h
<1>5. CASE \E x : h = [gr EXCEPT !.links[l] = x] /\ Fine(x)
  <2>1. PICK x : h = [gr EXCEPT !.links[l] = x] /\ Fine(x)
    BY <1>5
  <2>2. h.links = [gr.links EXCEPT ![l] = x] /\ h.paused = gr.paused
        /\ h = [paused |-> h.paused, links |-> h.links]
    BY <2>1 DEF Stored
  <2>3. h.links \in [Links -> L] /\ h.links[l] = x /\ \A j \in Links : j # l => h.links[j] = gr.links[j]
    BY <1>1, <2>1, <2>2
  <2>4. h \in Stored
    BY <1>1, <2>2, <2>3 DEF Stored
  <2>5. ASSUME NEW j \in Links
        PROVE  /\ h.links[j].state = "new" => gr.links[j].state = "new"
               /\ gr.links[j].state = "gone" => h.links[j].state = "gone"
               /\ gr.links[j].state = "there" /\ c = Count(j) =>
                    h.links[j].count = gr.links[j].count + 1
               /\ gr.links[j].state = "there" /\ c \notin {Count(j), <<"resume", j>>} =>
                    h.links[j].count = gr.links[j].count
    <3>1. CASE j = l
      BY <1>3a, <2>1, <2>3, <3>1
    <3>2. CASE j # l
      BY <1>3a, <2>3, <3>2
    <3> QED BY <3>1, <3>2
  <2> QED BY <2>4, <2>5 DEF h
<1>6. h = gr \/ h = [gr EXCEPT !.paused = TRUE] \/ h = [gr EXCEPT !.paused = FALSE]
        => /\ h.links = gr.links /\ h.paused \in BOOLEAN
           /\ h = [paused |-> h.paused, links |-> h.links]
  BY <1>1 DEF Stored
<1> QED BY <1>3, <1>4, <1>5, <1>6 DEF h

LEMMA GraphExcept ==
  ASSUME NEW e \in Engine, NEW f, NEW gr \in Stored, f = [e EXCEPT !.graph = gr]
  PROVE  f \in Engine /\ OnlyStored(e, f) /\ f.graph = gr /\ f.queue = e.queue /\ SameTally(e, f)
  BY DEF Engine, OnlyStored, SameTally

LEMMA TallyExcept ==
  ASSUME NEW e \in Engine, NEW f, NEW t \in [Triggers -> Tally], f = [e EXCEPT !.tally = t]
  PROVE  /\ f \in Engine /\ OnlyStored(e, f) /\ f.graph = e.graph /\ f.queue = e.queue
         /\ f.early = e.early /\ f.tally = t
  BY DEF Engine, OnlyStored, Tallies

\* The next change is written, or its write fails: a link is resumed and starts anew, is
\* counted or left alone, or loses a count.
LEMMA DequeuedGood ==
  ASSUME NEW e, NEW f \in Engine, Sound(e), e.queue # <<>>, OnlyStored(e, f),
         f.queue = Tail(e.queue), f.early = e.early,
         f.graph \in {e.graph, Changed(e.graph, Head(e.queue))},
         \A l \in Triggers :
           LET old == e.graph.links[l]
               new == f.graph.links[l]
               counted == Head(e.queue) = Count(l)
           IN  \/ f.tally[l] = NoneSent /\ old.state = "there"
               \/ /\ f.tally[l] = e.tally[l]
                  /\ old.state = "there" => new.count = old.count + (IF counted THEN 1 ELSE 0)
               \/ /\ counted /\ f.graph = e.graph
                  /\ f.tally[l].sent = e.tally[l].sent /\ f.tally[l].early = e.tally[l].early
                  /\ f.tally[l].lost = e.tally[l].lost + 1
  PROVE  Good(f, {}, {}, {}, {})
<1> DEFINE q == e.queue
           c == Head(q)
<1>1. Good(e, {}, {}, {}, {}) /\ e \in Engine /\ q \in Seq(Stores) /\ e.graph \in Stored
  BY EngineFields DEF Sound, Good, Stores
<1>2. c \in Stores
  BY <1>1, HeadTailProperties
<1>3. ASSUME NEW l \in Links
      PROVE  /\ f.graph.links[l].state = "new" => e.graph.links[l].state = "new"
             /\ e.graph.links[l].state = "gone" => f.graph.links[l].state = "gone"
  <2>1. CASE f.graph = e.graph
    BY <2>1
  <2>2. CASE f.graph = Changed(e.graph, c)
    <3> DEFINE a == e.graph
    <3>1. a \in Stored
      BY <1>1
    <3> HIDE DEF a, c
    <3>2. /\ Changed(a, c).links[l].state = "new" => a.links[l].state = "new"
          /\ a.links[l].state = "gone" => Changed(a, c).links[l].state = "gone"
      BY <1>2, <3>1, ChangedFacts
    <3> QED BY <2>2, <3>2 DEF a
  <2> QED BY <2>1, <2>2
<1>4. ASSUME NEW l \in Triggers PROVE Bounded(f, l, f.tally[l])
  <2>1. Bounded(e, l, e.tally[l])
    BY <1>1 DEF Good, Limited
  <2>2. InFlight(f, l) = InFlight(e, l)
    BY DEF InFlight, OnlyStored
  <2>3. InTime(f, l) = InTime(e, l)
    BY <2>2 DEF InTime
  <2> DEFINE x == Count(l)
             m == Cardinality(ToCount(e, l))
             n == Cardinality(ToCount(f, l))
  <2>4. m = n + (IF c = x THEN 1 ELSE 0)
    <3>1. ToCount(e, l) = Places(q, x) /\ ToCount(f, l) = Places(Tail(q), x)
      BY <1>1, CountsToWrite
    <3> HIDE DEF x
    <3>2. Cardinality(Places(q, x)) = Cardinality(Places(Tail(q), x)) + (IF Head(q) = x THEN 1 ELSE 0)
      BY <1>1, TailPlaces
    <3> QED BY <3>1, <3>2
  <2>5. m \in Nat /\ n \in Nat
    BY <1>1, CountsToWrite
  <2>6. Figures(e, l) /\ Figures(f, l) /\ e.tally[l] \in Tally
    BY <1>1, FiguresTyped
  <2>7. /\ f.graph.links[l].state = "new" => e.graph.links[l].state = "new"
        /\ e.graph.links[l].state = "gone" => f.graph.links[l].state = "gone"
    BY <1>3, Ends
  <2> DEFINE old == e.graph.links[l]
             new == f.graph.links[l]
             o == e.tally[l]
             t == f.tally[l]
             counted == c = x
  <2> HIDE DEF c, x
  <2>8. CASE t = NoneSent /\ old.state = "there"
    <3>1. new.state # "new"
      BY <2>7, <2>8
    <3>2. Bounded(f, l, NoneSent)
      BY <2>1, <2>3, <2>6, <3>1, AnewBounded
    <3> QED BY <2>8, <3>2
  <2>9. CASE t = o /\ (old.state = "there" => new.count = old.count + (IF counted THEN 1 ELSE 0))
    <3>1. Bounded(f, l, o)
      <4> HIDE DEF o
      <4> QED BY <2>1, <2>2, <2>3, <2>4, <2>6, <2>7, <2>9, WrittenBounded DEF o
    <3> QED BY <2>9, <3>1
  <2>10. CASE /\ c = x /\ f.graph = e.graph
              /\ t.sent = o.sent /\ t.early = o.early /\ t.lost = o.lost + 1
    <3>1. m = n + 1
      BY <2>4, <2>10
    <3> HIDE DEF o, t
    <3>2. Bounded(e, l, o) /\ o \in Tally
      BY <2>1, <2>6 DEF o
    <3>3. Bounded(f, l, t)
      BY <2>2, <2>3, <2>5, <2>6, <2>10, <3>1, <3>2, LostBounded
    <3> QED BY <3>3 DEF t
  <2> QED BY <2>8, <2>9, <2>10 DEF c, x
<1>5. Limited(f)
  BY <1>4 DEF Limited
<1> QED BY <1>1, <1>3, <1>5, OnlyStoredGood

LEMMA WrittenSteps ==
  ASSUME Sound(State), Written
  PROVE  Steps
<1> DEFINE c == Head(queue)
           gr == Changed(graph, c)
           q == Tail(queue)
           anew == c[1] = "resume" /\ c[2] \in Triggers /\ There(State, c[2])
           t == IF anew THEN [tally EXCEPT ![c[2]] = NoneSent] ELSE tally
           a == Recount(State, c)
           e == [a EXCEPT !.queue = Tail(@), !.graph = Changed(@, c)]
           r == Reconcile(e)
<1>0. /\ State \in Engine /\ queue # <<>> /\ queue \in Seq(Stores) /\ graph \in Stored
      /\ tally \in [Triggers -> Tally] /\ Become(IF running /\ e.graph # graph THEN r ELSE e)
  BY SoundFacts, EngineFields, StateFields DEF Written, Stores
<1>1. c \in Stores /\ q \in Seq(Stores) /\ gr \in Stored
  BY <1>0, HeadTailProperties, ChangedFacts
<1>1a. t \in [Triggers -> Tally]
  BY <1>0 DEF NoneSent, Tally
<1>1b. \A l \in Triggers : t[l] = IF anew /\ c[2] = l THEN NoneSent ELSE tally[l]
  BY <1>0
<1>1c. a = IF anew THEN [State EXCEPT !.tally = t] ELSE State
  BY StateFields DEF Recount
<1> HIDE DEF t
<1>2. /\ a \in Engine /\ OnlyStored(State, a) /\ a.graph = graph /\ a.queue = queue
      /\ a.early = early /\ a.tally = t
  <2>1. CASE anew
    BY <1>0, <1>1a, <1>1c, <2>1, TallyExcept, StateFields
  <2>2. CASE ~anew
    BY <1>0, <1>1c, <2>2, StateFields DEF OnlyStored, t
  <2> QED BY <2>1, <2>2
<1> DEFINE d == [a EXCEPT !.queue = q]
<1> HIDE DEF a
<1>3. e = [d EXCEPT !.graph = gr]
  <2>1. e = [a EXCEPT !.queue = q, !.graph = gr]
    BY <1>2
  <2> QED BY <2>1
<1> HIDE DEF d, e, q, gr
<1>4. /\ e \in Engine /\ OnlyStored(State, e) /\ e.graph = gr /\ e.queue = q
      /\ e.early = early /\ e.tally = t
  <2>1. d \in Engine /\ OnlyStored(a, d) /\ d.graph = a.graph /\ d.queue = q /\ SameTally(a, d)
    BY <1>1, <1>2, QueueExcept DEF d
  <2>2. e \in Engine /\ OnlyStored(d, e) /\ e.graph = gr /\ e.queue = d.queue /\ SameTally(d, e)
    BY <1>1, <1>3, <2>1, GraphExcept
  <2> QED BY <1>2, <2>1, <2>2 DEF OnlyStored, SameTally
<1>5. ASSUME NEW l \in Triggers
      PROVE  LET old == graph.links[l]
                 new == gr.links[l]
                 counted == c = Count(l)
             IN  \/ t[l] = NoneSent /\ old.state = "there"
                 \/ /\ t[l] = tally[l]
                    /\ old.state = "there" => new.count = old.count + (IF counted THEN 1 ELSE 0)
  <2>1. l \in Links /\ c = <<c[1], c[2]>>
    BY <1>1, Ends DEF Stores
  <2>2. graph.links[l].count \in Nat
    BY <1>0, <2>1 DEF Stored
  <2>3. CASE anew /\ c[2] = l
    BY <1>1b, <2>3, StateFields DEF There
  <2>4. CASE ~(anew /\ c[2] = l)
    <3>1. t[l] = tally[l]
      BY <1>1b, <2>4
    <3>2. graph.links[l].state = "there" => c # <<"resume", l>>
      BY <2>4, StateFields DEF There
    <3> HIDE DEF c
    <3>3. /\ graph.links[l].state = "there" /\ c = Count(l) =>
               gr.links[l].count = graph.links[l].count + 1
          /\ graph.links[l].state = "there" /\ c \notin {Count(l), <<"resume", l>>} =>
               gr.links[l].count = graph.links[l].count
      BY <1>0, <1>1, <2>1, ChangedFacts DEF gr
    <3> QED BY <2>2, <3>1, <3>2, <3>3
  <2> QED BY <2>3, <2>4
<1>6. Good(e, {}, {}, {}, {})
  <2>1. e.queue = Tail(State.queue) /\ e.early = State.early
    BY <1>4, StateFields DEF q
  <2>2. e.graph = Changed(State.graph, Head(State.queue))
    BY <1>4, StateFields DEF gr
  <2> QED BY <1>0, <1>4, <1>5, <2>1, <2>2, DequeuedGood, StateFields
<1>7. e.running = running /\ e.sends = sends
  BY <1>4, StateFields DEF OnlyStored
<1> HIDE DEF r
<1>8. CASE running /\ e.graph # graph
  <2>1. Sound(r) /\ AllowedLeave(e.sends, r)
    BY <1>6, <1>7, <1>8, ReconcileGood DEF r
  <2> QED BY <1>0, <1>7, <1>8, <2>1 DEF Steps
<1>9. CASE ~(running /\ e.graph # graph)
  <2>1. e.live = live /\ (~running => live = {}) /\ LiveThere(State)
    BY <1>4, StateFields DEF OnlyStored, Sound
  <2>2. LiveThere(e)
    BY <1>9, <2>1, StateFields DEF LiveThere, There
  <2>3. Sound(e)
    BY <1>6, <1>7, <2>1, <2>2 DEF Sound
  <2>4. AllowedLeave(sends, e)
    BY <1>7 DEF AllowedLeave
  <2> QED BY <1>0, <1>9, <2>3, <2>4 DEF Steps
<1> QED BY <1>8, <1>9

LEMMA WriteFailsSteps ==
  ASSUME Sound(State), WriteFails
  PROVE  Steps
<1> DEFINE c == Head(queue)
           l == c[2]
           q == Tail(queue)
           lost == c[1] = "count" /\ l \in Triggers
           more == [tally[l] EXCEPT !.lost = @ + 1]
           t == IF lost THEN [tally EXCEPT ![l] = more] ELSE tally
           a == [State EXCEPT !.queue = q]
           e == IF lost THEN [a EXCEPT !.tally = t] ELSE a
<1>0. /\ State \in Engine /\ queue # <<>> /\ queue \in Seq(Stores)
      /\ tally \in [Triggers -> Tally]
  BY SoundFacts, EngineFields, StateFields DEF WriteFails, Stores
<1>1. c \in Stores /\ q \in Seq(Stores)
  BY <1>0, HeadTailProperties
<1>2. lost => /\ more \in Tally /\ more.sent = tally[l].sent /\ more.early = tally[l].early
              /\ more.lost = tally[l].lost + 1
  <2> SUFFICES ASSUME lost
               PROVE  /\ more \in Tally /\ more.sent = tally[l].sent
                      /\ more.early = tally[l].early /\ more.lost = tally[l].lost + 1
    OBVIOUS
  <2> HIDE DEF l
  <2>1. tally[l] \in Tally
    BY <1>0
  <2> QED BY <2>1 DEF Tally
<1>3. /\ t \in [Triggers -> Tally]
      /\ \A k \in Triggers : t[k] = IF lost /\ k = l THEN more ELSE tally[k]
  <2> HIDE DEF more
  <2> QED BY <1>0, <1>2
<1>4. Become(e)
  <2>1. a = [State EXCEPT !.queue = Tail(@)]
    BY StateFields
  <2>2. a.tally = tally
    BY DEF State
  <2> HIDE DEF a
  <2>3. lost => [a EXCEPT !.tally[l].lost = @ + 1] = [a EXCEPT !.tally = t]
    BY <2>2
  <2> HIDE DEF t
  <2>4. Become(IF lost THEN [a EXCEPT !.tally[l].lost = @ + 1] ELSE a)
    BY <2>1 DEF WriteFails
  <2> QED BY <2>3, <2>4
<1> HIDE DEF t, q, more
<1>5. a \in Engine /\ OnlyStored(State, a) /\ a.graph = graph /\ a.queue = q /\ SameTally(State, a)
  BY <1>0, <1>1, QueueExcept, StateFields
<1> HIDE DEF a
<1>6. /\ e \in Engine /\ OnlyStored(State, e) /\ e.graph = graph /\ e.queue = q
      /\ e.early = early /\ e.tally = t
  <2>1. CASE lost
    <3>1. /\ e \in Engine /\ OnlyStored(a, e) /\ e.graph = a.graph /\ e.queue = a.queue
          /\ e.early = a.early /\ e.tally = t
      BY <1>3, <1>5, <2>1, TallyExcept
    <3> QED BY <1>5, <3>1, StateFields DEF OnlyStored, SameTally
  <2>2. CASE ~lost
    BY <1>5, <2>2, StateFields DEF OnlyStored, SameTally, t
  <2> QED BY <2>1, <2>2
<1> HIDE DEF e
<1>7. ASSUME NEW k \in Triggers
      PROVE  \/ /\ t[k] = tally[k] /\ c # Count(k)
             \/ /\ c = Count(k) /\ t[k].sent = tally[k].sent /\ t[k].early = tally[k].early
                /\ t[k].lost = tally[k].lost + 1
  <2>1. c = Count(k) <=> c[1] = "count" /\ l = k
    BY <1>1 DEF Stores, Count
  <2> HIDE DEF c, l
  <2>2. CASE lost /\ k = l
    BY <1>2, <1>3, <2>1, <2>2
  <2>3. CASE ~(lost /\ k = l)
    BY <1>3, <2>1, <2>3
  <2> QED BY <2>2, <2>3
<1>8. Good(e, {}, {}, {}, {})
  <2>1. e.queue = Tail(State.queue) /\ e.early = State.early /\ e.graph = State.graph
    BY <1>6, StateFields DEF q
  <2>2. \A k \in Triggers : State.graph.links[k].count \in Nat
    BY <1>0, TallyFields
  <2> HIDE DEF c
  <2>3. ASSUME NEW k \in Triggers
        PROVE  LET old == State.graph.links[k]
                   new == e.graph.links[k]
                   counted == c = Count(k)
               IN  \/ e.tally[k] = NoneSent /\ old.state = "there"
                   \/ /\ e.tally[k] = State.tally[k]
                      /\ old.state = "there" => new.count = old.count + (IF counted THEN 1 ELSE 0)
                   \/ /\ counted /\ e.graph = State.graph
                      /\ e.tally[k].sent = State.tally[k].sent
                      /\ e.tally[k].early = State.tally[k].early
                      /\ e.tally[k].lost = State.tally[k].lost + 1
    BY <1>6, <1>7, <2>1, <2>2, StateFields
  <2>4. State.queue # <<>> /\ c = Head(State.queue)
    BY <1>0, StateFields DEF c
  <2> QED BY <1>6, <2>1, <2>3, <2>4, DequeuedGood
<1>9. Sound(e) /\ AllowedLeave(sends, e)
  BY <1>6, <1>8, StateFields DEF Sound, OnlyStored, LiveThere, There, AllowedLeave
<1> QED BY <1>4, <1>9 DEF Steps

-----------------------------------------------------------------------------
(* The engine stops and starts.                                            *)

LEMMA Blanks ==
  /\ NotBusy \in [by : Senders \cup {"nobody"}, gen : Gens, settled : BOOLEAN,
                  inst : Nat, seq : Nat]
  /\ NoTrigger \in Trigger /\ NoNotifier \in Notifier /\ ~NoNotifier.idle
  /\ NoNotice \in Notice /\ NoneSent \in Tally /\ 0 \in Gens /\ Gens \subseteq Nat
<1>1. 0 \in Gens /\ Gens \subseteq Nat
  BY GraphAssumption DEF Gens, GraphAssumption
<1>2. NoNotice \in Notice /\ NoneSent \in Tally
  BY DEF NoNotice, Notice, NoneSent, Tally
<1> QED BY <1>1, <1>2 DEF NotBusy, NoTrigger, Trigger, NoBase, Suppressions, NoNotifier, Notifier

\* Without triggers and notifiers there is nothing to serve.
LEMMA IdleGood ==
  ASSUME NEW f \in Engine, Numbered(f), Limited(f), Later(f),
         f.live = {}, f.doubled \subseteq f.excused, Owned(f, {}),
         \A p \in Panes : f.busy[p] = NotBusy, \A p \in Supervisors : f.sup[p] = NoNotifier,
         \A l \in Triggers : f.open[l] = 0 /\ f.sends[l][f.gen] = "none"
  PROVE  Sound(f)
<1>1. Informed(f, {}) /\ Explained(f, {}) /\ Served(f, {}, {}, {}, {})
  BY DEF Informed, Explained, Served
<1>2. Careful(f, {})
  BY Ends DEF Careful
<1> QED BY <1>1, <1>2 DEF Sound, Good, LiveThere

Stopped(e) ==
  [Forget(e, Triggers) EXCEPT !.running = FALSE, !.gen = @ + 1,
                              !.sup = [p \in Supervisors |-> NoNotifier]]

LEMMA StoppedFields ==
  ASSUME NEW e \in Engine, e.gen + 1 \in Gens
  PROVE  LET f == Stopped(e)
         IN  /\ f \in Engine /\ f.agent = e.agent /\ f.graph = e.graph /\ f.queue = e.queue
             /\ f.gen = e.gen + 1 /\ ~f.running /\ f.live = {} /\ f.busy = e.busy
             /\ f.sends = e.sends /\ f.excused = e.excused /\ f.doubled = e.doubled
             /\ SameTally(e, f)
             /\ \A p \in Supervisors : f.sup[p] = NoNotifier
             /\ \A l \in Triggers : f.open[l] = 0
<1> DEFINE w == e.live \ Triggers
           r == [l \in Triggers |-> IF l \in Triggers THEN NoTrigger ELSE e.rt[l]]
           o == [l \in Triggers |-> IF l \in Triggers THEN 0 ELSE e.open[l]]
           n == e.gen + 1
           s == [p \in Supervisors |-> NoNotifier]
           h == Forget(e, Triggers)
           f == Stopped(e)
<1>1. /\ w \in SUBSET Triggers /\ w = {} /\ r \in [Triggers -> Trigger]
      /\ o \in [Triggers -> Int] /\ s \in [Supervisors -> Notifier] /\ n \in Gens
      /\ (\A l \in Triggers : o[l] = 0) /\ \A p \in Supervisors : s[p] = NoNotifier
  BY Blanks, EngineFields
<1>2. h = [e EXCEPT !.live = w, !.rt = r, !.open = o]
  BY DEF Forget
<1> HIDE DEF w, r, o, h
<1>3. /\ h \in Engine /\ h.agent = e.agent /\ h.graph = e.graph /\ h.queue = e.queue
      /\ h.gen = e.gen /\ h.live = w /\ h.busy = e.busy
      /\ h.sends = e.sends /\ h.excused = e.excused /\ h.doubled = e.doubled
      /\ SameTally(e, h) /\ h.open = o
  BY <1>1, <1>2 DEF Engine, Runtimes, Firings, SameTally
<1>4. f = [h EXCEPT !.running = FALSE, !.gen = n, !.sup = s]
  BY <1>3 DEF Stopped, h
<1> HIDE DEF n, s, f
<1>5. /\ f \in Engine /\ f.agent = h.agent /\ f.graph = h.graph /\ f.queue = h.queue
      /\ f.gen = n /\ ~f.running /\ f.live = h.live /\ f.busy = h.busy
      /\ f.sends = h.sends /\ f.excused = h.excused /\ f.doubled = h.doubled
      /\ SameTally(h, f) /\ f.open = h.open /\ f.sup = s
  BY <1>1, <1>3, <1>4 DEF Engine, Notifiers, SameTally
<1> QED BY <1>1, <1>3, <1>5 DEF SameTally, n, f

LEMMA StopSteps ==
  ASSUME Sound(State), Stop
  PROVE  Steps
<1> DEFINE e == GiveUpBusy(State, Panes)
           f == Stopped(e)
<1>0. /\ Good(State, {}, {}, {}, {}) /\ State \in Engine /\ gen \in Gens /\ gen < MaxStops
      /\ Become(f)
  BY SoundFacts DEF Stop, Stopped
<1>1. gen + 1 \in Gens /\ gen \in Nat
  BY <1>0, GraphAssumption DEF Gens, GraphAssumption
<1>2. /\ Good(e, {}, {} \cup To(Panes), {}, {})
      /\ SameWorld(State, e) /\ e.sends = State.sends
      /\ \A p \in Panes : e.busy[p] = NotBusy
      /\ \A k \in Senders, g \in Gens :
           TargetOf(k) \in Panes /\ e.sends[k][g] # "none" => TargetOf(k) \in e.excused
  <2>1. Panes \in SUBSET Panes
    OBVIOUS
  <2> QED BY <1>0, <2>1, GiveUpBusyGood
<1> HIDE DEF e
<1>3. e \in Engine /\ e.gen = gen /\ e.sends = sends
  BY <1>2, StateFields DEF Good, SameWorld
<1>4. /\ f \in Engine /\ f.agent = e.agent /\ f.graph = e.graph /\ f.queue = e.queue
      /\ f.gen = gen + 1 /\ ~f.running /\ f.live = {} /\ f.busy = e.busy
      /\ f.sends = e.sends /\ f.excused = e.excused /\ f.doubled = e.doubled
      /\ SameTally(e, f)
      /\ \A p \in Supervisors : f.sup[p] = NoNotifier
      /\ \A l \in Triggers : f.open[l] = 0
  BY <1>1, <1>3, StoppedFields
<1> HIDE DEF f
<1>5. Numbered(f) /\ Limited(f)
  BY <1>2, <1>4, NumberedSame, LimitedSame DEF Good
<1>6. \A k \in Senders, g \in Gens : g >= gen + 1 => f.sends[k][g] = "none"
  BY <1>1, <1>2, <1>3, <1>4, Blanks DEF Good, Later
<1>7. Later(f)
  <2> SUFFICES ASSUME NEW k \in Senders, NEW g \in Gens, g > f.gen \/ g = f.gen
               PROVE  f.sends[k][g] = "none"
    BY DEF Later
  <2>1. g >= gen + 1
    BY <1>1, <1>4, Blanks
  <2> QED BY <1>6, <2>1
<1>8. \A l \in Triggers : f.sends[l][f.gen] = "none"
  BY <1>1, <1>4, <1>6, Ends
<1>9. f.doubled \subseteq f.excused
  BY <1>2, <1>4 DEF Good, Careful
<1>10. Owned(f, {})
  <2>1. \A k \in Senders : TargetOf(k) \in Panes
    BY Ends
  <2> QED BY <1>2, <1>4, <2>1 DEF Owned
<1>11. Sound(f)
  BY <1>2, <1>4, <1>5, <1>7, <1>8, <1>9, <1>10, IdleGood
<1>12. AllowedLeave(sends, f)
  BY <1>3, <1>4 DEF AllowedLeave
<1> QED BY <1>0, <1>11, <1>12 DEF Steps

LEMMA RunningExcept ==
  ASSUME NEW e \in Engine, NEW f, f = [e EXCEPT !.running = TRUE]
  PROVE  /\ f \in Engine /\ f.running /\ f.agent = e.agent /\ f.up = e.up /\ f.graph = e.graph
         /\ f.queue = e.queue /\ f.gen = e.gen
         /\ f.live = e.live /\ f.rt = e.rt /\ f.busy = e.busy /\ f.sends = e.sends
         /\ f.sup = e.sup /\ f.open = e.open /\ f.notice = e.notice /\ f.doubled = e.doubled
         /\ f.excused = e.excused /\ SameTally(e, f)
  BY DEF Engine, SameTally

LEMMA StartSteps ==
  ASSUME Sound(State), Start
  PROVE  Steps
<1> DEFINE e == [State EXCEPT !.running = TRUE]
           r == Reconcile(e)
<1>0. /\ Good(State, {}, {}, {}, {}) /\ State \in Engine /\ State.live = {} /\ ~State.running
      /\ Become(r)
  BY SoundFacts, StateFields DEF Start, Sound
<1> HIDE DEF e
<1>1. /\ e \in Engine /\ e.running /\ e.agent = State.agent /\ e.up = State.up
      /\ e.graph = State.graph /\ e.queue = State.queue /\ e.gen = State.gen
      /\ e.live = State.live /\ e.rt = State.rt /\ e.busy = State.busy /\ e.sends = State.sends
      /\ e.sup = State.sup /\ e.open = State.open /\ e.notice = State.notice
      /\ e.doubled = State.doubled /\ e.excused = State.excused /\ SameTally(State, e)
  BY <1>0, RunningExcept DEF e
<1>2. /\ Numbered(e) /\ Limited(e) /\ Informed(e, {}) /\ Later(e)
      /\ Explained(e, {}) /\ Careful(e, {})
  <2>1. Later(e)
    BY <1>0, <1>1 DEF Good, Later
  <2> QED BY <1>0, <1>1, <2>1, NumberedSame, LimitedSame, InformedSame, ExplainedSame, CarefulSame
          DEF Good
<1>3. Served(e, {}, {}, {}, {})
  BY <1>0, <1>1 DEF Good, Served
<1>4. Good(e, {}, {}, {}, {})
  BY <1>1, <1>2, <1>3 DEF Good
<1>5. Sound(r) /\ AllowedLeave(e.sends, r)
  BY <1>1, <1>4, ReconcileGood
<1> HIDE DEF r
<1> QED BY <1>0, <1>1, <1>5, StateFields DEF Steps

LEMMA BlankGood ==
  ASSUME NEW s
  PROVE  LET e == Blank(s)
         IN  Good(e, {}, {}, {}, {}) /\ e.running
<1> DEFINE e == Blank(s)
<1>1. /\ e.agent = [p \in Panes |-> [inst |-> 1, state |-> "idle", seq |-> 0]]
      /\ e.up = TRUE /\ e.graph = InitialGraph(s) /\ e.queue = <<>> /\ e.gen = 0 /\ e.running = TRUE
      /\ e.live = {} /\ e.rt = [l \in Triggers |-> NoTrigger]
      /\ e.busy = [p \in Panes |-> NotBusy]
      /\ e.sends = [k \in Senders |-> [g \in Gens |-> "none"]]
      /\ e.sup = [p \in Supervisors |-> NoNotifier] /\ e.open = [l \in Triggers |-> 0]
      /\ e.notice = [p \in Supervisors |-> NoNotice] /\ e.early = {}
      /\ e.tally = [l \in Triggers |-> NoneSent]
      /\ e.doubled = {} /\ e.excused = {} /\ e.shown = {}
  BY DEF Blank, Gens
<1>2. e = [agent |-> e.agent, up |-> e.up, graph |-> e.graph, queue |-> e.queue, gen |-> e.gen,
           running |-> e.running, live |-> e.live, rt |-> e.rt, busy |-> e.busy,
           sends |-> e.sends, sup |-> e.sup, open |-> e.open, notice |-> e.notice,
           early |-> e.early, tally |-> e.tally,
           doubled |-> e.doubled, excused |-> e.excused, shown |-> e.shown]
  BY DEF Blank
<1> HIDE DEF e
<1>3. [inst |-> 1, state |-> "idle", seq |-> 0] \in Agents
  BY DEF Agents, AgentStates
<1>4. e.graph \in Stored /\ \A l \in Links : e.graph.links[l].count = 0
  BY <1>1 DEF InitialGraph, Stored
<1>5. e.queue \in Seq(Stores)
  BY <1>1
<1>6. e \in Engine
  <2>1. e.agent \in Tracked
    BY <1>1, <1>3 DEF Tracked
  <2>1a. e.up \in BOOLEAN /\ e.running \in BOOLEAN
    BY <1>1, Zenon
  <2>2. e.queue \in Queues
    BY <1>5 DEF Queues
  <2>3. e.gen \in Gens /\ e.live \in SUBSET Triggers /\ e.rt \in Runtimes
    BY <1>1, Blanks DEF Runtimes
  <2>4. e.busy \in Assumed
    BY <1>1, Blanks DEF Assumed
  <2>5. e.sends \in Sendings /\ e.sup \in Notifiers /\ e.open \in Firings
    BY <1>1, Blanks DEF Sendings, Notifiers, Firings
  <2>6. e.notice \in Notices /\ e.early \in Early /\ e.tally \in Tallies
    BY <1>1, Blanks DEF Notices, Early, Tallies
  <2>7. e.doubled \in SUBSET Panes /\ e.excused \in SUBSET Panes /\ e.shown \in SUBSET Panes
    BY <1>1
  <2> QED BY <1>2, <1>4, <2>1, <2>1a, <2>2, <2>3, <2>4, <2>5, <2>6, <2>7 DEF Engine
<1>7. Numbered(e)
  BY <1>1 DEF Numbered
<1>8. \A k \in Senders, g \in Gens : e.sends[k][g] = "none"
  BY <1>1
<1>9. ASSUME NEW l \in Triggers PROVE Bounded(e, l, e.tally[l])
  <2>1. InFlight(e, l) = {} /\ InTime(e, l) = {}
    BY <1>8, Ends DEF InFlight, InTime
  <2>2. e.tally[l] = NoneSent /\ NoneSent.sent = 0 /\ NoneSent.early = 0 /\ NoneSent.lost = 0
    BY <1>1 DEF NoneSent
  <2>3. Cardinality(ToCount(e, l)) \in Nat /\ e.graph.links[l].count = 0 /\ Def[l].limit \in Nat
    BY <1>4, <1>6, CountsToWrite, Ends
  <2> QED BY <2>1, <2>2, <2>3 DEF Bounded
<1>10. Limited(e)
  BY <1>9 DEF Limited
<1>11. Later(e) /\ Owned(e, {})
  BY <1>8 DEF Later, Owned
<1>12. /\ \A l \in Triggers : e.open[l] = 0 /\ e.sends[l][e.gen] = "none"
       /\ \A p \in Panes : e.busy[p] = NotBusy
       /\ \A p \in Supervisors : e.sup[p] = NoNotifier
       /\ e.doubled \subseteq e.excused /\ e.live = {}
  BY <1>1, <1>8, Blanks, Ends
<1>13. Sound(e)
  BY <1>6, <1>7, <1>10, <1>11, <1>12, IdleGood
<1> QED BY <1>1, <1>13 DEF Sound, e

-----------------------------------------------------------------------------
(* The theorems.                                                           *)

LEMMA InitInvariant == Init => IInv
<1> SUFFICES ASSUME Init PROVE IInv
  OBVIOUS
<1> DEFINE e == Blank(scenario)
           r == Reconcile(e)
<1>1. Sound(r)
  <2>1. Good(e, {}, {}, {}, {}) /\ e.running
    BY BlankGood
  <2> HIDE DEF e
  <2> QED BY <2>1, ReconcileGood
<1>2. r \in Engine
  BY <1>1 DEF Sound, Good
<1>3. BeginAs(r) /\ scenario \in Scenarios
  BY DEF Init
<1> HIDE DEF r
<1>4. State = r
  BY <1>2, <1>3 DEF BeginAs, State, Engine
<1> QED BY <1>1, <1>3, <1>4 DEF IInv

LEMMA NextSteps == IInv /\ Next => Steps
<1> SUFFICES ASSUME IInv, Next PROVE Steps
  OBVIOUS
<1>0. Sound(State) /\ scenario \in Scenarios
  BY DEF IInv
<1>1. ASSUME NEW p \in Panes, AgentCompletes(p) PROVE Steps
  BY <1>0, <1>1, AgentCompletesSteps
<1>2. ASSUME NEW p \in Panes, NEW state \in Changes \ {"unknown"}, AgentChanges(p, state)
      PROVE  Steps
  BY <1>0, <1>2, AgentChangesSteps DEF Changes, AgentStates
<1>3. ASSUME NEW p \in Panes, AgentReported(p) PROVE Steps
  BY <1>0, <1>3, AgentReportedSteps
<1>4. ASSUME NEW p \in Panes, AgentLeaves(p) PROVE Steps
  BY <1>0, <1>4, AgentLeavesSteps
<1>5. ASSUME NEW p \in Panes, AgentStarts(p) PROVE Steps
  BY <1>0, <1>5, AgentStartsSteps
<1>6. CASE ConnectionChanges
  BY <1>0, <1>6, ConnectionChangesSteps
<1>7. ASSUME NEW p \in Panes, BusyExpires(p) PROVE Steps
  BY <1>0, <1>7, BusyExpiresSteps
<1>8. ASSUME NEW l \in Triggers, SpellHolds(l) PROVE Steps
  BY <1>0, <1>8, SpellHoldsSteps
<1>9. ASSUME NEW l \in Triggers, WaitTooLong(l) PROVE Steps
  BY <1>0, <1>9, WaitTooLongSteps
<1>10. ASSUME NEW p \in Supervisors, NoticeDue(p) PROVE Steps
  BY <1>0, <1>10, NoticeDueSteps
<1>11. CASE Sent
  <2>1. ASSUME NEW l \in Triggers, NEW g \in Gens, TailRead(l, g) PROVE Steps
    BY <1>0, <2>1, TailReadSteps
  <2>2. ASSUME NEW l \in Triggers, NEW g \in Gens, TailFails(l, g) PROVE Steps
    BY <1>0, <2>2, TailFailsSteps
  <2>2a. ASSUME NEW l \in Triggers, NEW g \in Gens, PromptFails(l, g) PROVE Steps
    BY <1>0, <2>2a, PromptFailsSteps
  <2>3. ASSUME NEW l \in Triggers, NEW g \in Gens, PromptDelivered(l, g) PROVE Steps
    BY <1>0, <2>3, PromptDeliveredSteps
  <2>4. ASSUME NEW p \in Supervisors, NEW g \in Gens, NoticeDelivered(p, g) PROVE Steps
    BY <1>0, <2>4, NoticeDeliveredSteps
  <2>5. ASSUME NEW p \in Supervisors, NEW g \in Gens, NEW later \in BOOLEAN,
               NoticeFails(p, g, later)
        PROVE  Steps
    BY <1>0, <2>5, NoticeFailsSteps
  <2> QED BY <1>11, <2>1, <2>2, <2>2a, <2>3, <2>4, <2>5 DEF Sent
<1>12. ASSUME NEW change \in scenario.calls, Call(change) PROVE Steps
  BY <1>0, <1>12, CallSteps
<1>13. CASE Written
  BY <1>0, <1>13, WrittenSteps
<1>14. CASE WriteFails
  BY <1>0, <1>14, WriteFailsSteps
<1>15. CASE Stop
  BY <1>0, <1>15, StopSteps
<1>16. CASE Start
  BY <1>0, <1>16, StartSteps
<1> QED
  BY <1>1, <1>2, <1>3, <1>4, <1>5, <1>6, <1>7, <1>8, <1>9, <1>10, <1>11, <1>12, <1>13, <1>14,
     <1>15, <1>16 DEF Next

LEMMA NextInvariant == IInv /\ [Next]_vars => IInv'
<1> SUFFICES ASSUME IInv, [Next]_vars PROVE IInv'
  OBVIOUS
<1>1. CASE Next
  <2>1. Sound(State)' /\ UNCHANGED scenario
    BY <1>1, NextSteps, StepsSound
  <2> QED BY <2>1 DEF IInv
<1>2. CASE UNCHANGED vars
  <2>1. State' = State
    BY <1>2 DEF vars, State
  <2> QED BY <1>2, <2>1 DEF IInv, vars
<1> QED BY <1>1, <1>2

\* The inductive invariant: between two turns nothing is left to be told, answered or
\* explained, for links whose trigger is there, and nothing at all while the engine is stopped.
THEOREM Invariance == Spec => []IInv
<1>1. Init => IInv
  BY InitInvariant
<1>2. IInv /\ [Next]_vars => IInv'
  BY NextInvariant
<1> QED BY <1>1, <1>2, PTL DEF Spec

\* Every firing is answered once (Answered in onStatus, tick and the turns of a send).
THEOREM AnsweredOnce == Spec => []EachFiringAnsweredOnce
<1>1. IInv => EachFiringAnsweredOnce
  <2> SUFFICES ASSUME IInv, NEW l \in live
               PROVE  open[l] = (IF rt[l].waiting THEN 1 ELSE 0)
                                  + (IF sends[l][gen] # "none" THEN 1 ELSE 0)
    BY DEF EachFiringAnsweredOnce
  <2>1. Good(State, {}, {}, {}, {}) /\ l \in State.live
    BY StateFields DEF IInv, Sound
  <2>2. Linked(State, l, rt[l], open[l], {}, {}, {}, {}) /\ Due(State, l, rt[l]) = 0
    BY <2>1, NothingDue, StateFields DEF Good, Served
  <2>3. open[l] = Waits(rt[l]) + 0 + InHand(State, l, {})
    BY <2>2 DEF Linked
  <2> QED BY <2>3, StateFields DEF Waits, InHand
<1> QED BY <1>1, Invariance, PTL

\* Whoever waits for a target is woken: by its next status, or by the end of what is
\* assumed of it (sawTarget, settleBusy and the expiry in tick).
THEOREM WaitersWake == Spec => []NoLostWakeup
<1>1. IInv => NoLostWakeup
  <2> SUFFICES ASSUME IInv, NEW l \in live, rt[l].waiting
               PROVE  \/ Status(State, Def[l].to).state \notin {"idle", "absent"}
                      \/ /\ busy[Def[l].to] # NotBusy
                         /\ \/ busy[Def[l].to].settled
                            \/ sends[busy[Def[l].to].by][busy[Def[l].to].gen] # "none"
    BY DEF NoLostWakeup
  <2>1. Good(State, {}, {}, {}, {}) /\ l \in State.live
    BY StateFields DEF IInv, Sound
  <2>2. Fits(State, l, rt[l], {}, {}, {})
    BY <2>1, StateFields DEF Good, Served, Linked
  <2>3. Def[l].to \in Panes
    BY <2>1, EngineFields, Ends DEF Good
  <2>4. Explained(State, {})
    BY <2>1 DEF Good
  <2> QED BY <2>2, <2>3, <2>4, StateFields DEF Fits, Explained
<1> QED BY <1>1, Invariance, PTL

\* A pane that is sent to, or assumed busy, gets a second prompt only in one of the named
\* ways: someone saw it as it is, or what was assumed of it was given up (startSend,
\* sendNotice, feedTarget, onStatus, onAvailability, stop and reconcile).
THEOREM DoubledAreExcused == Spec => []OneAtATimeOtherwise
<1>1. IInv => OneAtATimeOtherwise
  <2> SUFFICES ASSUME IInv PROVE doubled \subseteq excused
    BY DEF OneAtATimeOtherwise
  <2> QED BY StateFields DEF IInv, Sound, Good, Careful
<1> QED BY <1>1, Invariance, PTL

\* A link delivers no more prompts than its limit, but for those that left before an earlier
\* one was counted and one for each count that was not written (beginPrompt's recheck and
\* recordRun).
THEOREM CountsWithinLimits == Spec => []LimitKept
<1>1. IInv => LimitKept
  <2> SUFFICES ASSUME IInv, NEW l \in Triggers
               PROVE  tally[l].sent <= Def[l].limit + tally[l].early + tally[l].lost
    BY DEF LimitKept
  <2>1. Limited(State)
    BY DEF IInv, Sound, Good
  <2> QED BY <2>1, StateFields DEF Limited, Bounded
<1> QED BY <1>1, Invariance, PTL

\* A notifier with nothing due has given its last notice, which is about what it knows, or
\* is giving it, or has given it up after an error that is not tried again (applyNotifier
\* and sendNotice).
THEOREM NoticesAreOwed == Spec => []NoticeOwed
<1>1. IInv => NoticeOwed
  <2> SUFFICES ASSUME IInv, NEW p \in Supervisors, sup[p] # NoNotifier, sup[p].inst # 0,
                      sup[p].dirty = "no"
               PROVE  /\ notice[p].inst = sup[p].inst /\ notice[p].subs = sup[p].subs
                      /\ \/ notice[p].outcome \in {"told", "given up"}
                         \/ notice[p].outcome = "under way" /\ sends[p][gen] = "prompt"
    BY DEF NoticeOwed
  <2>1. Informed(State, {})
    BY DEF IInv, Sound, Good
  <2>2. Tells(sup[p], notice[p], Telling(State, p, {}))
    BY <2>1, StateFields DEF Informed
  <2>3. Telling(State, p, {}) <=> sends[p][gen] = "prompt"
    BY StateFields DEF Telling
  <2> QED BY <2>2, <2>3 DEF Tells
<1> QED BY <1>1, Invariance, PTL

\* Prompts leave for links that may send only, and from an engine that runs (recheck,
\* after the screen was read).
THEOREM OnlyAllowedLeave == Spec => OnlyAllowedPromptsLeave
<1> DEFINE A == \A l \in Triggers, g \in Gens :
                  LET link == graph'.links[l]
                  IN  sends[l][g] # "prompt" /\ sends'[l][g] = "prompt" =>
                        /\ g = gen' /\ running'
                        /\ link.state = "there" /\ link.count < Def[l].limit
                        /\ ~graph'.paused /\ link.paused = "no"
<1>1. IInv /\ [Next]_vars => A \/ UNCHANGED vars
  <2> SUFFICES ASSUME IInv, Next PROVE A
    OBVIOUS
  <2>1. PICK f : Become(f) /\ AllowedLeave(sends, f)
    BY NextSteps DEF Steps
  <2> QED BY <2>1 DEF Become, AllowedLeave, Allowed
<1>2. IInv /\ [Next]_vars => [A]_vars
  BY <1>1
<1> HIDE DEF A
<1>3. Spec => [][A]_vars
  BY <1>2, Invariance, PTL DEF Spec
<1> QED BY <1>3 DEF OnlyAllowedPromptsLeave, A
=============================================================================
