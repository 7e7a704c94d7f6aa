------------------------- MODULE Terminal_proofs --------------------------
(***************************************************************************)
(* The two ways of a terminal.  Part 1, output: OutputPath implements      *)
(* OutputView, for any number of clients, chunks, subscribe calls and for  *)
(* all thresholds.  Part 2, input: what was typed is read in order, and    *)
(* modal input is whole, for any number of panes, holds and modal inputs.  *)
(***************************************************************************)
EXTENDS OutputPath, InputPath, SequenceTheorems, FiniteSetTheorems, NaturalsInduction, WellFoundedInduction, TLAPS

-----------------------------------------------------------------------------
(* Part 1: output.                                                         *)

SubStates == {"none", "buffering", "live", "stale"}

\* The marks lie, in order, in what the mirror has not parsed.
Ordered(ms, w, p) ==
  /\ \A i \in 1 .. Len(ms) : p <= ms[i].at /\ ms[i].at <= w
  /\ \A i, j \in 1 .. Len(ms) : i < j => ms[i].at <= ms[j].at

\* What a current attempt has kept starts at its mark, and there is one for a client.
CurrentKeeps(ms, sb, bf, w) ==
  /\ \A i \in 1 .. Len(ms) :
       ms[i].kind = "current" =>
         /\ ms[i].client \in Clients
         /\ sb[ms[i].client] = "buffering"
         /\ bf[ms[i].client] = w - ms[i].at
  /\ \A i, j \in 1 .. Len(ms) :
       ms[i].kind = "current" /\ ms[j].kind = "current" /\ ms[i].client = ms[j].client => i = j

\* What a replaced attempt has kept starts at its mark and goes on from what the
\* client shows when it fires; it comes before every later attempt of the client.
ReplacedKeeps(ms, sb, vw, w) ==
  /\ \A i \in 1 .. Len(ms) :
       ms[i].kind = "replaced" =>
         /\ ms[i].client \in Clients
         /\ ms[i].from = ms[i].at
         /\ ms[i].at <= ms[i].upto /\ ms[i].upto <= w
         /\ vw[ms[i].client] <= ms[i].upto
         /\ sb[ms[i].client] # "live"
  /\ \A i, j \in 1 .. Len(ms) :
       ms[i].kind = "replaced" /\ ms[i].client = ms[j].client =>
         /\ ms[j].kind = "current" => i < j
         /\ ms[j].kind = "replaced" /\ i < j => ms[i].upto <= ms[j].upto

\* A client shows output up to some point, a live one all of it.
ViewsFollow(sb, vw, w) ==
  \A c \in Clients : vw[c] <= w /\ (sb[c] = "live" => vw[c] = w)

Good(ms, sb, bf, vw, w, p) ==
  /\ ms \in Seq(Mark)
  /\ sb \in [Clients -> SubStates]
  /\ bf \in [Clients -> Nat]
  /\ vw \in [Clients -> Nat]
  /\ Ordered(ms, w, p)
  /\ CurrentKeeps(ms, sb, bf, w)
  /\ ReplacedKeeps(ms, sb, vw, w)
  /\ ViewsFollow(sb, vw, w)

\* What TypeOK says of the other variables.
Counted ==
  /\ produced \in Nat /\ written \in Nat /\ parsed \in Nat /\ screen \in Nat /\ calls \in Nat
  /\ parsed <= written
  /\ written + (IF inStream THEN 1 ELSE 0) <= produced
  /\ inStream \in BOOLEAN /\ handle \in BOOLEAN /\ flowing \in BOOLEAN /\ paused \in BOOLEAN
  /\ hold \in {"no", "flushing", "taken"}
  /\ backlog \in [Clients -> Nat]

IInv == Counted /\ Good(marks, sub, buffered, view, written, parsed)

-----------------------------------------------------------------------------
(* What the changes to the queue of marks keep of Good.                     *)

\* The marks of a queue, one by one.
LEMMA MarksTyped ==
  ASSUME NEW ms \in Seq(Mark)
  PROVE  /\ Len(ms) \in Nat /\ DOMAIN ms = 1 .. Len(ms)
         /\ \A i \in 1 .. Len(ms) :
              /\ ms[i] \in Mark
              /\ ms[i].client \in Clients \cup {Broken}
              /\ ms[i].kind \in {"current", "replaced", "void", "flush"}
              /\ ms[i].at \in Nat /\ ms[i].from \in Nat /\ ms[i].upto \in Nat
<1>1. Len(ms) \in Nat /\ DOMAIN ms = 1 .. Len(ms) /\ \A i \in 1 .. Len(ms) : ms[i] \in Mark
  BY LenProperties
<1> QED BY <1>1 DEF Mark

\* Marks put after what is written join a good queue: flushes, and attempts of
\* clients that have kept nothing yet and have no other attempt.
LEMMA Extend ==
  ASSUME NEW ms, NEW ns \in Seq(Mark), NEW sb, NEW bf, NEW vw, NEW w \in Nat, NEW p \in Nat,
         p <= w,
         Good(ms, sb, bf, vw, w, p),
         \A i \in 1 .. Len(ns) :
           /\ ns[i].at = w
           /\ \/ ns[i].kind = "flush"
              \/ /\ ns[i].kind = "current" /\ ns[i].client \in Clients
                 /\ sb[ns[i].client] = "buffering" /\ bf[ns[i].client] = 0,
         \A i, j \in 1 .. Len(ns) :
           ns[i].kind = "current" /\ ns[j].kind = "current" /\ ns[i].client = ns[j].client => i = j,
         \A i \in 1 .. Len(ms), j \in 1 .. Len(ns) :
           ms[i].kind = "current" /\ ns[j].kind = "current" => ms[i].client # ns[j].client
  PROVE  Good(ms \o ns, sb, bf, vw, w, p)
<1> DEFINE all == ms \o ns
<1>0. /\ Ordered(ms, w, p) /\ CurrentKeeps(ms, sb, bf, w)
      /\ ReplacedKeeps(ms, sb, vw, w) /\ ViewsFollow(sb, vw, w)
  BY DEF Good
<1>1. ms \in Seq(Mark)
  BY DEF Good
<1>2. /\ Len(ms) \in Nat
      /\ \A i \in 1 .. Len(ms) : ms[i].at \in Nat /\ ms[i].upto \in Nat
  BY <1>1, MarksTyped
<1>3. Len(ns) \in Nat
  BY MarksTyped
<1>4. /\ all \in Seq(Mark)
      /\ Len(all) = Len(ms) + Len(ns)
      /\ \A i \in 1 .. Len(ms) + Len(ns) : all[i] = IF i <= Len(ms) THEN ms[i] ELSE ns[i - Len(ms)]
  BY <1>1, ConcatProperties
<1>5. \A i \in 1 .. Len(all) :
        \/ i \in 1 .. Len(ms) /\ all[i] = ms[i]
        \/ i - Len(ms) \in 1 .. Len(ns) /\ i > Len(ms) /\ all[i] = ns[i - Len(ms)]
  BY <1>2, <1>3, <1>4
<1>6. Len(all) \in Nat
  BY <1>2, <1>3, <1>4
<1> HIDE DEF all
<1>7. Ordered(all, w, p)
  <2>1. \A i \in 1 .. Len(all) : p <= all[i].at /\ all[i].at <= w
    <3> SUFFICES ASSUME NEW i \in 1 .. Len(all)
                 PROVE  p <= all[i].at /\ all[i].at <= w
      OBVIOUS
    <3>1. CASE all[i] = ms[i] /\ i \in 1 .. Len(ms)
      BY <3>1, <1>0 DEF Ordered
    <3>2. CASE i - Len(ms) \in 1 .. Len(ns) /\ all[i] = ns[i - Len(ms)]
      BY <3>2
    <3> QED BY <3>1, <3>2, <1>5
  <2>2. ASSUME NEW i \in 1 .. Len(all), NEW j \in 1 .. Len(all), i < j
        PROVE  all[i].at <= all[j].at
    <3>1. CASE j > Len(ms)
      <4>0. j \notin 1 .. Len(ms)
        BY <3>1, <1>2
      <4>1. PICK k \in 1 .. Len(ns) : all[j] = ns[k]
        BY <4>0, <1>5
      <4>2. all[j].at = w
        BY <4>1
      <4> QED BY <4>2, <2>1
    <3>2. CASE j <= Len(ms)
      <4>1. i \in 1 .. Len(ms) /\ j \in 1 .. Len(ms) /\ all[i] = ms[i] /\ all[j] = ms[j]
        BY <3>2, <2>2, <1>2, <1>5, <1>6, SMTT(30)
      <4> QED BY <4>1, <2>2, <1>0 DEF Ordered
    <3> QED BY <3>1, <3>2, <1>2, <1>6
  <2> QED BY <2>1, <2>2 DEF Ordered
<1>8. CurrentKeeps(all, sb, bf, w)
  <2>1. ASSUME NEW i \in 1 .. Len(all), all[i].kind = "current"
        PROVE  /\ all[i].client \in Clients
               /\ sb[all[i].client] = "buffering"
               /\ bf[all[i].client] = w - all[i].at
    <3>1. CASE all[i] = ms[i] /\ i \in 1 .. Len(ms)
      BY <3>1, <2>1, <1>0 DEF CurrentKeeps
    <3>2. CASE i - Len(ms) \in 1 .. Len(ns) /\ all[i] = ns[i - Len(ms)]
      BY <3>2, <2>1
    <3> QED BY <3>1, <3>2, <1>5
  <2>2. ASSUME NEW i \in 1 .. Len(all), NEW j \in 1 .. Len(all),
               all[i].kind = "current", all[j].kind = "current", all[i].client = all[j].client
        PROVE  i = j
    <3>1. CASE all[i] = ms[i] /\ i \in 1 .. Len(ms)
      <4>0. ~(j - Len(ms) \in 1 .. Len(ns) /\ all[j] = ns[j - Len(ms)])
        <5>1. \A k \in 1 .. Len(ns) : all[j] # ns[k]
          BY <3>1, <2>2
        <5> QED BY <5>1
      <4>1. j \in 1 .. Len(ms) /\ all[j] = ms[j]
        BY <4>0, <1>5
      <4> QED BY <4>1, <3>1, <2>2, <1>0 DEF CurrentKeeps
    <3>2. CASE i - Len(ms) \in 1 .. Len(ns) /\ all[i] = ns[i - Len(ms)]
      <4>0. ~(j \in 1 .. Len(ms) /\ all[j] = ms[j])
        BY <3>2, <2>2
      <4>1. j - Len(ms) \in 1 .. Len(ns) /\ all[j] = ns[j - Len(ms)]
        BY <4>0, <1>5
      <4>2. i - Len(ms) = j - Len(ms)
        BY <4>1, <3>2, <2>2
      <4> QED BY <4>2, <1>2, <1>6
    <3> QED BY <3>1, <3>2, <1>5
  <2> QED BY <2>1, <2>2 DEF CurrentKeeps
<1>9. ReplacedKeeps(all, sb, vw, w)
  <2>1. \A i \in 1 .. Len(all) : all[i].kind = "replaced" => i \in 1 .. Len(ms) /\ all[i] = ms[i]
    BY <1>5
  <2>2. ASSUME NEW i \in 1 .. Len(all), all[i].kind = "replaced"
        PROVE  /\ all[i].client \in Clients
               /\ all[i].from = all[i].at
               /\ all[i].at <= all[i].upto /\ all[i].upto <= w
               /\ vw[all[i].client] <= all[i].upto
               /\ sb[all[i].client] # "live"
    BY <2>1, <2>2, <1>0 DEF ReplacedKeeps
  <2>3. ASSUME NEW i \in 1 .. Len(all), NEW j \in 1 .. Len(all),
               all[i].kind = "replaced", all[i].client = all[j].client
        PROVE  /\ all[j].kind = "current" => i < j
               /\ all[j].kind = "replaced" /\ i < j => all[i].upto <= all[j].upto
    <3>0. i \in 1 .. Len(ms) /\ all[i] = ms[i]
      BY <2>1, <2>3
    <3>1. CASE j \in 1 .. Len(ms) /\ all[j] = ms[j]
      BY <3>0, <3>1, <2>3, <1>0 DEF ReplacedKeeps
    <3>2. CASE j > Len(ms)
      BY <3>0, <3>2, <2>1, <1>2, <1>6
    <3> QED BY <3>1, <3>2, <1>5
  <2> QED BY <2>2, <2>3 DEF ReplacedKeeps
<1> QED BY <1>4, <1>7, <1>8, <1>9 DEF Good, all

\* Another state of clients without an attempt under way, none of them newly live.
LEMMA Restate ==
  ASSUME NEW ms, NEW sb, NEW bf, NEW vw, NEW w \in Nat, NEW p \in Nat,
         Good(ms, sb, bf, vw, w, p),
         NEW sb2 \in [Clients -> SubStates], NEW bf2 \in [Clients -> Nat],
         \A i \in 1 .. Len(ms) :
           ms[i].kind = "current" =>
             sb2[ms[i].client] = sb[ms[i].client] /\ bf2[ms[i].client] = bf[ms[i].client],
         \A c \in Clients : sb2[c] = "live" => sb[c] = "live"
  PROVE  Good(ms, sb2, bf2, vw, w, p)
<1>1. CurrentKeeps(ms, sb2, bf2, w)
  BY DEF Good, CurrentKeeps
<1>2. ReplacedKeeps(ms, sb2, vw, w)
  BY DEF Good, ReplacedKeeps
<1>3. ViewsFollow(sb2, vw, w)
  BY DEF Good, ViewsFollow
<1> QED BY <1>1, <1>2, <1>3 DEF Good

\* Voiding changes the kind of some marks only.
LEMMA VoidedProperties ==
  ASSUME NEW ms \in Seq(Mark), NEW cs
  PROVE  /\ Voided(ms, cs) \in Seq(Mark) /\ Len(Voided(ms, cs)) = Len(ms)
         /\ \A i \in 1 .. Len(ms) :
              /\ Voided(ms, cs)[i].at = ms[i].at /\ Voided(ms, cs)[i].client = ms[i].client
              /\ Voided(ms, cs)[i].from = ms[i].from /\ Voided(ms, cs)[i].upto = ms[i].upto
              /\ Voided(ms, cs)[i].kind =
                   IF ms[i].kind = "current" /\ ms[i].client \in cs THEN "void" ELSE ms[i].kind
<1> DEFINE change(m) == IF m.kind = "current" /\ m.client \in cs THEN [m EXCEPT !.kind = "void"] ELSE m
<1>1. Len(ms) \in Nat /\ DOMAIN ms = 1 .. Len(ms) /\ \A i \in 1 .. Len(ms) : ms[i] \in Mark
  BY MarksTyped
<1>2. \A m \in Mark :
        /\ change(m) \in Mark
        /\ change(m).at = m.at /\ change(m).client = m.client
        /\ change(m).from = m.from /\ change(m).upto = m.upto
        /\ change(m).kind = IF m.kind = "current" /\ m.client \in cs THEN "void" ELSE m.kind
  BY DEF Mark
<1>3. Voided(ms, cs) = [i \in 1 .. Len(ms) |-> change(ms[i])]
  BY <1>1 DEF Voided
<1> HIDE DEF change
<1>4. Voided(ms, cs) \in Seq(Mark) /\ Len(Voided(ms, cs)) = Len(ms)
  BY <1>1, <1>2, <1>3
<1> QED BY <1>1, <1>2, <1>3, <1>4

\* The attempts under way of some clients are void and these clients have another
\* state, none of them newly live.
LEMMA Void ==
  ASSUME NEW ms, NEW sb, NEW bf, NEW vw, NEW w \in Nat, NEW p \in Nat, NEW cs,
         Good(ms, sb, bf, vw, w, p),
         NEW sb2 \in [Clients -> SubStates], NEW bf2 \in [Clients -> Nat],
         \A c \in Clients \ cs : sb2[c] = sb[c] /\ bf2[c] = bf[c],
         \A c \in Clients : sb2[c] = "live" => sb[c] = "live"
  PROVE  Good(Voided(ms, cs), sb2, bf2, vw, w, p)
<1> DEFINE vs == Voided(ms, cs)
<1>0. /\ Ordered(ms, w, p) /\ CurrentKeeps(ms, sb, bf, w)
      /\ ReplacedKeeps(ms, sb, vw, w) /\ ViewsFollow(sb, vw, w)
  BY DEF Good
<1>1. ms \in Seq(Mark)
  BY DEF Good
<1>2. /\ vs \in Seq(Mark) /\ Len(vs) = Len(ms)
      /\ \A i \in 1 .. Len(ms) :
           /\ vs[i].at = ms[i].at /\ vs[i].client = ms[i].client
           /\ vs[i].from = ms[i].from /\ vs[i].upto = ms[i].upto
           /\ vs[i].kind = IF ms[i].kind = "current" /\ ms[i].client \in cs THEN "void" ELSE ms[i].kind
  BY <1>1, VoidedProperties
<1> HIDE DEF vs
<1>3. Ordered(vs, w, p)
  BY <1>2, <1>0 DEF Ordered
<1>4. CurrentKeeps(vs, sb2, bf2, w)
  <2>1. ASSUME NEW i \in 1 .. Len(vs), vs[i].kind = "current"
        PROVE  i \in 1 .. Len(ms) /\ ms[i].kind = "current" /\ ms[i].client \notin cs
               /\ vs[i].client = ms[i].client /\ vs[i].at = ms[i].at
    BY <2>1, <1>2
  <2>2. ASSUME NEW i \in 1 .. Len(vs), vs[i].kind = "current"
        PROVE  /\ vs[i].client \in Clients
               /\ sb2[vs[i].client] = "buffering"
               /\ bf2[vs[i].client] = w - vs[i].at
    BY <2>1, <2>2, <1>0, SMTT(30) DEF CurrentKeeps
  <2>3. ASSUME NEW i \in 1 .. Len(vs), NEW j \in 1 .. Len(vs),
               vs[i].kind = "current", vs[j].kind = "current", vs[i].client = vs[j].client
        PROVE  i = j
    BY <2>1, <2>3, <1>0 DEF CurrentKeeps
  <2> QED BY <2>2, <2>3 DEF CurrentKeeps
<1>5. ReplacedKeeps(vs, sb2, vw, w)
  <2>1. ASSUME NEW i \in 1 .. Len(vs)
        PROVE  /\ i \in 1 .. Len(ms)
               /\ vs[i].client = ms[i].client /\ vs[i].at = ms[i].at
               /\ vs[i].from = ms[i].from /\ vs[i].upto = ms[i].upto
               /\ vs[i].kind = "current" => ms[i].kind = "current"
               /\ vs[i].kind = "replaced" => ms[i].kind = "replaced"
    BY <1>2
  <2>2. ASSUME NEW i \in 1 .. Len(vs), vs[i].kind = "replaced"
        PROVE  /\ vs[i].client \in Clients
               /\ vs[i].from = vs[i].at
               /\ vs[i].at <= vs[i].upto /\ vs[i].upto <= w
               /\ vw[vs[i].client] <= vs[i].upto
               /\ sb2[vs[i].client] # "live"
    BY <2>1, <2>2, <1>0 DEF ReplacedKeeps
  <2>3. ASSUME NEW i \in 1 .. Len(vs), NEW j \in 1 .. Len(vs),
               vs[i].kind = "replaced", vs[i].client = vs[j].client
        PROVE  /\ vs[j].kind = "current" => i < j
               /\ vs[j].kind = "replaced" /\ i < j => vs[i].upto <= vs[j].upto
    BY <2>1, <2>3, <1>0, SMTT(60) DEF ReplacedKeeps
  <2> QED BY <2>2, <2>3 DEF ReplacedKeeps
<1>6. ViewsFollow(sb2, vw, w)
  BY <1>0 DEF ViewsFollow
<1> QED BY <1>2, <1>3, <1>4, <1>5, <1>6 DEF Good, vs

\* A second subscribe of client c: its attempt under way is replaced and keeps
\* what there is, and the client starts anew.
Superseded(ms, c, from, upto) ==
  [i \in DOMAIN ms |-> IF ms[i].kind = "current" /\ ms[i].client = c
                         THEN [ms[i] EXCEPT !.kind = "replaced", !.from = from, !.upto = upto]
                         ELSE ms[i]]

LEMMA SupersededProperties ==
  ASSUME NEW ms \in Seq(Mark), NEW c, NEW from \in Nat, NEW upto \in Nat
  PROVE  LET rs == Superseded(ms, c, from, upto)
             hit(i) == ms[i].kind = "current" /\ ms[i].client = c
         IN  /\ rs \in Seq(Mark) /\ Len(rs) = Len(ms)
             /\ \A i \in 1 .. Len(ms) :
                  /\ rs[i].at = ms[i].at /\ rs[i].client = ms[i].client
                  /\ hit(i) => rs[i].kind = "replaced" /\ rs[i].from = from /\ rs[i].upto = upto
                  /\ ~hit(i) => rs[i] = ms[i]
<1> DEFINE is(m) == m.kind = "current" /\ m.client = c
           change(m) == IF is(m) THEN [m EXCEPT !.kind = "replaced", !.from = from, !.upto = upto] ELSE m
           rs == Superseded(ms, c, from, upto)
<1>1. Len(ms) \in Nat /\ DOMAIN ms = 1 .. Len(ms) /\ \A i \in 1 .. Len(ms) : ms[i] \in Mark
  BY MarksTyped
<1>2. \A m \in Mark :
        /\ change(m) \in Mark
        /\ change(m).at = m.at /\ change(m).client = m.client
        /\ is(m) => change(m).kind = "replaced" /\ change(m).from = from /\ change(m).upto = upto
        /\ ~is(m) => change(m) = m
  BY DEF Mark
<1>3. rs = [i \in 1 .. Len(ms) |-> change(ms[i])]
  BY <1>1 DEF Superseded
<1> HIDE DEF change, rs
<1>4. rs \in Seq(Mark) /\ Len(rs) = Len(ms)
  BY <1>1, <1>2, <1>3
<1>5. \A i \in 1 .. Len(ms) : rs[i] = change(ms[i])
  BY <1>1, <1>3
<1> QED BY <1>1, <1>2, <1>4, <1>5 DEF rs

LEMMA Supersede ==
  ASSUME NEW ms, NEW sb, NEW bf, NEW vw, NEW w \in Nat, NEW p \in Nat, NEW c \in Clients,
         Good(ms, sb, bf, vw, w, p)
  PROVE  LET rs == Superseded(ms, c, w - bf[c], w)
         IN  /\ Good(rs, [sb EXCEPT ![c] = "buffering"], [bf EXCEPT ![c] = 0], vw, w, p)
             /\ \A i \in 1 .. Len(rs) : rs[i].kind = "current" => rs[i].client # c
<1> DEFINE rs == Superseded(ms, c, w - bf[c], w)
           sb2 == [sb EXCEPT ![c] = "buffering"]
           bf2 == [bf EXCEPT ![c] = 0]
           hit(i) == ms[i].kind = "current" /\ ms[i].client = c
<1>0. /\ Ordered(ms, w, p) /\ CurrentKeeps(ms, sb, bf, w)
      /\ ReplacedKeeps(ms, sb, vw, w) /\ ViewsFollow(sb, vw, w)
  BY DEF Good
<1>1. /\ ms \in Seq(Mark) /\ sb \in [Clients -> SubStates]
      /\ bf \in [Clients -> Nat] /\ vw \in [Clients -> Nat]
  BY DEF Good
<1>2. \A i \in 1 .. Len(ms) :
        /\ ms[i].at \in Nat /\ ms[i].upto \in Nat
        /\ ms[i].kind \in {"current", "replaced", "void", "flush"}
  BY <1>1, MarksTyped
<1>3. \A i \in 1 .. Len(ms) : hit(i) => ms[i].at = w - bf[c]
  BY <1>0, <1>1, <1>2 DEF CurrentKeeps
<1>4. /\ rs \in Seq(Mark) /\ Len(rs) = Len(ms)
      /\ \A i \in 1 .. Len(ms) :
           /\ rs[i].at = ms[i].at /\ rs[i].client = ms[i].client
           /\ hit(i) => rs[i].kind = "replaced" /\ rs[i].from = ms[i].at /\ rs[i].upto = w
           /\ ~hit(i) => rs[i] = ms[i]
  <2>1. CASE \E i \in 1 .. Len(ms) : hit(i)
    <3>1. w - bf[c] \in Nat
      BY <2>1, <1>2, <1>3
    <3> DEFINE d == w - bf[c]  ss == Superseded(ms, c, d, w)
    <3>2. d \in Nat /\ w \in Nat /\ ms \in Seq(Mark)
      BY <3>1, <1>1
    <3>3. /\ ss \in Seq(Mark) /\ Len(ss) = Len(ms)
          /\ \A i \in 1 .. Len(ms) :
               /\ ss[i].at = ms[i].at /\ ss[i].client = ms[i].client
               /\ hit(i) => ss[i].kind = "replaced" /\ ss[i].from = d /\ ss[i].upto = w
               /\ ~hit(i) => ss[i] = ms[i]
      <4> HIDE DEF d
      <4> QED BY <3>2, SupersededProperties, SMTT(30)
    <3>4. ss = rs
      OBVIOUS
    <3>5. \A i \in 1 .. Len(ms) : hit(i) => ms[i].at = d
      BY <1>3
    <3> HIDE DEF d, ss, hit, rs
    <3> QED BY <3>3, <3>4, <3>5
  <2>2. CASE \A i \in 1 .. Len(ms) : ~hit(i)
    <3>1. DOMAIN ms = 1 .. Len(ms)
      BY <1>1, MarksTyped
    <3>2. rs = [i \in 1 .. Len(ms) |-> ms[i]]
      BY <2>2, <3>1 DEF Superseded
    <3>3. ms \in [1 .. Len(ms) -> Mark]
      BY <1>1, LenProperties
    <3>4. rs = ms
      BY <3>2, <3>3
    <3> QED BY <3>4, <2>2, <1>1
  <2> QED BY <2>1, <2>2
<1>5. /\ sb2 \in [Clients -> SubStates] /\ bf2 \in [Clients -> Nat]
      /\ sb2[c] = "buffering"
      /\ \A d \in Clients \ {c} : sb2[d] = sb[d] /\ bf2[d] = bf[d]
  BY <1>1 DEF SubStates
<1> HIDE DEF rs, sb2, bf2
<1>6. ASSUME NEW i \in 1 .. Len(rs)
      PROVE  /\ i \in 1 .. Len(ms)
             /\ rs[i].client = ms[i].client /\ rs[i].at = ms[i].at
             /\ rs[i].kind = "current" => ms[i].kind = "current" /\ ms[i].client # c
             /\ rs[i].kind = "replaced" =>
                  \/ ms[i].kind = "replaced" /\ rs[i].from = ms[i].from /\ rs[i].upto = ms[i].upto
                  \/ /\ ms[i].kind = "current" /\ ms[i].client = c
                     /\ rs[i].from = ms[i].at /\ rs[i].upto = w
  BY <1>4
<1>7. Ordered(rs, w, p)
  <2>1. ASSUME NEW i \in 1 .. Len(rs) PROVE p <= rs[i].at /\ rs[i].at <= w
    BY <1>6, <1>0 DEF Ordered
  <2>2. ASSUME NEW i \in 1 .. Len(rs), NEW j \in 1 .. Len(rs), i < j PROVE rs[i].at <= rs[j].at
    BY <1>6, <2>2, <1>0 DEF Ordered
  <2> QED BY <2>1, <2>2 DEF Ordered
<1>8. CurrentKeeps(rs, sb2, bf2, w)
  <2>1. ASSUME NEW i \in 1 .. Len(rs), rs[i].kind = "current"
        PROVE  /\ rs[i].client \in Clients
               /\ sb2[rs[i].client] = "buffering"
               /\ bf2[rs[i].client] = w - rs[i].at
    <3>1. rs[i].client = ms[i].client /\ rs[i].at = ms[i].at /\ ms[i].kind = "current" /\ ms[i].client # c
      BY <2>1, <1>6
    <3>2. /\ ms[i].client \in Clients /\ sb[ms[i].client] = "buffering"
          /\ bf[ms[i].client] = w - ms[i].at
      BY <3>1, <1>6, <1>0 DEF CurrentKeeps
    <3> QED BY <3>1, <3>2, <1>5
  <2>2. ASSUME NEW i \in 1 .. Len(rs), NEW j \in 1 .. Len(rs),
               rs[i].kind = "current", rs[j].kind = "current", rs[i].client = rs[j].client
        PROVE  i = j
    BY <2>2, <1>6, <1>0 DEF CurrentKeeps
  <2> QED BY <2>1, <2>2 DEF CurrentKeeps
<1>9. ReplacedKeeps(rs, sb2, vw, w)
  <2>1. ASSUME NEW i \in 1 .. Len(rs), rs[i].kind = "replaced"
        PROVE  /\ rs[i].client \in Clients
               /\ rs[i].from = rs[i].at
               /\ rs[i].at <= rs[i].upto /\ rs[i].upto <= w
               /\ vw[rs[i].client] <= rs[i].upto
               /\ sb2[rs[i].client] # "live"
    <3>1. CASE ms[i].kind = "replaced" /\ rs[i].from = ms[i].from /\ rs[i].upto = ms[i].upto
      BY <3>1, <1>6, <1>5, <1>0 DEF ReplacedKeeps
    <3>2. CASE ms[i].kind = "current" /\ ms[i].client = c /\ rs[i].from = ms[i].at /\ rs[i].upto = w
      <4>1. ms[i].at <= w
        BY <1>6, <1>0 DEF Ordered
      <4>2. vw[c] <= w
        BY <1>0 DEF ViewsFollow
      <4> QED BY <4>1, <4>2, <3>2, <1>6, <1>5
    <3> QED BY <3>1, <3>2, <2>1, <1>6
  <2>2. ASSUME NEW i \in 1 .. Len(rs), NEW j \in 1 .. Len(rs),
               rs[i].kind = "replaced", rs[i].client = rs[j].client, rs[j].kind = "current"
        PROVE  i < j
    BY <2>2, <1>6, <1>0 DEF ReplacedKeeps
  <2>3. ASSUME NEW i \in 1 .. Len(rs), NEW j \in 1 .. Len(rs), i < j,
               rs[i].kind = "replaced", rs[j].kind = "replaced", rs[i].client = rs[j].client
        PROVE  rs[i].upto <= rs[j].upto
    <3>1. i \in Int /\ j \in Int
      BY <2>3
    <3>2. rs[i].upto <= w
      BY <2>1, <2>3
    <3>3. CASE rs[j].upto = w
      BY <3>2, <3>3
    <3>4. CASE ms[j].kind = "replaced" /\ rs[j].upto = ms[j].upto
      <4>1. ms[i].kind # "current"
        BY <3>1, <3>4, <2>3, <1>6, <1>0 DEF ReplacedKeeps
      <4>2. ms[i].kind = "replaced" /\ rs[i].upto = ms[i].upto
        BY <4>1, <2>3, <1>6
      <4> QED BY <4>2, <3>4, <2>3, <1>6, <1>0 DEF ReplacedKeeps
    <3> QED BY <3>3, <3>4, <2>3, <1>6
  <2> QED BY <2>1, <2>2, <2>3 DEF ReplacedKeeps
<1>10. ViewsFollow(sb2, vw, w)
  BY <1>0, <1>5 DEF ViewsFollow
<1>11. \A i \in 1 .. Len(rs) : rs[i].kind = "current" => rs[i].client # c
  BY <1>6
<1>12. Good(rs, sb2, bf2, vw, w, p)
  BY <1>1, <1>4, <1>5, <1>7, <1>8, <1>9, <1>10 DEF Good
<1> QED BY <1>11, <1>12 DEF rs, sb2, bf2

\* The first mark leaves the queue, and nothing else happens.
LEMMA Dequeue ==
  ASSUME NEW ms, NEW sb, NEW bf, NEW vw, NEW w \in Nat, NEW p \in Nat,
         Good(ms, sb, bf, vw, w, p), ms # <<>>
  PROVE  /\ Good(Tail(ms), sb, bf, vw, w, p)
         /\ Head(ms) = ms[1] /\ 1 \in 1 .. Len(ms)
         /\ \A i \in 1 .. Len(Tail(ms)) : i + 1 \in 2 .. Len(ms) /\ Tail(ms)[i] = ms[i + 1]
<1> DEFINE ts == Tail(ms)
<1>0. /\ Ordered(ms, w, p) /\ CurrentKeeps(ms, sb, bf, w)
      /\ ReplacedKeeps(ms, sb, vw, w) /\ ViewsFollow(sb, vw, w)
  BY DEF Good
<1>1. ms \in Seq(Mark) /\ Len(ms) \in Nat /\ 1 \in 1 .. Len(ms) /\ Head(ms) = ms[1]
  BY EmptySeq DEF Good
<1>2. ts \in Seq(Mark) /\ Len(ts) = Len(ms) - 1 /\ \A i \in 1 .. Len(ts) : ts[i] = ms[i + 1]
  BY <1>1, HeadTailProperties
<1> HIDE DEF ts
<1>3. ASSUME NEW i \in 1 .. Len(ts)
      PROVE  i \in Int /\ i + 1 \in 1 .. Len(ms) /\ i + 1 \in 2 .. Len(ms) /\ ts[i] = ms[i + 1]
  BY <1>1, <1>2
<1>4. Ordered(ts, w, p)
  <2>1. ASSUME NEW i \in 1 .. Len(ts) PROVE p <= ts[i].at /\ ts[i].at <= w
    BY <1>3, <1>0 DEF Ordered
  <2>2. ASSUME NEW i \in 1 .. Len(ts), NEW j \in 1 .. Len(ts), i < j PROVE ts[i].at <= ts[j].at
    <3>1. i + 1 < j + 1
      BY <2>2, <1>3
    <3> QED BY <3>1, <1>3, <1>0 DEF Ordered
  <2> QED BY <2>1, <2>2 DEF Ordered
<1>5. CurrentKeeps(ts, sb, bf, w)
  <2>1. ASSUME NEW i \in 1 .. Len(ts), ts[i].kind = "current"
        PROVE  /\ ts[i].client \in Clients
               /\ sb[ts[i].client] = "buffering"
               /\ bf[ts[i].client] = w - ts[i].at
    BY <2>1, <1>3, <1>0 DEF CurrentKeeps
  <2>2. ASSUME NEW i \in 1 .. Len(ts), NEW j \in 1 .. Len(ts),
               ts[i].kind = "current", ts[j].kind = "current", ts[i].client = ts[j].client
        PROVE  i = j
    <3>1. i + 1 = j + 1
      BY <2>2, <1>3, <1>0 DEF CurrentKeeps
    <3> QED BY <3>1, <1>3
  <2> QED BY <2>1, <2>2 DEF CurrentKeeps
<1>6. ReplacedKeeps(ts, sb, vw, w)
  <2>1. ASSUME NEW i \in 1 .. Len(ts), ts[i].kind = "replaced"
        PROVE  /\ ts[i].client \in Clients
               /\ ts[i].from = ts[i].at
               /\ ts[i].at <= ts[i].upto /\ ts[i].upto <= w
               /\ vw[ts[i].client] <= ts[i].upto
               /\ sb[ts[i].client] # "live"
    BY <2>1, <1>3, <1>0 DEF ReplacedKeeps
  <2>2. ASSUME NEW i \in 1 .. Len(ts), NEW j \in 1 .. Len(ts),
               ts[i].kind = "replaced", ts[i].client = ts[j].client, ts[j].kind = "current"
        PROVE  i < j
    <3>1. i + 1 < j + 1
      BY <2>2, <1>3, <1>0 DEF ReplacedKeeps
    <3> QED BY <3>1, <1>3
  <2>3. ASSUME NEW i \in 1 .. Len(ts), NEW j \in 1 .. Len(ts), i < j,
               ts[i].kind = "replaced", ts[i].client = ts[j].client, ts[j].kind = "replaced"
        PROVE  ts[i].upto <= ts[j].upto
    <3>1. i + 1 < j + 1
      BY <2>3, <1>3
    <3> QED BY <3>1, <2>3, <1>3, <1>0, ZenonT(60) DEF ReplacedKeeps
  <2> QED BY <2>1, <2>2, <2>3 DEF ReplacedKeeps
<1>7. Good(ts, sb, bf, vw, w, p)
  BY <1>0, <1>2, <1>4, <1>5, <1>6 DEF Good
<1> QED BY <1>1, <1>3, <1>7 DEF ts

\* A replaced attempt ends: the client shows what the attempt had kept.
LEMMA FireReplaced ==
  ASSUME NEW ms, NEW sb, NEW bf, NEW vw, NEW w \in Nat, NEW p \in Nat,
         Good(ms, sb, bf, vw, w, p), ms # <<>>, Head(ms).kind = "replaced"
  PROVE  LET k == Head(ms)
         IN  /\ k.client \in Clients /\ k.upto \in Nat /\ k.from = k.at
             /\ vw[k.client] <= k.upto /\ k.upto <= w
             /\ Good(Tail(ms), sb, bf, [vw EXCEPT ![k.client] = k.upto], w, p)
<1> DEFINE k == Head(ms)
           ts == Tail(ms)
           vw2 == [vw EXCEPT ![k.client] = k.upto]
<1>1. /\ Good(ts, sb, bf, vw, w, p)
      /\ k = ms[1] /\ 1 \in 1 .. Len(ms)
      /\ \A i \in 1 .. Len(ts) : i + 1 \in 2 .. Len(ms) /\ ts[i] = ms[i + 1]
  BY Dequeue
<1>2. ReplacedKeeps(ms, sb, vw, w) /\ ms \in Seq(Mark)
  BY DEF Good
<1>3. /\ vw \in [Clients -> Nat] /\ sb \in [Clients -> SubStates] /\ bf \in [Clients -> Nat]
      /\ ts \in Seq(Mark)
      /\ Ordered(ts, w, p) /\ CurrentKeeps(ts, sb, bf, w)
      /\ ReplacedKeeps(ts, sb, vw, w) /\ ViewsFollow(sb, vw, w)
  BY <1>1 DEF Good
<1>4. k.upto \in Nat
  BY <1>1, <1>2, MarksTyped
<1>5. /\ k.client \in Clients /\ k.from = k.at
      /\ vw[k.client] <= k.upto /\ k.upto <= w /\ sb[k.client] # "live"
  BY <1>1, <1>2 DEF ReplacedKeeps
<1>6. /\ vw2 \in [Clients -> Nat]
      /\ vw2[k.client] = k.upto
      /\ \A c \in Clients : c # k.client => vw2[c] = vw[c]
  BY <1>3, <1>4, <1>5
<1>7. \A i \in 1 .. Len(ts) : ts[i].kind = "replaced" /\ ts[i].client = k.client => k.upto <= ts[i].upto
  <2> SUFFICES ASSUME NEW i \in 1 .. Len(ts), ts[i].kind = "replaced", ts[i].client = k.client
               PROVE  k.upto <= ts[i].upto
    OBVIOUS
  <2>1. i + 1 \in 1 .. Len(ms) /\ 1 < i + 1 /\ ts[i] = ms[i + 1]
    BY <1>1
  <2> QED BY <2>1, <1>1, <1>2 DEF ReplacedKeeps
<1> HIDE DEF k, ts, vw2
<1>8. ReplacedKeeps(ts, sb, vw2, w)
  <2>1. ASSUME NEW i \in 1 .. Len(ts), ts[i].kind = "replaced"
        PROVE  vw2[ts[i].client] <= ts[i].upto
    <3>1. CASE ts[i].client = k.client
      BY <3>1, <2>1, <1>6, <1>7
    <3>2. CASE ts[i].client # k.client
      BY <3>2, <2>1, <1>6, <1>3 DEF ReplacedKeeps
    <3> QED BY <3>1, <3>2
  <2> QED BY <2>1, <1>3 DEF ReplacedKeeps
<1>9. ViewsFollow(sb, vw2, w)
  BY <1>3, <1>5, <1>6 DEF ViewsFollow
<1>10. Good(ts, sb, bf, vw2, w, p)
  BY <1>3, <1>6, <1>8, <1>9 DEF Good
<1> QED BY <1>4, <1>5, <1>10 DEF k, ts, vw2

\* The current attempt of a client ends: the client shows everything and is live.
LEMMA FireCurrent ==
  ASSUME NEW ms, NEW sb, NEW bf, NEW vw, NEW w \in Nat, NEW p \in Nat,
         Good(ms, sb, bf, vw, w, p), ms # <<>>, Head(ms).kind = "current"
  PROVE  LET k == Head(ms)
         IN  /\ k.client \in Clients /\ sb[k.client] = "buffering"
             /\ bf[k.client] = w - k.at /\ vw[k.client] <= w
             /\ Good(Tail(ms), [sb EXCEPT ![k.client] = "live"], [bf EXCEPT ![k.client] = 0],
                     [vw EXCEPT ![k.client] = w], w, p)
<1> DEFINE k == Head(ms)
           ts == Tail(ms)
           sb2 == [sb EXCEPT ![k.client] = "live"]
           bf2 == [bf EXCEPT ![k.client] = 0]
           vw2 == [vw EXCEPT ![k.client] = w]
<1>1. /\ Good(ts, sb, bf, vw, w, p)
      /\ k = ms[1] /\ 1 \in 1 .. Len(ms)
      /\ \A i \in 1 .. Len(ts) : i + 1 \in 2 .. Len(ms) /\ ts[i] = ms[i + 1]
  BY Dequeue
<1>2. ReplacedKeeps(ms, sb, vw, w) /\ CurrentKeeps(ms, sb, bf, w)
  BY DEF Good
<1>3. /\ vw \in [Clients -> Nat] /\ sb \in [Clients -> SubStates] /\ bf \in [Clients -> Nat]
      /\ ts \in Seq(Mark)
      /\ Ordered(ts, w, p) /\ CurrentKeeps(ts, sb, bf, w)
      /\ ReplacedKeeps(ts, sb, vw, w) /\ ViewsFollow(sb, vw, w)
  BY <1>1 DEF Good
<1>4. k.client \in Clients /\ sb[k.client] = "buffering" /\ bf[k.client] = w - k.at
  BY <1>1, <1>2 DEF CurrentKeeps
<1>5. ASSUME NEW i \in 1 .. Len(ts), ts[i].kind = "current" \/ ts[i].kind = "replaced"
      PROVE  ts[i].client # k.client
  <2>1. i + 1 \in 1 .. Len(ms) /\ i + 1 # 1 /\ ~(i + 1 < 1) /\ ts[i] = ms[i + 1]
    BY <1>1
  <2>2. CASE ts[i].kind = "current"
    BY <2>1, <2>2, <1>1, <1>2 DEF CurrentKeeps
  <2>3. CASE ts[i].kind = "replaced"
    BY <2>1, <2>3, <1>1, <1>2 DEF ReplacedKeeps
  <2> QED BY <2>2, <2>3, <1>5
<1>6. /\ sb2 \in [Clients -> SubStates] /\ bf2 \in [Clients -> Nat] /\ vw2 \in [Clients -> Nat]
      /\ vw2[k.client] = w
      /\ \A c \in Clients \ {k.client} : sb2[c] = sb[c] /\ bf2[c] = bf[c] /\ vw2[c] = vw[c]
  BY <1>3, <1>4 DEF SubStates
<1> HIDE DEF k, ts, sb2, bf2, vw2
<1>7. CurrentKeeps(ts, sb2, bf2, w)
  <2>1. ASSUME NEW i \in 1 .. Len(ts), ts[i].kind = "current"
        PROVE  /\ ts[i].client \in Clients
               /\ sb2[ts[i].client] = "buffering"
               /\ bf2[ts[i].client] = w - ts[i].at
    BY <2>1, <1>3, <1>5, <1>6 DEF CurrentKeeps
  <2> QED BY <2>1, <1>3 DEF CurrentKeeps
<1>8. ReplacedKeeps(ts, sb2, vw2, w)
  <2>1. ASSUME NEW i \in 1 .. Len(ts), ts[i].kind = "replaced"
        PROVE  /\ ts[i].client \in Clients
               /\ ts[i].from = ts[i].at
               /\ ts[i].at <= ts[i].upto /\ ts[i].upto <= w
               /\ vw2[ts[i].client] <= ts[i].upto
               /\ sb2[ts[i].client] # "live"
    BY <2>1, <1>3, <1>5, <1>6 DEF ReplacedKeeps
  <2> QED BY <2>1, <1>3 DEF ReplacedKeeps
<1>9. ViewsFollow(sb2, vw2, w)
  <2> SUFFICES ASSUME NEW c \in Clients
               PROVE  vw2[c] <= w /\ (sb2[c] = "live" => vw2[c] = w)
    BY DEF ViewsFollow
  <2>1. CASE c = k.client
    BY <2>1, <1>6
  <2>2. CASE c # k.client
    BY <2>2, <1>3, <1>6 DEF ViewsFollow
  <2> QED BY <2>1, <2>2
<1>10. Good(ts, sb2, bf2, vw2, w, p)
  BY <1>3, <1>6, <1>7, <1>8, <1>9 DEF Good
<1>11. vw[k.client] <= w
  BY <1>3, <1>4 DEF ViewsFollow
<1> QED BY <1>4, <1>10, <1>11 DEF k, ts, sb2, bf2, vw2

\* A chunk is written: a waiting client keeps it, a live one shows it.
LEMMA Shift ==
  ASSUME NEW ms, NEW sb, NEW bf, NEW vw, NEW w \in Nat, NEW p \in Nat,
         Good(ms, sb, bf, vw, w, p),
         NEW bf2 \in [Clients -> Nat], NEW vw2 \in [Clients -> Nat],
         \A c \in Clients : sb[c] = "buffering" => bf2[c] = bf[c] + 1,
         \A c \in Clients : vw2[c] = IF sb[c] = "live" THEN w + 1 ELSE vw[c]
  PROVE  Good(ms, sb, bf2, vw2, w + 1, p)
<1>0. /\ Ordered(ms, w, p) /\ CurrentKeeps(ms, sb, bf, w)
      /\ ReplacedKeeps(ms, sb, vw, w) /\ ViewsFollow(sb, vw, w)
      /\ ms \in Seq(Mark) /\ sb \in [Clients -> SubStates] /\ bf \in [Clients -> Nat]
      /\ vw \in [Clients -> Nat]
  BY DEF Good
<1>1. \A i \in 1 .. Len(ms) : ms[i].at \in Nat /\ ms[i].upto \in Nat
  BY <1>0, MarksTyped
<1>2. Ordered(ms, w + 1, p)
  <2>1. ASSUME NEW i \in 1 .. Len(ms) PROVE p <= ms[i].at /\ ms[i].at <= w + 1
    <3>1. p <= ms[i].at /\ ms[i].at <= w
      BY <1>0 DEF Ordered
    <3> QED BY <3>1, <1>1
  <2> QED BY <2>1, <1>0 DEF Ordered
<1>3. CurrentKeeps(ms, sb, bf2, w + 1)
  <2>1. ASSUME NEW i \in 1 .. Len(ms), ms[i].kind = "current"
        PROVE  /\ ms[i].client \in Clients
               /\ sb[ms[i].client] = "buffering"
               /\ bf2[ms[i].client] = (w + 1) - ms[i].at
    <3>1. /\ ms[i].client \in Clients
          /\ sb[ms[i].client] = "buffering"
          /\ bf[ms[i].client] = w - ms[i].at
      BY <2>1, <1>0 DEF CurrentKeeps
    <3>2. bf2[ms[i].client] = bf[ms[i].client] + 1
      BY <3>1
    <3>3. bf2[ms[i].client] = (w - ms[i].at) + 1
      BY <3>1, <3>2, Zenon
    <3>4. (w - ms[i].at) + 1 = (w + 1) - ms[i].at
      BY <1>1
    <3> QED BY <3>1, <3>3, <3>4, Zenon
  <2>2. \A i, j \in 1 .. Len(ms) :
          ms[i].kind = "current" /\ ms[j].kind = "current" /\ ms[i].client = ms[j].client => i = j
    BY <1>0 DEF CurrentKeeps
  <2> QED BY <2>1, <2>2 DEF CurrentKeeps
<1>4. ReplacedKeeps(ms, sb, vw2, w + 1)
  <2>1. ASSUME NEW i \in 1 .. Len(ms), ms[i].kind = "replaced"
        PROVE  /\ ms[i].client \in Clients
               /\ ms[i].from = ms[i].at
               /\ ms[i].at <= ms[i].upto /\ ms[i].upto <= w + 1
               /\ vw2[ms[i].client] <= ms[i].upto
               /\ sb[ms[i].client] # "live"
    <3>1. /\ ms[i].client \in Clients
          /\ ms[i].from = ms[i].at
          /\ ms[i].at <= ms[i].upto /\ ms[i].upto <= w
          /\ vw[ms[i].client] <= ms[i].upto
          /\ sb[ms[i].client] # "live"
      BY <2>1, <1>0 DEF ReplacedKeeps
    <3> QED BY <3>1, <1>1
  <2> QED BY <2>1, <1>0 DEF ReplacedKeeps
<1>5. ViewsFollow(sb, vw2, w + 1)
  BY <1>0 DEF ViewsFollow
<1> QED BY <1>0, <1>2, <1>3, <1>4, <1>5 DEF Good

\* The mirror parses a chunk when no mark stands before it.
LEMMA Parse ==
  ASSUME NEW ms, NEW sb, NEW bf, NEW vw, NEW w \in Nat, NEW p \in Nat,
         Good(ms, sb, bf, vw, w, p),
         ms # <<>> => Head(ms).at # p
  PROVE  Good(ms, sb, bf, vw, w, p + 1)
<1>0. Ordered(ms, w, p) /\ ms \in Seq(Mark)
  BY DEF Good
<1>1. Len(ms) \in Nat /\ \A i \in 1 .. Len(ms) : ms[i].at \in Nat
  BY <1>0, MarksTyped
<1>2. ASSUME NEW i \in 1 .. Len(ms)
      PROVE  p + 1 <= ms[i].at
  <2>1. ms # <<>> /\ Head(ms) = ms[1] /\ 1 \in 1 .. Len(ms)
    BY <1>0, <1>1
  <2>2. ms[1].at # p /\ p <= ms[1].at
    BY <2>1, <1>0 DEF Ordered
  <2>3. ms[1].at <= ms[i].at
    <3>1. CASE i = 1
      BY <3>1, <1>1
    <3>2. CASE 1 < i
      BY <3>2, <2>1, <1>0 DEF Ordered
    <3> QED BY <3>1, <3>2
  <2> QED BY <2>1, <2>2, <2>3, <1>1
<1>3. Ordered(ms, w, p + 1)
  BY <1>0, <1>2 DEF Ordered
<1> QED BY <1>3 DEF Good

-----------------------------------------------------------------------------
(* The parts the actions share.                                            *)

\* What the clients see does not go back.
ViewsGrow == \A c \in Clients : view[c] <= view'[c]

\* An order of clients goes over each of them once.
LEMMA OrdersProperties ==
  ASSUME NEW cs, NEW order \in Orders(cs)
  PROVE  \E n \in Nat : order \in [1 .. n -> cs] /\ IsInjective(order)
<1>1. Cardinality(Clients) \in Nat
  BY BoundsAssumption, FS_CardinalityType
<1>2. PICK n \in 0 .. Cardinality(Clients) : order \in [1 .. n -> cs]
  BY DEF Orders
<1>3. IsInjective(order)
  BY DEF Orders
<1> QED BY <1>1, <1>2, <1>3

\* retryStale leaves the queue good: the clients it takes back had no attempt.
LEMMA RetryGood ==
  ASSUME NEW pending, NEW ms, NEW sb, NEW bf, NEW vw, NEW p \in Nat,
         written \in Nat, p <= written,
         Good(ms, sb, bf, vw, written, p),
         \A c \in Clients : sub[c] = "stale" => sb[c] = "stale",
         RetryStale(pending, ms, sb, bf)
  PROVE  Good(marks', sub', buffered', vw, written, p)
<1> DEFINE cs == Retried(pending)
<1>0. ms \in Seq(Mark) /\ sb \in [Clients -> SubStates] /\ bf \in [Clients -> Nat]
      /\ CurrentKeeps(ms, sb, bf, written)
  BY DEF Good
<1>1. cs \subseteq Clients /\ \A c \in cs : sb[c] = "stale"
  BY DEF Retried
<1>2. /\ sub' = [c \in Clients |-> IF c \in cs THEN "buffering" ELSE sb[c]]
      /\ buffered' = [c \in Clients |-> IF c \in cs THEN 0 ELSE bf[c]]
  BY DEF RetryStale
<1>3. PICK order \in Orders(cs) : marks' = ms \o [i \in DOMAIN order |-> NewMark(order[i], "current")]
  BY DEF RetryStale
<1>4. PICK n \in Nat : order \in [1 .. n -> cs] /\ IsInjective(order)
  BY <1>3, OrdersProperties
<1> DEFINE ns == [i \in DOMAIN order |-> NewMark(order[i], "current")]
<1> HIDE DEF cs
<1>5. /\ DOMAIN order = 1 .. n
      /\ \A i \in 1 .. n : order[i] \in cs
      /\ \A i, j \in 1 .. n : order[i] = order[j] => i = j
  BY <1>4 DEF IsInjective
<1>6. \A c \in cs : NewMark(c, "current") \in Mark /\ NewMark(c, "current").at = written
                    /\ NewMark(c, "current").kind = "current" /\ NewMark(c, "current").client = c
  BY <1>1 DEF NewMark, Mark
<1>7. /\ ns \in Seq(Mark) /\ Len(ns) = n
      /\ \A i \in 1 .. n : ns[i].at = written /\ ns[i].kind = "current" /\ ns[i].client = order[i]
  BY <1>5, <1>6
<1>8. \A i \in 1 .. Len(ms) : ms[i].kind = "current" => ms[i].client \in Clients /\ ms[i].client \notin cs
  BY <1>0, <1>1 DEF CurrentKeeps
<1>9. /\ sub' \in [Clients -> SubStates] /\ buffered' \in [Clients -> Nat]
      /\ \A c \in cs : sub'[c] = "buffering" /\ buffered'[c] = 0
      /\ \A c \in Clients \ cs : sub'[c] = sb[c] /\ buffered'[c] = bf[c]
  BY <1>0, <1>1, <1>2 DEF SubStates
<1>10. Good(ms, sub', buffered', vw, written, p)
  <2>1. \A i \in 1 .. Len(ms) :
          ms[i].kind = "current" =>
            sub'[ms[i].client] = sb[ms[i].client] /\ buffered'[ms[i].client] = bf[ms[i].client]
    BY <1>8, <1>9
  <2>2. \A c \in Clients : sub'[c] = "live" => sb[c] = "live"
    BY <1>9
  <2> QED BY <2>1, <2>2, <1>9, Restate
<1> HIDE DEF ns
<1>11. Good(ms \o ns, sub', buffered', vw, written, p)
  <2>1. \A i \in 1 .. Len(ns) :
          /\ ns[i].at = written
          /\ ns[i].kind = "current" /\ ns[i].client \in Clients
          /\ sub'[ns[i].client] = "buffering" /\ buffered'[ns[i].client] = 0
    BY <1>1, <1>5, <1>7, <1>9
  <2>2. \A i, j \in 1 .. Len(ns) : ns[i].client = ns[j].client => i = j
    BY <1>5, <1>7
  <2>3. \A i \in 1 .. Len(ms), j \in 1 .. Len(ns) :
          ms[i].kind = "current" => ms[i].client # ns[j].client
    BY <1>5, <1>7, <1>8
  <2> QED BY <2>1, <2>2, <2>3, <1>7, <1>10, Extend
<1> QED BY <1>3, <1>11 DEF ns

\* So does the call of the listeners of onDrained.
LEMMA DrainedGood ==
  ASSUME NEW pending, NEW ms, NEW sb, NEW bf, NEW vw, NEW p \in Nat,
         written \in Nat, p <= written,
         Good(ms, sb, bf, vw, written, p),
         \A c \in Clients : sub[c] = "stale" => sb[c] = "stale",
         Drained(pending, ms, sb, bf)
  PROVE  Good(marks', sub', buffered', vw, written, p)
<1>1. CASE pending <= LowWater
  <2>1. RetryStale(pending, ms, sb, bf)
    BY <1>1 DEF Drained
  <2> QED BY <2>1, RetryGood
<1>2. CASE ~(pending <= LowWater)
  BY <1>2 DEF Drained
<1> QED BY <1>1, <1>2

\* The next chunk goes to mirror and clients; clients too far behind are cut off.
LEMMA PushGood ==
  ASSUME written \in Nat, parsed \in Nat, backlog \in [Clients -> Nat],
         Good(marks, sub, buffered, view, written, parsed),
         Push
  PROVE  /\ written' = written + 1
         /\ Good(Voided(marks, TooMuch), sub', buffered', view', written', parsed)
         /\ \A c \in Clients : view[c] <= view'[c]
         /\ backlog' \in [Clients -> Nat]
<1> DEFINE sent == {c \in Clients : sub[c] = "live"} \ TooSlow
           kept == {c \in Clients : sub[c] = "buffering"} \ TooMuch
           bf2 == [c \in Clients |-> IF c \in TooMuch THEN 0 ELSE buffered[c]]
<1>0. /\ sub \in [Clients -> SubStates] /\ buffered \in [Clients -> Nat]
      /\ view \in [Clients -> Nat] /\ ViewsFollow(sub, view, written)
  BY DEF Good
<1>1. /\ written' = written + 1
      /\ sub' = [c \in Clients |-> IF c \in TooSlow \cup TooMuch THEN "stale" ELSE sub[c]]
      /\ buffered' = [c \in Clients |-> IF c \in TooMuch THEN 0
                                        ELSE IF c \in kept THEN buffered[c] + 1 ELSE buffered[c]]
      /\ backlog' = [c \in Clients |-> IF c \in sent THEN backlog[c] + 1 ELSE backlog[c]]
      /\ view' = [c \in Clients |-> IF c \in sent THEN Shown(view[c], written, written + 1)
                                    ELSE view[c]]
  BY DEF Push
<1>2. /\ \A c \in TooSlow : c \in Clients /\ sub[c] = "live"
      /\ \A c \in TooMuch : c \in Clients /\ sub[c] = "buffering"
  BY DEF TooSlow, TooMuch
<1>3. /\ sub' \in [Clients -> SubStates] /\ bf2 \in [Clients -> Nat]
      /\ buffered' \in [Clients -> Nat] /\ backlog' \in [Clients -> Nat]
  BY <1>0, <1>1 DEF SubStates
<1>4. Good(Voided(marks, TooMuch \cup TooSlow), sub', bf2, view, written, parsed)
  <2>1. \A c \in Clients \ (TooMuch \cup TooSlow) : sub'[c] = sub[c] /\ bf2[c] = buffered[c]
    BY <1>1
  <2>2. \A c \in Clients : sub'[c] = "live" => sub[c] = "live"
    BY <1>1
  <2> QED BY <2>1, <2>2, <1>3, Void
<1>5. Voided(marks, TooMuch \cup TooSlow) = Voided(marks, TooMuch)
  <2>1. \A i \in DOMAIN marks : marks[i].kind = "current" => marks[i].client \notin TooSlow
    <3>1. CurrentKeeps(marks, sub, buffered, written) /\ DOMAIN marks = 1 .. Len(marks)
      BY MarksTyped DEF Good
    <3> QED BY <3>1, <1>2 DEF CurrentKeeps
  <2> QED BY <2>1 DEF Voided
<1>6. \A c \in Clients : view'[c] = IF sub'[c] = "live" THEN written + 1 ELSE view[c]
  <2> SUFFICES ASSUME NEW c \in Clients
               PROVE  view'[c] = IF sub'[c] = "live" THEN written + 1 ELSE view[c]
    OBVIOUS
  <2>1. CASE c \in sent
    <3>1. sub[c] = "live" /\ view[c] = written /\ c \notin TooSlow /\ c \notin TooMuch
      BY <2>1, <1>0, <1>2 DEF ViewsFollow
    <3>2. view'[c] = written + 1
      BY <2>1, <3>1, <1>1 DEF Shown
    <3> QED BY <3>1, <3>2, <1>1
  <2>2. CASE c \notin sent
    <3>1. view'[c] = view[c] /\ sub'[c] # "live"
      BY <2>2, <1>1
    <3> QED BY <3>1
  <2> QED BY <2>1, <2>2
<1>7. view' \in [Clients -> Nat]
  <2>1. \A c \in Clients : view'[c] \in Nat
    BY <1>0, <1>6
  <2>2. view' = [c \in Clients |-> view'[c]]
    BY <1>1
  <2> QED BY <2>1, <2>2
<1>8. \A c \in Clients : sub'[c] = "buffering" => buffered'[c] = bf2[c] + 1
  BY <1>0, <1>1, <1>2
<1> HIDE DEF bf2
<1>9. Good(Voided(marks, TooMuch), sub', buffered', view', written + 1, parsed)
  BY <1>3, <1>4, <1>5, <1>6, <1>7, <1>8, Shift
<1>10. \A c \in Clients : view[c] <= view'[c]
  BY <1>0, <1>6 DEF ViewsFollow
<1> QED BY <1>1, <1>3, <1>9, <1>10

\* Flow control only switches.
LEMMA DrainedCounted ==
  ASSUME NEW pending, NEW ms, NEW sb, NEW bf, paused \in BOOLEAN, flowing \in BOOLEAN,
         Drained(pending, ms, sb, bf)
  PROVE  paused' \in BOOLEAN /\ flowing' \in BOOLEAN
BY DEF Drained

-----------------------------------------------------------------------------
(* The actions.                                                            *)

\* Actions that touch neither the queue nor the clients' state.
LEMMA UntouchedStep ==
  ASSUME IInv, UNCHANGED <<marks, sub, buffered, view, written, parsed>>, Counted'
  PROVE  IInv' /\ ViewsGrow
<1>1. view \in [Clients -> Nat]
  BY DEF IInv, Good
<1>2. ViewsGrow
  BY <1>1 DEF ViewsGrow
<1> QED BY <1>2 DEF IInv

LEMMA HostReadsStep ==
  ASSUME IInv, HostReads
  PROVE  IInv' /\ ViewsGrow
<1>1. /\ written' = written + 1
      /\ Good(Voided(marks, TooMuch), sub', buffered', view', written', parsed)
      /\ \A c \in Clients : view[c] <= view'[c]
      /\ backlog' \in [Clients -> Nat]
  BY PushGood DEF IInv, Counted, HostReads
<1>2. Good(marks', sub', buffered', view', written', parsed')
  BY <1>1 DEF HostReads
<1>3. paused' \in BOOLEAN /\ flowing' \in BOOLEAN
  BY DEF HostReads, IInv, Counted
<1>4. /\ inStream = TRUE /\ inStream' = FALSE
      /\ UNCHANGED <<produced, handle, parsed, hold, screen, calls>>
  BY DEF HostReads, IInv, Counted
<1>5. Counted'
  <2>1. /\ written' \in Nat /\ parsed' <= written'
        /\ written' + (IF inStream' THEN 1 ELSE 0) <= produced'
    BY <1>1, <1>4 DEF IInv, Counted
  <2> QED BY <2>1, <1>1, <1>3, <1>4 DEF IInv, Counted
<1> QED BY <1>1, <1>2, <1>5 DEF IInv, ViewsGrow

LEMMA MirrorParsesStep ==
  ASSUME IInv, MirrorParses
  PROVE  IInv' /\ ViewsGrow
<1>1. /\ parsed < written /\ parsed' = parsed + 1
      /\ Drained(Pending - 1, marks, sub, buffered)
      /\ UNCHANGED <<produced, inStream, handle, written, hold, screen, backlog, view, calls>>
      /\ marks # <<>> => Head(marks).at # parsed
  BY DEF MirrorParses, MarkDue
<1>2. /\ written \in Nat /\ parsed + 1 \in Nat /\ parsed + 1 <= written
      /\ parsed \in Nat /\ paused \in BOOLEAN /\ flowing \in BOOLEAN
  BY <1>1 DEF IInv, Counted
<1>3. Good(marks, sub, buffered, view, written, parsed + 1)
  BY <1>1, <1>2, Parse DEF IInv
<1>4. Good(marks', sub', buffered', view, written, parsed + 1)
  BY <1>1, <1>2, <1>3, DrainedGood
<1>5. Good(marks', sub', buffered', view', written', parsed')
  BY <1>1, <1>4
<1>6. Counted'
  <2>1. paused' \in BOOLEAN /\ flowing' \in BOOLEAN
    BY <1>1, <1>2, DrainedCounted
  <2> QED BY <2>1, <1>1, <1>2 DEF IInv, Counted
<1>7. ViewsGrow
  <2>1. view \in [Clients -> Nat]
    BY DEF IInv, Good
  <2> QED BY <1>1, <2>1 DEF ViewsGrow
<1> QED BY <1>5, <1>6, <1>7 DEF IInv

LEMMA MarkFiresStep ==
  ASSUME IInv, MarkFires
  PROVE  IInv' /\ ViewsGrow
<1> DEFINE k == Head(marks)
           c == k.client
<1>1. /\ marks # <<>> /\ k.at = parsed
      /\ k.kind # "flush"
      /\ UNCHANGED <<produced, inStream, handle, written, parsed, hold, screen, calls>>
  BY DEF MarkFires, MarkDue
<1>2. /\ written \in Nat /\ parsed \in Nat /\ parsed <= written
      /\ paused \in BOOLEAN /\ flowing \in BOOLEAN /\ backlog \in [Clients -> Nat]
      /\ Good(marks, sub, buffered, view, written, parsed)
      /\ marks \in Seq(Mark) /\ view \in [Clients -> Nat] /\ sub \in [Clients -> SubStates]
      /\ buffered \in [Clients -> Nat]
  BY DEF IInv, Counted, Good
<1>3. k.kind \in {"current", "replaced", "void"}
  <2>1. k \in Mark
    BY <1>1, <1>2, HeadTailProperties
  <2> QED BY <2>1, <1>1 DEF Mark
<1>4. CASE k.kind = "void"
  <2>1. /\ Drained(Pending, Tail(marks), sub, buffered)
        /\ view' = view /\ backlog' = backlog
    BY <1>4 DEF MarkFires, Acts
  <2>2. Good(Tail(marks), sub, buffered, view, written, parsed)
    BY <1>1, <1>2, Dequeue
  <2>3. Good(marks', sub', buffered', view, written, parsed)
    BY <2>1, <2>2, <1>2, DrainedGood
  <2>4. paused' \in BOOLEAN /\ flowing' \in BOOLEAN
    BY <2>1, <1>2, DrainedCounted
  <2>5. Counted'
    BY <2>1, <2>4, <1>1 DEF IInv, Counted
  <2>6. ViewsGrow
    BY <2>1, <1>2 DEF ViewsGrow
  <2> QED BY <2>1, <2>3, <2>5, <2>6, <1>1 DEF IInv
<1>5. CASE k.kind = "replaced"
  <2>1. /\ Drained(Pending, Tail(marks), sub, buffered)
        /\ view' = [view EXCEPT ![c] = Shown(parsed, k.from, k.upto)]
        /\ backlog' = [backlog EXCEPT ![c] = @ + 1 + (k.upto - k.from)]
    BY <1>5 DEF MarkFires, Acts
  <2>2. /\ c \in Clients /\ k.upto \in Nat /\ k.from = k.at
        /\ view[c] <= k.upto /\ k.upto <= written
        /\ Good(Tail(marks), sub, buffered, [view EXCEPT ![c] = k.upto], written, parsed)
    BY <1>1, <1>2, <1>5, FireReplaced
  <2>3. Shown(parsed, k.from, k.upto) = k.upto
    BY <2>2, <1>1 DEF Shown
  <2>4. Good(marks', sub', buffered', [view EXCEPT ![c] = k.upto], written, parsed)
    BY <2>1, <2>2, <1>2, DrainedGood
  <2>5. view' = [view EXCEPT ![c] = k.upto]
    BY <2>1, <2>3
  <2>6. paused' \in BOOLEAN /\ flowing' \in BOOLEAN
    BY <2>1, <1>2, DrainedCounted
  <2>7. k.from <= k.upto /\ k.from \in Nat
    <3>1. ReplacedKeeps(marks, sub, view, written) /\ k = marks[1] /\ 1 \in 1 .. Len(marks)
      BY <1>1, <1>2, Dequeue DEF Good
    <3> QED BY <3>1, <1>5, <1>1, <1>2, <2>2 DEF ReplacedKeeps
  <2>8. backlog' \in [Clients -> Nat]
    <3>0. backlog[c] \in Nat
      BY <2>2, <1>2
    <3>1. backlog[c] + 1 + (k.upto - k.from) \in Nat
      BY <3>0, <2>2, <2>7
    <3> QED BY <3>1, <2>1, <1>2
  <2>9. Counted'
    BY <2>6, <2>8, <1>1 DEF IInv, Counted
  <2>10. ViewsGrow
    BY <2>2, <2>5, <1>2 DEF ViewsGrow
  <2> QED BY <2>4, <2>5, <2>9, <2>10, <1>1 DEF IInv
<1>6. CASE k.kind = "current"
  <2> DEFINE sb == [sub EXCEPT ![c] = "live"]
             bf == [buffered EXCEPT ![c] = 0]
             vw == [view EXCEPT ![c] = written]
  <2>1. /\ Drained(Pending, Tail(marks), sb, bf)
        /\ view' = [view EXCEPT ![c] = Shown(parsed, written - buffered[c], written)]
        /\ backlog' = [backlog EXCEPT ![c] = @ + 1 + (written - (written - buffered[c]))]
    BY <1>6 DEF MarkFires, Acts
  <2>2. /\ c \in Clients /\ sub[c] = "buffering"
        /\ buffered[c] = written - k.at /\ view[c] <= written
        /\ Good(Tail(marks), sb, bf, vw, written, parsed)
    <3>1. Head(marks).kind = "current"
      BY <1>6
    <3>2. /\ Head(marks).client \in Clients /\ sub[Head(marks).client] = "buffering"
          /\ buffered[Head(marks).client] = written - Head(marks).at
          /\ view[Head(marks).client] <= written
      <4>1. Head(marks) = marks[1] /\ 1 \in 1 .. Len(marks)
        BY <1>1, <1>2, Dequeue
      <4>2. CurrentKeeps(marks, sub, buffered, written) /\ ViewsFollow(sub, view, written)
        BY <1>2 DEF Good
      <4> QED BY <4>1, <4>2, <3>1 DEF CurrentKeeps, ViewsFollow
    <3>3. Good(Tail(marks), sb, bf, vw, written, parsed)
      BY <3>1, <1>1, <1>2, FireCurrent
    <3> QED BY <3>2, <3>3
  <2>3. written - buffered[c] = parsed
    BY <2>2, <1>1, <1>2
  <2>4. view' = vw
    BY <2>1, <2>3 DEF Shown
  <2>5. \A d \in Clients : sub[d] = "stale" => sb[d] = "stale"
    BY <2>2, <1>2
  <2>6. Good(marks', sub', buffered', vw, written, parsed)
    <3> HIDE DEF sb, bf, vw
    <3> QED BY <2>1, <2>2, <2>5, <1>2, DrainedGood
  <2>7. paused' \in BOOLEAN /\ flowing' \in BOOLEAN
    BY <2>1, <1>2, DrainedCounted
  <2>8. backlog' \in [Clients -> Nat]
    <3>1. backlog[c] + 1 + (written - (written - buffered[c])) \in Nat
      <4>1. backlog[c] \in Nat /\ buffered[c] \in Nat /\ written \in Nat
        BY <2>2, <1>2
      <4> QED BY <4>1
    <3> QED BY <3>1, <2>1, <1>2
  <2>9. Counted'
    BY <2>7, <2>8, <1>1 DEF IInv, Counted
  <2>10. ViewsGrow
    BY <2>2, <2>4, <1>2 DEF ViewsGrow
  <2> QED BY <2>4, <2>6, <2>9, <2>10, <1>1 DEF IInv
<1> QED BY <1>3, <1>4, <1>5, <1>6

LEMMA CallSubscribeStep ==
  ASSUME IInv, NEW c \in Clients, CallSubscribe(c)
  PROVE  IInv' /\ ViewsGrow
<1> DEFINE rs == Superseded(marks, c, written - buffered[c], written)
           m == NewMark(c, "current")
<1>1. /\ marks' = Append(rs, m)
      /\ sub' = [sub EXCEPT ![c] = "buffering"] /\ buffered' = [buffered EXCEPT ![c] = 0]
      /\ calls' = calls + 1
      /\ UNCHANGED <<produced, inStream, handle, flowing, written, parsed, paused, hold, screen, backlog, view>>
  BY DEF CallSubscribe, Superseded, reader, flow
<1>2. /\ written \in Nat /\ parsed \in Nat /\ parsed <= written
      /\ sub \in [Clients -> SubStates] /\ buffered \in [Clients -> Nat] /\ view \in [Clients -> Nat]
      /\ Good(marks, sub, buffered, view, written, parsed)
  BY DEF IInv, Counted, Good
<1>3. /\ Good(rs, sub', buffered', view, written, parsed)
      /\ \A i \in 1 .. Len(rs) : rs[i].kind = "current" => rs[i].client # c
  BY <1>1, <1>2, Supersede
<1>4. m \in Mark /\ m.at = written /\ m.kind = "current" /\ m.client = c
  BY <1>2 DEF NewMark, Mark
<1> HIDE DEF rs, m
<1>5. rs \in Seq(Mark)
  BY <1>3 DEF Good
<1>6. <<m>> \in Seq(Mark) /\ Len(<<m>>) = 1 /\ <<m>>[1] = m
  BY <1>4
<1>7. sub'[c] = "buffering" /\ buffered'[c] = 0
  BY <1>1, <1>2
<1>8. Good(rs \o <<m>>, sub', buffered', view, written, parsed)
  <2>1. \A i \in 1 .. Len(<<m>>) :
          /\ <<m>>[i].at = written
          /\ <<m>>[i].kind = "current" /\ <<m>>[i].client \in Clients
          /\ sub'[<<m>>[i].client] = "buffering" /\ buffered'[<<m>>[i].client] = 0
    BY <1>4, <1>6, <1>7
  <2>2. \A i, j \in 1 .. Len(<<m>>) : i = j
    BY <1>6
  <2>3. \A i \in 1 .. Len(rs), j \in 1 .. Len(<<m>>) :
          rs[i].kind = "current" => rs[i].client # <<m>>[j].client
    BY <1>3, <1>4, <1>6
  <2> QED BY <2>1, <2>2, <2>3, <1>2, <1>3, <1>6, Extend, ZenonT(60)
<1>9. marks' = rs \o <<m>>
  BY <1>1, <1>4, <1>5, AppendIsConcat
<1>10. Counted'
  BY <1>1 DEF IInv, Counted
<1>11. ViewsGrow
  BY <1>1, <1>2 DEF ViewsGrow
<1> QED BY <1>1, <1>8, <1>9, <1>10, <1>11 DEF IInv

LEMMA CallUnsubscribeStep ==
  ASSUME IInv, NEW c \in Clients, CallUnsubscribe(c)
  PROVE  IInv' /\ ViewsGrow
<1>1. /\ marks' = Voided(marks, {c})
      /\ sub' = [sub EXCEPT ![c] = "none"] /\ buffered' = [buffered EXCEPT ![c] = 0]
      /\ UNCHANGED <<produced, inStream, handle, flowing, written, parsed, paused, hold, screen, backlog, view, calls>>
  BY DEF CallUnsubscribe, reader, flow
<1>2. /\ written \in Nat /\ parsed \in Nat
      /\ sub \in [Clients -> SubStates] /\ buffered \in [Clients -> Nat] /\ view \in [Clients -> Nat]
      /\ Good(marks, sub, buffered, view, written, parsed)
  BY DEF IInv, Counted, Good
<1>3. /\ sub' \in [Clients -> SubStates] /\ buffered' \in [Clients -> Nat]
      /\ \A d \in Clients \ {c} : sub'[d] = sub[d] /\ buffered'[d] = buffered[d]
      /\ \A d \in Clients : sub'[d] = "live" => sub[d] = "live"
  BY <1>1, <1>2 DEF SubStates
<1>4. Good(Voided(marks, {c}), sub', buffered', view, written, parsed)
  BY <1>2, <1>3, Void
<1>5. Counted'
  BY <1>1 DEF IInv, Counted
<1>6. ViewsGrow
  BY <1>1, <1>2 DEF ViewsGrow
<1> QED BY <1>1, <1>4, <1>5, <1>6 DEF IInv

LEMMA DrainPollStep ==
  ASSUME IInv, NEW c \in Clients, DrainPoll(c)
  PROVE  IInv' /\ ViewsGrow
<1>1. /\ RetryStale(Pending, marks, sub, buffered)
      /\ UNCHANGED <<produced, inStream, handle, flowing, written, parsed, paused, hold, screen, backlog, view, calls>>
  BY DEF DrainPoll, reader, flow
<1>2. /\ written \in Nat /\ parsed \in Nat /\ parsed <= written /\ view \in [Clients -> Nat]
      /\ Good(marks, sub, buffered, view, written, parsed)
  BY DEF IInv, Counted, Good
<1>3. Good(marks', sub', buffered', view, written, parsed)
  BY <1>1, <1>2, RetryGood
<1>4. Counted'
  BY <1>1 DEF IInv, Counted
<1>5. ViewsGrow
  BY <1>1, <1>2 DEF ViewsGrow
<1> QED BY <1>1, <1>3, <1>4, <1>5 DEF IInv

\* A flush joins the queue.
LEMMA FlushGood ==
  ASSUME NEW ms, NEW sb, NEW bf, NEW vw, NEW w \in Nat, NEW p \in Nat, NEW m \in Mark,
         p <= w, Good(ms, sb, bf, vw, w, p), m.kind = "flush", m.at = w
  PROVE  Good(Append(ms, m), sb, bf, vw, w, p)
<1>1. ms \in Seq(Mark)
  BY DEF Good
<1>2. <<m>> \in Seq(Mark) /\ Len(<<m>>) = 1 /\ <<m>>[1] = m
  OBVIOUS
<1>3. \A i \in 1 .. Len(<<m>>) : <<m>>[i].at = w /\ <<m>>[i].kind = "flush"
  BY <1>2
<1>4. Good(ms \o <<m>>, sb, bf, vw, w, p)
  BY <1>2, <1>3, Extend
<1> QED BY <1>1, <1>4, AppendIsConcat

LEMMA CallHoldStep ==
  ASSUME IInv, CallHold
  PROVE  IInv' /\ ViewsGrow
<1>1. /\ hold' = "flushing" /\ inStream' = FALSE /\ flowing' = FALSE /\ handle' = FALSE
      /\ UNCHANGED <<produced, parsed, screen, calls>>
  BY DEF CallHold
<1>2. /\ written \in Nat /\ parsed \in Nat /\ parsed <= written /\ backlog \in [Clients -> Nat]
      /\ Good(marks, sub, buffered, view, written, parsed) /\ view \in [Clients -> Nat]
      /\ paused \in BOOLEAN
  BY DEF IInv, Counted, Good
<1>3. CASE inStream
  <2> DEFINE m == [NewMark(Broken, "flush") EXCEPT !.at = written + 1]
  <2>1. /\ Push
        /\ marks' = Append(Voided(marks, TooMuch), m)
        /\ paused' \in BOOLEAN
    BY <1>2, <1>3 DEF CallHold
  <2>2. /\ written' = written + 1
        /\ Good(Voided(marks, TooMuch), sub', buffered', view', written', parsed)
        /\ \A c \in Clients : view[c] <= view'[c]
        /\ backlog' \in [Clients -> Nat]
    BY <2>1, <1>2, PushGood
  <2>3. m \in Mark /\ m.kind = "flush" /\ m.at = written'
    BY <2>2, <1>2 DEF NewMark, Mark
  <2>4. written' \in Nat /\ parsed <= written'
    BY <2>2, <1>2
  <2> HIDE DEF m
  <2>5. Good(marks', sub', buffered', view', written', parsed)
    BY <2>1, <2>2, <2>3, <2>4, <1>2, FlushGood
  <2>6. Counted'
    <3>1. /\ written' \in Nat /\ parsed' <= written'
          /\ written' + (IF inStream' THEN 1 ELSE 0) <= produced'
      BY <2>2, <1>1, <1>3 DEF IInv, Counted
    <3> QED BY <3>1, <2>1, <2>2, <1>1 DEF IInv, Counted
  <2> QED BY <2>2, <2>5, <2>6, <1>1 DEF IInv, ViewsGrow
<1>4. CASE ~inStream
  <2>1. /\ marks' = Append(marks, NewMark(Broken, "flush"))
        /\ UNCHANGED <<written, paused, sub, buffered, backlog, view>>
    BY <1>4 DEF CallHold, fanout
  <2>2. /\ NewMark(Broken, "flush") \in Mark /\ NewMark(Broken, "flush").kind = "flush"
        /\ NewMark(Broken, "flush").at = written
    BY <1>2 DEF NewMark, Mark
  <2>3. Good(marks', sub, buffered, view, written, parsed)
    BY <2>1, <2>2, <1>2, FlushGood
  <2>4. Counted'
    BY <2>1, <1>1, <1>4 DEF IInv, Counted
  <2>5. ViewsGrow
    BY <2>1, <1>2 DEF ViewsGrow
  <2> QED BY <2>1, <2>3, <2>4, <2>5, <1>1 DEF IInv
<1> QED BY <1>3, <1>4

LEMMA ScreenTakenStep ==
  ASSUME IInv, ScreenTaken
  PROVE  IInv' /\ ViewsGrow
<1>1. /\ marks # <<>> /\ marks' = Tail(marks) /\ hold' = "taken" /\ screen' = parsed
      /\ UNCHANGED <<produced, inStream, handle, flowing, written, parsed, paused, sub, buffered, backlog, view, calls>>
  BY DEF ScreenTaken, MarkDue, reader, fanout
<1>2. /\ written \in Nat /\ parsed \in Nat /\ view \in [Clients -> Nat]
      /\ Good(marks, sub, buffered, view, written, parsed)
  BY DEF IInv, Counted, Good
<1>3. Good(Tail(marks), sub, buffered, view, written, parsed)
  BY <1>1, <1>2, Dequeue
<1>4. Counted'
  BY <1>1, <1>2 DEF IInv, Counted
<1>5. ViewsGrow
  BY <1>1, <1>2 DEF ViewsGrow
<1> QED BY <1>1, <1>3, <1>4, <1>5 DEF IInv

\* Each step keeps the invariant, and no client's view goes back.
LEMMA StepKeeps ==
  ASSUME IInv, [Next]_vars
  PROVE  IInv' /\ ViewsGrow
<1>1. CASE ProgramWrites
  <2>1. Counted' /\ UNCHANGED <<marks, sub, buffered, view, written, parsed>>
    BY <1>1 DEF ProgramWrites, IInv, Counted, flow, fanout
  <2> QED BY <2>1, UntouchedStep
<1>2. CASE HandleReads
  <2>1. Counted' /\ UNCHANGED <<marks, sub, buffered, view, written, parsed>>
    BY <1>2 DEF HandleReads, IInv, Counted, flow, fanout
  <2> QED BY <2>1, UntouchedStep
<1>3. CASE HostReads
  BY <1>3, HostReadsStep
<1>4. CASE MirrorParses
  BY <1>4, MirrorParsesStep
<1>5. CASE MarkFires
  BY <1>5, MarkFiresStep
<1>6. ASSUME NEW c \in Clients, CallSubscribe(c) PROVE IInv' /\ ViewsGrow
  BY <1>6, CallSubscribeStep
<1>7. ASSUME NEW c \in Clients, CallUnsubscribe(c) PROVE IInv' /\ ViewsGrow
  BY <1>7, CallUnsubscribeStep
<1>8. ASSUME NEW c \in Clients, SocketSends(c) PROVE IInv' /\ ViewsGrow
  <2>1. Counted' /\ UNCHANGED <<marks, sub, buffered, view, written, parsed>>
    BY <1>8 DEF SocketSends, IInv, Counted, reader, flow
  <2> QED BY <2>1, UntouchedStep
<1>9. ASSUME NEW c \in Clients, DrainPoll(c) PROVE IInv' /\ ViewsGrow
  BY <1>9, DrainPollStep
<1>10. CASE CallHold
  BY <1>10, CallHoldStep
<1>11. CASE ScreenTaken
  BY <1>11, ScreenTakenStep
<1>12. CASE CallRelease
  <2>1. Counted' /\ UNCHANGED <<marks, sub, buffered, view, written, parsed>>
    BY <1>12 DEF CallRelease, IInv, Counted, fanout
  <2> QED BY <2>1, UntouchedStep
<1>13. CASE UNCHANGED vars
  <2>1. Counted' /\ UNCHANGED <<marks, sub, buffered, view, written, parsed>>
    BY <1>13 DEF vars, IInv, Counted, reader, flow, fanout
  <2> QED BY <2>1, UntouchedStep
<1> QED BY <1>1, <1>2, <1>3, <1>4, <1>5, <1>6, <1>7, <1>8, <1>9, <1>10, <1>11, <1>12, <1>13 DEF Next

\* What is written stays written.
LEMMA WrittenGrows ==
  ASSUME IInv, [Next]_vars
  PROVE  written' >= written
<1>1. written \in Nat
  BY DEF IInv, Counted
<1>2. written' = written \/ written' = written + 1
  BY DEF Next, vars, reader, flow, fanout, ProgramWrites, HandleReads, HostReads, Push, MirrorParses,
         MarkFires, CallSubscribe, CallUnsubscribe, SocketSends, DrainPoll, CallHold, ScreenTaken,
         CallRelease
<1> QED BY <1>1, <1>2

LEMMA InitKeeps ==
  ASSUME Init
  PROVE  IInv
<1>1. marks = <<>> /\ marks \in Seq(Mark) /\ Len(marks) = 0 /\ 1 .. Len(marks) = {}
  BY EmptySeq DEF Init
<1>2. Ordered(marks, written, parsed) /\ CurrentKeeps(marks, sub, buffered, written)
      /\ ReplacedKeeps(marks, sub, view, written)
  BY <1>1 DEF Ordered, CurrentKeeps, ReplacedKeeps
<1>3. ViewsFollow(sub, view, written)
  BY DEF Init, ViewsFollow
<1>4. Counted
  <2>1. backlog \in [Clients -> Nat]
    BY DEF Init
  <2>2. written + (IF inStream THEN 1 ELSE 0) <= produced /\ parsed <= written
    BY DEF Init
  <2> QED BY <2>1, <2>2 DEF Init, Counted
<1>5. /\ sub \in [Clients -> SubStates] /\ buffered \in [Clients -> Nat] /\ view \in [Clients -> Nat]
  BY DEF Init, SubStates
<1> QED BY <1>1, <1>2, <1>3, <1>4, <1>5 DEF IInv, Good

-----------------------------------------------------------------------------
(* The theorems.                                                           *)

\* The queue of marks, the clients' states, what is kept for them and what they
\* see always fit together.
THEOREM Invariance == Spec => []IInv
<1>1. Init => IInv
  BY InitKeeps
<1>2. IInv /\ [Next]_vars => IInv'
  BY StepKeeps
<1> QED BY <1>1, <1>2, PTL DEF Spec

\* Every variable of the output path has its type; the mirror never parses what
\* was not written to it, nor is written what the program did not put out.
THEOREM TypeCorrect == Spec => []TypeOK
<1>1. IInv => TypeOK
  BY DEF IInv, Counted, Good, TypeOK, SubStates
<1> QED BY <1>1, Invariance, PTL

\* However output is buffered, dropped, snapshot again or subscribed to twice, the
\* terminal of a client shows the output without a gap or a repetition and never
\* goes back (OutputFanout.startBuffering, push, retryStale).
THEOREM Refinement == Spec => ImplementsView
<1>1. Init => View!Init
  BY DEF Init, View!Init
<1>2. IInv /\ IInv' /\ [Next]_vars => [View!Next]_<<written, view>>
  <2> SUFFICES ASSUME IInv, IInv', [Next]_vars
               PROVE  View!Next
    OBVIOUS
  <2>1. \A c \in Clients : view[c] <= view'[c]
    BY StepKeeps DEF ViewsGrow
  <2>2. /\ written' \in Nat /\ view' \in [Clients -> Nat]
        /\ \A c \in Clients : view'[c] <= written'
    BY DEF IInv, Counted, Good, ViewsFollow
  <2>3. written' >= written
    BY WrittenGrows
  <2> QED BY <2>1, <2>2, <2>3 DEF View!Next
<1> QED BY <1>1, <1>2, Invariance, PTL DEF Spec, ImplementsView, View!Spec

-----------------------------------------------------------------------------
(* The handoff and the flow control.                                       *)

\* A flush is in the queue only while a handoff waits for it, as the only one, and
\* after all that was written.
FlushLast(ms, h, w) ==
  /\ \A i \in 1 .. Len(ms) : ms[i].kind = "flush" => h = "flushing" /\ ms[i].at = w
  /\ \A i, j \in 1 .. Len(ms) : ms[i].kind = "flush" /\ ms[j].kind = "flush" => i = j

HandoffInv ==
  /\ ReadsUnlessTold
  /\ PauseEnds
  /\ HandoffLosesNothing
  /\ Held => ~inStream
  /\ FlushLast(marks, hold, written)

\* A queue whose flushes are those of another, at the same places.
LEMMA SameFlushes ==
  ASSUME NEW ms, NEW rs, NEW h, NEW w, FlushLast(ms, h, w), Len(rs) = Len(ms),
         \A i \in 1 .. Len(ms) : rs[i].kind = "flush" => ms[i].kind = "flush" /\ rs[i].at = ms[i].at
  PROVE  FlushLast(rs, h, w)
<1>1. ASSUME NEW i \in 1 .. Len(rs), rs[i].kind = "flush"
      PROVE  ms[i].kind = "flush" /\ h = "flushing" /\ rs[i].at = w /\ i \in 1 .. Len(ms)
  BY <1>1 DEF FlushLast
<1>2. ASSUME NEW i \in 1 .. Len(rs), NEW j \in 1 .. Len(rs), rs[i].kind = "flush", rs[j].kind = "flush"
      PROVE  i = j
  BY <1>1, <1>2 DEF FlushLast
<1> QED BY <1>1, <1>2 DEF FlushLast

LEMMA VoidFlush ==
  ASSUME NEW ms \in Seq(Mark), NEW h, NEW w, NEW cs, FlushLast(ms, h, w)
  PROVE  FlushLast(Voided(ms, cs), h, w)
<1>1. Len(Voided(ms, cs)) = Len(ms)
  BY VoidedProperties
<1>2. \A i \in 1 .. Len(ms) :
        Voided(ms, cs)[i].kind = "flush" => ms[i].kind = "flush" /\ Voided(ms, cs)[i].at = ms[i].at
  BY VoidedProperties
<1> QED BY <1>1, <1>2, SameFlushes

\* A subscribe that replaces an attempt leaves the flushes.
LEMMA SupersededFlushes ==
  ASSUME NEW ms \in Seq(Mark), NEW c, NEW from, NEW upto, NEW rs \in Seq(Mark),
         rs = Superseded(ms, c, from, upto)
  PROVE  /\ Len(rs) = Len(ms)
         /\ \A i \in 1 .. Len(ms) :
              rs[i].kind = "flush" => ms[i].kind = "flush" /\ rs[i].at = ms[i].at
<1>1. /\ Len(ms) \in Nat /\ DOMAIN ms = 1 .. Len(ms) /\ \A i \in 1 .. Len(ms) : ms[i] \in Mark
      /\ Len(rs) \in Nat /\ DOMAIN rs = 1 .. Len(rs)
  BY MarksTyped
<1>2. /\ DOMAIN rs = DOMAIN ms
      /\ \A i \in 1 .. Len(ms) :
           rs[i] = IF ms[i].kind = "current" /\ ms[i].client = c
                     THEN [ms[i] EXCEPT !.kind = "replaced", !.from = from, !.upto = upto] ELSE ms[i]
  BY <1>1 DEF Superseded
<1>3. Len(rs) = Len(ms)
  <2>1. 1 .. Len(rs) = 1 .. Len(ms)
    BY <1>1, <1>2
  <2>2. ~(Len(rs) < Len(ms))
    <3>1. Len(rs) < Len(ms) => Len(ms) \in 1 .. Len(ms) /\ Len(ms) \notin 1 .. Len(rs)
      BY <1>1
    <3> QED BY <3>1, <2>1
  <2>3. ~(Len(ms) < Len(rs))
    <3>1. Len(ms) < Len(rs) => Len(rs) \in 1 .. Len(rs) /\ Len(rs) \notin 1 .. Len(ms)
      BY <1>1
    <3> QED BY <3>1, <2>1
  <2>4. \A m, n \in Nat : ~(m < n) /\ ~(n < m) => m = n
    OBVIOUS
  <2>5. Len(rs) \in Nat /\ Len(ms) \in Nat
    BY <1>1
  <2> QED BY <2>2, <2>3, <2>4, <2>5
<1>4. ASSUME NEW i \in 1 .. Len(ms), rs[i].kind = "flush"
      PROVE  rs[i] = ms[i]
  <2>1. CASE ms[i].kind = "current" /\ ms[i].client = c
    <3>1. rs[i] = [ms[i] EXCEPT !.kind = "replaced", !.from = from, !.upto = upto]
      BY <2>1, <1>2
    <3>2. rs[i].kind = "replaced"
      BY <3>1, <1>1 DEF Mark
    <3> QED BY <3>2, <1>4
  <2>2. CASE ~(ms[i].kind = "current" /\ ms[i].client = c)
    BY <2>2, <1>2
  <2> QED BY <2>1, <2>2
<1>5. \A i \in 1 .. Len(ms) :
        rs[i].kind = "flush" => ms[i].kind = "flush" /\ rs[i].at = ms[i].at
  <2> SUFFICES ASSUME NEW i \in 1 .. Len(ms), rs[i].kind = "flush"
               PROVE  ms[i].kind = "flush" /\ rs[i].at = ms[i].at
    OBVIOUS
  <2>1. rs[i] = ms[i]
    BY <1>4
  <2> QED BY <2>1
<1> QED BY <1>3, <1>5

\* Attempts put behind a queue leave its flushes as they were.
LEMMA ExtendFlush ==
  ASSUME NEW ms \in Seq(Mark), NEW ns \in Seq(Mark), NEW h, NEW w, FlushLast(ms, h, w),
         \A i \in 1 .. Len(ns) : ns[i].kind # "flush"
  PROVE  FlushLast(ms \o ns, h, w)
<1> DEFINE all == ms \o ns
<1>1. Len(ms) \in Nat /\ Len(ns) \in Nat
  BY MarksTyped
<1>2. /\ Len(all) = Len(ms) + Len(ns)
      /\ \A i \in 1 .. Len(ms) + Len(ns) : all[i] = IF i <= Len(ms) THEN ms[i] ELSE ns[i - Len(ms)]
  BY ConcatProperties
<1> HIDE DEF all
<1>3. ASSUME NEW i \in 1 .. Len(all), all[i].kind = "flush"
      PROVE  i \in 1 .. Len(ms) /\ all[i] = ms[i]
  <2>1. CASE i <= Len(ms)
    BY <2>1, <1>1, <1>2
  <2>2. CASE i > Len(ms)
    <3>1. i - Len(ms) \in 1 .. Len(ns) /\ all[i] = ns[i - Len(ms)]
      BY <2>2, <1>1, <1>2
    <3> QED BY <3>1, <1>3
  <2> QED BY <2>1, <2>2, <1>1, <1>2
<1>4. ASSUME NEW i \in 1 .. Len(all), NEW j \in 1 .. Len(all), all[i].kind = "flush", all[j].kind = "flush"
      PROVE  i = j
  BY <1>3, <1>4 DEF FlushLast
<1>5. \A i \in 1 .. Len(all) : all[i].kind = "flush" => h = "flushing" /\ all[i].at = w
  BY <1>3 DEF FlushLast
<1>6. FlushLast(all, h, w)
  BY <1>4, <1>5 DEF FlushLast
<1> QED BY <1>6 DEF all

\* A flush put behind a queue without one.
LEMMA AppendFlush ==
  ASSUME NEW ms \in Seq(Mark), NEW h, NEW w, NEW w2, NEW m \in Mark, FlushLast(ms, h, w), h # "flushing",
         m.at = w2
  PROVE  FlushLast(Append(ms, m), "flushing", w2)
<1> DEFINE all == Append(ms, m)
<1>1. Len(ms) \in Nat
  BY MarksTyped
<1>2. /\ Len(all) = Len(ms) + 1
      /\ \A i \in 1 .. Len(ms) : all[i] = ms[i]
      /\ all[Len(ms) + 1] = m
  BY AppendProperties
<1> HIDE DEF all
<1>3. ASSUME NEW i \in 1 .. Len(all), all[i].kind = "flush"
      PROVE  i = Len(ms) + 1 /\ all[i] = m
  <2>1. i \notin 1 .. Len(ms)
    BY <1>2, <1>3 DEF FlushLast
  <2> QED BY <2>1, <1>1, <1>2
<1>4. FlushLast(all, "flushing", w2)
  BY <1>3 DEF FlushLast
<1> QED BY <1>4 DEF all

LEMMA TailFlush ==
  ASSUME NEW ms \in Seq(Mark), NEW h, NEW w, FlushLast(ms, h, w), ms # <<>>
  PROVE  /\ FlushLast(Tail(ms), h, w)
         /\ Head(ms).kind = "flush" =>
              /\ h = "flushing" /\ Head(ms).at = w
              /\ \A g, v : FlushLast(Tail(ms), g, v)
<1> DEFINE ts == Tail(ms)
<1>1. Len(ms) \in Nat /\ 1 \in 1 .. Len(ms) /\ Head(ms) = ms[1]
  BY EmptySeq
<1>2. Len(ts) = Len(ms) - 1 /\ \A i \in 1 .. Len(ts) : ts[i] = ms[i + 1]
  BY HeadTailProperties
<1> HIDE DEF ts
<1>3. ASSUME NEW i \in 1 .. Len(ts)
      PROVE  i \in Int /\ i + 1 \in 1 .. Len(ms) /\ i + 1 # 1 /\ ts[i] = ms[i + 1]
  BY <1>1, <1>2
<1>4. ASSUME NEW i \in 1 .. Len(ts), NEW j \in 1 .. Len(ts), ts[i].kind = "flush", ts[j].kind = "flush"
      PROVE  i = j
  <2>1. i + 1 = j + 1
    BY <1>3, <1>4 DEF FlushLast
  <2> QED BY <2>1, <1>3
<1>5. \A i \in 1 .. Len(ts) : ts[i].kind = "flush" => h = "flushing" /\ ts[i].at = w
  BY <1>3 DEF FlushLast
<1>6. FlushLast(ts, h, w)
  BY <1>4, <1>5 DEF FlushLast
<1>7. ASSUME Head(ms).kind = "flush"
      PROVE  /\ h = "flushing" /\ Head(ms).at = w
             /\ \A i \in 1 .. Len(ts) : ts[i].kind # "flush"
  BY <1>1, <1>3, <1>7 DEF FlushLast
<1>8. Head(ms).kind = "flush" => \A g, v : FlushLast(ts, g, v)
  BY <1>7 DEF FlushLast
<1> QED BY <1>6, <1>7, <1>8 DEF ts

\* retryStale puts attempts behind the queue only.
LEMMA RetryFlush ==
  ASSUME NEW pending, NEW ms \in Seq(Mark), NEW sb, NEW bf, NEW h, NEW w, written \in Nat,
         RetryStale(pending, ms, sb, bf), FlushLast(ms, h, w)
  PROVE  FlushLast(marks', h, w)
<1> DEFINE cs == Retried(pending)
<1>1. cs \subseteq Clients
  BY DEF Retried
<1>2. PICK order \in Orders(cs) : marks' = ms \o [i \in DOMAIN order |-> NewMark(order[i], "current")]
  BY DEF RetryStale
<1> HIDE DEF cs
<1>3. PICK n \in Nat : order \in [1 .. n -> cs]
  BY <1>2, OrdersProperties
<1> DEFINE ns == [i \in DOMAIN order |-> NewMark(order[i], "current")]
<1>4. \A c \in cs : NewMark(c, "current") \in Mark /\ NewMark(c, "current").kind # "flush"
  BY <1>1 DEF NewMark, Mark
<1>5. ns \in Seq(Mark) /\ \A i \in 1 .. Len(ns) : ns[i].kind # "flush"
  <2>1. DOMAIN order = 1 .. n /\ \A i \in 1 .. n : order[i] \in cs
    BY <1>3
  <2> QED BY <2>1, <1>4
<1> HIDE DEF ns
<1>6. FlushLast(ms \o ns, h, w)
  BY <1>5, ExtendFlush
<1> QED BY <1>2, <1>6 DEF ns

\* The listeners of onDrained: the flushes stay, and reading goes on when it may.
LEMMA DrainedHandoff ==
  ASSUME NEW pending \in Int, NEW ms \in Seq(Mark), NEW sb, NEW bf, written \in Nat,
         Drained(pending, ms, sb, bf), FlushLast(ms, hold, written),
         flowing <=> ~paused /\ ~Held
  PROVE  /\ FlushLast(marks', hold, written)
         /\ flowing' <=> ~paused' /\ ~Held
         /\ paused' => paused /\ pending > LowWater
<1>1. CASE pending <= LowWater
  <2>1. /\ RetryStale(pending, ms, sb, bf)
        /\ paused' = FALSE /\ flowing' = (flowing \/ (paused /\ ~Held))
    BY <1>1 DEF Drained
  <2>2. FlushLast(marks', hold, written)
    BY <2>1, RetryFlush
  <2> QED BY <2>1, <2>2
<1>2. CASE ~(pending <= LowWater)
  <2>1. marks' = ms /\ paused' = paused /\ flowing' = flowing
    BY <1>2 DEF Drained
  <2>2. pending > LowWater
    BY <1>2, ThresholdsAssumption
  <2> QED BY <2>1, <2>2
<1> QED BY <1>1, <1>2

LEMMA HandoffStep ==
  ASSUME IInv, HandoffInv, [Next]_vars
  PROVE  HandoffInv'
<1>1. /\ written \in Nat /\ parsed \in Nat /\ marks \in Seq(Mark)
      /\ flowing \in BOOLEAN /\ handle \in BOOLEAN /\ paused \in BOOLEAN /\ inStream \in BOOLEAN
      /\ hold \in {"no", "flushing", "taken"} /\ Pending \in Int
      /\ PauseAt \in Nat /\ LowWater \in Nat /\ LowWater <= PauseAt
  BY ThresholdsAssumption DEF IInv, Counted, Good, Pending
<1>2. /\ flowing <=> ~paused /\ ~Held
      /\ handle <=> ~Held
      /\ paused => Pending > LowWater
      /\ hold = "taken" => screen = written
      /\ Held => ~inStream
      /\ FlushLast(marks, hold, written)
  BY DEF HandoffInv, ReadsUnlessTold, PauseEnds, HandoffLosesNothing
<1> USE DEF HandoffInv, ReadsUnlessTold, PauseEnds, HandoffLosesNothing, Held
<1>3. CASE UNCHANGED <<inStream, handle, flowing, written, parsed, marks, paused, hold, screen>>
  BY <1>3 DEF Pending
<1>4. CASE HandleReads
  BY <1>2, <1>4 DEF HandleReads, flow, Pending
<1>5. CASE HostReads
  <2>1. /\ flowing /\ inStream' = FALSE /\ written' = written + 1
        /\ marks' = Voided(marks, TooMuch)
        /\ paused' = (paused \/ Pending + 1 > PauseAt)
        /\ flowing' = (flowing /\ (paused \/ ~(Pending + 1 > PauseAt)))
        /\ UNCHANGED <<handle, parsed, hold, screen>>
    BY <1>5 DEF HostReads, Push
  <2>2. hold = "no"
    BY <2>1, <1>1, <1>2
  <2>3. FlushLast(marks', hold', written')
    <3>1. FlushLast(marks, hold, written')
      BY <1>2, <2>2 DEF FlushLast
    <3> QED BY <3>1, <2>1, <1>1, VoidFlush
  <2>4. Pending' = Pending + 1
    BY <2>1, <1>1 DEF Pending
  <2>5. paused' => Pending' > LowWater
    BY <2>1, <2>4, <1>1, <1>2
  <2>6. flowing' <=> ~paused' /\ ~Held'
    BY <2>1, <2>2, <1>1, <1>2
  <2> QED BY <2>1, <2>2, <2>3, <2>5, <2>6, <1>2
<1>6. CASE MirrorParses
  <2>1. /\ parsed' = parsed + 1 /\ Drained(Pending - 1, marks, sub, buffered)
        /\ UNCHANGED <<inStream, handle, written, hold, screen>>
    BY <1>6 DEF MirrorParses
  <2>2. Pending' = Pending - 1 /\ Pending - 1 \in Int
    BY <2>1, <1>1 DEF Pending
  <2>3. /\ FlushLast(marks', hold, written)
        /\ flowing' <=> ~paused' /\ ~Held
        /\ paused' => paused /\ Pending - 1 > LowWater
    BY <2>1, <2>2, <1>1, <1>2, DrainedHandoff
  <2> QED BY <2>1, <2>2, <2>3, <1>2
<1>7. CASE MarkFires
  <2>1. /\ marks # <<>>
        /\ \E sb, bf : Drained(Pending, Tail(marks), sb, bf)
        /\ UNCHANGED <<inStream, handle, written, parsed, hold, screen>>
    BY <1>7 DEF MarkFires, MarkDue
  <2>2. Pending' = Pending
    BY <2>1 DEF Pending
  <2>3. Tail(marks) \in Seq(Mark) /\ FlushLast(Tail(marks), hold, written)
    BY <2>1, <1>1, <1>2, TailFlush, HeadTailProperties
  <2>4. /\ FlushLast(marks', hold, written)
        /\ flowing' <=> ~paused' /\ ~Held
        /\ paused' => paused /\ Pending > LowWater
    BY <2>1, <2>3, <1>1, <1>2, DrainedHandoff
  <2> QED BY <2>1, <2>2, <2>4, <1>2
<1>8. ASSUME NEW c \in Clients, CallSubscribe(c) PROVE HandoffInv'
  <2> DEFINE rs == Superseded(marks, c, written - buffered[c], written)
             m == NewMark(c, "current")
  <2>1. /\ marks' = Append(rs, m)
        /\ UNCHANGED <<inStream, handle, flowing, written, parsed, paused, hold, screen>>
    BY <1>8 DEF CallSubscribe, Superseded, reader, flow
  <2>2. rs \in Seq(Mark)
    BY Supersede, <1>1 DEF IInv, Good
  <2>3. /\ Len(rs) = Len(marks)
        /\ \A i \in 1 .. Len(marks) :
             rs[i].kind = "flush" => marks[i].kind = "flush" /\ rs[i].at = marks[i].at
    BY <2>2, <1>1, SupersededFlushes
  <2>4. m \in Mark /\ m.kind # "flush"
    BY <1>1 DEF NewMark, Mark
  <2> HIDE DEF rs, m
  <2>5. FlushLast(rs, hold, written)
    BY <2>3, <1>2, SameFlushes
  <2>6. FlushLast(rs \o <<m>>, hold, written)
    <3>1. <<m>> \in Seq(Mark) /\ \A i \in 1 .. Len(<<m>>) : <<m>>[i].kind # "flush"
      BY <2>4
    <3> QED BY <3>1, <2>2, <2>5, ExtendFlush
  <2>7. FlushLast(marks', hold, written)
    BY <2>1, <2>2, <2>4, <2>6, AppendIsConcat
  <2>8. Pending' = Pending
    BY <2>1 DEF Pending
  <2> QED BY <2>1, <2>7, <2>8, <1>2
<1>9. ASSUME NEW c \in Clients, CallUnsubscribe(c) PROVE HandoffInv'
  <2>1. /\ marks' = Voided(marks, {c})
        /\ UNCHANGED <<inStream, handle, flowing, written, parsed, paused, hold, screen>>
    BY <1>9 DEF CallUnsubscribe, reader, flow
  <2>2. FlushLast(marks', hold, written)
    BY <2>1, <1>1, <1>2, VoidFlush
  <2>3. Pending' = Pending
    BY <2>1 DEF Pending
  <2> QED BY <2>1, <2>2, <2>3, <1>2
<1>10. ASSUME NEW c \in Clients, DrainPoll(c) PROVE HandoffInv'
  <2>1. /\ RetryStale(Pending, marks, sub, buffered)
        /\ UNCHANGED <<inStream, handle, flowing, written, parsed, paused, hold, screen>>
    BY <1>10 DEF DrainPoll, reader, flow
  <2>2. FlushLast(marks', hold, written)
    BY <2>1, <1>1, <1>2, RetryFlush
  <2>3. Pending' = Pending
    BY <2>1 DEF Pending
  <2> QED BY <2>1, <2>2, <2>3, <1>2
<1>11. CASE CallHold
  <2>1. /\ hold = "no" /\ hold' = "flushing" /\ inStream' = FALSE /\ flowing' = FALSE /\ handle' = FALSE
        /\ UNCHANGED <<parsed, screen>>
    BY <1>11 DEF CallHold
  <2>2. FlushLast(marks', "flushing", written') /\ (paused' => Pending' > LowWater)
    <3>1. CASE inStream
      <4> DEFINE m == [NewMark(Broken, "flush") EXCEPT !.at = written + 1]
      <4>1. /\ written' = written + 1
            /\ marks' = Append(Voided(marks, TooMuch), m)
            /\ paused' = (paused \/ Pending + 1 > PauseAt)
        BY <3>1, <1>11 DEF CallHold, Push
      <4>2. m \in Mark /\ m.at = written + 1
        <5>1. m = [client |-> Broken, kind |-> "flush", at |-> written + 1, from |-> 0, upto |-> 0]
          BY DEF NewMark
        <5>2. written + 1 \in Nat
          BY <1>1
        <5> HIDE DEF m
        <5> QED BY <5>1, <5>2 DEF Mark
      <4> HIDE DEF m
      <4>3. Voided(marks, TooMuch) \in Seq(Mark) /\ FlushLast(Voided(marks, TooMuch), hold, written)
        BY <1>1, <1>2, VoidFlush, VoidedProperties
      <4>4. FlushLast(marks', "flushing", written')
        BY <4>1, <4>2, <4>3, <2>1, AppendFlush
      <4>5. Pending' = Pending + 1
        BY <4>1, <2>1, <1>1 DEF Pending
      <4> QED BY <4>1, <4>4, <4>5, <1>1, <1>2
    <3>2. CASE ~inStream
      <4>1. marks' = Append(marks, NewMark(Broken, "flush")) /\ UNCHANGED <<written, paused>>
        BY <3>2, <1>11 DEF CallHold
      <4>2. NewMark(Broken, "flush") \in Mark /\ NewMark(Broken, "flush").at = written
        BY <1>1 DEF NewMark, Mark
      <4>3. FlushLast(marks', "flushing", written)
        BY <4>1, <4>2, <2>1, <1>1, <1>2, AppendFlush
      <4>4. Pending' = Pending
        BY <4>1, <2>1 DEF Pending
      <4> QED BY <4>1, <4>3, <4>4, <1>2
    <3> QED BY <3>1, <3>2
  <2> QED BY <2>1, <2>2
<1>12. CASE ScreenTaken
  <2>1. /\ marks # <<>> /\ Head(marks).kind = "flush" /\ Head(marks).at = parsed
        /\ marks' = Tail(marks) /\ hold' = "taken" /\ screen' = parsed
        /\ UNCHANGED <<inStream, handle, flowing, written, parsed, paused>>
    BY <1>12 DEF ScreenTaken, MarkDue, reader
  <2>2. /\ hold = "flushing" /\ parsed = written
        /\ FlushLast(marks', hold', written)
    BY <2>1, <1>1, <1>2, TailFlush
  <2>3. Pending' = Pending
    BY <2>1 DEF Pending
  <2> QED BY <2>1, <2>2, <2>3, <1>2
<1>13. CASE CallRelease
  <2>1. /\ hold = "taken" /\ hold' = "no" /\ handle' = TRUE /\ flowing' = ~paused
        /\ UNCHANGED <<inStream, written, parsed, marks, paused, screen>>
    BY <1>13 DEF CallRelease
  <2>2. FlushLast(marks', hold', written)
    BY <2>1, <1>2 DEF FlushLast
  <2>3. Pending' = Pending
    BY <2>1 DEF Pending
  <2> QED BY <2>1, <2>2, <2>3, <1>1, <1>2
<1>14. CASE ProgramWrites \/ (\E c \in Clients : SocketSends(c)) \/ UNCHANGED vars
  BY <1>3, <1>14 DEF ProgramWrites, SocketSends, vars, reader, flow, fanout
<1> QED BY <1>4, <1>5, <1>6, <1>7, <1>8, <1>9, <1>10, <1>11, <1>12, <1>13, <1>14 DEF Next

\* Reading, flow control and the handoff always fit together.
THEOREM HandoffInvariance == Spec => []HandoffInv
<1>1. Init => HandoffInv
  <2> SUFFICES ASSUME Init PROVE HandoffInv
    OBVIOUS
  <2>1. Len(marks) = 0 /\ 1 .. Len(marks) = {}
    BY EmptySeq DEF Init
  <2>2. FlushLast(marks, hold, written)
    BY <2>1 DEF FlushLast
  <2> QED BY <2>2 DEF Init, HandoffInv, ReadsUnlessTold, PauseEnds, HandoffLosesNothing, Held
<1>2. IInv /\ HandoffInv /\ [Next]_vars => HandoffInv'
  BY HandoffStep
<1> QED BY <1>1, <1>2, Invariance, PTL DEF Spec

\* When the server is replaced, everything taken from the kernel is on the screen
\* handed over (TerminalHost.holdForHandoff).
THEOREM NothingLost == Spec => []HandoffLosesNothing
<1>1. HandoffInv => HandoffLosesNothing
  BY DEF HandoffInv
<1> QED BY <1>1, HandoffInvariance, PTL

\* Reading is stopped exactly while flow control or a handoff asks for it
\* (TerminalHost.applyFlowControl, holdForHandoff, releaseHandoffHold).
THEOREM ReadingAsTold == Spec => []ReadsUnlessTold
<1>1. HandoffInv => ReadsUnlessTold
  BY DEF HandoffInv
<1> QED BY <1>1, HandoffInvariance, PTL

\* Reading is never paused with a queue too short to resume it, for any thresholds
\* with LowWater at most PauseAt (Mirror.onDrained).
THEOREM PauseAlwaysEnds == Spec => []PauseEnds
<1>1. HandoffInv => PauseEnds
  BY DEF HandoffInv
<1> QED BY <1>1, HandoffInvariance, PTL

-----------------------------------------------------------------------------
(* Part 2: input.                                                          *)

Item == [raw : Nat] \cup [modal : Modals]
Output == [raw : Nat] \cup [part : {1, 2}, of : Modals]
Host == [job : Modals \cup {None}, stage : {"flush", "prepare", "delay"}, queue : Seq(Item),
         open : BOOLEAN, out : Seq(Output)]

HoldRecord == [id : Holds, sources : SUBSET Panes, chunks : Seq(Nat),
               target : Panes \cup {Undecided, Nowhere}]
Frame == [to : Panes, chunk : Nat]
Gate == [holds : Seq(HoldRecord), net : Seq(Frame)]

Requests == {"none", "opens", "opened", "pastes", "answered"}

\* Every variable has its type.
InputTypeOK ==
  /\ menu \in Menus /\ gate \in Gate
  /\ request \in [Holds -> Requests]
  /\ source \in [Holds -> Panes \cup {Nowhere}]
  /\ turnOf \in [Holds -> Nat]
  /\ fresh \in [Holds -> Panes \cup {None}]
  /\ born \in SUBSET Panes /\ turns \in Nat
  /\ host \in [Panes -> Host]
  /\ outcome \in [Modals -> {"none", "pending", "done", "refused"}]
  /\ refusals \in Nat /\ jumped \in BOOLEAN

Raws(s) == {s[i].raw : i \in {k \in DOMAIN s : IsRaw(s[k])}}
Below(A, B) == \A x \in A, y \in B : x < y
Rising(s) == \A i, k \in DOMAIN s : i < k /\ IsRaw(s[i]) /\ IsRaw(s[k]) => s[i].raw < s[k].raw
RawsOf(h) == Raws(h.out) \cup Raws(h.queue)
SentTo(g, p) == {g.net[i].chunk : i \in {k \in DOMAIN g.net : g.net[k].to = p}}
Sent(hs, g, p) == RawsOf(hs[p]) \cup SentTo(g, p)

\* The invariant is stated of a gate g, of terminals hs, and of the source, turn, request
\* and fresh pane of each hold, so that it can be followed through a handler.
\* A hold lets go to its source, or to the pane its request opened, which is apart.
Reaches(src, x, p) == IF x.target = Undecided THEN src[x.id] = p ELSE x.target = p
Promised(tn, x) == IF x.target = Undecided THEN {tn[x.id]} \ {0} ELSE {}
Own(tn, x) == Range(x.chunks) \cup Promised(tn, x)

\* The terminals: nothing waits at an idle or closed one, nothing came to unborn panes.
HostSound(h) == (h.job = None => h.queue = << >>) /\ (~h.open => h.job = None)
HostsInv(hs, bn) ==
  \A p \in Panes :
    HostSound(hs[p]) /\ (p \notin bn => hs[p].job = None /\ hs[p].out = << >> /\ hs[p].queue = << >>)

\* What the names in the gate stand for, and that all was typed before now.
GateNames(g, src, bn, now) ==
  /\ \A i, k \in DOMAIN g.holds : g.holds[i].id = g.holds[k].id => i = k
  /\ \A i \in DOMAIN g.holds :
       /\ g.holds[i].target \in Panes => g.holds[i].target \in bn
       /\ g.holds[i].target = Undecided => {src[g.holds[i].id]} \ {Nowhere} \subseteq g.holds[i].sources
       /\ Range(g.holds[i].chunks) \subseteq 0 .. now /\ IsFiniteSet(g.holds[i].sources)
  /\ \A i \in DOMAIN g.net : g.net[i].to \in bn /\ g.net[i].chunk <= now

RequestRules(req, src, tn, fr, bn, now) ==
  /\ \A h \in Holds : req[h] \in {"none", "opens"} => tn[h] = 0
  /\ \A h \in Holds : req[h] = "pastes" => tn[h] > 0
  /\ \A h \in Holds : tn[h] <= now /\ src[h] \in bn \cup {Nowhere}
  /\ \A h \in Holds : req[h] = "opened" => fr[h] \in bn
  /\ \A h, i \in Holds : req[h] = "opened" /\ req[i] = "opened" /\ fr[h] = fr[i] => h = i

Asked(g, req) == \A i \in DOMAIN g.holds : req[g.holds[i].id] # "none"
Past(hs, now) == \A p \in Panes : \A x \in RawsOf(hs[p]) : x <= now

\* How holds lie beside each other: two undecided ones at most, with nothing behind the
\* second, nor behind one that took over the pane of an earlier hold.
GateShape(g, src) ==
  /\ \A i, k \in DOMAIN g.holds :
       i < k /\ g.holds[i].target = Undecided /\ g.holds[k].target = Undecided => k = Len(g.holds)
  /\ \A i \in DOMAIN g.holds :
       g.holds[i].target = Undecided /\ src[g.holds[i].id] # Nowhere /\ i # Len(g.holds)
         => g.holds[i].sources \subseteq {src[g.holds[i].id]}

\* Nothing goes yet to a pane that a hold may let go to when its request is answered.
FreshInv(g, src, req, fr, hs) ==
  \A i \in DOMAIN g.holds :
    g.holds[i].target = Undecided /\ req[g.holds[i].id] = "opened" =>
      /\ Sent(hs, g, fr[g.holds[i].id]) = {}
      /\ \A k \in DOMAIN g.holds : ~Reaches(src, g.holds[k], fr[g.holds[i].id])

\* The order of what is on its way to a pane: terminal, socket, holds from old to new.
HoldOrder(x, tn) ==
  /\ \A m, n \in DOMAIN x.chunks : m < n => x.chunks[m] < x.chunks[n]
  /\ Below(Promised(tn, x), Range(x.chunks))
HoldsOrder(g, src, tn, hs) ==
  /\ \A i \in DOMAIN g.holds : HoldOrder(g.holds[i], tn)
  /\ \A i \in DOMAIN g.holds, p \in Panes :
       Reaches(src, g.holds[i], p) => Below(Sent(hs, g, p), Own(tn, g.holds[i]))
  /\ \A i, k \in DOMAIN g.holds, p \in Panes :
       i < k /\ Reaches(src, g.holds[i], p) /\ Reaches(src, g.holds[k], p)
         => Below(Own(tn, g.holds[i]), Own(tn, g.holds[k]))
NetOrder(g, hs) ==
  /\ \A i, k \in DOMAIN g.net : i < k /\ g.net[i].to = g.net[k].to => g.net[i].chunk < g.net[k].chunk
  /\ \A p \in Panes : Below(RawsOf(hs[p]), SentTo(g, p))
GateOrder(g, src, tn, hs) == HoldsOrder(g, src, tn, hs) /\ NetOrder(g, hs)

HostOrder(h) == Rising(h.out) /\ Rising(h.queue) /\ Below(Raws(h.out), Raws(h.queue))

\* The gate as a whole; calm is false when `jumped` is true.
Orderly(g, src, tn, req, fr, hs) ==
  GateShape(g, src) /\ FreshInv(g, src, req, fr, hs) /\ GateOrder(g, src, tn, hs)
GateInv(g, src, tn, req, fr, hs, bn, now, calm) ==
  /\ g \in Gate /\ GateNames(g, src, bn, now) /\ Asked(g, req)
  /\ calm => Orderly(g, src, tn, req, fr, hs)

-----------------------------------------------------------------------------
(* Modal input, of one terminal.                                           *)

PartsIn(s, j) == {k \in DOMAIN s : ~IsRaw(s[k]) /\ s[k].of = j}
Waiting(h) == {h.queue[k].modal : k \in {i \in DOMAIN h.queue : ~IsRaw(h.queue[i])}}
JobsOf(h) == ({h.job} \ {None}) \cup Waiting(h) \cup {j \in Modals : PartsIn(h.out, j) # {}}

Complete(s, j) ==
  \E k \in DOMAIN s :
    /\ s[k] = [part |-> 1, of |-> j]
    /\ IF Parts(j) = 1 THEN PartsIn(s, j) = {k}
       ELSE k + 1 \in DOMAIN s /\ PartsIn(s, j) = {k, k + 1} /\ s[k + 1] = [part |-> 2, of |-> j]

\* The first part is the last thing that was written.
HalfWritten(s, j) == s # << >> /\ s[Len(s)] = [part |-> 1, of |-> j] /\ PartsIn(s, j) = {Len(s)}

\* The queue has a modal input once.
NoneTwice(q) ==
  \A i, k \in DOMAIN q : ~IsRaw(q[i]) /\ ~IsRaw(q[k]) /\ q[i].modal = q[k].modal => i = k

\* What is at work or waits is pending, and nothing of it was written, but the first part
\* of two during the delay.  What was written of others is all of it, unless the
\* terminal went.
HostModals(h, result) ==
  /\ h.job # None =>
       /\ result[h.job] = "pending" /\ h.job \notin Waiting(h)
       /\ IF h.stage = "delay" THEN HalfWritten(h.out, h.job) /\ Parts(h.job) = 2
                               ELSE PartsIn(h.out, h.job) = {}
  /\ \A j \in Waiting(h) : result[j] = "pending" /\ PartsIn(h.out, j) = {}
  /\ NoneTwice(h.queue)
  /\ \A j \in Modals : PartsIn(h.out, j) # {} /\ j # h.job =>
       \/ Complete(h.out, j) /\ result[j] = "done"
       \/ ~h.open /\ HalfWritten(h.out, j) /\ Parts(j) = 2 /\ result[j] = "refused"

\* A modal input is one terminal's.
ModalsInv ==
  /\ \A p, q \in Panes : p # q => JobsOf(host[p]) \cap JobsOf(host[q]) = {}
  /\ \A p \in Panes :
       (\A j \in JobsOf(host[p]) : outcome[j] # "none") /\ HostModals(host[p], outcome)

InputIInv ==
  /\ InputTypeOK
  /\ HostsInv(host, born)
  /\ GateInv(gate, source, turnOf, request, fresh, host, born, turns, ~jumped)
  /\ RequestRules(request, source, turnOf, fresh, born, turns)
  /\ Past(host, turns)
  /\ ~jumped => \A p \in Panes : HostOrder(host[p])
  /\ ModalsInv
LEMMA Least == ASSUME NEW T \in SUBSET Nat, T # {} PROVE \E x \in T : \A y \in T : x <= y
<1> DEFINE R == OpToRel(<, Nat)
<1>1. IsWellFoundedOn(R, Nat)
  BY NatLessThanWellFounded, Zenon
<1>2. \A x, y \in Nat : <<y, x>> \in R <=> y < x
  BY DEF OpToRel
<1> HIDE DEF R
<1>3. PICK x \in T : \A y \in T : ~ (<<y, x>> \in R)
  BY <1>1, WFMin
<1>4. ASSUME NEW y \in T PROVE x <= y
  <2>1. ~ (y < x)
    BY <1>2, <1>3
  <2> QED BY <2>1
<1> QED BY <1>4

\* Counting from 0 to n.
LEMMA Counting ==
  ASSUME NEW n \in Nat, NEW B \in SUBSET Nat, 0 \in B, \A i \in 1 .. n : i - 1 \in B => i \in B
  PROVE  \A i \in 0 .. n : i \in B
<1> DEFINE T == {i \in 0 .. n : i \notin B}
<1> SUFFICES ASSUME T # {} PROVE FALSE
  OBVIOUS
<1>1. T \in SUBSET Nat
  OBVIOUS
<1>2. PICK x \in T : \A y \in T : x <= y
  BY <1>1, Least, Zenon
<1>3. x # 0 /\ x \in 0 .. n /\ x \notin B
  OBVIOUS
<1>4. x \in 1 .. n /\ x - 1 \in 0 .. n /\ ~(x <= x - 1)
  BY <1>3
<1>5. x - 1 \notin T
  BY <1>2, <1>4
<1>6. x - 1 \in B
  BY <1>4, <1>5
<1> QED BY <1>3, <1>4, <1>6

LEMMA Highest ==
  ASSUME NEW n \in Nat, NEW T \in SUBSET (1 .. n), T # {}
  PROVE  Max(T) \in T /\ \A y \in T : y <= Max(T)
<1> DEFINE U == {n - y : y \in T}
<1>0. \A y \in T : y \in Nat /\ y <= n /\ n - y \in Nat
  OBVIOUS
<1>1. U \in SUBSET Nat /\ U # {}
  BY <1>0
<1>2. PICK u \in U : \A v \in U : u <= v
  BY <1>1, Least, Zenon
<1>3. PICK x \in T : u = n - x
  OBVIOUS
<1>4. ASSUME NEW y \in T PROVE y <= x
  <2>1. n - x <= n - y
    BY <1>2, <1>3
  <2> QED BY <2>1
<1>5. \E x_ \in T : \A y \in T : x_ >= y
  BY <1>4
<1>6. Max(T) \in T /\ \A y \in T : Max(T) >= y
  BY <1>5, Zenon DEF Max
<1> QED BY <1>6

LEMMA Lowest ==
  ASSUME NEW T \in SUBSET Nat, T # {}
  PROVE  (CHOOSE x \in T : \A y \in T : x <= y) \in T /\ \A y \in T : (CHOOSE x \in T : \A z \in T : x <= z) <= y
<1>1. \E x \in T : \A y \in T : x <= y
  BY Least, Zenon
<1> QED BY <1>1, Zenon

-----------------------------------------------------------------------------
(* A terminal.                                                             *)

LEMMA ItemKinds ==
  /\ \A x \in Item : IsRaw(x) => x \in [raw : Nat] /\ x.raw \in Nat
  /\ \A x \in Item : ~IsRaw(x) => x \in [modal : Modals] /\ x.modal \in Modals
  /\ \A x \in Output : IsRaw(x) => x \in [raw : Nat] /\ x.raw \in Nat
  /\ \A x \in Output : ~IsRaw(x) => x \in [part : {1, 2}, of : Modals] /\ x.part \in {1, 2} /\ x.of \in Modals
  /\ \A x : IsRaw([raw |-> x]) /\ ~IsRaw([modal |-> x])
  /\ \A x, j : ~IsRaw([part |-> x, of |-> j])
  BY DEF Item, Output, IsRaw

LEMMA HostFields ==
  ASSUME NEW h \in Host
  PROVE  /\ h.job \in Modals \cup {None} /\ h.stage \in {"flush", "prepare", "delay"}
         /\ h.queue \in Seq(Item) /\ h.open \in BOOLEAN /\ h.out \in Seq(Output)
  BY DEF Host

\* t goes on from s with what was typed.
GoesOn(s, t) ==
  /\ Len(s) <= Len(t)
  /\ \A k \in DOMAIN s : t[k] = s[k]
  /\ \A k \in DOMAIN t : k \notin DOMAIN s => IsRaw(t[k])

LEMMA GoingOn ==
  ASSUME NEW s \in Seq(Output), NEW t \in Seq(Output), GoesOn(s, t), NEW j \in Modals
  PROVE  PartsIn(t, j) = PartsIn(s, j) /\ (Complete(s, j) => Complete(t, j))
<1>1. DOMAIN s = 1 .. Len(s) /\ DOMAIN t = 1 .. Len(t) /\ Len(s) \in Nat /\ Len(t) \in Nat
  BY LenProperties
<1>2. DOMAIN s \subseteq DOMAIN t
  BY <1>1 DEF GoesOn
<1>3. PartsIn(t, j) = PartsIn(s, j)
  BY <1>2, Zenon DEF PartsIn, GoesOn
<1>4. Complete(s, j) => Complete(t, j)
  <2> SUFFICES ASSUME Complete(s, j) PROVE Complete(t, j)
    OBVIOUS
  <2>1. PICK k \in DOMAIN s :
          /\ s[k] = [part |-> 1, of |-> j]
          /\ IF Parts(j) = 1 THEN PartsIn(s, j) = {k}
             ELSE k + 1 \in DOMAIN s /\ PartsIn(s, j) = {k, k + 1} /\ s[k + 1] = [part |-> 2, of |-> j]
    BY Zenon DEF Complete
  <2>2. k \in DOMAIN t /\ t[k] = s[k]
    BY <1>2 DEF GoesOn
  <2>3. k + 1 \in DOMAIN s => k + 1 \in DOMAIN t /\ t[k + 1] = s[k + 1]
    BY <1>2 DEF GoesOn
  <2> QED BY <1>3, <2>1, <2>2, <2>3, Zenon DEF Complete
<1> QED BY <1>3, <1>4

LEMMA RawsIn ==
  ASSUME NEW S, NEW s \in Seq(S)
  PROVE  \A x : x \in Raws(s) <=> \E k \in 1 .. Len(s) : IsRaw(s[k]) /\ x = s[k].raw
  BY LenProperties, Zenon DEF Raws

LEMMA WaitingIn ==
  ASSUME NEW h \in Host
  PROVE  \A j : j \in Waiting(h) <=> \E k \in 1 .. Len(h.queue) : ~IsRaw(h.queue[k]) /\ j = h.queue[k].modal
<1>1. h.queue \in Seq(Item) /\ DOMAIN h.queue = 1 .. Len(h.queue)
  BY HostFields, LenProperties
<1> QED BY <1>1, Zenon DEF Waiting

\* Something typed comes to a terminal.
LEMMA AppendRaw ==
  ASSUME NEW S, NEW s \in Seq(S), NEW x \in Nat, [raw |-> x] \in S
  PROVE  LET t == Append(s, [raw |-> x])
         IN  /\ t \in Seq(S) /\ Raws(t) = Raws(s) \cup {x}
             /\ Len(t) = Len(s) + 1 /\ \A k \in 1 .. Len(s) : t[k] = s[k]
             /\ t[Len(s) + 1] = [raw |-> x] /\ IsRaw(t[Len(s) + 1])
<1> DEFINE t == Append(s, [raw |-> x])
<1>1. /\ t \in Seq(S) /\ Len(t) = Len(s) + 1 /\ \A k \in 1 .. Len(s) : t[k] = s[k]
      /\ t[Len(s) + 1] = [raw |-> x]
  BY AppendProperties
<1>2. Len(s) \in Nat
  BY LenProperties
<1> HIDE DEF t
<1>7. IsRaw([raw |-> x]) /\ [raw |-> x].raw = x
  BY ItemKinds
<1>3. IsRaw(t[Len(s) + 1]) /\ t[Len(s) + 1].raw = x
  BY <1>1, <1>7, Zenon
<1>4. 1 .. Len(t) = 1 .. Len(s) \cup {Len(s) + 1}
  BY <1>1, <1>2
<1>5. \A y : y \in Raws(t) <=> y \in Raws(s) \cup {x}
  <2>1. \A y : y \in Raws(t) <=> \E k \in 1 .. Len(t) : IsRaw(t[k]) /\ y = t[k].raw
    BY <1>1, RawsIn
  <2>2. \A y : y \in Raws(s) <=> \E k \in 1 .. Len(s) : IsRaw(s[k]) /\ y = s[k].raw
    BY RawsIn
  <2>3. \A k : k \in 1 .. Len(t) <=> k \in 1 .. Len(s) \/ k = Len(s) + 1
    BY <1>4
  <2>4. \A k \in 1 .. Len(s) : t[k] = s[k]
    BY <1>1
  <2>5. IsRaw(t[Len(s) + 1]) /\ t[Len(s) + 1].raw = x
    BY <1>3
  <2>6. ASSUME NEW y \in Raws(t) PROVE y \in Raws(s) \cup {x}
    <3>1. PICK k \in 1 .. Len(t) : IsRaw(t[k]) /\ y = t[k].raw
      BY <2>1
    <3>2. k \in 1 .. Len(s) \/ k = Len(s) + 1
      BY <2>3
    <3> QED BY <2>2, <2>4, <2>5, <3>1, <3>2
  <2>7. ASSUME NEW y \in Raws(s) PROVE y \in Raws(t)
    <3>1. PICK k \in 1 .. Len(s) : IsRaw(s[k]) /\ y = s[k].raw
      BY <2>2
    <3>2. k \in 1 .. Len(t)
      BY <2>3
    <3> QED BY <2>1, <2>4, <3>1, <3>2
  <2>8. x \in Raws(t)
    <3>1. Len(s) + 1 \in 1 .. Len(t)
      BY <2>3
    <3> QED BY <2>1, <2>5, <3>1
  <2> QED BY <2>6, <2>7, <2>8
<1>6. Raws(t) = Raws(s) \cup {x}
  BY <1>5
<1> QED BY <1>1, <1>3, <1>6 DEF t

LEMMA AppendRises ==
  ASSUME NEW S, NEW s \in Seq(S), NEW x \in Nat, [raw |-> x] \in S, Rising(s), Below(Raws(s), {x})
  PROVE  Rising(Append(s, [raw |-> x]))
<1> DEFINE t == Append(s, [raw |-> x])
<1>1. /\ t \in Seq(S) /\ Len(t) = Len(s) + 1 /\ \A k \in 1 .. Len(s) : t[k] = s[k]
      /\ t[Len(s) + 1] = [raw |-> x]
  BY AppendRaw
<1>2. DOMAIN t = 1 .. Len(t) /\ Len(s) \in Nat /\ DOMAIN s = 1 .. Len(s)
  BY <1>1, LenProperties
<1> HIDE DEF t
<1>3. ASSUME NEW i \in DOMAIN t, NEW k \in DOMAIN t, i < k, IsRaw(t[i]), IsRaw(t[k]) PROVE t[i].raw < t[k].raw
  <2>1. i \in 1 .. Len(s) /\ t[i] = s[i]
    BY <1>1, <1>2, <1>3
  <2>2. s[i].raw \in Raws(s)
    BY <1>3, <2>1, RawsIn
  <2>3. CASE k = Len(s) + 1
    <3>1. t[k].raw = x
      BY <1>1, <2>3
    <3> QED BY <2>1, <2>2, <3>1 DEF Below
  <2>4. CASE k # Len(s) + 1
    <3>1. k \in 1 .. Len(s) /\ t[k] = s[k]
      BY <1>1, <1>2, <2>4
    <3> QED BY <1>2, <1>3, <2>1, <3>1 DEF Rising
  <2> QED BY <2>3, <2>4
<1> QED BY <1>3 DEF Rising, t

LEMMA WriteHost ==
  ASSUME NEW h \in Host, HostSound(h), NEW x \in Nat
  PROVE  LET g == Write(h, x, None)
         IN  /\ g \in Host /\ HostSound(g) /\ g.job = h.job /\ g.open = h.open /\ g.stage = h.stage
             /\ RawsOf(g) \subseteq RawsOf(h) \cup {x}
             /\ HostOrder(h) /\ Below(RawsOf(h), {x}) => HostOrder(g)
             /\ GoesOn(h.out, g.out) /\ (h.job # None \/ ~h.open => g.out = h.out)
             /\ Waiting(g) = Waiting(h) /\ (NoneTwice(h.queue) => NoneTwice(g.queue))
<1> DEFINE g == Write(h, x, None)  q == Append(h.queue, [raw |-> x])  o == Append(h.out, [raw |-> x])
<1>1. /\ h.queue \in Seq(Item) /\ h.out \in Seq(Output)
      /\ DOMAIN h.out = 1 .. Len(h.out) /\ DOMAIN h.queue = 1 .. Len(h.queue) /\ Len(h.out) \in Nat /\ Len(h.queue) \in Nat
  BY HostFields, LenProperties
<1>2. [raw |-> x] \in Item /\ [raw |-> x] \in Output
  BY DEF Item, Output
<1>3. GoesOn(h.out, h.out)
  BY <1>1 DEF GoesOn
<1>4. CASE ~h.open
  <2>1. g = h
    BY <1>4 DEF Write
  <2> QED BY <1>3, <2>1
<1>5. CASE h.open /\ h.job # None
  <2>1. g = [h EXCEPT !.queue = q]
    BY <1>5, Zenon DEF Write, Busy
  <2>2. q \in Seq(Item) /\ Raws(q) = Raws(h.queue) \cup {x} /\ Len(q) = Len(h.queue) + 1 /\ \A k \in 1 .. Len(h.queue) : q[k] = h.queue[k]
    BY <1>1, <1>2, AppendRaw
  <2>3. IsRaw(q[Len(h.queue) + 1])
    BY <1>1, <1>2, AppendRaw
  <2>4. DOMAIN q = 1 .. Len(q)
    BY <2>2, LenProperties
  <2>5. Rising(h.queue) /\ Below(RawsOf(h), {x}) => Rising(q)
    BY <1>1, <1>2, AppendRises DEF RawsOf, Below
  <2>6. NoneTwice(h.queue) => NoneTwice(q)
    <3> HIDE DEF q
    <3> SUFFICES ASSUME NoneTwice(h.queue), NEW i \in DOMAIN q, NEW k \in DOMAIN q, ~IsRaw(q[i]), ~IsRaw(q[k]), q[i].modal = q[k].modal
                 PROVE i = k
      BY Zenon DEF NoneTwice
    <3>4. Len(q) = Len(h.queue) + 1 /\ Len(h.queue) \in Nat
      BY <1>1, <2>2
    <3>1. \A m : m \in 1 .. Len(q) <=> m \in 1 .. Len(h.queue) \/ m = Len(h.queue) + 1
      BY <3>4
    <3>2. i \in 1 .. Len(h.queue) /\ k \in 1 .. Len(h.queue)
      BY <2>3, <2>4, <3>1, Zenon
    <3>3. q[i] = h.queue[i] /\ q[k] = h.queue[k]
      BY <2>2, <3>2
    <3> QED BY <1>1, <3>2, <3>3, Zenon DEF NoneTwice
  <2> HIDE DEF q, g
  <2>7. /\ g \in Host /\ g.job = h.job /\ g.open = h.open /\ g.stage = h.stage /\ g.out = h.out /\ g.queue = q
    BY <2>1, <2>2 DEF Host
  <2>8. \A j : j \in Waiting(g) <=> j \in Waiting(h)
    <3>4. Len(q) = Len(h.queue) + 1 /\ Len(h.queue) \in Nat
      BY <1>1, <2>2
    <3>1. \A m : m \in 1 .. Len(q) <=> m \in 1 .. Len(h.queue) \/ m = Len(h.queue) + 1
      BY <3>4
    <3>2. \A j : j \in Waiting(g) <=> \E k \in 1 .. Len(q) : ~IsRaw(q[k]) /\ j = q[k].modal
      BY <2>7, WaitingIn
    <3>3. \A j : j \in Waiting(h) <=> \E k \in 1 .. Len(h.queue) : ~IsRaw(h.queue[k]) /\ j = h.queue[k].modal
      BY WaitingIn
    <3>5. \A k \in 1 .. Len(h.queue) : q[k] = h.queue[k]
      BY <2>2
    <3>6. ASSUME NEW j \in Waiting(g) PROVE j \in Waiting(h)
      <4>1. PICK m \in 1 .. Len(q) : ~IsRaw(q[m]) /\ j = q[m].modal
        BY <3>2
      <4>2. m \in 1 .. Len(h.queue)
        BY <2>3, <3>1, <4>1
      <4> QED BY <3>3, <3>5, <4>1, <4>2
    <3>7. ASSUME NEW j \in Waiting(h) PROVE j \in Waiting(g)
      <4>1. PICK m \in 1 .. Len(h.queue) : ~IsRaw(h.queue[m]) /\ j = h.queue[m].modal
        BY <3>3
      <4>2. m \in 1 .. Len(q)
        BY <3>1
      <4> QED BY <3>2, <3>5, <4>1, <4>2
    <3> QED BY <3>6, <3>7
  <2>9. RawsOf(g) = RawsOf(h) \cup {x}
    BY <2>2, <2>7 DEF RawsOf
  <2>10. HostOrder(h) /\ Below(RawsOf(h), {x}) => HostOrder(g)
    BY <2>2, <2>5, <2>7 DEF HostOrder, RawsOf, Below
  <2>11. HostSound(g)
    BY <1>5, <2>7 DEF HostSound
  <2>12. Waiting(g) = Waiting(h)
    BY <2>8
  <2> QED BY <1>3, <2>6, <2>7, <2>9, <2>10, <2>11, <2>12 DEF g
<1>6. CASE h.open /\ h.job = None
  <2>1. g = [h EXCEPT !.out = o]
    BY <1>6, Zenon DEF Write, Busy
  <2>2. o \in Seq(Output) /\ Raws(o) = Raws(h.out) \cup {x} /\ Len(o) = Len(h.out) + 1
        /\ (\A k \in 1 .. Len(h.out) : o[k] = h.out[k]) /\ IsRaw(o[Len(h.out) + 1])
    BY <1>1, <1>2, AppendRaw
  <2>4. DOMAIN o = 1 .. Len(o)
    BY <2>2, LenProperties
  <2>5. Rising(h.out) /\ Below(RawsOf(h), {x}) => Rising(o)
    BY <1>1, <1>2, AppendRises DEF RawsOf, Below
  <2> HIDE DEF o, g
  <2>6. GoesOn(h.out, o)
    BY <1>1, <2>2, <2>4 DEF GoesOn
  <2>7. /\ g \in Host /\ g.job = h.job /\ g.open = h.open /\ g.stage = h.stage /\ g.out = o /\ g.queue = h.queue
    BY <2>1, <2>2 DEF Host
  <2>8. h.queue = << >>
    BY <1>6 DEF HostSound
  <2>9. Raws(h.queue) = {}
    BY <2>8 DEF Raws
  <2>10. Waiting(g) = Waiting(h)
    BY <2>7 DEF Waiting
  <2>11. HostSound(g)
    BY <1>6, <2>7, <2>8 DEF HostSound
  <2>12. RawsOf(g) = RawsOf(h) \cup {x}
    BY <2>2, <2>7 DEF RawsOf
  <2>13. HostOrder(h) /\ Below(RawsOf(h), {x}) => HostOrder(g)
    BY <2>5, <2>7, <2>9 DEF HostOrder, Below
  <2> QED BY <1>6, <2>6, <2>7, <2>10, <2>11, <2>12, <2>13 DEF g
<1> QED BY <1>4, <1>5, <1>6, HostFields

\* The typed items up to the next modal one.
RawsOnly(q, n) == \A k \in 1 .. n : IsRaw(q[k])

\* Output t is output o and then the first n items of queue q, all typed.
FirstOf(o, q, n, t) ==
  /\ t \in Seq(Output) /\ Len(t) = Len(o) + n
  /\ \A k \in 1 .. Len(o) : t[k] = o[k]
  /\ \A k \in Len(o) + 1 .. Len(t) : k - Len(o) \in 1 .. n /\ t[k] = q[k - Len(o)] /\ IsRaw(t[k])

LEMMA FirstItems ==
  ASSUME NEW q \in Seq(Item), NEW n \in 0 .. Len(q), RawsOnly(q, n), NEW o \in Seq(Output),
         NEW t, t = o \o SubSeq(q, 1, n)
  PROVE  FirstOf(o, q, n, t)
<1> DEFINE u == SubSeq(q, 1, n)
<1>1. \A k \in 1 .. n : q[k] \in [raw : Nat]
  BY ElementOfSeq, ItemKinds DEF RawsOnly
<1>2. u \in Seq([raw : Nat]) /\ Len(u) = n /\ \A k \in 1 .. n : u[k] = q[k]
  <2>1. \A k \in 1 .. n : q[1 + k - 1] = q[k]
    OBVIOUS
  <2>2. n - 1 + 1 = n /\ (1 <= n \/ n = 0)
    OBVIOUS
  <2> QED BY <1>1, <2>1, <2>2, SubSeqProperties
<1>3. u \in Seq(Output)
  BY <1>2, SeqMonotonic DEF Output
<1> HIDE DEF u
<1>4. t \in Seq(Output) /\ Len(t) = Len(o) + n /\ \A k \in 1 .. Len(o) + Len(u) : t[k] = IF k <= Len(o) THEN o[k] ELSE u[k - Len(o)]
  <2>1. t = o \o u /\ Len(u) = n
    BY <1>2, Zenon DEF u
  <2>2. /\ o \o u \in Seq(Output) /\ Len(o \o u) = Len(o) + Len(u)
        /\ \A k \in 1 .. Len(o) + Len(u) : (o \o u)[k] = IF k <= Len(o) THEN o[k] ELSE u[k - Len(o)]
    BY <1>3, ConcatProperties, SMTT(30)
  <2> QED BY <2>1, <2>2, Zenon
<1>5. Len(o) \in Nat /\ n \in Nat
  BY LenProperties
<1>6. \A k \in 1 .. Len(o) : t[k] = o[k]
  BY <1>2, <1>4, <1>5
<1>7. ASSUME NEW k \in Len(o) + 1 .. Len(t) PROVE k - Len(o) \in 1 .. n /\ t[k] = q[k - Len(o)] /\ IsRaw(t[k])
  <2>1. k - Len(o) \in 1 .. n
    BY <1>4, <1>5
  <2>2. t[k] = u[k - Len(o)]
    BY <1>2, <1>4, <1>5
  <2> QED BY <1>2, <2>1, <2>2 DEF RawsOnly
<1> QED BY <1>4, <1>6, <1>7 DEF FirstOf

LEMMA LastItems ==
  ASSUME NEW q \in Seq(Item), NEW n \in 0 .. Len(q)
  PROVE  LET u == SubSeq(q, n + 2, Len(q))
         IN  /\ u \in Seq(Item)
             /\ \A k \in 1 .. Len(u) : k + n + 1 \in 1 .. Len(q) /\ u[k] = q[k + n + 1]
             /\ \A k \in n + 2 .. Len(q) : k - n - 1 \in 1 .. Len(u) /\ u[k - n - 1] = q[k]
<1> DEFINE u == SubSeq(q, n + 2, Len(q))  m == Len(q) - n - 1
<1>1. Len(q) \in Nat /\ n \in Nat
  BY LenProperties
<1>2. \A k \in n + 2 .. Len(q) : q[k] \in Item
  BY <1>1, ElementOfSeq
<1>3. /\ u \in Seq(Item)
      /\ Len(u) = IF n + 2 <= Len(q) THEN Len(q) - (n + 2) + 1 ELSE 0
      /\ \A k \in 1 .. Len(q) - (n + 2) + 1 : u[k] = q[n + 2 + k - 1]
  <2>1. n + 2 \in Int /\ Len(q) \in Int
    BY <1>1
  <2> QED BY <1>2, <2>1, SubSeqProperties
<1> HIDE DEF u
<1>4. ASSUME NEW k \in 1 .. Len(u) PROVE k + n + 1 \in 1 .. Len(q) /\ u[k] = q[k + n + 1]
  <2>1. k \in 1 .. Len(q) - (n + 2) + 1 /\ n + 2 + k - 1 = k + n + 1 /\ k + n + 1 \in 1 .. Len(q)
    BY <1>1, <1>3
  <2> QED BY <1>3, <2>1
<1>5. ASSUME NEW k \in n + 2 .. Len(q) PROVE k - n - 1 \in 1 .. Len(u) /\ u[k - n - 1] = q[k]
  <2>1. k - n - 1 \in 1 .. Len(q) - (n + 2) + 1 /\ n + 2 + (k - n - 1) - 1 = k /\ k - n - 1 \in 1 .. Len(u)
    BY <1>1, <1>3
  <2> QED BY <1>3, <2>1
<1> QED BY <1>3, <1>4, <1>5 DEF u

\* Where the queue is drained to.
DrainedAt(q, n) ==
  /\ n \in 0 .. Len(q) /\ RawsOnly(q, n)
  /\ n < Len(q) => ~IsRaw(q[n + 1])

LEMMA DrainQueueIs ==
  ASSUME NEW h \in Host
  PROVE  \E n : /\ DrainedAt(h.queue, n)
                /\ LET g == DrainQueue(h, None)
                   IN  /\ g \in Host /\ g.open = h.open
                       /\ g.out = h.out \o SubSeq(h.queue, 1, n)
                       /\ g.queue = SubSeq(h.queue, n + 2, Len(h.queue))
                       /\ g.job = IF n = Len(h.queue) THEN None ELSE h.queue[n + 1].modal
                       /\ n < Len(h.queue) => g.stage = "flush"
<1> DEFINE q == h.queue
           modals == {i \in DOMAIN q : ~IsRaw(q[i])}
           n == IF modals = {} THEN Len(q) ELSE (CHOOSE i \in modals : \A k \in modals : i <= k) - 1
           drained == [h EXCEPT !.out = @ \o SubSeq(q, 1, n), !.queue = SubSeq(@, n + 2, Len(@))]
           g == DrainQueue(h, None)
<1>1. q \in Seq(Item) /\ DOMAIN q = 1 .. Len(q) /\ Len(q) \in Nat
  BY HostFields, LenProperties
<1>2. g = IF modals = {} THEN [drained EXCEPT !.job = None] ELSE RunModal(drained, q[n + 1].modal)
  BY Zenon DEF DrainQueue
<1>3. DrainedAt(q, n) /\ (modals = {} <=> n = Len(q))
  <2>1. CASE modals = {}
    <3>1. n = Len(q)
      BY <2>1
    <3>2. \A k \in 1 .. Len(q) : IsRaw(q[k])
      BY <1>1, <2>1
    <3> HIDE DEF n, modals, q
    <3> QED BY <1>1, <2>1, <3>1, <3>2 DEF DrainedAt, RawsOnly
  <2>2. CASE modals # {}
    <3> DEFINE i == CHOOSE x \in modals : \A y \in modals : x <= y
    <3>1. modals \in SUBSET Nat
      BY <1>1
    <3>2. i \in modals /\ \A y \in modals : i <= y
      <4> HIDE DEF modals
      <4> QED BY <2>2, <3>1, Lowest
    <3>3. n = i - 1
      BY <2>2
    <3>4. i \in 1 .. Len(q) /\ ~IsRaw(q[i])
      BY <1>1, <3>2
    <3>5. ASSUME NEW k \in 1 .. Len(q), k < i PROVE IsRaw(q[k])
      <4>1. k \notin modals
        <5> HIDE DEF i, modals
        <5> QED BY <3>1, <3>2, <3>5
      <4> QED BY <1>1, <4>1
    <3> HIDE DEF n, i, modals, q
    <3>6. n \in 0 .. Len(q) /\ n < Len(q) /\ n + 1 = i /\ \A k \in 1 .. n : k \in 1 .. Len(q) /\ k < i
      BY <1>1, <3>3, <3>4
    <3> QED BY <2>2, <3>4, <3>5, <3>6 DEF DrainedAt, RawsOnly
  <2> QED BY <2>1, <2>2
<1>4. h.out \o SubSeq(q, 1, n) \in Seq(Output) /\ SubSeq(q, n + 2, Len(q)) \in Seq(Item)
  <2> HIDE DEF n, q
  <2>1. h.out \in Seq(Output) /\ n \in 0 .. Len(q) /\ RawsOnly(q, n)
    BY <1>3, HostFields DEF DrainedAt
  <2> DEFINE t == h.out \o SubSeq(q, 1, n)
  <2>2. t \in Seq(Output)
    <3>1. t = h.out \o SubSeq(q, 1, n)
      OBVIOUS
    <3> HIDE DEF t
    <3>2. FirstOf(h.out, q, n, t)
      BY <1>1, <2>1, <3>1, FirstItems
    <3> QED BY <3>2 DEF FirstOf
  <2>3. SubSeq(q, n + 2, Len(q)) \in Seq(Item)
    BY <1>1, <2>1, LastItems
  <2> QED BY <2>2, <2>3
<1>5. modals # {} => q[n + 1].modal \in Modals
  <2> HIDE DEF n, modals
  <2>1. modals # {} => n + 1 \in 1 .. Len(q) /\ ~IsRaw(q[n + 1])
    BY <1>1, <1>3 DEF DrainedAt
  <2> QED BY <1>1, <2>1, ElementOfSeq, ItemKinds
<1> HIDE DEF n, modals
<1>6. /\ drained \in Host /\ drained.open = h.open /\ drained.out = h.out \o SubSeq(q, 1, n)
      /\ drained.queue = SubSeq(q, n + 2, Len(q))
  BY <1>4 DEF Host
<1> HIDE DEF drained, g
<1>7. CASE modals = {}
  <2>1. g = [drained EXCEPT !.job = None]
    BY <1>2, <1>7
  <2>2. g \in Host /\ g.job = None /\ g.open = drained.open /\ g.out = drained.out /\ g.queue = drained.queue
    BY <1>6, <2>1 DEF Host
  <2>3. ~(n < Len(q))
    BY <1>1, <1>3, <1>7
  <2> QED BY <1>3, <1>6, <1>7, <2>2, <2>3 DEF g
<1>8. CASE modals # {}
  <2>1. g = [drained EXCEPT !.job = q[n + 1].modal, !.stage = "flush"]
    BY <1>2, <1>8 DEF RunModal
  <2>2. g \in Host /\ g.job = q[n + 1].modal /\ g.open = drained.open /\ g.out = drained.out /\ g.queue = drained.queue /\ g.stage = "flush"
    BY <1>5, <1>6, <1>8, <2>1 DEF Host
  <2> QED BY <1>3, <1>6, <1>8, <2>2 DEF g
<1> QED BY <1>7, <1>8

LEMMA DrainHost ==
  ASSUME NEW h \in Host, h.open
  PROVE  LET g == DrainQueue(h, None)
         IN  /\ g \in Host /\ HostSound(g) /\ g.open
             /\ g.job # None => g.stage = "flush"
             /\ RawsOf(g) \subseteq RawsOf(h)
             /\ HostOrder(h) => HostOrder(g)
             /\ GoesOn(h.out, g.out)
             /\ ({g.job} \ {None}) \cup Waiting(g) = Waiting(h)
             /\ NoneTwice(h.queue) => NoneTwice(g.queue) /\ g.job \notin Waiting(g)
<1> DEFINE g == DrainQueue(h, None)  q == h.queue  o == h.out  t == g.out  u == g.queue
<1>1. PICK n : /\ DrainedAt(q, n)
               /\ g \in Host /\ g.open = h.open
               /\ t = o \o SubSeq(q, 1, n) /\ u = SubSeq(q, n + 2, Len(q))
               /\ g.job = IF n = Len(q) THEN None ELSE q[n + 1].modal
               /\ n < Len(q) => g.stage = "flush"
  BY DrainQueueIs
<1>2. /\ q \in Seq(Item) /\ o \in Seq(Output) /\ n \in 0 .. Len(q) /\ RawsOnly(q, n)
      /\ (n < Len(q) => ~IsRaw(q[n + 1]))
  BY <1>1, HostFields DEF DrainedAt
<1> HIDE DEF g
<1>3. /\ DOMAIN q = 1 .. Len(q) /\ Len(q) \in Nat /\ DOMAIN o = 1 .. Len(o) /\ Len(o) \in Nat
      /\ DOMAIN t = 1 .. Len(t) /\ DOMAIN u = 1 .. Len(u) /\ t \in Seq(Output) /\ u \in Seq(Item)
      /\ Len(u) \in Nat /\ Len(t) \in Nat
  BY <1>1, <1>2, HostFields, LenProperties
<1>4. /\ Len(t) = Len(o) + n
      /\ \A k \in 1 .. Len(o) : t[k] = o[k]
      /\ \A k \in Len(o) + 1 .. Len(t) : k - Len(o) \in 1 .. n /\ t[k] = q[k - Len(o)] /\ IsRaw(t[k])
  <2>1. t = o \o SubSeq(q, 1, n)
    BY <1>1, Zenon
  <2>2. q \in Seq(Item) /\ o \in Seq(Output) /\ n \in 0 .. Len(q) /\ RawsOnly(q, n)
    BY <1>2
  <2>3. FirstOf(o, q, n, t)
    <3> HIDE DEF o, q, t
    <3> QED BY <2>1, <2>2, FirstItems
  <2> QED BY <2>3 DEF FirstOf
<1>5. /\ \A k \in 1 .. Len(u) : k + n + 1 \in 1 .. Len(q) /\ u[k] = q[k + n + 1]
      /\ \A k \in n + 2 .. Len(q) : k - n - 1 \in 1 .. Len(u) /\ u[k - n - 1] = q[k]
  BY <1>1, <1>2, LastItems
<1> HIDE DEF q, o, t, u
<1>20. n \in Nat /\ Len(q) \in Nat /\ n <= Len(q)
  <2>1. Len(q) \in Nat /\ n \in 0 .. Len(q)
    BY <1>2, <1>3
  <2> QED BY <2>1
<1>6. GoesOn(o, t)
  <2>1. Len(o) <= Len(t)
    BY <1>3, <1>4, <1>20
  <2>2. \A k \in 1 .. Len(t) : k \notin 1 .. Len(o) => k \in Len(o) + 1 .. Len(t)
    BY <1>3
  <2>3. \A k \in 1 .. Len(t) : k \notin 1 .. Len(o) => IsRaw(t[k])
    BY <1>4, <2>2
  <2> QED BY <1>3, <1>4, <2>1, <2>3, Zenon DEF GoesOn
<1>7. \A k \in 1 .. Len(t) : k \in 1 .. Len(o) \/ k \in Len(o) + 1 .. Len(t)
  BY <1>3
<1>8. RawsOf(g) \subseteq RawsOf(h)
  <2>1. ASSUME NEW x \in Raws(t) PROVE x \in Raws(o) \cup Raws(q)
    <3>1. PICK k \in 1 .. Len(t) : IsRaw(t[k]) /\ x = t[k].raw
      BY <1>3, RawsIn
    <3>2. CASE k \in 1 .. Len(o)
      BY <1>2, <1>4, <3>1, <3>2, RawsIn
    <3>3. CASE k \in Len(o) + 1 .. Len(t)
      <4>1. k - Len(o) \in 1 .. Len(q) /\ t[k] = q[k - Len(o)]
        BY <1>2, <1>3, <1>4, <3>3
      <4> QED BY <1>2, <3>1, <4>1, RawsIn
    <3> QED BY <1>7, <3>2, <3>3
  <2>2. ASSUME NEW x \in Raws(u) PROVE x \in Raws(q)
    <3>1. PICK k \in 1 .. Len(u) : IsRaw(u[k]) /\ x = u[k].raw
      BY <1>3, RawsIn
    <3> QED BY <1>2, <1>5, <3>1, RawsIn
  <2> QED BY <2>1, <2>2 DEF RawsOf, t, u, o, q
<1>9. ASSUME HostOrder(h) PROVE HostOrder(g)
  <2>1. Rising(o) /\ Rising(q) /\ Below(Raws(o), Raws(q))
    BY <1>9 DEF HostOrder, o, q
  <2>2. Rising(t)
    <3> SUFFICES ASSUME NEW i \in 1 .. Len(t), NEW k \in 1 .. Len(t), i < k, IsRaw(t[i]), IsRaw(t[k])
                 PROVE  t[i].raw < t[k].raw
      BY <1>3 DEF Rising
    <3>1. CASE k \in 1 .. Len(o)
      <4>1. i \in 1 .. Len(o)
        BY <1>3, <3>1
      <4> QED BY <1>3, <1>4, <2>1, <3>1, <4>1 DEF Rising
    <3>2. CASE k \in Len(o) + 1 .. Len(t) /\ i \in 1 .. Len(o)
      <4>1. k - Len(o) \in 1 .. Len(q) /\ t[k] = q[k - Len(o)] /\ t[i] = o[i]
        BY <1>2, <1>3, <1>4, <3>2
      <4>2. t[i].raw \in Raws(o) /\ t[k].raw \in Raws(q)
        BY <1>2, <3>2, <4>1, RawsIn
      <4> QED BY <2>1, <4>2 DEF Below
    <3>3. CASE k \in Len(o) + 1 .. Len(t) /\ i \in Len(o) + 1 .. Len(t)
      <4>1. k - Len(o) \in 1 .. Len(q) /\ t[k] = q[k - Len(o)] /\ i - Len(o) \in 1 .. Len(q) /\ t[i] = q[i - Len(o)] /\ i - Len(o) < k - Len(o)
        BY <1>2, <1>3, <1>4, <3>3
      <4> QED BY <1>3, <2>1, <4>1 DEF Rising
    <3> QED BY <1>7, <3>1, <3>2, <3>3
  <2>3. Rising(u)
    <3> SUFFICES ASSUME NEW i \in 1 .. Len(u), NEW k \in 1 .. Len(u), i < k, IsRaw(u[i]), IsRaw(u[k])
                 PROVE  u[i].raw < u[k].raw
      BY <1>3 DEF Rising
    <3>1. i + n + 1 \in 1 .. Len(q) /\ k + n + 1 \in 1 .. Len(q) /\ i + n + 1 < k + n + 1
      BY <1>2, <1>3, <1>5
    <3>2. u[i] = q[i + n + 1] /\ u[k] = q[k + n + 1]
      BY <1>5
    <3> QED BY <1>3, <2>1, <3>1, <3>2 DEF Rising
  <2>4. ASSUME NEW x \in Raws(t), NEW y \in Raws(u) PROVE x < y
    <3>1. PICK i \in 1 .. Len(t) : IsRaw(t[i]) /\ x = t[i].raw
      BY <1>3, RawsIn
    <3>2. PICK k \in 1 .. Len(u) : IsRaw(u[k]) /\ y = u[k].raw
      BY <1>3, RawsIn
    <3>3. k + n + 1 \in 1 .. Len(q) /\ u[k] = q[k + n + 1]
      BY <1>5
    <3>4. CASE i \in 1 .. Len(o)
      <4>1. x \in Raws(o) /\ y \in Raws(q)
        BY <1>2, <1>4, <3>1, <3>2, <3>3, <3>4, RawsIn
      <4> QED BY <2>1, <4>1 DEF Below
    <3>5. CASE i \in Len(o) + 1 .. Len(t)
      <4>1. i - Len(o) \in 1 .. n /\ t[i] = q[i - Len(o)]
        BY <1>4, <3>5
      <4>2. i - Len(o) \in 1 .. Len(q) /\ i - Len(o) < k + n + 1
        BY <1>2, <1>3, <4>1
      <4> QED BY <1>3, <2>1, <3>1, <3>2, <3>3, <4>1, <4>2 DEF Rising
    <3> QED BY <1>7, <3>4, <3>5
  <2> QED BY <2>2, <2>3, <2>4 DEF HostOrder, Below, t, u
<1>10. n < Len(q) => n + 1 \in 1 .. Len(q) /\ q[n + 1].modal \in Modals /\ q[n + 1].modal # None
  <2>1. n < Len(q) => n + 1 \in 1 .. Len(q)
    BY <1>2, <1>3
  <2> QED BY <1>2, <2>1, ElementOfSeq, ItemKinds, NoneAssumption
<1>11. g.job # None <=> n < Len(q)
  <2>1. n < Len(q) <=> n # Len(q)
    BY <1>20
  <2> QED BY <1>1, <1>10, <2>1
<1>12. \A j : j \in Waiting(h) <=> \E k \in 1 .. Len(q) : ~IsRaw(q[k]) /\ j = q[k].modal
  BY WaitingIn DEF q
<1>13. \A j : j \in Waiting(g) <=> \E k \in 1 .. Len(u) : ~IsRaw(u[k]) /\ j = u[k].modal
  BY <1>1, WaitingIn DEF u
<1>14. ASSUME NEW j PROVE j \in Waiting(h) <=> j \in ({g.job} \ {None}) \cup Waiting(g)
  <2>1. ASSUME j \in Waiting(h) PROVE j \in ({g.job} \ {None}) \cup Waiting(g)
    <3>1. PICK k \in 1 .. Len(q) : ~IsRaw(q[k]) /\ j = q[k].modal
      BY <1>12, <2>1
    <3>2. k \notin 1 .. n
      BY <3>1, <1>2 DEF RawsOnly
    <3>3. n < Len(q) /\ (k = n + 1 \/ k \in n + 2 .. Len(q))
      BY <1>2, <1>3, <3>2
    <3>4. CASE k = n + 1
      BY <1>1, <1>2, <1>3, <1>10, <3>1, <3>3, <3>4
    <3>5. CASE k \in n + 2 .. Len(q)
      <4>1. k - n - 1 \in 1 .. Len(u) /\ u[k - n - 1] = q[k]
        BY <1>5, <3>5
      <4> QED BY <1>13, <3>1, <4>1
    <3> QED BY <3>3, <3>4, <3>5
  <2>2. ASSUME j \in Waiting(g) PROVE j \in Waiting(h)
    <3>1. PICK k \in 1 .. Len(u) : ~IsRaw(u[k]) /\ j = u[k].modal
      BY <1>13, <2>2
    <3> QED BY <1>5, <1>12, <3>1
  <2>3. ASSUME j = g.job, j # None PROVE j \in Waiting(h)
    <3>1. n < Len(q)
      BY <1>11, <2>3
    <3>2. j = q[n + 1].modal
      BY <1>1, <1>2, <1>3, <2>3, <3>1
    <3> QED BY <1>2, <1>10, <1>12, <3>1, <3>2
  <2> QED BY <2>1, <2>2, <2>3
<1>15. ASSUME NoneTwice(q) PROVE NoneTwice(u) /\ g.job \notin Waiting(g)
  <2>1. NoneTwice(u)
    <3> SUFFICES ASSUME NEW i \in 1 .. Len(u), NEW k \in 1 .. Len(u), ~IsRaw(u[i]), ~IsRaw(u[k]), u[i].modal = u[k].modal
                 PROVE  i = k
      BY <1>3 DEF NoneTwice
    <3>1. /\ i + n + 1 \in 1 .. Len(q) /\ u[i] = q[i + n + 1]
          /\ k + n + 1 \in 1 .. Len(q) /\ u[k] = q[k + n + 1]
      BY <1>5
    <3>2. i + n + 1 = k + n + 1
      BY <1>3, <1>15, <3>1 DEF NoneTwice
    <3> QED BY <1>2, <3>2
  <2>2. ASSUME g.job \in Waiting(g) PROVE FALSE
    <3>1. PICK k \in 1 .. Len(u) : ~IsRaw(u[k]) /\ g.job = u[k].modal
      BY <1>13, <2>2
    <3>2. k + n + 1 \in 1 .. Len(q) /\ u[k] = q[k + n + 1]
      BY <1>5
    <3>3. n < Len(q) /\ n # Len(q) /\ n + 1 \in 1 .. Len(q) /\ k + n + 1 # n + 1
      BY <1>20, <3>2
    <3>4. g.job = q[n + 1].modal /\ ~IsRaw(q[n + 1])
      BY <1>1, <1>2, <3>3
    <3> QED BY <1>3, <1>15, <3>1, <3>2, <3>3, <3>4 DEF NoneTwice
  <2> QED BY <2>1, <2>2
<1>16. HostSound(g)
  <2>1. g.job = None => u = << >>
    <3>1. g.job = None => n = Len(q)
      BY <1>11, <1>20
    <3>2. n = Len(q) => Len(u) = 0
      BY <1>2, <1>3, <1>5
    <3> QED BY <1>3, <3>1, <3>2, EmptySeq
  <2> QED BY <1>1, <2>1 DEF HostSound, u
<1>17. ({g.job} \ {None}) \cup Waiting(g) = Waiting(h)
  BY <1>14
<1>18. g.job # None => g.stage = "flush"
  BY <1>1, <1>11
<1> QED BY <1>1, <1>6, <1>8, <1>9, <1>15, <1>16, <1>17, <1>18 DEF g, q, u, o, t

LEMMA AppendPart ==
  ASSUME NEW s \in Seq(Output), NEW i \in {1, 2}, NEW b \in Modals
  PROVE  LET t == Append(s, [part |-> i, of |-> b])
         IN  /\ t \in Seq(Output) /\ Raws(t) = Raws(s) /\ (Rising(s) => Rising(t))
             /\ Len(t) = Len(s) + 1 /\ (\A k \in 1 .. Len(s) : t[k] = s[k])
             /\ t[Len(s) + 1] = [part |-> i, of |-> b]
             /\ PartsIn(t, b) = PartsIn(s, b) \cup {Len(s) + 1}
             /\ \A j \in Modals : j # b => PartsIn(t, j) = PartsIn(s, j) /\ (Complete(s, j) => Complete(t, j))
<1> DEFINE x == [part |-> i, of |-> b]  t == Append(s, x)
<1>1. x \in Output /\ ~IsRaw(x) /\ x.of = b
  BY ItemKinds DEF Output
<1>2. /\ t \in Seq(Output) /\ Len(t) = Len(s) + 1 /\ \A k \in 1 .. Len(s) : t[k] = s[k]
      /\ t[Len(s) + 1] = x
  BY <1>1, AppendProperties
<1>3. Len(s) \in Nat /\ DOMAIN s = 1 .. Len(s)
  BY LenProperties
<1> HIDE DEF t, x
<1>4. DOMAIN t = 1 .. Len(t)
  BY <1>2, LenProperties
<1>5. \A k : k \in 1 .. Len(t) <=> k \in 1 .. Len(s) \/ k = Len(s) + 1
  BY <1>2, <1>3
<1>6. Raws(t) = Raws(s)
  <2>1. \A y : y \in Raws(t) <=> \E k \in 1 .. Len(t) : IsRaw(t[k]) /\ y = t[k].raw
    BY <1>2, RawsIn
  <2>2. \A y : y \in Raws(s) <=> \E k \in 1 .. Len(s) : IsRaw(s[k]) /\ y = s[k].raw
    BY RawsIn
  <2>3. ~IsRaw(t[Len(s) + 1]) /\ \A k \in 1 .. Len(s) : t[k] = s[k]
    BY <1>1, <1>2
  <2>4. \A y : y \in Raws(t) <=> y \in Raws(s)
    BY <1>5, <2>1, <2>2, <2>3
  <2> QED BY <2>4
<1>7. Rising(s) => Rising(t)
  <2> SUFFICES ASSUME Rising(s), NEW m \in DOMAIN t, NEW k \in DOMAIN t, m < k, IsRaw(t[m]), IsRaw(t[k])
               PROVE  t[m].raw < t[k].raw
    BY DEF Rising
  <2>1. m \in 1 .. Len(s) /\ k \in 1 .. Len(s)
    BY <1>1, <1>2, <1>4, <1>5
  <2>2. t[m] = s[m] /\ t[k] = s[k]
    BY <1>2, <2>1
  <2> QED BY <1>3, <2>1, <2>2 DEF Rising
<1>8. PartsIn(t, b) = PartsIn(s, b) \cup {Len(s) + 1}
  <2>1. \A k : k \in PartsIn(t, b) <=> k \in PartsIn(s, b) \/ k = Len(s) + 1
    BY <1>1, <1>2, <1>3, <1>4, <1>5, Zenon DEF PartsIn
  <2> QED BY <2>1
<1>9. ASSUME NEW j \in Modals, j # b PROVE PartsIn(t, j) = PartsIn(s, j) /\ (Complete(s, j) => Complete(t, j))
  <2>1. \A k : k \in PartsIn(t, j) <=> k \in PartsIn(s, j)
    BY <1>1, <1>2, <1>3, <1>4, <1>5, <1>9, Zenon DEF PartsIn
  <2>2. PartsIn(t, j) = PartsIn(s, j)
    BY <2>1
  <2>3. ASSUME Complete(s, j) PROVE Complete(t, j)
    <3>1. PICK k \in DOMAIN s :
          /\ s[k] = [part |-> 1, of |-> j]
          /\ IF Parts(j) = 1 THEN PartsIn(s, j) = {k}
             ELSE k + 1 \in DOMAIN s /\ PartsIn(s, j) = {k, k + 1} /\ s[k + 1] = [part |-> 2, of |-> j]
      BY <2>3, Zenon DEF Complete
    <3>2. k \in DOMAIN t /\ t[k] = s[k]
      BY <1>2, <1>3, <1>4, <1>5, Zenon
    <3>3. k + 1 \in DOMAIN s => k + 1 \in DOMAIN t /\ t[k + 1] = s[k + 1]
      BY <1>2, <1>3, <1>4, <1>5, Zenon
    <3> QED BY <2>2, <3>1, <3>2, <3>3, Zenon DEF Complete
  <2> QED BY <2>2, <2>3
<1> QED BY <1>2, <1>6, <1>7, <1>8, <1>9 DEF t, x

\* A terminal looks at the results of its own modal inputs only.
LEMMA ResultsElsewhere ==
  ASSUME NEW h \in Host, NEW r, NEW result, HostModals(h, r), \A j \in JobsOf(h) : result[j] = r[j]
  PROVE  HostModals(h, result)
<1>1. h.job # None => result[h.job] = r[h.job]
  BY DEF JobsOf
<1>2. \A j \in Waiting(h) : result[j] = r[j]
  BY DEF JobsOf
<1>3. \A j \in Modals : PartsIn(h.out, j) # {} => result[j] = r[j]
  BY DEF JobsOf
<1> QED BY <1>1, <1>2, <1>3, Zenon DEF HostModals

\* What is known of a terminal whose job has just come to an end.
Finished(h, r, result) ==
  /\ h.open /\ h.job # None /\ h.job \notin Waiting(h)
  /\ \/ PartsIn(h.out, h.job) = {} /\ result = "refused"
     \/ Complete(h.out, h.job) /\ result = "done"
  /\ \A j \in Waiting(h) : r[j] = "pending" /\ PartsIn(h.out, j) = {}
  /\ NoneTwice(h.queue)
  /\ \A j \in Modals : PartsIn(h.out, j) # {} /\ j # h.job => Complete(h.out, j) /\ r[j] = "done"

LEMMA DrainModals ==
  ASSUME NEW h \in Host, NEW r \in [Modals -> {"none", "pending", "done", "refused"}],
         NEW result \in {"done", "refused"}, Finished(h, r, result),
         NEW e, e[h.job] = result, \A j \in Modals : j # h.job => e[j] = r[j]
  PROVE  LET g == DrainQueue(h, None)
         IN  /\ HostModals(g, e) /\ JobsOf(g) \subseteq JobsOf(h) /\ \A j \in JobsOf(g) : e[j] # "none"
<1> DEFINE g == DrainQueue(h, None)
<1>1. /\ h.open /\ h.job # None /\ h.job \notin Waiting(h)
      /\ \/ PartsIn(h.out, h.job) = {} /\ result = "refused"
         \/ Complete(h.out, h.job) /\ result = "done"
      /\ \A j \in Waiting(h) : r[j] = "pending" /\ PartsIn(h.out, j) = {}
      /\ NoneTwice(h.queue)
      /\ \A j \in Modals : PartsIn(h.out, j) # {} /\ j # h.job => Complete(h.out, j) /\ r[j] = "done"
  BY Zenon DEF Finished
<1>2. /\ g \in Host /\ HostSound(g) /\ g.open
      /\ g.job # None => g.stage = "flush"
      /\ GoesOn(h.out, g.out)
      /\ ({g.job} \ {None}) \cup Waiting(g) = Waiting(h)
      /\ NoneTwice(g.queue) /\ g.job \notin Waiting(g)
  BY <1>1, DrainHost
<1> HIDE DEF g
<1>3. \A j \in Modals : PartsIn(g.out, j) = PartsIn(h.out, j) /\ (Complete(h.out, j) => Complete(g.out, j))
  BY <1>2, HostFields, GoingOn
<1>4. h.job \in Modals /\ h.job \notin Waiting(h) /\ Waiting(h) \subseteq Modals /\ Waiting(g) \subseteq Waiting(h)
      /\ (g.job # None => g.job \in Waiting(h))
  <2>1. Waiting(h) \subseteq Modals
    <3>1. \A k \in 1 .. Len(h.queue) : h.queue[k] \in Item
      BY HostFields, ElementOfSeq
    <3> QED BY <3>1, WaitingIn, ItemKinds
  <2> QED BY <1>1, <1>2, <2>1, HostFields
<1>5. e[h.job] = result /\ \A j \in Modals : j # h.job => e[j] = r[j]
  OBVIOUS
<1>6. \A j \in Waiting(h) : e[j] = "pending" /\ PartsIn(g.out, j) = {}
  BY <1>1, <1>3, <1>4, <1>5
<1>7. \A j \in Modals : PartsIn(g.out, j) # {} => Complete(g.out, j) /\ e[j] = "done"
  BY <1>1, <1>3, <1>5
<1>8. HostModals(g, e)
  <2>1. g.job # None =>
       /\ e[g.job] = "pending" /\ g.job \notin Waiting(g)
       /\ IF g.stage = "delay" THEN HalfWritten(g.out, g.job) /\ Parts(g.job) = 2
                               ELSE PartsIn(g.out, g.job) = {}
    BY <1>2, <1>4, <1>6
  <2>2. \A j \in Waiting(g) : e[j] = "pending" /\ PartsIn(g.out, j) = {}
    BY <1>4, <1>6
  <2> QED BY <1>2, <1>7, <2>1, <2>2, Zenon DEF HostModals
<1>9. JobsOf(g) \subseteq JobsOf(h)
  BY <1>3, <1>4 DEF JobsOf
<1>10. \A j \in JobsOf(g) : e[j] # "none"
  BY <1>4, <1>6, <1>7 DEF JobsOf
<1> QED BY <1>8, <1>9, <1>10 DEF g

LEMMA JobsTyped == ASSUME NEW h \in Host PROVE JobsOf(h) \subseteq Modals
<1>1. \A k \in 1 .. Len(h.queue) : h.queue[k] \in Item
  BY HostFields, ElementOfSeq
<1>2. Waiting(h) \subseteq Modals
  BY <1>1, WaitingIn, ItemKinds
<1> QED BY <1>2, HostFields DEF JobsOf

LEMMA GateFields ==
  ASSUME NEW g \in Gate
  PROVE  /\ g.holds \in Seq(HoldRecord) /\ g.net \in Seq(Frame)
         /\ DOMAIN g.holds = 1 .. Len(g.holds) /\ DOMAIN g.net = 1 .. Len(g.net)
         /\ Len(g.holds) \in Nat /\ Len(g.net) \in Nat
         /\ \A i \in DOMAIN g.holds :
              /\ g.holds[i] \in HoldRecord /\ g.holds[i].id \in Holds
              /\ g.holds[i].target \in Panes \cup {Undecided, Nowhere}
              /\ g.holds[i].sources \in SUBSET Panes /\ g.holds[i].chunks \in Seq(Nat)
         /\ \A i \in DOMAIN g.net : g.net[i] \in Frame /\ g.net[i].to \in Panes /\ g.net[i].chunk \in Nat
<1>1. g.holds \in Seq(HoldRecord) /\ g.net \in Seq(Frame)
  BY DEF Gate
<1>2. /\ DOMAIN g.holds = 1 .. Len(g.holds) /\ DOMAIN g.net = 1 .. Len(g.net)
      /\ Len(g.holds) \in Nat /\ Len(g.net) \in Nat
  BY <1>1, LenProperties
<1>3. (\A i \in DOMAIN g.holds : g.holds[i] \in HoldRecord) /\ \A i \in DOMAIN g.net : g.net[i] \in Frame
  BY <1>1, <1>2, ElementOfSeq
<1>4. \A x \in HoldRecord : /\ x.id \in Holds /\ x.target \in Panes \cup {Undecided, Nowhere}
                            /\ x.sources \in SUBSET Panes /\ x.chunks \in Seq(Nat)
  BY DEF HoldRecord
<1>5. \A x \in Frame : x.to \in Panes /\ x.chunk \in Nat
  BY DEF Frame
<1> QED BY <1>1, <1>2, <1>3, <1>4, <1>5

\* What is on the way to each pane gets less, and the holds stay.
LEMMA LessFresh ==
  ASSUME NEW g, NEW t, NEW src, NEW req, NEW fr, NEW hs, NEW hs2, FreshInv(g, src, req, fr, hs),
         t.holds = g.holds, \A p \in Panes : Sent(hs2, t, p) \subseteq Sent(hs, g, p),
         \A i \in DOMAIN g.holds : req[g.holds[i].id] = "opened" => fr[g.holds[i].id] \in Panes
  PROVE  FreshInv(t, src, req, fr, hs2)
<1> SUFFICES ASSUME NEW i \in DOMAIN g.holds, g.holds[i].target = Undecided, req[g.holds[i].id] = "opened"
             PROVE  /\ Sent(hs2, t, fr[g.holds[i].id]) = {}
                    /\ \A k \in DOMAIN g.holds : ~Reaches(src, g.holds[k], fr[g.holds[i].id])
  BY Zenon DEF FreshInv
<1>1. /\ Sent(hs, g, fr[g.holds[i].id]) = {}
      /\ \A k \in DOMAIN g.holds : ~Reaches(src, g.holds[k], fr[g.holds[i].id])
  BY Zenon DEF FreshInv
<1>2. fr[g.holds[i].id] \in Panes
  OBVIOUS
<1> QED BY <1>1, <1>2

LEMMA LessOrder ==
  ASSUME NEW g, NEW t, NEW src, NEW tn, NEW hs, NEW hs2, HoldsOrder(g, src, tn, hs),
         t.holds = g.holds, \A p \in Panes : Sent(hs2, t, p) \subseteq Sent(hs, g, p)
  PROVE  HoldsOrder(t, src, tn, hs2)
<1>1. ASSUME NEW i \in DOMAIN t.holds, NEW p \in Panes, Reaches(src, t.holds[i], p)
      PROVE  Below(Sent(hs2, t, p), Own(tn, t.holds[i]))
  <2>1. Below(Sent(hs, g, p), Own(tn, t.holds[i]))
    BY <1>1, Zenon DEF HoldsOrder
  <2> QED BY <2>1, Zenon DEF Below
<1> QED BY <1>1, Zenon DEF HoldsOrder

LEMMA LessOnTheWay ==
  ASSUME NEW src, NEW tn, NEW req, NEW fr, NEW bn \in SUBSET Panes, NEW now, NEW hs, NEW hs2, NEW calm,
         NEW g, GateInv(g, src, tn, req, fr, hs, bn, now, calm), RequestRules(req, src, tn, fr, bn, now),
         NEW t \in Gate, t.holds = g.holds, Range(t.net) \subseteq Range(g.net),
         calm => (\A p \in Panes : Sent(hs2, t, p) \subseteq Sent(hs, g, p)) /\ NetOrder(t, hs2)
  PROVE  GateInv(t, src, tn, req, fr, hs2, bn, now, calm)
<1>1. g \in Gate /\ GateNames(g, src, bn, now) /\ Asked(g, req) /\ (calm => Orderly(g, src, tn, req, fr, hs))
  BY Zenon DEF GateInv
<1>2. GateNames(t, src, bn, now)
  <2>1. \A i \in DOMAIN t.net : t.net[i].to \in bn /\ t.net[i].chunk <= now
    <3>1. \A x \in Range(g.net) : x.to \in bn /\ x.chunk <= now
      BY <1>1, Zenon DEF GateNames, Range
    <3>2. \A i \in DOMAIN t.net : t.net[i] \in Range(t.net)
      BY Zenon DEF Range
    <3> QED BY <3>1, <3>2
  <2> QED BY <1>1, <2>1, Zenon DEF GateNames
<1>3. Asked(t, req)
  BY <1>1, Zenon DEF Asked
<1>4. ASSUME calm PROVE Orderly(t, src, tn, req, fr, hs2)
  <2>1. GateShape(g, src) /\ FreshInv(g, src, req, fr, hs) /\ HoldsOrder(g, src, tn, hs)
    BY <1>1, <1>4, Zenon DEF Orderly, GateOrder
  <2>2. \A i \in DOMAIN g.holds : req[g.holds[i].id] = "opened" => fr[g.holds[i].id] \in Panes
    <3>1. \A h \in Holds : req[h] = "opened" => fr[h] \in Panes
      BY DEF RequestRules
    <3> QED BY <1>1, <3>1, GateFields
  <2>3. FreshInv(t, src, req, fr, hs2)
    BY <1>4, <2>1, <2>2, LessFresh, Zenon
  <2>4. HoldsOrder(t, src, tn, hs2)
    BY <1>4, <2>1, LessOrder, Zenon
  <2>5. GateShape(t, src)
    BY <2>1, Zenon DEF GateShape
  <2> QED BY <1>4, <2>3, <2>4, <2>5, Zenon DEF Orderly, GateOrder
<1> QED BY <1>2, <1>3, <1>4, Zenon DEF GateInv

\* The terminal h goes on as g, to which nothing was typed; J are modal inputs that are new,
\* and the results were r and become e.
Follows(h, g, J, r, e) ==
  /\ g \in Host /\ HostSound(g) /\ e \in [Modals -> {"none", "pending", "done", "refused"}]
  /\ RawsOf(g) \subseteq RawsOf(h) /\ (HostOrder(h) => HostOrder(g))
  /\ HostModals(g, e) /\ JobsOf(g) \subseteq JobsOf(h) \cup J
  /\ \A j \in J : r[j] = "none"
  /\ \A j \in JobsOf(g) : e[j] # "none"
  /\ \A j \in Modals : j \notin JobsOf(h) \cup J => e[j] = r[j]

LEMMA TerminalStep ==
  ASSUME InputIInv, NEW p \in Panes, NEW g, NEW J \in SUBSET Modals, Follows(host[p], g, J, outcome, outcome'),
         host' = [host EXCEPT ![p] = g], menu' = menu, clientVars' = clientVars, refusals' \in Nat, p \in born
  PROVE  InputIInv'
<1>0. /\ g \in Host /\ HostSound(g) /\ outcome' \in [Modals -> {"none", "pending", "done", "refused"}]
      /\ RawsOf(g) \subseteq RawsOf(host[p]) /\ (HostOrder(host[p]) => HostOrder(g))
      /\ HostModals(g, outcome') /\ JobsOf(g) \subseteq JobsOf(host[p]) \cup J
      /\ \A j \in J : outcome[j] = "none"
      /\ \A j \in JobsOf(g) : outcome'[j] # "none"
      /\ \A j \in Modals : j \notin JobsOf(host[p]) \cup J => outcome'[j] = outcome[j]
  BY Zenon DEF Follows
<1>1. /\ gate' = gate /\ request' = request /\ source' = source /\ turnOf' = turnOf /\ fresh' = fresh
      /\ born' = born /\ turns' = turns /\ jumped' = jumped
  BY DEF clientVars
<1>2. /\ InputTypeOK /\ HostsInv(host, born)
      /\ GateInv(gate, source, turnOf, request, fresh, host, born, turns, ~jumped)
      /\ RequestRules(request, source, turnOf, fresh, born, turns) /\ Past(host, turns)
      /\ (~jumped => \A q \in Panes : HostOrder(host[q])) /\ ModalsInv
  BY Zenon DEF InputIInv
<1>3. host \in [Panes -> Host] /\ gate \in Gate /\ born \in SUBSET Panes
  BY <1>2 DEF InputTypeOK
<1>4. host' \in [Panes -> Host] /\ host'[p] = g /\ \A q \in Panes : q # p => host'[q] = host[q]
  BY <1>0, <1>3
<1>5. InputTypeOK'
  BY <1>0, <1>1, <1>2, <1>4 DEF InputTypeOK
<1>6. HostsInv(host', born')
  BY <1>0, <1>1, <1>2, <1>4, Zenon DEF HostsInv
<1>8. \A q \in Panes : RawsOf(host'[q]) \subseteq RawsOf(host[q]) /\ (HostOrder(host[q]) => HostOrder(host'[q]))
  BY <1>0, <1>4
<1>9. Past(host', turns)
  BY <1>2, <1>8, Zenon DEF Past
<1>10. GateInv(gate, source, turnOf, request, fresh, host', born, turns, ~jumped)
  <2>1. \A q \in Panes : Sent(host', gate, q) \subseteq Sent(host, gate, q)
    BY <1>8 DEF Sent
  <2>2. ASSUME ~jumped PROVE NetOrder(gate, host')
    <3>1. NetOrder(gate, host)
      BY <1>2, <2>2, Zenon DEF GateInv, Orderly, GateOrder
    <3>2. \A q \in Panes : Below(RawsOf(host[q]), SentTo(gate, q))
      BY <3>1, Zenon DEF NetOrder
    <3>3. \A q \in Panes : Below(RawsOf(host'[q]), SentTo(gate, q))
      BY <1>8, <3>2, Zenon DEF Below
    <3> QED BY <3>1, <3>3, Zenon DEF NetOrder
  <2>3. Range(gate.net) \subseteq Range(gate.net)
    OBVIOUS
  <2> QED BY <1>2, <1>3, <2>1, <2>2, <2>3, LessOnTheWay, Zenon
<1>11. ModalsInv'
  <2>1. \A q \in Panes : JobsOf(host[q]) \subseteq Modals
    BY <1>3, JobsTyped
  <2>2. ASSUME NEW q \in Panes, q # p PROVE JobsOf(host[q]) \cap (JobsOf(host[p]) \cup J) = {}
    <3>1. JobsOf(host[q]) \cap JobsOf(host[p]) = {}
      BY <1>2, <2>2 DEF ModalsInv
    <3>2. \A j \in JobsOf(host[q]) : outcome[j] # "none"
      BY <1>2 DEF ModalsInv
    <3> QED BY <1>0, <3>1, <3>2
  <2>3. ASSUME NEW q \in Panes, q # p
        PROVE  (\A j \in JobsOf(host'[q]) : outcome'[j] # "none") /\ HostModals(host'[q], outcome')
    <3>1. \A j \in JobsOf(host[q]) : outcome'[j] = outcome[j]
      BY <1>0, <2>1, <2>2, <2>3
    <3>2. (\A j \in JobsOf(host[q]) : outcome[j] # "none") /\ HostModals(host[q], outcome)
      BY <1>2 DEF ModalsInv
    <3>3. HostModals(host[q], outcome')
      BY <1>3, <3>1, <3>2, ResultsElsewhere
    <3> QED BY <1>4, <2>3, <3>1, <3>2, <3>3
  <2>4. ASSUME NEW q \in Panes, NEW r \in Panes, q # r PROVE JobsOf(host'[q]) \cap JobsOf(host'[r]) = {}
    <3>1. CASE q = p
      BY <1>0, <1>4, <2>2, <2>4, <3>1
    <3>2. CASE r = p
      BY <1>0, <1>4, <2>2, <2>4, <3>2
    <3>3. CASE q # p /\ r # p
      BY <1>2, <1>4, <2>4, <3>3 DEF ModalsInv
    <3> QED BY <3>1, <3>2, <3>3
  <2>5. (\A j \in JobsOf(host'[p]) : outcome'[j] # "none") /\ HostModals(host'[p], outcome')
    BY <1>0, <1>4
  <2> QED BY <2>3, <2>4, <2>5, Zenon DEF ModalsInv
<1> QED BY <1>1, <1>2, <1>5, <1>6, <1>8, <1>9, <1>10, <1>11, Zenon DEF InputIInv

LEMMA PartsEmpty ==
  ASSUME NEW h \in Host, NEW j \in Modals, j \notin JobsOf(h)
  PROVE  j # h.job /\ j \notin Waiting(h) /\ PartsIn(h.out, j) = {}
  BY NoneAssumption DEF JobsOf

LEMMA CallWriteModalStep ==
  ASSUME InputIInv, NEW p \in Panes, NEW j \in Modals, CallWriteModal(p, j)
  PROVE  InputIInv'
<1> DEFINE h == host[p]  g == WriteModal(h, j, None)  e == [outcome EXCEPT ![j] = "pending"]
<1>1. /\ p \in born /\ h.open /\ outcome[j] = "none" /\ outcome' = e /\ host' = [host EXCEPT ![p] = g]
      /\ menu' = menu /\ UNCHANGED clientVars /\ refusals' = refusals
  BY DEF CallWriteModal
<1>2. /\ host \in [Panes -> Host] /\ outcome \in [Modals -> {"none", "pending", "done", "refused"}]
      /\ refusals \in Nat /\ HostSound(h) /\ HostModals(h, outcome) /\ j # None
      /\ \A k \in JobsOf(h) : outcome[k] # "none"
  BY NoneAssumption DEF InputIInv, InputTypeOK, HostsInv, ModalsInv
<1>3. h \in Host
  BY <1>2
<1>4. j \notin JobsOf(h) /\ j # h.job /\ j \notin Waiting(h) /\ PartsIn(h.out, j) = {}
  <2>1. j \notin JobsOf(h)
    BY <1>1, <1>2
  <2> HIDE DEF h
  <2> QED BY <1>3, <2>1, PartsEmpty
<1>5. e \in [Modals -> {"none", "pending", "done", "refused"}] /\ e[j] = "pending" /\ \A k \in Modals : k # j => e[k] = outcome[k]
  BY <1>2
<1>6. \A k \in JobsOf(h) : e[k] = outcome[k]
  BY <1>3, <1>4, <1>5, JobsTyped
<1>7. HostModals(h, e)
  BY <1>2, <1>3, <1>6, ResultsElsewhere
<1> HIDE DEF h, e
<1>8. /\ g \in Host /\ HostSound(g) /\ RawsOf(g) = RawsOf(h) /\ (HostOrder(h) => HostOrder(g))
      /\ HostModals(g, e) /\ JobsOf(g) \subseteq JobsOf(h) \cup {j}
  <2>1. CASE h.job = None
    <3>1. g = [h EXCEPT !.job = j, !.stage = "flush"]
      BY <2>1, Zenon DEF WriteModal, Busy, RunModal
    <3>2. h.queue = << >> /\ h.open
      BY <1>1, <1>2, <2>1 DEF HostSound
    <3> HIDE DEF g
    <3>3. /\ g \in Host /\ g.job = j /\ g.stage = "flush" /\ g.queue = h.queue /\ g.out = h.out /\ g.open = h.open
      BY <1>3, <3>1 DEF Host
    <3>4. Waiting(g) = {} /\ Waiting(h) = {}
      BY <3>2, <3>3 DEF Waiting
    <3>5. HostSound(g) /\ RawsOf(g) = RawsOf(h) /\ (HostOrder(h) => HostOrder(g))
      BY <1>2, <3>2, <3>3 DEF HostSound, RawsOf, HostOrder
    <3>6. JobsOf(g) \subseteq JobsOf(h) \cup {j}
      BY <3>3, <3>4 DEF JobsOf
    <3>7. HostModals(g, e)
      <4>1. NoneTwice(h.queue)
        BY <1>7 DEF HostModals
      <4>2. \A k \in Modals : PartsIn(h.out, k) # {} /\ k # h.job =>
              \/ Complete(h.out, k) /\ e[k] = "done"
              \/ ~h.open /\ HalfWritten(h.out, k) /\ Parts(k) = 2 /\ e[k] = "refused"
        BY <1>7, Zenon DEF HostModals
      <4>3. \A k \in Modals : k # h.job
        BY <2>1, NoneAssumption
      <4> QED BY <1>4, <1>5, <3>3, <3>4, <4>1, <4>2, <4>3 DEF HostModals
    <3> QED BY <3>3, <3>5, <3>6, <3>7
  <2>2. CASE h.job # None
    <3> DEFINE q == Append(h.queue, [modal |-> j])
    <3>1. g = [h EXCEPT !.queue = q]
      BY <2>2, Zenon DEF WriteModal, Busy
    <3>2. [modal |-> j] \in Item /\ h.queue \in Seq(Item) /\ ~IsRaw([modal |-> j]) /\ [modal |-> j].modal = j
      BY <1>3, HostFields, ItemKinds DEF Item
    <3>3. /\ q \in Seq(Item) /\ Len(q) = Len(h.queue) + 1 /\ (\A k \in 1 .. Len(h.queue) : q[k] = h.queue[k])
          /\ q[Len(h.queue) + 1] = [modal |-> j]
      BY <3>2, AppendProperties
    <3> HIDE DEF q
    <3>4. /\ DOMAIN q = 1 .. Len(q) /\ DOMAIN h.queue = 1 .. Len(h.queue) /\ Len(h.queue) \in Nat
      BY <3>2, <3>3, LenProperties
    <3>5. \A k : k \in 1 .. Len(q) <=> k \in 1 .. Len(h.queue) \/ k = Len(h.queue) + 1
      <4>1. Len(h.queue) \in Nat /\ Len(q) = Len(h.queue) + 1
        BY <3>3, <3>4
      <4> QED BY <4>1
    <3> HIDE DEF g
    <3>6. /\ g \in Host /\ g.job = h.job /\ g.stage = h.stage /\ g.queue = q /\ g.out = h.out /\ g.open = h.open
      BY <1>3, <3>1, <3>3 DEF Host
    <3>7. Raws(q) = Raws(h.queue)
      <4>1. \A y : y \in Raws(q) <=> \E k \in 1 .. Len(q) : IsRaw(q[k]) /\ y = q[k].raw
        BY <3>3, RawsIn
      <4>2. \A y : y \in Raws(h.queue) <=> \E k \in 1 .. Len(h.queue) : IsRaw(h.queue[k]) /\ y = h.queue[k].raw
        BY <3>2, RawsIn
      <4>3. ~IsRaw(q[Len(h.queue) + 1]) /\ \A k \in 1 .. Len(h.queue) : q[k] = h.queue[k]
        BY <3>2, <3>3
      <4>4. ASSUME NEW y \in Raws(q) PROVE y \in Raws(h.queue)
        <5>1. PICK k \in 1 .. Len(q) : IsRaw(q[k]) /\ y = q[k].raw
          BY <4>1
        <5>2. k \in 1 .. Len(h.queue)
          BY <3>5, <4>3, <5>1
        <5> QED BY <4>2, <4>3, <5>1, <5>2
      <4>5. ASSUME NEW y \in Raws(h.queue) PROVE y \in Raws(q)
        <5>1. PICK k \in 1 .. Len(h.queue) : IsRaw(h.queue[k]) /\ y = h.queue[k].raw
          BY <4>2
        <5> QED BY <3>5, <4>1, <4>3, <5>1
      <4> QED BY <4>4, <4>5
    <3>8. \A k : k \in Waiting(g) <=> k \in Waiting(h) \/ k = j
      <4>1. \A k : k \in Waiting(g) <=> \E m \in 1 .. Len(q) : ~IsRaw(q[m]) /\ k = q[m].modal
        BY <3>6, WaitingIn
      <4>2. \A k : k \in Waiting(h) <=> \E m \in 1 .. Len(h.queue) : ~IsRaw(h.queue[m]) /\ k = h.queue[m].modal
        BY <1>3, WaitingIn
      <4>3. ~IsRaw(q[Len(h.queue) + 1]) /\ q[Len(h.queue) + 1].modal = j /\ \A k \in 1 .. Len(h.queue) : q[k] = h.queue[k]
        BY <3>2, <3>3
      <4>4. ASSUME NEW k, k \in Waiting(g) PROVE k \in Waiting(h) \/ k = j
        <5>1. PICK m \in 1 .. Len(q) : ~IsRaw(q[m]) /\ k = q[m].modal
          BY <4>1, <4>4
        <5>2. m \in 1 .. Len(h.queue) \/ m = Len(h.queue) + 1
          BY <3>5
        <5> QED BY <4>2, <4>3, <5>1, <5>2
      <4>5. ASSUME NEW k, k \in Waiting(h) \/ k = j PROVE k \in Waiting(g)
        <5>1. \A m : m \in 1 .. Len(h.queue) => m \in 1 .. Len(q)
          BY <3>5
        <5>2. Len(h.queue) + 1 \in 1 .. Len(q)
          BY <3>5
        <5> QED BY <4>1, <4>2, <4>3, <4>5, <5>1, <5>2
      <4> QED BY <4>4, <4>5
    <3>9. Rising(h.queue) => Rising(q)
      <4> SUFFICES ASSUME Rising(h.queue), NEW m \in DOMAIN q, NEW k \in DOMAIN q, m < k, IsRaw(q[m]), IsRaw(q[k])
                   PROVE  q[m].raw < q[k].raw
        BY Zenon DEF Rising
      <4>1. m \in 1 .. Len(h.queue) /\ k \in 1 .. Len(h.queue)
        BY <3>2, <3>3, <3>4, <3>5
      <4>2. q[m] = h.queue[m] /\ q[k] = h.queue[k]
        BY <3>3, <4>1
      <4> QED BY <3>4, <4>1, <4>2 DEF Rising
    <3>10. NoneTwice(q)
      <4>1. NoneTwice(h.queue)
        BY <1>7, Zenon DEF HostModals
      <4> SUFFICES ASSUME NEW m \in DOMAIN q, NEW k \in DOMAIN q, ~IsRaw(q[m]), ~IsRaw(q[k]), q[m].modal = q[k].modal
                   PROVE  m = k
        BY Zenon DEF NoneTwice
      <4>2. \A n \in 1 .. Len(h.queue) : ~IsRaw(h.queue[n]) => h.queue[n].modal # j
        BY <1>3, <1>4, WaitingIn
      <4>3. q[Len(h.queue) + 1].modal = j
        BY <3>2, <3>3
      <4>4. \A n \in 1 .. Len(h.queue) : q[n] = h.queue[n]
        BY <3>3
      <4>5. CASE m \in 1 .. Len(h.queue) /\ k \in 1 .. Len(h.queue)
        BY <3>4, <4>1, <4>4, <4>5 DEF NoneTwice
      <4>6. CASE m = Len(h.queue) + 1 /\ k \in 1 .. Len(h.queue)
        BY <4>2, <4>3, <4>4, <4>6
      <4>7. CASE k = Len(h.queue) + 1 /\ m \in 1 .. Len(h.queue)
        BY <4>2, <4>3, <4>4, <4>7
      <4> QED BY <3>4, <3>5, <4>5, <4>6, <4>7, Zenon
    <3>11. HostSound(g) /\ RawsOf(g) = RawsOf(h) /\ (HostOrder(h) => HostOrder(g))
      BY <1>2, <2>2, <3>6, <3>7, <3>9 DEF HostSound, RawsOf, HostOrder
    <3>12. JobsOf(g) \subseteq JobsOf(h) \cup {j}
      BY <3>6, <3>8 DEF JobsOf
    <3>13. HostModals(g, e)
      <4>1. h.job # None =>
               /\ e[h.job] = "pending" /\ h.job \notin Waiting(h)
               /\ IF h.stage = "delay" THEN HalfWritten(h.out, h.job) /\ Parts(h.job) = 2
                                       ELSE PartsIn(h.out, h.job) = {}
        BY <1>7, Zenon DEF HostModals
      <4>2. \A k \in Waiting(h) : e[k] = "pending" /\ PartsIn(h.out, k) = {}
        BY <1>7, Zenon DEF HostModals
      <4>3. \A k \in Modals : PartsIn(h.out, k) # {} /\ k # h.job =>
               \/ Complete(h.out, k) /\ e[k] = "done"
               \/ ~h.open /\ HalfWritten(h.out, k) /\ Parts(k) = 2 /\ e[k] = "refused"
        BY <1>7, Zenon DEF HostModals
      <4>4. \A k \in Waiting(g) : e[k] = "pending" /\ PartsIn(h.out, k) = {}
        BY <1>4, <1>5, <3>8, <4>2, Zenon
      <4>5. h.job \notin Waiting(g)
        BY <1>4, <2>2, <3>8, <4>1
      <4> QED BY <2>2, <3>6, <3>10, <4>1, <4>3, <4>4, <4>5, Zenon DEF HostModals
    <3> QED BY <3>6, <3>11, <3>12, <3>13
  <2> QED BY <2>1, <2>2
<1>9. \A k \in JobsOf(g) : e[k] # "none"
  BY <1>2, <1>5, <1>6, <1>8
<1>10. \A k \in Modals : k \notin JobsOf(h) \cup {j} => e[k] = outcome[k]
  BY <1>5
<1>11. \A k \in {j} : outcome[k] = "none"
  BY <1>1
<1> HIDE DEF g
<1>12. Follows(h, g, {j}, outcome, e)
  BY <1>5, <1>8, <1>9, <1>10, <1>11, Zenon DEF Follows
<1>13. host' = [host EXCEPT ![p] = g] /\ outcome' = e /\ refusals' \in Nat /\ {j} \in SUBSET Modals
  BY <1>1, <1>2
<1>14. Follows(host[p], g, {j}, outcome, outcome')
  BY <1>12, <1>13 DEF h
<1> QED BY <1>1, <1>13, <1>14, TerminalStep, Zenon

\* A part of the modal input at work is written.
LEMMA WritePartHost ==
  ASSUME NEW h \in Host, HostSound(h), h.job # None, NEW i \in {1, 2}
  PROVE  LET k == WritePart(h, i)
         IN  /\ k \in Host /\ HostSound(k) /\ k.job = h.job /\ k.stage = h.stage /\ k.open = h.open /\ k.queue = h.queue
             /\ Waiting(k) = Waiting(h) /\ RawsOf(k) = RawsOf(h) /\ (HostOrder(h) => HostOrder(k))
             /\ JobsOf(k) \subseteq JobsOf(h) /\ h.job \in Modals
             /\ Len(k.out) = Len(h.out) + 1 /\ (\A m \in 1 .. Len(h.out) : k.out[m] = h.out[m])
             /\ k.out[Len(h.out) + 1] = [part |-> i, of |-> h.job]
             /\ PartsIn(k.out, h.job) = PartsIn(h.out, h.job) \cup {Len(h.out) + 1}
             /\ \A j \in Modals : j # h.job =>
                  PartsIn(k.out, j) = PartsIn(h.out, j) /\ (Complete(h.out, j) => Complete(k.out, j))
<1> DEFINE k == WritePart(h, i)  s == h.out  b == h.job  o == Append(s, [part |-> i, of |-> b])
<1>1. h.job \in Modals /\ h.out \in Seq(Output)
  BY HostFields
<1>2. /\ o \in Seq(Output) /\ Raws(o) = Raws(h.out) /\ (Rising(h.out) => Rising(o))
      /\ Len(o) = Len(h.out) + 1 /\ (\A m \in 1 .. Len(h.out) : o[m] = h.out[m])
      /\ o[Len(h.out) + 1] = [part |-> i, of |-> h.job]
      /\ PartsIn(o, h.job) = PartsIn(h.out, h.job) \cup {Len(h.out) + 1}
      /\ \A j \in Modals : j # h.job =>
           PartsIn(o, j) = PartsIn(h.out, j) /\ (Complete(h.out, j) => Complete(o, j))
  <2>1. b \in Modals /\ s \in Seq(Output)
    BY <1>1
  <2> HIDE DEF s, b
  <2>2. /\ o \in Seq(Output) /\ Raws(o) = Raws(s) /\ (Rising(s) => Rising(o))
        /\ Len(o) = Len(s) + 1 /\ (\A m \in 1 .. Len(s) : o[m] = s[m])
        /\ o[Len(s) + 1] = [part |-> i, of |-> b]
        /\ PartsIn(o, b) = PartsIn(s, b) \cup {Len(s) + 1}
        /\ \A j \in Modals : j # b =>
             PartsIn(o, j) = PartsIn(s, j) /\ (Complete(s, j) => Complete(o, j))
    BY <2>1, AppendPart, SMTT(30)
  <2> QED BY <2>2 DEF s, b
<1>3. k = [h EXCEPT !.out = o]
  BY Zenon DEF WritePart
<1> HIDE DEF k, o
<1>4. /\ k \in Host /\ k.job = h.job /\ k.stage = h.stage /\ k.open = h.open /\ k.queue = h.queue /\ k.out = o
  BY <1>2, <1>3 DEF Host
<1>5. Waiting(k) = Waiting(h)
  BY <1>4, Zenon DEF Waiting
<1>6. RawsOf(k) = RawsOf(h) /\ (HostOrder(h) => HostOrder(k)) /\ HostSound(k)
  BY <1>2, <1>4, Zenon DEF RawsOf, HostOrder, HostSound
<1>7. JobsOf(k) \subseteq JobsOf(h)
  BY <1>1, <1>2, <1>4, <1>5 DEF JobsOf
<1> QED BY <1>1, <1>2, <1>4, <1>5, <1>6, <1>7 DEF k

\* The modal input at work ends: what is known of the terminal before the queue goes on.
LEMMA EndsStep ==
  ASSUME InputIInv, NEW p \in Panes, p \in born, NEW k \in Host, NEW result \in {"done", "refused"},
         Ends(p, k, result), k.job = host[p].job, Finished(k, outcome, result),
         RawsOf(k) = RawsOf(host[p]), HostOrder(host[p]) => HostOrder(k), JobsOf(k) \subseteq JobsOf(host[p]),
         menu' = menu, clientVars' = clientVars, refusals' \in Nat
  PROVE  InputIInv'
<1> DEFINE g == DrainQueue(k, None)  e == [outcome EXCEPT ![k.job] = result]
<1>1. outcome' = e /\ host' = [host EXCEPT ![p] = g]
  BY DEF Ends
<1>2. outcome \in [Modals -> {"none", "pending", "done", "refused"}]
  BY DEF InputIInv, InputTypeOK
<1>3. HostModals(g, e) /\ JobsOf(g) \subseteq JobsOf(k) /\ \A j \in JobsOf(g) : e[j] # "none"
  <2>1. e[k.job] = result /\ \A j \in Modals : j # k.job => e[j] = outcome[j]
    BY <1>2, HostFields DEF Finished
  <2> HIDE DEF e
  <2> QED BY <1>2, <2>1, DrainModals
<1>4. /\ g \in Host /\ HostSound(g) /\ RawsOf(g) \subseteq RawsOf(k) /\ (HostOrder(k) => HostOrder(g))
  <2>1. k.open
    BY DEF Finished
  <2> QED BY <2>1, DrainHost
<1>5. k.job \in JobsOf(k)
  BY DEF Finished, JobsOf
<1>6. e \in [Modals -> {"none", "pending", "done", "refused"}] /\ \A j \in Modals : j # k.job => e[j] = outcome[j]
  BY <1>2
<1> HIDE DEF e, g
<1>7. JobsOf(g) \subseteq JobsOf(host[p]) \cup {} /\ RawsOf(g) \subseteq RawsOf(host[p])
      /\ (HostOrder(host[p]) => HostOrder(g))
  BY <1>3, <1>4
<1>8. \A j \in Modals : j \notin JobsOf(host[p]) \cup {} => e[j] = outcome[j]
  BY <1>5, <1>6
<1>9. \A j \in {} : outcome[j] = "none"
  OBVIOUS
<1>10. Follows(host[p], g, {}, outcome, outcome') /\ {} \in SUBSET Modals
  BY <1>1, <1>3, <1>4, <1>6, <1>7, <1>8, <1>9 DEF Follows
<1> QED BY <1>1, <1>10, TerminalStep, Zenon

\* What is known of a terminal at work.
LEMMA Working ==
  ASSUME InputIInv, NEW p \in Panes, host[p].job # None
  PROVE  LET h == host[p]
         IN  /\ h \in Host /\ HostSound(h) /\ h.open /\ p \in born /\ h.job \in Modals
             /\ h.job \notin Waiting(h) /\ outcome[h.job] = "pending"
             /\ (h.stage = "delay" => HalfWritten(h.out, h.job) /\ Parts(h.job) = 2)
             /\ (h.stage # "delay" => PartsIn(h.out, h.job) = {})
             /\ \A j \in Waiting(h) : outcome[j] = "pending" /\ PartsIn(h.out, j) = {}
             /\ NoneTwice(h.queue)
             /\ \A j \in Modals : PartsIn(h.out, j) # {} /\ j # h.job => Complete(h.out, j) /\ outcome[j] = "done"
             /\ \A j \in JobsOf(h) : outcome[j] # "none"
             /\ outcome \in [Modals -> {"none", "pending", "done", "refused"}] /\ refusals \in Nat
<1> DEFINE h == host[p]
<1>1. /\ host \in [Panes -> Host] /\ HostSound(h) /\ HostModals(h, outcome) /\ p \in born
      /\ \A j \in JobsOf(h) : outcome[j] # "none"
      /\ outcome \in [Modals -> {"none", "pending", "done", "refused"}] /\ refusals \in Nat
  BY DEF InputIInv, InputTypeOK, HostsInv, ModalsInv
<1>2. h \in Host /\ h.job # None
  BY <1>1
<1> HIDE DEF h
<1>3. h.open /\ h.job \in Modals
  BY <1>1, <1>2, HostFields DEF HostSound
<1>4. /\ h.job \notin Waiting(h) /\ outcome[h.job] = "pending"
      /\ (h.stage = "delay" => HalfWritten(h.out, h.job) /\ Parts(h.job) = 2)
      /\ (h.stage # "delay" => PartsIn(h.out, h.job) = {})
      /\ \A j \in Waiting(h) : outcome[j] = "pending" /\ PartsIn(h.out, j) = {}
      /\ NoneTwice(h.queue)
  BY <1>1, <1>2, Zenon DEF HostModals
<1>5. \A j \in Modals : PartsIn(h.out, j) # {} /\ j # h.job => Complete(h.out, j) /\ outcome[j] = "done"
  BY <1>1, <1>3, Zenon DEF HostModals
<1> QED BY <1>1, <1>2, <1>3, <1>4, <1>5 DEF h

LEMMA OtherStage ==
  ASSUME NEW k, NEW g, HostSound(k), g.job = k.job, g.queue = k.queue, g.open = k.open, g.out = k.out
  PROVE  /\ HostSound(g) /\ Waiting(g) = Waiting(k) /\ RawsOf(g) = RawsOf(k) /\ (HostOrder(k) => HostOrder(g))
         /\ JobsOf(g) = JobsOf(k)
<1>1. HostSound(g)
  BY Zenon DEF HostSound
<1>2. Waiting(g) = Waiting(k) /\ RawsOf(g) = RawsOf(k) /\ (HostOrder(k) => HostOrder(g))
  BY Zenon DEF Waiting, RawsOf, HostOrder
<1>3. JobsOf(g) = JobsOf(k)
  BY <1>2, Zenon DEF JobsOf
<1> QED BY <1>1, <1>2, <1>3

\* Of a terminal that goes on with its job, in another stage.
LEMMA StageStep ==
  ASSUME InputIInv, NEW p \in Panes, host[p].job # None, NEW g \in Host, host' = [host EXCEPT ![p] = g],
         HostSound(g), g.job = host[p].job, g.queue = host[p].queue, g.open = host[p].open,
         Waiting(g) = Waiting(host[p]), RawsOf(g) = RawsOf(host[p]), HostOrder(host[p]) => HostOrder(g),
         JobsOf(g) \subseteq JobsOf(host[p]),
         IF g.stage = "delay" THEN HalfWritten(g.out, g.job) /\ Parts(g.job) = 2 ELSE PartsIn(g.out, g.job) = {},
         \A j \in Modals : j # g.job =>
            PartsIn(g.out, j) = PartsIn(host[p].out, j) /\ (Complete(host[p].out, j) => Complete(g.out, j)),
         outcome' = outcome, refusals' = refusals, menu' = menu, clientVars' = clientVars
  PROVE  InputIInv'
<1> DEFINE h == host[p]
<1>1. /\ h \in Host /\ HostSound(h) /\ h.open /\ p \in born /\ h.job \in Modals
      /\ h.job \notin Waiting(h) /\ outcome[h.job] = "pending"
      /\ \A j \in Waiting(h) : outcome[j] = "pending" /\ PartsIn(h.out, j) = {}
      /\ NoneTwice(h.queue)
      /\ \A j \in Modals : PartsIn(h.out, j) # {} /\ j # h.job => Complete(h.out, j) /\ outcome[j] = "done"
      /\ \A j \in JobsOf(h) : outcome[j] # "none"
      /\ outcome \in [Modals -> {"none", "pending", "done", "refused"}] /\ refusals \in Nat
  BY Working
<1>2. Waiting(h) \subseteq Modals
  BY <1>1, JobsTyped DEF JobsOf
<1> HIDE DEF h
<1>3. HostModals(g, outcome)
  <2>1. \A j \in Waiting(g) : outcome[j] = "pending" /\ PartsIn(g.out, j) = {}
    BY <1>1, <1>2 DEF h
  <2>2. \A j \in Modals : PartsIn(g.out, j) # {} /\ j # g.job => Complete(g.out, j) /\ outcome[j] = "done"
    BY <1>1 DEF h
  <2>3. g.job # None => outcome[g.job] = "pending" /\ g.job \notin Waiting(g)
    BY <1>1 DEF h
  <2>4. NoneTwice(g.queue)
    BY <1>1 DEF h
  <2> QED BY <2>1, <2>2, <2>3, <2>4, Zenon DEF HostModals
<1>4. /\ JobsOf(g) \subseteq JobsOf(host[p]) \cup {} /\ \A j \in JobsOf(g) : outcome'[j] # "none"
      /\ \A j \in {} : outcome[j] = "none"
      /\ \A j \in Modals : j \notin JobsOf(host[p]) \cup {} => outcome'[j] = outcome[j]
  BY <1>1 DEF h
<1>5. Follows(host[p], g, {}, outcome, outcome') /\ {} \in SUBSET Modals
  BY <1>1, <1>3, <1>4 DEF Follows
<1>6. refusals' \in Nat /\ p \in born
  BY <1>1
<1> QED BY <1>5, <1>6, TerminalStep, Zenon

LEMMA BuildStep ==
  ASSUME InputIInv, NEW p \in Panes, host[p].job # None, host[p].stage # "delay", Build(p),
         menu' = menu, clientVars' = clientVars
  PROVE  InputIInv'
<1> DEFINE h == host[p]  k == WritePart(h, 1)  b == h.job
<1>1. /\ h \in Host /\ HostSound(h) /\ h.open /\ p \in born /\ b \in Modals /\ b # None
      /\ b \notin Waiting(h) /\ outcome[b] = "pending"
      /\ PartsIn(h.out, b) = {}
      /\ \A j \in Waiting(h) : outcome[j] = "pending" /\ PartsIn(h.out, j) = {}
      /\ NoneTwice(h.queue)
      /\ \A j \in Modals : PartsIn(h.out, j) # {} /\ j # b => Complete(h.out, j) /\ outcome[j] = "done"
      /\ refusals \in Nat
  BY Working
<1>2. /\ k \in Host /\ HostSound(k) /\ k.job = h.job /\ k.stage = h.stage /\ k.open = h.open /\ k.queue = h.queue
      /\ Waiting(k) = Waiting(h) /\ RawsOf(k) = RawsOf(h) /\ (HostOrder(h) => HostOrder(k))
      /\ JobsOf(k) \subseteq JobsOf(h) /\ h.job \in Modals
      /\ Len(k.out) = Len(h.out) + 1 /\ (\A m \in 1 .. Len(h.out) : k.out[m] = h.out[m])
      /\ k.out[Len(h.out) + 1] = [part |-> 1, of |-> b]
      /\ PartsIn(k.out, b) = PartsIn(h.out, b) \cup {Len(h.out) + 1}
      /\ \A j \in Modals : j # b =>
           PartsIn(k.out, j) = PartsIn(h.out, j) /\ (Complete(h.out, j) => Complete(k.out, j))
  <2> HIDE DEF h
  <2> QED BY <1>1, WritePartHost
<1>3. Waiting(h) \subseteq Modals
  BY <1>1, JobsTyped DEF JobsOf
<1>4. Len(h.out) \in Nat /\ h.out \in Seq(Output) /\ k.out \in Seq(Output) /\ DOMAIN k.out = 1 .. Len(k.out)
  BY <1>1, <1>2, HostFields, LenProperties
<1>5. PartsIn(k.out, b) = {Len(k.out)} /\ Len(k.out) \in DOMAIN k.out /\ k.out[Len(k.out)] = [part |-> 1, of |-> b]
  <2>1. Len(k.out) = Len(h.out) + 1 /\ Len(h.out) \in Nat
    BY <1>2, <1>4
  <2>2. Len(k.out) \in 1 .. Len(k.out)
    BY <2>1
  <2> QED BY <1>1, <1>2, <1>4, <2>1, <2>2
<1> HIDE DEF k
<1>6. CASE Parts(h.job) = 1 /\ Ends(p, k, "done") /\ refusals' = refusals
  <2>1. Complete(k.out, b)
    BY <1>5, <1>6, Zenon DEF Complete
  <2>2. Finished(k, outcome, "done")
    BY <1>1, <1>2, <1>3, <2>1 DEF Finished
  <2>3. refusals' \in Nat
    BY <1>1, <1>6
  <2> QED BY <1>1, <1>2, <1>6, <2>2, <2>3, EndsStep
<1>7. CASE Parts(h.job) > 1 /\ host' = [host EXCEPT ![p] = [WritePart(@, 1) EXCEPT !.stage = "delay"]]
           /\ outcome' = outcome /\ refusals' = refusals
  <2> DEFINE g == [k EXCEPT !.stage = "delay"]
  <2>1. host' = [host EXCEPT ![p] = g]
    BY <1>7 DEF k
  <2>2. /\ g \in Host /\ g.stage = "delay" /\ g.job = k.job /\ g.queue = k.queue /\ g.open = k.open /\ g.out = k.out
    BY <1>2 DEF Host
  <2> HIDE DEF g
  <2>3. /\ HostSound(g) /\ Waiting(g) = Waiting(k) /\ RawsOf(g) = RawsOf(k) /\ (HostOrder(k) => HostOrder(g))
        /\ JobsOf(g) = JobsOf(k)
    BY <1>2, <2>2, OtherStage
  <2>4. Parts(h.job) = 2
    BY <1>7 DEF Parts
  <2>5. HalfWritten(g.out, g.job)
    <3>1. k.out # << >>
      BY <1>4, <1>5
    <3>2. g.out = k.out /\ g.job = b
      BY <1>2, <2>2
    <3>3. HalfWritten(k.out, b)
      BY <1>5, <3>1, Zenon DEF HalfWritten
    <3> QED BY <3>2, <3>3
  <2>6. /\ HostSound(g) /\ g.job = host[p].job /\ g.queue = host[p].queue /\ g.open = host[p].open
        /\ Waiting(g) = Waiting(host[p]) /\ RawsOf(g) = RawsOf(host[p]) /\ (HostOrder(host[p]) => HostOrder(g))
        /\ JobsOf(g) \subseteq JobsOf(host[p])
    BY <1>2, <2>2, <2>3
  <2>7. IF g.stage = "delay" THEN HalfWritten(g.out, g.job) /\ Parts(g.job) = 2 ELSE PartsIn(g.out, g.job) = {}
    BY <2>2, <2>4, <2>5, <2>6
  <2>8. \A j \in Modals : j # g.job =>
            PartsIn(g.out, j) = PartsIn(host[p].out, j) /\ (Complete(host[p].out, j) => Complete(g.out, j))
    BY <1>2, <2>2, <2>6
  <2> QED BY <1>7, <2>1, <2>2, <2>6, <2>7, <2>8, StageStep, Zenon
<1>8. CASE Refuse /\ Ends(p, host[p], "refused")
  <2>1. Finished(h, outcome, "refused")
    BY <1>1 DEF Finished
  <2>2. refusals' \in Nat
    BY <1>1, <1>8 DEF Refuse
  <2> QED BY <1>1, <1>8, <2>1, <2>2, EndsStep
<1> QED BY <1>6, <1>7, <1>8, Zenon DEF Build, k

LEMMA FlushedStep == ASSUME InputIInv, NEW p \in Panes, Flushed(p) PROVE InputIInv'
<1>1. host[p].job # None /\ host[p].stage = "flush" /\ menu' = menu /\ clientVars' = clientVars
  BY DEF Flushed, At
<1>2. CASE host[p].job = "start"
  <2> DEFINE h == host[p]  g == [h EXCEPT !.stage = "prepare"]
  <2>1. host' = [host EXCEPT ![p] = g] /\ outcome' = outcome /\ refusals' = refusals
    BY <1>2 DEF Flushed
  <2>2. h \in Host /\ HostSound(h) /\ PartsIn(h.out, h.job) = {}
    BY <1>1, Working
  <2>3. g \in Host /\ g.stage = "prepare" /\ g.job = h.job /\ g.queue = h.queue /\ g.open = h.open /\ g.out = h.out
    BY <2>2 DEF Host
  <2> HIDE DEF g
  <2>4. /\ HostSound(g) /\ Waiting(g) = Waiting(h) /\ RawsOf(g) = RawsOf(h) /\ (HostOrder(h) => HostOrder(g))
        /\ JobsOf(g) = JobsOf(h)
    BY <2>2, <2>3, OtherStage
  <2> QED BY <1>1, <2>1, <2>2, <2>3, <2>4, StageStep
<1>3. CASE host[p].job # "start"
  <2>1. Build(p)
    BY <1>3 DEF Flushed
  <2> QED BY <1>1, <2>1, BuildStep
<1> QED BY <1>2, <1>3

LEMMA PreparedStep == ASSUME InputIInv, NEW p \in Panes, Prepared(p) PROVE InputIInv'
<1>1. host[p].job # None /\ host[p].stage = "prepare" /\ menu' = menu /\ clientVars' = clientVars /\ Build(p)
  BY DEF Prepared, At
<1> QED BY <1>1, BuildStep

LEMMA DelayedStep == ASSUME InputIInv, NEW p \in Panes, Delayed(p) PROVE InputIInv'
<1> DEFINE h == host[p]  k == WritePart(h, 2)  b == h.job
<1>0. /\ h.job # None /\ h.stage = "delay" /\ menu' = menu /\ clientVars' = clientVars /\ refusals' = refusals
      /\ Ends(p, k, "done")
  BY DEF Delayed, At
<1>1. /\ h \in Host /\ HostSound(h) /\ h.open /\ p \in born /\ b \in Modals /\ b # None
      /\ b \notin Waiting(h) /\ outcome[b] = "pending"
      /\ HalfWritten(h.out, b) /\ Parts(b) = 2
      /\ \A j \in Waiting(h) : outcome[j] = "pending" /\ PartsIn(h.out, j) = {}
      /\ NoneTwice(h.queue)
      /\ \A j \in Modals : PartsIn(h.out, j) # {} /\ j # b => Complete(h.out, j) /\ outcome[j] = "done"
      /\ refusals \in Nat
  BY <1>0, Working
<1>2. /\ k \in Host /\ HostSound(k) /\ k.job = h.job /\ k.stage = h.stage /\ k.open = h.open /\ k.queue = h.queue
      /\ Waiting(k) = Waiting(h) /\ RawsOf(k) = RawsOf(h) /\ (HostOrder(h) => HostOrder(k))
      /\ JobsOf(k) \subseteq JobsOf(h) /\ h.job \in Modals
      /\ Len(k.out) = Len(h.out) + 1 /\ (\A m \in 1 .. Len(h.out) : k.out[m] = h.out[m])
      /\ k.out[Len(h.out) + 1] = [part |-> 2, of |-> b]
      /\ PartsIn(k.out, b) = PartsIn(h.out, b) \cup {Len(h.out) + 1}
      /\ \A j \in Modals : j # b =>
           PartsIn(k.out, j) = PartsIn(h.out, j) /\ (Complete(h.out, j) => Complete(k.out, j))
  <2> HIDE DEF h
  <2> QED BY <1>1, WritePartHost
<1>3. Waiting(h) \subseteq Modals
  BY <1>1, JobsTyped DEF JobsOf
<1>4. Len(h.out) \in Nat /\ h.out \in Seq(Output) /\ k.out \in Seq(Output) /\ DOMAIN k.out = 1 .. Len(k.out)
  BY <1>1, <1>2, HostFields, LenProperties
<1>5. /\ h.out[Len(h.out)] = [part |-> 1, of |-> b] /\ PartsIn(h.out, b) = {Len(h.out)} /\ h.out # << >>
  BY <1>1 DEF HalfWritten
<1>6. Len(h.out) \in 1 .. Len(h.out)
  <2>1. Len(h.out) # 0
    BY <1>4, <1>5, EmptySeq
  <2> QED BY <1>4, <2>1
<1>7. Complete(k.out, b)
  <2> DEFINE m == Len(h.out)
  <2>1. m \in DOMAIN k.out /\ m + 1 \in DOMAIN k.out
    BY <1>2, <1>4, <1>6
  <2>2. k.out[m] = [part |-> 1, of |-> b] /\ k.out[m + 1] = [part |-> 2, of |-> b]
    BY <1>2, <1>5, <1>6
  <2>3. PartsIn(k.out, b) = {m, m + 1}
    BY <1>2, <1>5
  <2>4. Parts(b) # 1
    BY <1>1
  <2> HIDE DEF m, k
  <2> QED BY <2>1, <2>2, <2>3, <2>4, Zenon DEF Complete
<1> HIDE DEF k
<1>8. Finished(k, outcome, "done")
  BY <1>1, <1>2, <1>3, <1>7 DEF Finished
<1>9. refusals' \in Nat
  BY <1>0, <1>1
<1> QED BY <1>0, <1>1, <1>2, <1>8, <1>9, EndsStep

LEMMA PaneGoesStep == ASSUME InputIInv, NEW p \in Panes, PaneGoes(p) PROVE InputIInv'
<1> DEFINE h == host[p]  g == CloseInput(h, None)  U == Unfinished(h, None)
           e == [j \in Modals |-> IF j \in U THEN "refused" ELSE outcome[j]]
<1>1. /\ p \in born /\ h.open /\ host' = [host EXCEPT ![p] = g] /\ outcome' = e
      /\ menu' = menu /\ clientVars' = clientVars /\ refusals' = refusals
  BY DEF PaneGoes
<1>2. /\ host \in [Panes -> Host] /\ HostSound(h) /\ HostModals(h, outcome)
      /\ \A j \in JobsOf(h) : outcome[j] # "none"
      /\ outcome \in [Modals -> {"none", "pending", "done", "refused"}] /\ refusals \in Nat
  BY DEF InputIInv, InputTypeOK, HostsInv, ModalsInv
<1>3. h \in Host
  BY <1>2
<1>4. U = ({h.job} \ {None}) \cup Waiting(h)
  <2>1. h.queue \in Seq(Item) /\ DOMAIN h.queue = 1 .. Len(h.queue)
    BY <1>3, HostFields, LenProperties
  <2>2. Range(h.queue) = {h.queue[i] : i \in DOMAIN h.queue}
    BY DEF Range
  <2>3. {item.modal : item \in {q \in Range(h.queue) : ~IsRaw(q)}} = Waiting(h)
    BY <2>2 DEF Waiting
  <2> QED BY <2>3, Zenon DEF Unfinished
<1>5. /\ e \in [Modals -> {"none", "pending", "done", "refused"}]
      /\ \A j \in Modals : e[j] = IF j \in U THEN "refused" ELSE outcome[j]
  BY <1>2
<1>6. JobsOf(h) \subseteq Modals
  BY <1>3, JobsTyped
<1> HIDE DEF U, e, h
<1>7. g = [h EXCEPT !.open = FALSE, !.job = None, !.stage = "flush", !.queue = << >>]
  BY DEF CloseInput
<1> HIDE DEF g
<1>8. g \in Host /\ g.open = FALSE /\ g.job = None /\ g.queue = << >> /\ g.out = h.out
  <2>1. << >> \in Seq(Item)
    BY EmptySeq
  <2> QED BY <1>3, <1>7, <2>1 DEF Host
<1>9. Waiting(g) = {} /\ Raws(g.queue) = {} /\ NoneTwice(g.queue) /\ Rising(g.queue)
  BY <1>8 DEF Waiting, Raws, NoneTwice, Rising
<1>10. HostSound(g) /\ RawsOf(g) \subseteq RawsOf(h) /\ (HostOrder(h) => HostOrder(g))
  BY <1>8, <1>9 DEF HostSound, RawsOf, HostOrder, Below
<1>11. JobsOf(g) \subseteq JobsOf(h)
  BY <1>8, <1>9 DEF JobsOf
<1>12. HostModals(g, e)
  <2>1. ASSUME NEW j \in Modals, PartsIn(g.out, j) # {}
        PROVE  \/ Complete(g.out, j) /\ e[j] = "done"
               \/ ~g.open /\ HalfWritten(g.out, j) /\ Parts(j) = 2 /\ e[j] = "refused"
    <3>1. j # None /\ PartsIn(h.out, j) # {}
      BY <1>8, <2>1, NoneAssumption
    <3>2. CASE j = h.job
      <4>1. HalfWritten(h.out, j) /\ Parts(j) = 2
        BY <1>2, <3>1, <3>2, Zenon DEF HostModals
      <4>2. e[j] = "refused"
        BY <1>4, <1>5, <3>1, <3>2
      <4> QED BY <1>8, <4>1, <4>2
    <3>3. CASE j # h.job
      <4>1. Complete(h.out, j) /\ outcome[j] = "done"
        BY <1>1, <1>2, <3>1, <3>3, Zenon DEF HostModals
      <4>2. j \notin Waiting(h)
        BY <1>2, <3>1, Zenon DEF HostModals
      <4>3. e[j] = outcome[j]
        BY <1>4, <1>5, <3>3, <4>2
      <4> QED BY <1>8, <4>1, <4>3
    <3> QED BY <3>2, <3>3
  <2> QED BY <1>8, <1>9, <2>1, Zenon DEF HostModals
<1>13. \A j \in JobsOf(g) : e[j] # "none"
  BY <1>2, <1>5, <1>6, <1>11
<1>14. \A j \in Modals : j \notin JobsOf(h) => e[j] = outcome[j]
  <2>1. U \subseteq JobsOf(h)
    BY <1>4 DEF JobsOf
  <2> QED BY <1>5, <2>1
<1>15. Follows(h, g, {}, outcome, e)
  <2>1. JobsOf(h) \cup {} = JobsOf(h) /\ \A j \in {} : outcome[j] = "none"
    OBVIOUS
  <2> QED BY <1>5, <1>8, <1>10, <1>11, <1>12, <1>13, <1>14, <2>1, Zenon DEF Follows
<1>16. Follows(host[p], g, {}, outcome, outcome') /\ {} \in SUBSET Modals /\ refusals' \in Nat
  BY <1>1, <1>2, <1>15 DEF h
<1> QED BY <1>1, <1>16, TerminalStep, Zenon

LEMMA WriteModals ==
  ASSUME NEW h \in Host, HostSound(h), NEW x \in Nat, NEW r, HostModals(h, r)
  PROVE  HostModals(Write(h, x, None), r) /\ JobsOf(Write(h, x, None)) = JobsOf(h)
<1> DEFINE g == Write(h, x, None)
<1>1. /\ g \in Host /\ HostSound(g) /\ g.job = h.job /\ g.open = h.open /\ g.stage = h.stage
      /\ GoesOn(h.out, g.out) /\ (h.job # None \/ ~h.open => g.out = h.out)
      /\ Waiting(g) = Waiting(h) /\ (NoneTwice(h.queue) => NoneTwice(g.queue))
  BY WriteHost
<1> HIDE DEF g
<1>2. \A j \in Modals : PartsIn(g.out, j) = PartsIn(h.out, j) /\ (Complete(h.out, j) => Complete(g.out, j))
  BY <1>1, HostFields, GoingOn
<1>3. JobsOf(g) = JobsOf(h)
  <2>1. {j \in Modals : PartsIn(g.out, j) # {}} = {j \in Modals : PartsIn(h.out, j) # {}}
    BY <1>2
  <2> QED BY <1>1, <2>1, Zenon DEF JobsOf
<1>4. HostModals(g, r)
  <2>1. Waiting(h) \subseteq Modals
    BY JobsTyped DEF JobsOf
  <2>2. NoneTwice(g.queue)
    BY <1>1, Zenon DEF HostModals
  <2>3. \A j \in Waiting(g) : r[j] = "pending" /\ PartsIn(g.out, j) = {}
    <3>1. \A j \in Waiting(h) : r[j] = "pending" /\ PartsIn(h.out, j) = {}
      BY Zenon DEF HostModals
    <3> QED BY <1>1, <1>2, <2>1, <3>1
  <2>4. g.job # None =>
          /\ r[g.job] = "pending" /\ g.job \notin Waiting(g)
          /\ IF g.stage = "delay" THEN HalfWritten(g.out, g.job) /\ Parts(g.job) = 2
                                  ELSE PartsIn(g.out, g.job) = {}
    <3>1. h.job # None =>
          /\ r[h.job] = "pending" /\ h.job \notin Waiting(h)
          /\ IF h.stage = "delay" THEN HalfWritten(h.out, h.job) /\ Parts(h.job) = 2
                                  ELSE PartsIn(h.out, h.job) = {}
      BY Zenon DEF HostModals
    <3> QED BY <1>1, <3>1
  <2>5. ASSUME NEW j \in Modals, PartsIn(g.out, j) # {}, j # g.job
        PROVE  \/ Complete(g.out, j) /\ r[j] = "done"
               \/ ~g.open /\ HalfWritten(g.out, j) /\ Parts(j) = 2 /\ r[j] = "refused"
    <3>1. PartsIn(h.out, j) # {} /\ j # h.job
      BY <1>1, <1>2, <2>5
    <3>2. \/ Complete(h.out, j) /\ r[j] = "done"
          \/ ~h.open /\ HalfWritten(h.out, j) /\ Parts(j) = 2 /\ r[j] = "refused"
      BY <3>1, Zenon DEF HostModals
    <3> QED BY <1>1, <1>2, <3>2
  <2> QED BY <2>2, <2>3, <2>4, <2>5, Zenon DEF HostModals
<1> QED BY <1>3, <1>4 DEF g

LEMMA SentIn ==
  ASSUME NEW g \in Gate, NEW p
  PROVE  \A x : x \in SentTo(g, p) <=> \E i \in 1 .. Len(g.net) : g.net[i].to = p /\ x = g.net[i].chunk
<1>1. DOMAIN g.net = 1 .. Len(g.net)
  BY GateFields
<1> QED BY <1>1, Zenon DEF SentTo

LEMMA TailNet ==
  ASSUME NEW g \in Gate, g.net # << >>
  PROVE  LET t == [g EXCEPT !.net = Tail(@)]
         IN  /\ t \in Gate /\ t.holds = g.holds /\ DOMAIN t.net = 1 .. Len(t.net)
             /\ 1 \in DOMAIN g.net /\ Head(g.net) = g.net[1]
             /\ \A i \in DOMAIN t.net : i \in Nat /\ i + 1 \in DOMAIN g.net /\ 1 < i + 1 /\ t.net[i] = g.net[i + 1]
             /\ \A p : SentTo(t, p) \subseteq SentTo(g, p)
             /\ g.net[1].chunk \in SentTo(g, g.net[1].to)
<1> DEFINE t == [g EXCEPT !.net = Tail(@)]  n == Tail(g.net)
<1>1. g.net \in Seq(Frame) /\ DOMAIN g.net = 1 .. Len(g.net) /\ Len(g.net) \in Nat
  BY GateFields
<1>2. Len(g.net) # 0
  BY <1>1, EmptySeq
<1>3. /\ Head(g.net) = g.net[1] /\ n \in Seq(Frame) /\ Len(n) = Len(g.net) - 1
      /\ \A i \in 1 .. Len(n) : n[i] = g.net[i + 1]
  BY <1>1, HeadTailProperties
<1> HIDE DEF n
<1>4. t = [g EXCEPT !.net = n]
  BY DEF n
<1> HIDE DEF t
<1>5. t \in Gate /\ t.holds = g.holds /\ t.net = n
  BY <1>3, <1>4 DEF Gate
<1>6. DOMAIN t.net = 1 .. Len(t.net) /\ Len(n) \in Nat
  BY <1>5, <1>3, GateFields, LenProperties
<1>7. 1 \in DOMAIN g.net
  BY <1>1, <1>2
<1>8. \A i \in DOMAIN t.net : i \in Nat /\ i + 1 \in DOMAIN g.net /\ 1 < i + 1 /\ t.net[i] = g.net[i + 1]
  <2>1. \A i \in 1 .. Len(n) : i \in Nat /\ i + 1 \in 1 .. Len(g.net) /\ 1 < i + 1
    BY <1>1, <1>3
  <2> QED BY <1>1, <1>3, <1>5, <1>6, <2>1
<1>9. ASSUME NEW p, NEW x \in SentTo(t, p) PROVE x \in SentTo(g, p)
  <2>1. PICK i \in 1 .. Len(t.net) : t.net[i].to = p /\ x = t.net[i].chunk
    BY <1>5, SentIn
  <2>2. i + 1 \in 1 .. Len(g.net) /\ t.net[i] = g.net[i + 1]
    BY <1>1, <1>6, <1>8
  <2> QED BY <2>1, <2>2, SentIn
<1>10. g.net[1].chunk \in SentTo(g, g.net[1].to)
  BY <1>1, <1>7, SentIn
<1> QED BY <1>3, <1>5, <1>6, <1>7, <1>8, <1>9, <1>10 DEF t


LEMMA DeliverStep == ASSUME InputIInv, Deliver PROVE InputIInv'
<1> DEFINE p == Head(gate.net).to  x == Head(gate.net).chunk  t == [gate EXCEPT !.net = Tail(@)]
           h == host[p]  w == Write(h, x, None)
<1>1. /\ gate.net # << >> /\ gate' = t
      /\ menu' = menu /\ request' = request /\ source' = source /\ turnOf' = turnOf /\ fresh' = fresh
      /\ born' = born /\ turns' = turns /\ jumped' = jumped /\ outcome' = outcome
      /\ \/ host' = [host EXCEPT ![p] = w] /\ refusals' = refusals
         \/ host' = host /\ refusals > 0 /\ refusals' = refusals - 1
  BY DEF Deliver, Refuse
<1>2. /\ InputTypeOK /\ HostsInv(host, born)
      /\ GateInv(gate, source, turnOf, request, fresh, host, born, turns, ~jumped)
      /\ RequestRules(request, source, turnOf, fresh, born, turns) /\ Past(host, turns)
      /\ (~jumped => \A q \in Panes : HostOrder(host[q])) /\ ModalsInv
  BY Zenon DEF InputIInv
<1>20. GateNames(gate, source, born, turns) /\ (~jumped => NetOrder(gate, host))
  BY <1>2, Zenon DEF GateInv, Orderly, GateOrder
<1>3. host \in [Panes -> Host] /\ gate \in Gate /\ turns \in Nat /\ refusals \in Nat /\ born \in SUBSET Panes
  BY <1>2 DEF InputTypeOK
<1>4. /\ t \in Gate /\ t.holds = gate.holds /\ DOMAIN t.net = 1 .. Len(t.net)
      /\ 1 \in DOMAIN gate.net /\ Head(gate.net) = gate.net[1]
      /\ \A i \in DOMAIN t.net : i \in Nat /\ i + 1 \in DOMAIN gate.net /\ 1 < i + 1 /\ t.net[i] = gate.net[i + 1]
      /\ \A q : SentTo(t, q) \subseteq SentTo(gate, q)
      /\ x \in SentTo(gate, p)
  BY <1>1, <1>3, TailNet
<1>5. p \in Panes /\ x \in Nat /\ p \in born /\ x <= turns
  BY <1>20, <1>3, <1>4, GateFields DEF GateNames
<1>6. h \in Host /\ HostSound(h) /\ HostModals(h, outcome)
  BY <1>2, <1>3, <1>5 DEF HostsInv, ModalsInv
<1>7. /\ w \in Host /\ HostSound(w)
      /\ RawsOf(w) \subseteq RawsOf(h) \cup {x}
      /\ (HostOrder(h) /\ Below(RawsOf(h), {x}) => HostOrder(w))
      /\ HostModals(w, outcome) /\ JobsOf(w) = JobsOf(h)
  <2> HIDE DEF h, x
  <2> QED BY <1>5, <1>6, WriteHost, WriteModals
<1> HIDE DEF w, t
<1>8. /\ host' \in [Panes -> Host] /\ refusals' \in Nat
      /\ \A q \in Panes : /\ HostSound(host'[q]) /\ RawsOf(host'[q]) \subseteq RawsOf(host[q]) \cup (IF q = p THEN {x} ELSE {})
                          /\ HostModals(host'[q], outcome) /\ JobsOf(host'[q]) = JobsOf(host[q])
                          /\ q # p => host'[q] = host[q]
      /\ host'[p] = w \/ host'[p] = h
  <2>0. \A q \in Panes : HostSound(host[q]) /\ HostModals(host[q], outcome)
    BY <1>2 DEF HostsInv, ModalsInv
  <2>1. CASE host' = [host EXCEPT ![p] = w] /\ refusals' = refusals
    <3>1. host' \in [Panes -> Host] /\ host'[p] = w /\ \A q \in Panes : q # p => host'[q] = host[q]
      BY <1>3, <1>5, <1>7, <2>1
    <3> QED BY <1>3, <1>7, <2>0, <2>1, <3>1
  <2>2. CASE host' = host /\ refusals > 0 /\ refusals' = refusals - 1
    <3>1. refusals' \in Nat
      BY <1>3, <2>2
    <3> QED BY <1>3, <2>0, <2>2, <3>1
  <2> QED BY <1>1, <2>1, <2>2
<1>9. InputTypeOK'
  BY <1>1, <1>2, <1>4, <1>8 DEF InputTypeOK
<1>10. HostsInv(host', born')
  BY <1>1, <1>2, <1>5, <1>8 DEF HostsInv
<1>12. Past(host', turns)
  <2>1. ASSUME NEW q \in Panes, NEW y \in RawsOf(host'[q]) PROVE y <= turns
    <3>1. \A z \in RawsOf(host[q]) : z <= turns
      BY <1>2 DEF Past
    <3> QED BY <1>5, <1>8, <3>1
  <2> QED BY <2>1 DEF Past
<1>13. ASSUME ~jumped
       PROVE  /\ \A q \in Panes : HostOrder(host'[q])
              /\ \A q \in Panes : Sent(host', t, q) \subseteq Sent(host, gate, q)
              /\ NetOrder(t, host')
  <2>1. (\A q \in Panes : HostOrder(host[q])) /\ NetOrder(gate, host)
    BY <1>2, <1>20, <1>13
  <2>3. Below(RawsOf(h), {x}) /\ \A q \in Panes : Below(RawsOf(host[q]), SentTo(gate, q))
    <3>1. \A q \in Panes : Below(RawsOf(host[q]), SentTo(gate, q))
      BY <2>1, Zenon DEF NetOrder
    <3> QED BY <1>4, <1>5, <3>1 DEF Below
  <2>4. Below({x}, SentTo(t, p))
    <3> SUFFICES ASSUME NEW y \in SentTo(t, p) PROVE x < y
      BY DEF Below
    <3>1. PICK i \in 1 .. Len(t.net) : t.net[i].to = p /\ y = t.net[i].chunk
      BY <1>4, SentIn
    <3>2. i + 1 \in DOMAIN gate.net /\ 1 < i + 1 /\ gate.net[i + 1].to = p /\ y = gate.net[i + 1].chunk
      BY <1>4, <3>1
    <3>3. \A m, n \in DOMAIN gate.net : m < n /\ gate.net[m].to = gate.net[n].to => gate.net[m].chunk < gate.net[n].chunk
      BY <2>1, Zenon DEF NetOrder
    <3>4. gate.net[1].to = p /\ gate.net[1].chunk = x
      BY <1>4
    <3> QED BY <1>4, <3>2, <3>3, <3>4
  <2>5. \A q \in Panes : HostOrder(host'[q])
    BY <1>7, <1>8, <2>1, <2>3
  <2>6. ASSUME NEW q \in Panes PROVE Sent(host', t, q) \subseteq Sent(host, gate, q)
    <3>1. RawsOf(host'[q]) \subseteq RawsOf(host[q]) \cup SentTo(gate, q)
      BY <1>4, <1>8
    <3> QED BY <1>4, <3>1 DEF Sent
  <2>9. \A i, k \in DOMAIN t.net : i < k /\ t.net[i].to = t.net[k].to => t.net[i].chunk < t.net[k].chunk
    <3> SUFFICES ASSUME NEW i \in DOMAIN t.net, NEW k \in DOMAIN t.net, i < k, t.net[i].to = t.net[k].to
                 PROVE  t.net[i].chunk < t.net[k].chunk
      OBVIOUS
    <3>1. i + 1 < k + 1
      BY <1>4
    <3>2. \A m, n \in DOMAIN gate.net : m < n /\ gate.net[m].to = gate.net[n].to => gate.net[m].chunk < gate.net[n].chunk
      BY <2>1, Zenon DEF NetOrder
    <3> QED BY <1>4, <3>1, <3>2
  <2>10. ASSUME NEW q \in Panes PROVE Below(RawsOf(host'[q]), SentTo(t, q))
    <3>1. Below(RawsOf(host[q]), SentTo(t, q))
      BY <1>4, <2>3 DEF Below
    <3> QED BY <1>8, <2>4, <3>1 DEF Below
  <2> QED BY <2>5, <2>6, <2>9, <2>10 DEF NetOrder
<1>15. GateInv(t, source, turnOf, request, fresh, host', born, turns, ~jumped)
  <2>1. Range(t.net) \subseteq Range(gate.net)
    BY <1>4 DEF Range
  <2>2. t \in Gate /\ t.holds = gate.holds
    BY <1>4
  <2>3. ~jumped => (\A q \in Panes : Sent(host', t, q) \subseteq Sent(host, gate, q)) /\ NetOrder(t, host')
    BY <1>13
  <2>4. /\ GateInv(gate, source, turnOf, request, fresh, host, born, turns, ~jumped)
        /\ RequestRules(request, source, turnOf, fresh, born, turns) /\ born \in SUBSET Panes
    BY <1>2, <1>3
  <2> QED BY <2>1, <2>2, <2>3, <2>4, LessOnTheWay, Zenon
<1>14. ModalsInv'
  BY <1>1, <1>2, <1>8, Zenon DEF ModalsInv
<1> QED BY <1>1, <1>2, <1>9, <1>10, <1>12, <1>13, <1>14, <1>15, Zenon DEF InputIInv

-----------------------------------------------------------------------------
(* The gate lets go.                                                       *)

LEMMA AddressedIs ==
  ASSUME NEW x \in HoldRecord, x.target # Undecided
  PROVE  /\ Addressed(x) \in Seq(Frame)
         /\ DOMAIN Addressed(x) = 1 .. Len(Addressed(x))
         /\ x.target = Nowhere => Addressed(x) = << >>
         /\ x.target # Nowhere =>
              /\ Len(Addressed(x)) = Len(x.chunks)
              /\ \A m \in DOMAIN Addressed(x) :
                   /\ m \in DOMAIN x.chunks
                   /\ Addressed(x)[m].to = x.target /\ Addressed(x)[m].chunk = x.chunks[m]
<1>1. x.chunks \in Seq(Nat) /\ x.target \in Panes \cup {Undecided, Nowhere}
  BY DEF HoldRecord
<1>2. DOMAIN x.chunks = 1 .. Len(x.chunks) /\ Len(x.chunks) \in Nat /\ \A m \in 1 .. Len(x.chunks) : x.chunks[m] \in Nat
  BY <1>1, LenProperties, ElementOfSeq
<1>3. CASE x.target = Nowhere
  BY <1>3, EmptySeq DEF Addressed
<1>4. CASE x.target # Nowhere
  <2> DEFINE c == x.chunks  n == Len(c)  a == [m \in 1 .. n |-> [to |-> x.target, chunk |-> c[m]]]
  <2>1. Addressed(x) = a
    BY <1>2, <1>4 DEF Addressed
  <2>2. a \in [1 .. n -> Frame]
    BY <1>1, <1>2, <1>4 DEF Frame
  <2>3. a \in Seq(Frame)
    <3> HIDE DEF a
    <3> QED BY <1>2, <2>2, SeqDef
  <2>4. DOMAIN a = 1 .. n /\ DOMAIN a = 1 .. Len(a) /\ Len(a) \in Nat
    BY <2>3, LenProperties
  <2>5. Len(a) = n
    <3> HIDE DEF a, n
    <3>1. n \in Nat
      BY <1>2 DEF n
    <3> QED BY <2>4, <3>1
  <2>6. \A m \in 1 .. n : a[m].to = x.target /\ a[m].chunk = c[m]
    OBVIOUS
  <2> HIDE DEF a
  <2> QED BY <1>2, <1>4, <2>1, <2>3, <2>4, <2>5, <2>6
<1> QED BY <1>3, <1>4

\* The oldest hold lets go.
Passes(g) == [holds |-> Tail(g.holds), net |-> g.net \o Addressed(g.holds[1])]

LEMMA PassesIs ==
  ASSUME NEW g \in Gate, g.holds # << >>, g.holds[1].target # Undecided
  PROVE  LET t == Passes(g)  x == g.holds[1]
         IN  /\ t \in Gate /\ x \in HoldRecord /\ 1 \in DOMAIN g.holds
             /\ Len(t.holds) = Len(g.holds) - 1
             /\ \A i \in DOMAIN t.holds : i \in Nat /\ i + 1 \in DOMAIN g.holds /\ t.holds[i] = g.holds[i + 1]
             /\ \A i \in DOMAIN g.net : i \in Nat /\ i <= Len(g.net) /\ t.net[i] = g.net[i]
             /\ \A i \in DOMAIN t.net : i \notin DOMAIN g.net =>
                  /\ x.target \in Panes /\ i \in Nat /\ Len(g.net) < i /\ i - Len(g.net) \in DOMAIN x.chunks
                  /\ t.net[i].to = x.target /\ t.net[i].chunk = x.chunks[i - Len(g.net)]
<1> DEFINE t == Passes(g)  x == g.holds[1]  a == Addressed(x)  n == g.net \o a  s == Tail(g.holds)
<1>1. /\ g.holds \in Seq(HoldRecord) /\ g.net \in Seq(Frame)
      /\ DOMAIN g.holds = 1 .. Len(g.holds) /\ DOMAIN g.net = 1 .. Len(g.net)
      /\ Len(g.holds) \in Nat /\ Len(g.net) \in Nat
  BY GateFields
<1>2. Len(g.holds) # 0
  BY <1>1, EmptySeq
<1>3. 1 \in DOMAIN g.holds /\ x \in HoldRecord
  <2>1. 1 \in DOMAIN g.holds
    BY <1>1, <1>2
  <2> QED BY <1>1, <2>1, ElementOfSeq
<1>4. /\ s \in Seq(HoldRecord) /\ Len(s) = Len(g.holds) - 1
      /\ \A i \in 1 .. Len(s) : s[i] = g.holds[i + 1]
  BY <1>1, HeadTailProperties
<1>5. /\ a \in Seq(Frame) /\ DOMAIN a = 1 .. Len(a)
      /\ x.target = Nowhere => a = << >>
      /\ x.target # Nowhere =>
           /\ Len(a) = Len(x.chunks)
           /\ \A m \in DOMAIN a : m \in DOMAIN x.chunks /\ a[m].to = x.target /\ a[m].chunk = x.chunks[m]
  BY <1>3, AddressedIs
<1> HIDE DEF a, s
<1>6. /\ n \in Seq(Frame) /\ Len(n) = Len(g.net) + Len(a)
      /\ \A i \in 1 .. Len(g.net) + Len(a) : n[i] = IF i <= Len(g.net) THEN g.net[i] ELSE a[i - Len(g.net)]
  BY <1>1, <1>5, ConcatProperties
<1>7. Len(a) \in Nat /\ x.target \in Panes \cup {Nowhere}
  BY <1>3, <1>5, LenProperties DEF HoldRecord
<1> HIDE DEF n
<1>8. t = [holds |-> s, net |-> n]
  BY DEF Passes, n, a, s
<1> HIDE DEF t
<1>9. t \in Gate /\ t.holds = s /\ t.net = n
  BY <1>4, <1>6, <1>8 DEF Gate
<1>10. DOMAIN s = 1 .. Len(s) /\ DOMAIN n = 1 .. Len(n)
  BY <1>4, <1>6, LenProperties
<1>11. ASSUME NEW i \in DOMAIN s PROVE i \in Nat /\ i + 1 \in DOMAIN g.holds /\ s[i] = g.holds[i + 1]
  <2>1. i \in 1 .. Len(s) /\ Len(s) = Len(g.holds) - 1 /\ Len(g.holds) \in Nat
    BY <1>1, <1>4, <1>10
  <2>2. i \in Nat /\ i + 1 \in 1 .. Len(g.holds)
    BY <2>1
  <2> QED BY <1>1, <1>4, <2>1, <2>2
<1>12. ASSUME NEW i \in DOMAIN g.net PROVE i \in Nat /\ i <= Len(g.net) /\ n[i] = g.net[i]
  <2>1. i \in 1 .. Len(g.net) /\ Len(g.net) \in Nat /\ Len(a) \in Nat
    BY <1>1, <1>7
  <2>2. i \in Nat /\ i <= Len(g.net) /\ i \in 1 .. Len(g.net) + Len(a)
    BY <2>1
  <2> QED BY <1>6, <2>2
<1>13. ASSUME NEW i \in DOMAIN n, i \notin DOMAIN g.net
       PROVE  /\ x.target \in Panes /\ i \in Nat /\ Len(g.net) < i /\ i - Len(g.net) \in DOMAIN x.chunks
              /\ n[i].to = x.target /\ n[i].chunk = x.chunks[i - Len(g.net)]
  <2>1. i \in 1 .. Len(g.net) + Len(a) /\ ~(i \in 1 .. Len(g.net)) /\ Len(g.net) \in Nat /\ Len(a) \in Nat
    BY <1>1, <1>6, <1>7, <1>10, <1>13
  <2>2. i \in Nat /\ Len(g.net) < i /\ ~(i <= Len(g.net)) /\ i - Len(g.net) \in 1 .. Len(a)
    BY <2>1
  <2>3. n[i] = a[i - Len(g.net)] /\ i - Len(g.net) \in DOMAIN a
    BY <1>5, <1>6, <2>1, <2>2
  <2>4. x.target # Nowhere
    <3>1. Len(a) # 0
      BY <2>1, <2>2
    <3> QED BY <1>5, <3>1, EmptySeq
  <2> QED BY <1>5, <1>7, <2>2, <2>3, <2>4
<1> QED BY <1>3, <1>4, <1>9, <1>11, <1>12, <1>13 DEF t

LEMMA PassesKeeps ==
  ASSUME NEW src, NEW tn, NEW req, NEW fr, NEW hs, NEW bn \in SUBSET Panes, NEW now, NEW calm,
         NEW g, GateInv(g, src, tn, req, fr, hs, bn, now, calm),
         g.holds # << >>, g.holds[1].target # Undecided
  PROVE  GateInv(Passes(g), src, tn, req, fr, hs, bn, now, calm)
<1> DEFINE t == Passes(g)  x == g.holds[1]
<1>1. g \in Gate /\ GateNames(g, src, bn, now) /\ Asked(g, req) /\ (calm => Orderly(g, src, tn, req, fr, hs))
  BY Zenon DEF GateInv
<1>2. /\ t \in Gate /\ x \in HoldRecord /\ 1 \in DOMAIN g.holds
      /\ Len(t.holds) = Len(g.holds) - 1
      /\ \A i \in DOMAIN t.holds : i \in Nat /\ i + 1 \in DOMAIN g.holds /\ t.holds[i] = g.holds[i + 1]
      /\ \A i \in DOMAIN g.net : i \in Nat /\ i <= Len(g.net) /\ t.net[i] = g.net[i]
      /\ \A i \in DOMAIN t.net : i \notin DOMAIN g.net =>
           /\ x.target \in Panes /\ i \in Nat /\ Len(g.net) < i /\ i - Len(g.net) \in DOMAIN x.chunks
           /\ t.net[i].to = x.target /\ t.net[i].chunk = x.chunks[i - Len(g.net)]
  BY <1>1, PassesIs
<1>3. /\ DOMAIN g.holds = 1 .. Len(g.holds) /\ Len(g.holds) \in Nat /\ Len(g.net) \in Nat
      /\ DOMAIN g.net = 1 .. Len(g.net) /\ DOMAIN t.net = 1 .. Len(t.net)
  BY <1>1, <1>2, GateFields
<1> HIDE DEF t, x
<1>4. Range(x.chunks) \subseteq 0 .. now /\ (x.target \in Panes => x.target \in bn)
  BY <1>1, <1>2 DEF GateNames, x
<1>5. \A i \in DOMAIN t.net : i \notin DOMAIN g.net => t.net[i].to = x.target /\ t.net[i].chunk \in Range(x.chunks)
  BY <1>2 DEF Range
<1>6. \A p, y : y \in SentTo(t, p) => y \in SentTo(g, p) \/ (p = x.target /\ y \in Range(x.chunks))
  <2> SUFFICES ASSUME NEW p, NEW y \in SentTo(t, p) PROVE y \in SentTo(g, p) \/ (p = x.target /\ y \in Range(x.chunks))
    OBVIOUS
  <2>1. PICK i \in DOMAIN t.net : t.net[i].to = p /\ y = t.net[i].chunk
    BY <1>2, <1>3, SentIn
  <2>2. CASE i \in DOMAIN g.net
    <3>1. t.net[i] = g.net[i]
      BY <1>2, <2>2
    <3> QED BY <1>1, <1>3, <2>1, <2>2, <3>1, SentIn
  <2>3. CASE i \notin DOMAIN g.net
    BY <1>5, <2>1, <2>3
  <2> QED BY <2>2, <2>3
<1>7. GateNames(t, src, bn, now)
  <2>1. ASSUME NEW i \in DOMAIN t.holds, NEW k \in DOMAIN t.holds, t.holds[i].id = t.holds[k].id PROVE i = k
    <3>1. i + 1 = k + 1
      BY <1>1, <1>2, <2>1 DEF GateNames
    <3> QED BY <1>2, <3>1
  <2>2. \A i \in DOMAIN t.holds :
         /\ t.holds[i].target \in Panes => t.holds[i].target \in bn
         /\ t.holds[i].target = Undecided => {src[t.holds[i].id]} \ {Nowhere} \subseteq t.holds[i].sources
         /\ Range(t.holds[i].chunks) \subseteq 0 .. now /\ IsFiniteSet(t.holds[i].sources)
    <3> SUFFICES ASSUME NEW i \in DOMAIN t.holds
                 PROVE  /\ t.holds[i].target \in Panes => t.holds[i].target \in bn
                        /\ t.holds[i].target = Undecided => {src[t.holds[i].id]} \ {Nowhere} \subseteq t.holds[i].sources
                        /\ Range(t.holds[i].chunks) \subseteq 0 .. now /\ IsFiniteSet(t.holds[i].sources)
      OBVIOUS
    <3>1. i + 1 \in DOMAIN g.holds /\ t.holds[i] = g.holds[i + 1]
      BY <1>2
    <3> QED BY <1>1, <3>1, Zenon DEF GateNames
  <2>3. ASSUME NEW i \in DOMAIN t.net PROVE t.net[i].to \in bn /\ t.net[i].chunk <= now
    <3>1. CASE i \in DOMAIN g.net
      BY <1>1, <1>2, <3>1 DEF GateNames
    <3>2. CASE i \notin DOMAIN g.net
      BY <1>2, <1>4, <1>5, <3>2
    <3> QED BY <3>1, <3>2
  <2> QED BY <2>1, <2>2, <2>3, Zenon DEF GateNames
<1>8. Asked(t, req)
  BY <1>1, <1>2 DEF Asked
<1>9. ASSUME calm PROVE Orderly(t, src, tn, req, fr, hs)
  <2>1. GateShape(g, src) /\ FreshInv(g, src, req, fr, hs) /\ HoldsOrder(g, src, tn, hs) /\ NetOrder(g, hs)
    BY <1>1, <1>9, Zenon DEF Orderly, GateOrder
  <2>2. \A p : Reaches(src, x, p) <=> p = x.target
    BY DEF Reaches, x
  <2>3. \A p, y : y \in Sent(hs, t, p) => y \in Sent(hs, g, p) \/ (p = x.target /\ y \in Range(x.chunks))
    BY <1>6 DEF Sent
  <2>4. HoldOrder(x, tn) /\ Range(x.chunks) \subseteq Own(tn, x)
    BY <1>2, <2>1 DEF HoldsOrder, Own, x
  <2>5. GateShape(t, src)
    <3>1. ASSUME NEW i \in DOMAIN t.holds, NEW k \in DOMAIN t.holds, i < k, t.holds[i].target = Undecided, t.holds[k].target = Undecided
          PROVE  k = Len(t.holds)
      <4>1. i + 1 < k + 1
        BY <1>2, <3>1
      <4>2. k + 1 = Len(g.holds)
        BY <1>2, <2>1, <3>1, <4>1 DEF GateShape
      <4>3. k \in Nat /\ Len(t.holds) = Len(g.holds) - 1 /\ Len(g.holds) \in Nat
        BY <1>2, <1>3
      <4> QED BY <4>2, <4>3, SMTT(20)
    <3>2. ASSUME NEW i \in DOMAIN t.holds, t.holds[i].target = Undecided, src[t.holds[i].id] # Nowhere, i # Len(t.holds)
          PROVE  t.holds[i].sources \subseteq {src[t.holds[i].id]}
      <4>1. i + 1 # Len(g.holds)
        BY <1>2, <1>3, <3>2
      <4>2. i + 1 \in DOMAIN g.holds /\ t.holds[i] = g.holds[i + 1]
        BY <1>2
      <4> QED BY <2>1, <3>2, <4>1, <4>2, Zenon DEF GateShape
    <3> QED BY <3>1, <3>2, Zenon DEF GateShape
  <2>6. FreshInv(t, src, req, fr, hs)
    <3> SUFFICES ASSUME NEW i \in DOMAIN t.holds, t.holds[i].target = Undecided, req[t.holds[i].id] = "opened"
                 PROVE  /\ Sent(hs, t, fr[t.holds[i].id]) = {}
                        /\ \A k \in DOMAIN t.holds : ~Reaches(src, t.holds[k], fr[t.holds[i].id])
      BY Zenon DEF FreshInv
    <3>1. i + 1 \in DOMAIN g.holds /\ t.holds[i] = g.holds[i + 1]
      BY <1>2
    <3>2. /\ Sent(hs, g, fr[t.holds[i].id]) = {}
          /\ \A k \in DOMAIN g.holds : ~Reaches(src, g.holds[k], fr[t.holds[i].id])
      BY <2>1, <3>1, Zenon DEF FreshInv
    <3>3. fr[t.holds[i].id] # x.target
      BY <1>2, <2>2, <3>2 DEF x
    <3> QED BY <1>2, <2>3, <3>2, <3>3
  <2>7. HoldsOrder(t, src, tn, hs)
    <3>1. \A i \in DOMAIN t.holds : HoldOrder(t.holds[i], tn)
      BY <1>2, <2>1 DEF HoldsOrder
    <3>2. ASSUME NEW i \in DOMAIN t.holds, NEW p \in Panes, Reaches(src, t.holds[i], p)
          PROVE  Below(Sent(hs, t, p), Own(tn, t.holds[i]))
      <4>0. i \in Nat /\ Len(t.holds) = Len(g.holds) - 1 /\ DOMAIN t.holds = 1 .. Len(t.holds)
        BY <1>2, GateFields
      <4>4. 1 < i + 1
        BY <4>0
      <4>1. i + 1 \in DOMAIN g.holds /\ t.holds[i] = g.holds[i + 1] /\ 1 < i + 1
        BY <1>2, <4>4
      <4>2. Below(Sent(hs, g, p), Own(tn, t.holds[i]))
        BY <2>1, <3>2, <4>1, Zenon DEF HoldsOrder
      <4>3. p = x.target => Below(Own(tn, x), Own(tn, t.holds[i]))
        BY <1>2, <2>1, <2>2, <3>2, <4>1 DEF HoldsOrder, x
      <4> QED BY <2>3, <2>4, <4>2, <4>3 DEF Below
    <3>3. ASSUME NEW i \in DOMAIN t.holds, NEW k \in DOMAIN t.holds, NEW p \in Panes,
                 i < k, Reaches(src, t.holds[i], p), Reaches(src, t.holds[k], p)
          PROVE  Below(Own(tn, t.holds[i]), Own(tn, t.holds[k]))
      <4>1. i + 1 < k + 1
        BY <1>2, <3>3
      <4> QED BY <1>2, <2>1, <3>3, <4>1 DEF HoldsOrder
    <3> QED BY <3>1, <3>2, <3>3, Zenon DEF HoldsOrder
  <2>8. NetOrder(t, hs)
    <3>1. \A p \in Panes : p = x.target => Below(Sent(hs, g, p), Range(x.chunks))
      <4>1. \A p \in Panes : Reaches(src, x, p) => Below(Sent(hs, g, p), Own(tn, x))
        BY <1>2, <2>1 DEF HoldsOrder, x
      <4> QED BY <2>2, <2>4, <4>1 DEF Below
    <3>2. ASSUME NEW i \in DOMAIN t.net, NEW k \in DOMAIN t.net, i < k, t.net[i].to = t.net[k].to
          PROVE  t.net[i].chunk < t.net[k].chunk
      <4>1. CASE k \in DOMAIN g.net
        <5>1. i \in DOMAIN g.net
          BY <1>3, <3>2, <4>1
        <5> QED BY <1>2, <2>1, <3>2, <4>1, <5>1 DEF NetOrder
      <4>2. CASE k \notin DOMAIN g.net /\ i \in DOMAIN g.net
        <5>1. t.net[k].to = x.target /\ x.target \in Panes /\ t.net[k].chunk \in Range(x.chunks)
          BY <1>2, <1>5, <4>2
        <5>2. t.net[i].chunk \in SentTo(g, x.target)
          <6>1. i \in 1 .. Len(g.net) /\ g.net[i].to = x.target /\ t.net[i].chunk = g.net[i].chunk
            BY <1>1, <1>2, <1>3, <3>2, <4>2, <5>1
          <6> QED BY <1>1, <6>1, SentIn
        <5> QED BY <3>1, <5>1, <5>2 DEF Below, Sent
      <4>3. CASE k \notin DOMAIN g.net /\ i \notin DOMAIN g.net
        <5> DEFINE m == i - Len(g.net)  n == k - Len(g.net)
        <5>1. m \in DOMAIN x.chunks /\ n \in DOMAIN x.chunks /\ t.net[i].chunk = x.chunks[m] /\ t.net[k].chunk = x.chunks[n]
          BY <1>2, <4>3
        <5>2. m < n
          BY <1>3, <3>2
        <5> HIDE DEF m, n
        <5> QED BY <2>4, <5>1, <5>2 DEF HoldOrder
      <4> QED BY <4>1, <4>2, <4>3
    <3>3. ASSUME NEW p \in Panes PROVE Below(RawsOf(hs[p]), SentTo(t, p))
      <4>1. Below(RawsOf(hs[p]), SentTo(g, p))
        BY <2>1, Zenon DEF NetOrder
      <4>2. p = x.target => Below(RawsOf(hs[p]), Range(x.chunks))
        BY <3>1 DEF Below, Sent
      <4> QED BY <1>6, <4>1, <4>2 DEF Below
    <3> QED BY <3>2, <3>3, Zenon DEF NetOrder
  <2> QED BY <2>5, <2>6, <2>7, <2>8, Zenon DEF Orderly, GateOrder
<1> QED BY <1>2, <1>7, <1>8, <1>9, Zenon DEF GateInv, t

\* What FlattenSeq builds, up to the n-th.
Flattened(f, s, n) == f = [i \in 1 .. n |-> IF i = 1 THEN s[i] ELSE f[i - 1] \o s[i]]

LEMMA FlattenedExists ==
  ASSUME NEW s, NEW m \in Nat
  PROVE  \E f : Flattened(f, s, m)
<1> DEFINE B == {n \in Nat : \E f : Flattened(f, s, n)}
<1>1. 0 \in B
  <2> DEFINE f == [i \in 1 .. 0 |-> << >>]
  <2>1. f = [i \in 1 .. 0 |-> IF i = 1 THEN s[i] ELSE f[i - 1] \o s[i]]
    BY 1 .. 0 = {}
  <2>2. Flattened(f, s, 0)
    BY <2>1 DEF Flattened
  <2> QED BY <2>2, Zenon
<1>2. ASSUME NEW n \in 1 .. m, n - 1 \in B PROVE n \in B
  <2>1. PICK f : Flattened(f, s, n - 1)
    BY <1>2
  <2> DEFINE h == [i \in 1 .. n |-> IF i = n THEN (IF n = 1 THEN s[n] ELSE f[n - 1] \o s[n]) ELSE f[i]]
  <2>2. \A i \in 1 .. n - 1 : h[i] = f[i]
    BY Z3
  <2>3. f = [i \in 1 .. n - 1 |-> IF i = 1 THEN s[i] ELSE f[i - 1] \o s[i]]
    BY <2>1 DEF Flattened
  <2>4. ASSUME NEW i \in 1 .. n PROVE h[i] = IF i = 1 THEN s[i] ELSE h[i - 1] \o s[i]
    <3>1. CASE i = n /\ i = 1
      BY <3>1
    <3>2. CASE i = n /\ i # 1
      <4>1. h[i] = f[n - 1] \o s[n]
        BY <3>2
      <4>2. h[i - 1] = f[n - 1]
        BY <3>2, <2>2
      <4> QED BY <3>2, <4>1, <4>2
    <3>3. CASE i # n /\ i # 1
      <4>1. i \in 1 .. n - 1 /\ i - 1 \in 1 .. n - 1
        BY <3>3
      <4>2. h[i] = f[i] /\ h[i - 1] = f[i - 1]
        BY <4>1, <2>2
      <4>3. f[i] = f[i - 1] \o s[i]
        BY <2>3, <4>1, <3>3, Zenon
      <4> QED BY <4>2, <4>3, <3>3, Zenon
    <3>4. CASE i # n /\ i = 1
      <4>1. i \in 1 .. n - 1
        BY <3>4
      <4>2. h[i] = f[i]
        BY <4>1, <2>2
      <4>3. f[i] = s[i]
        BY <2>3, <4>1, <3>4, Zenon
      <4> QED BY <4>2, <4>3, <3>4, Zenon
    <3> QED BY <3>1, <3>2, <3>3, <3>4
  <2> HIDE DEF h
  <2>5. h = [i \in 1 .. n |-> h[i]]
    BY DEF h
  <2>6. Flattened(h, s, n)
    BY <2>4, <2>5, Zenon DEF Flattened
  <2> QED BY <2>6
<1> HIDE DEF B
<1>3. B \in SUBSET Nat
  BY DEF B
<1>4. \A i \in 0 .. m : i \in B
  BY <1>1, <1>2, <1>3, Counting
<1> QED BY <1>4, m \in 0 .. m DEF B

LEMMA FlattenSeqIs ==
  ASSUME NEW s, Len(s) \in Nat, Len(s) # 0
  PROVE  \E f : FlattenSeq(s) = f[Len(s)] /\ \A i \in 1 .. Len(s) : f[i] = IF i = 1 THEN s[i] ELSE f[i - 1] \o s[i]
<1> DEFINE n == Len(s)  f == CHOOSE h : Flattened(h, s, n)
<1>1. Flattened(f, s, n)
  BY FlattenedExists
<1>2. f = [i \in 1 .. n |-> IF i = 1 THEN s[i] ELSE f[i - 1] \o s[i]]
  BY <1>1 DEF Flattened
<1>3. FlattenSeq(s) = f[n]
  BY Zenon DEF FlattenSeq, Flattened
<1> HIDE DEF f
<1>4. \A i \in 1 .. n : f[i] = IF i = 1 THEN s[i] ELSE f[i - 1] \o s[i]
  BY <1>2, Zenon
<1> QED BY <1>3, <1>4, Zenon

LEMMA FramesJoin ==
  ASSUME NEW a \in Seq(Frame), NEW b \in Seq(Frame), NEW c \in Seq(Frame)
  PROVE  (a \o b) \o c = a \o (b \o c)
BY ConcatAssociative, SMTT(30)

LEMMA SameLength == ASSUME NEW m \in Nat, NEW n \in Nat, 1 .. m = 1 .. n PROVE m = n
<1>1. (m # 0 => m \in 1 .. m) /\ (n # 0 => n \in 1 .. n)
  OBVIOUS
<1>2. (m # 0 => m \in 1 .. n) /\ (n # 0 => n \in 1 .. m)
  BY <1>1
<1> QED BY <1>2

LEMMA LetGoKeeps ==
  ASSUME NEW src, NEW tn, NEW req, NEW fr, NEW hs, NEW bn \in SUBSET Panes, NEW now, NEW calm,
         NEW g, GateInv(g, src, tn, req, fr, hs, bn, now, calm)
  PROVE  GateInv(LetGo(g), src, tn, req, fr, hs, bn, now, calm)
<1> DEFINE W == {i \in DOMAIN g.holds : g.holds[i].target = Undecided}
           n == IF W = {} THEN Len(g.holds) ELSE Min(W) - 1
           L == Len(g.holds)
           gone == SubSeq(g.holds, 1, n)
           s == [i \in 1 .. n |-> Addressed(gone[i])]
<1>0. g \in Gate
  BY Zenon DEF GateInv
<1>1. g.holds \in Seq(HoldRecord) /\ g.net \in Seq(Frame) /\ DOMAIN g.holds = 1 .. L /\ L \in Nat
  BY <1>0, GateFields
<1>2. LetGo(g) = [holds |-> SubSeq(g.holds, n + 1, L), net |-> g.net \o FlattenSeq(s)]
  BY Zenon DEF LetGo
<1>3. n \in 0 .. L /\ \A i \in 1 .. n : i \in DOMAIN g.holds /\ g.holds[i].target # Undecided
  <2>1. CASE W = {}
    <3>1. n = L
      BY <2>1
    <3>2. \A i \in DOMAIN g.holds : g.holds[i].target # Undecided
      BY <2>1
    <3> HIDE DEF n, W
    <3> QED BY <1>1, <3>1, <3>2
  <2>2. CASE W # {}
    <3>1. W \in SUBSET Nat
      BY <1>1
    <3>2. Min(W) \in W /\ \A y \in W : Min(W) <= y
      <4> HIDE DEF W
      <4> QED BY <2>2, <3>1, Lowest, Zenon DEF Min
    <3>3. n = Min(W) - 1
      BY <2>2
    <3>4. Min(W) \in 1 .. L
      BY <1>1, <3>2
    <3> HIDE DEF n
    <3>5. ASSUME NEW i \in 1 .. n PROVE i \in DOMAIN g.holds /\ g.holds[i].target # Undecided
      <4>1. i \in 1 .. L /\ ~(Min(W) <= i)
        BY <1>1, <3>3, <3>4
      <4>2. i \notin W
        <5> HIDE DEF W
        <5> QED BY <3>2, <4>1
      <4> QED BY <1>1, <4>1, <4>2
    <3>6. n \in 0 .. L
      BY <1>1, <3>3, <3>4
    <3> QED BY <3>5, <3>6
  <2> QED BY <2>1, <2>2
<1> HIDE DEF n, W
<1>4. ASSUME NEW i \in 1 .. n PROVE gone[i] = g.holds[i]
  <2>1. \A k \in 1 .. n : g.holds[k] \in HoldRecord
    BY <1>1, <1>3, ElementOfSeq
  <2>2. n \in Int /\ 1 \in Int /\ i \in 1 .. n - 1 + 1 /\ 1 + i - 1 = i
    BY <1>3
  <2> QED BY <2>1, <2>2, SubSeqProperties
<1> HIDE DEF gone
<1>5. \A i \in 1 .. n : s[i] = Addressed(g.holds[i]) /\ s[i] \in Seq(Frame)
  <2>1. \A i \in 1 .. n : g.holds[i] \in HoldRecord
    BY <1>1, <1>3, ElementOfSeq
  <2> QED BY <1>3, <1>4, <2>1, AddressedIs
<1>6. Len(s) = n /\ n \in Nat
  <2>1. s \in [1 .. n -> Seq(Frame)]
    <3>1. \A i \in 1 .. n : s[i] \in Seq(Frame)
      BY <1>5
    <3> QED BY <3>1
  <2>2. n \in Nat
    BY <1>3
  <2> HIDE DEF s
  <2>3. s \in Seq(Seq(Frame))
    BY <2>1, <2>2, SeqDef
  <2>4. DOMAIN s = 1 .. Len(s) /\ Len(s) \in Nat /\ DOMAIN s = 1 .. n
    BY <2>1, <2>3, LenProperties
  <2> QED BY <2>2, <2>4, SameLength
<1>7. CASE n = 0
  <2>1. FlattenSeq(s) = s
    BY <1>6, <1>7, Zenon DEF FlattenSeq
  <2>2. s = << >>
    BY <1>7
  <2>3. SubSeq(g.holds, n + 1, L) = g.holds /\ g.net \o << >> = g.net
    <3>1. n + 1 = 1
      BY <1>7
    <3>2. SubSeq(g.holds, 1, L) = g.holds /\ g.net \o << >> = g.net
      BY <1>1, SubSeqFull, ConcatEmptySeq
    <3> QED BY <3>1, <3>2
  <2>4. LetGo(g) = [holds |-> g.holds, net |-> g.net]
    BY <1>2, <2>1, <2>2, <2>3
  <2>5. g = [holds |-> g.holds, net |-> g.net]
    BY <1>0 DEF Gate
  <2> QED BY <2>4, <2>5
<1>8. CASE n # 0
  <2> HIDE DEF s
  <2>1. PICK f : FlattenSeq(s) = f[n] /\ \A i \in 1 .. n : f[i] = IF i = 1 THEN s[i] ELSE f[i - 1] \o s[i]
    BY <1>6, <1>8, FlattenSeqIs
  <2> DEFINE G(i) == [holds |-> SubSeq(g.holds, i + 1, L), net |-> g.net \o f[i]]
             B == {i \in 0 .. n : i = 0 \/ (f[i] \in Seq(Frame) /\ GateInv(G(i), src, tn, req, fr, hs, bn, now, calm))}
  <2>2. ASSUME NEW i \in 1 .. n, i - 1 \in B PROVE i \in B
    <3> DEFINE h == IF i = 1 THEN g ELSE G(i - 1)
    <3>1. i \in 1 .. L /\ i \in 0 .. n /\ i - 1 + 1 = i /\ L \in i .. L /\ (i = 1 \/ i - 1 # 0)
      BY <1>1, <1>3
    <3>2. GateInv(h, src, tn, req, fr, hs, bn, now, calm)
      BY <2>2, <3>1
    <3>3. h.holds = SubSeq(g.holds, i, L)
      <4>1. CASE i = 1
        BY <1>1, <4>1, SubSeqFull
      <4>2. CASE i # 1
        BY <3>1, <4>2
      <4> QED BY <4>1, <4>2
    <3>4. f[i] \in Seq(Frame) /\ h.net \o s[i] = g.net \o f[i]
      <4>1. CASE i = 1
        BY <1>5, <2>1, <4>1
      <4>2. CASE i # 1
        <5>1. f[i - 1] \in Seq(Frame) /\ s[i] \in Seq(Frame)
          BY <1>5, <2>2, <3>1, <4>2
        <5>2. f[i] = f[i - 1] \o s[i] /\ h.net = g.net \o f[i - 1]
          BY <2>1, <4>2
        <5>3. (g.net \o f[i - 1]) \o s[i] = g.net \o (f[i - 1] \o s[i])
          BY <1>1, <5>1, FramesJoin
        <5>4. f[i - 1] \o s[i] \in Seq(Frame)
          BY <5>1, ConcatProperties
        <5> QED BY <5>2, <5>3, <5>4
      <4> QED BY <4>1, <4>2
    <3> HIDE DEF h
    <3>5. Head(h.holds) = g.holds[i] /\ Tail(h.holds) = SubSeq(g.holds, i + 1, L)
      BY <1>1, <3>1, <3>3, HeadTailOfSubSeq
    <3>6. Len(h.holds) = L - i + 1 /\ \A k \in 1 .. L - i + 1 : h.holds[k] = g.holds[i + k - 1]
      <4>1. \A k \in i .. L : g.holds[k] \in HoldRecord
        <5>1. \A k \in i .. L : k \in 1 .. L
          BY <3>1
        <5> QED BY <1>1, <5>1, ElementOfSeq
      <4>2. i \in Int /\ L \in Int /\ i <= L
        BY <3>1
      <4> QED BY <3>3, <4>1, <4>2, SubSeqProperties
    <3>7. h.holds # << >> /\ h.holds[1] = g.holds[i]
      <4>1. L - i + 1 # 0 /\ 1 \in 1 .. L - i + 1 /\ i + 1 - 1 = i
        BY <3>1
      <4> QED BY <3>6, <4>1, EmptySeq
    <3>8. h.holds[1].target # Undecided
      BY <1>3, <3>7
    <3>9. GateInv(Passes(h), src, tn, req, fr, hs, bn, now, calm)
      BY <3>2, <3>7, <3>8, PassesKeeps
    <3>10. Passes(h) = G(i)
      <4>1. Addressed(h.holds[1]) = s[i]
        BY <1>5, <3>7
      <4> QED BY <3>4, <3>5, <4>1 DEF Passes
    <3> QED BY <3>1, <3>4, <3>9, <3>10
  <2>3. 0 \in B /\ B \in SUBSET Nat
    <3>1. 0 \in 0 .. n /\ 0 .. n \in SUBSET Nat
      BY <1>6
    <3> HIDE DEF G
    <3> QED BY <3>1
  <2> HIDE DEF B
  <2>4. n \in B
    <3>1. \A i \in 0 .. n : i \in B
      BY <1>6, <2>2, <2>3, Counting
    <3>2. n \in 0 .. n
      BY <1>6
    <3> QED BY <3>1, <3>2
  <2>5. GateInv(G(n), src, tn, req, fr, hs, bn, now, calm)
    BY <1>8, <2>4 DEF B
  <2> QED BY <1>2, <2>1, <2>5
<1> QED BY <1>7, <1>8

-----------------------------------------------------------------------------
(* A hold ends.                                                            *)

LEMMA TargetsApart ==
  /\ Undecided # Nowhere /\ Undecided \notin Panes /\ Nowhere \notin Panes
  BY PanesAssumption DEF Undecided, Nowhere

LEMMA SameHold ==
  ASSUME NEW x, NEW y, x.id = y.id, x.target = y.target, x.chunks = y.chunks, NEW src, NEW tn
  PROVE  /\ Own(tn, x) = Own(tn, y) /\ (HoldOrder(x, tn) <=> HoldOrder(y, tn))
         /\ \A p : Reaches(src, x, p) <=> Reaches(src, y, p)
<1>1. Promised(tn, x) = Promised(tn, y)
  BY Zenon DEF Promised
<1>2. Own(tn, x) = Own(tn, y)
  BY <1>1, Zenon DEF Own
<1>3. HoldOrder(x, tn) <=> HoldOrder(y, tn)
  BY <1>1, Zenon DEF HoldOrder
<1>4. \A p : Reaches(src, x, p) <=> Reaches(src, y, p)
  BY Zenon DEF Reaches
<1> QED BY <1>2, <1>3, <1>4

\* The hold at k lets go to target, first before the rest, once all in front have.
Decided(g, k, target, first) ==
  [g EXCEPT !.holds = [i \in DOMAIN g.holds |->
     IF i = k THEN [g.holds[i] EXCEPT !.target = target, !.chunks = first \o @]
     ELSE IF i > k /\ g.holds[i].target = Undecided /\ target # Nowhere
          THEN [g.holds[i] EXCEPT !.sources = @ \cup {target}]
          ELSE g.holds[i]]]

Becomes(g, d, k, target, first) ==
  /\ d \in Gate /\ d.net = g.net /\ DOMAIN d.holds = DOMAIN g.holds /\ Len(d.holds) = Len(g.holds)
  /\ d.holds[k].target = target /\ d.holds[k].chunks = first \o g.holds[k].chunks
  /\ \A i \in DOMAIN g.holds :
       /\ d.holds[i].id = g.holds[i].id /\ g.holds[i].sources \subseteq d.holds[i].sources
       /\ IsFiniteSet(g.holds[i].sources) => IsFiniteSet(d.holds[i].sources)
       /\ i # k => d.holds[i].target = g.holds[i].target /\ d.holds[i].chunks = g.holds[i].chunks
       /\ \/ d.holds[i].sources = g.holds[i].sources
          \/ k < i /\ g.holds[i].target = Undecided

LEMMA DecidedIs ==
  ASSUME NEW g \in Gate, NEW k \in DOMAIN g.holds, NEW target \in Panes \cup {Nowhere}, NEW first \in Seq(Nat)
  PROVE  Becomes(g, Decided(g, k, target, first), k, target, first)
<1> DEFINE d == Decided(g, k, target, first)
           D(i) == IF i = k THEN [g.holds[i] EXCEPT !.target = target, !.chunks = first \o @]
                   ELSE IF i > k /\ g.holds[i].target = Undecided /\ target # Nowhere
                        THEN [g.holds[i] EXCEPT !.sources = @ \cup {target}]
                        ELSE g.holds[i]
           s == [i \in DOMAIN g.holds |-> D(i)]
<1>1. /\ DOMAIN g.holds = 1 .. Len(g.holds) /\ Len(g.holds) \in Nat
      /\ \A i \in DOMAIN g.holds :
           /\ g.holds[i] \in HoldRecord /\ g.holds[i].chunks \in Seq(Nat) /\ g.holds[i].sources \in SUBSET Panes
  BY GateFields
<1>2. d = [g EXCEPT !.holds = s]
  BY Zenon DEF Decided
<1>3. first \o g.holds[k].chunks \in Seq(Nat)
  BY <1>1, ConcatProperties
<1>4. ASSUME NEW i \in DOMAIN g.holds
      PROVE  /\ D(i) \in HoldRecord /\ D(i).id = g.holds[i].id /\ g.holds[i].sources \subseteq D(i).sources
             /\ IsFiniteSet(g.holds[i].sources) => IsFiniteSet(D(i).sources)
             /\ i # k => D(i).target = g.holds[i].target /\ D(i).chunks = g.holds[i].chunks
             /\ \/ D(i).sources = g.holds[i].sources
                \/ k < i /\ g.holds[i].target = Undecided
             /\ i = k => D(i).target = target /\ D(i).chunks = first \o g.holds[k].chunks
  <2> DEFINE x == g.holds[i]
  <2>0. x \in HoldRecord
    BY <1>1
  <2>1. CASE i = k
    <3>1. D(i) = [x EXCEPT !.target = target, !.chunks = first \o x.chunks]
      BY <2>1
    <3> DEFINE y == D(i)
    <3>2. first \o x.chunks \in Seq(Nat)
      BY <1>3, <2>1
    <3> HIDE DEF y, x
    <3>3. /\ y \in HoldRecord /\ y.id = x.id /\ y.sources = x.sources /\ y.target = target /\ y.chunks = first \o x.chunks
      BY <2>0, <3>1, <3>2 DEF HoldRecord, y
    <3> QED BY <2>1, <3>3 DEF y, x
  <2>2. CASE i # k /\ i > k /\ x.target = Undecided /\ target # Nowhere
    <3>1. D(i) = [x EXCEPT !.sources = @ \cup {target}]
      BY <2>2
    <3> DEFINE y == D(i)
    <3> HIDE DEF y, x
    <3>2. /\ y \in HoldRecord /\ y.id = x.id /\ y.sources = x.sources \cup {target} /\ y.target = x.target /\ y.chunks = x.chunks
      BY <2>0, <2>2, <3>1 DEF HoldRecord, y
    <3>3. IsFiniteSet(x.sources) => IsFiniteSet(y.sources)
      <4>1. IsFiniteSet(x.sources) => IsFiniteSet(x.sources \cup {target})
        BY FS_AddElement, Zenon
      <4> QED BY <3>2, <4>1
    <3>4. k < i
      BY <1>1, <2>2
    <3> QED BY <2>2, <3>2, <3>3, <3>4 DEF y, x
  <2>3. CASE i # k /\ ~(i > k /\ x.target = Undecided /\ target # Nowhere)
    <3>1. D(i) = x
      BY <2>3
    <3> QED BY <2>0, <2>3, <3>1
  <2> QED BY <2>1, <2>2, <2>3
<1>5. \A i \in DOMAIN g.holds : s[i] = D(i)
  OBVIOUS
<1>6. s \in Seq(HoldRecord)
  <2> DEFINE n == Len(g.holds)
  <2>1. s \in [1 .. n -> HoldRecord]
    <3>1. \A i \in DOMAIN g.holds : D(i) \in HoldRecord
      BY <1>4
    <3> HIDE DEF D
    <3> QED BY <1>1, <3>1
  <2>2. n \in Nat
    BY <1>1
  <2> HIDE DEF s, n
  <2> QED BY <2>1, <2>2, SeqDef
<1>7. DOMAIN s = DOMAIN g.holds
  OBVIOUS
<1> HIDE DEF s, D
<1>8. Len(s) = Len(g.holds)
  <2>1. DOMAIN s = 1 .. Len(s) /\ Len(s) \in Nat
    BY <1>6, LenProperties
  <2> QED BY <1>1, <1>7, <2>1, SameLength
<1> HIDE DEF d
<1>9. d \in Gate /\ d.net = g.net /\ d.holds = s
  BY <1>2, <1>6 DEF Gate
<1> QED BY <1>4, <1>5, <1>7, <1>8, <1>9 DEF d, Becomes

\* What is to be inserted comes before all the hold has.
LEMMA FirstBefore ==
  ASSUME NEW c \in Seq(Nat), NEW first \in Seq(Nat), NEW a \in Nat,
         first = << >> \/ first = <<a>>
  PROVE  LET u == first \o c
         IN  /\ u \in Seq(Nat) /\ Range(u) = Range(first) \cup Range(c)
             /\ (\A m, n \in DOMAIN c : m < n => c[m] < c[n]) /\ Below(Range(first), Range(c)) =>
                  \A m, n \in DOMAIN u : m < n => u[m] < u[n]
             /\ Range(first) = IF first = << >> THEN {} ELSE {a}
<1> DEFINE u == first \o c
<1>1. CASE first = << >>
  <2>1. u = c
    BY <1>1, ConcatEmptySeq
  <2>2. Range(first) = {}
    BY <1>1 DEF Range
  <2> QED BY <1>1, <2>1, <2>2
<1>2. CASE first = <<a>>
  <2>1. DOMAIN c = 1 .. Len(c) /\ Len(c) \in Nat /\ \A m \in 1 .. Len(c) : c[m] \in Nat
    BY LenProperties, ElementOfSeq
  <2>2. Len(first) = 1 /\ first[1] = a /\ DOMAIN first = {1}
    BY <1>2
  <2>3. /\ u \in Seq(Nat) /\ Len(u) = Len(first) + Len(c)
        /\ \A i \in 1 .. Len(first) + Len(c) : u[i] = IF i <= Len(first) THEN first[i] ELSE c[i - Len(first)]
    BY ConcatProperties
  <2> HIDE DEF u
  <2>4. DOMAIN u = 1 .. Len(c) + 1 /\ u[1] = a /\ \A i \in 2 .. Len(c) + 1 : i - 1 \in 1 .. Len(c) /\ u[i] = c[i - 1]
    <3>1. DOMAIN u = 1 .. Len(c) + 1
      BY <2>1, <2>2, <2>3, LenProperties
    <3>2. u[1] = a
      BY <2>1, <2>2, <2>3
    <3>3. \A i \in 2 .. Len(c) + 1 : i \in 1 .. 1 + Len(c) /\ ~(i <= 1) /\ i - 1 \in 1 .. Len(c)
      BY <2>1
    <3> QED BY <2>2, <2>3, <3>1, <3>2, <3>3
  <2>5. Range(first) = {a}
    BY <2>2 DEF Range
  <2>6. \A i : i \in DOMAIN u <=> i = 1 \/ i \in 2 .. Len(c) + 1
    BY <2>1, <2>4
  <2>7. \A y : y \in Range(u) <=> y = a \/ y \in Range(c)
    <3>1. ASSUME NEW y \in Range(u) PROVE y = a \/ y \in Range(c)
      <4>1. PICK i \in DOMAIN u : y = u[i]
        BY DEF Range
      <4>2. CASE i = 1
        BY <2>4, <4>1, <4>2
      <4>3. CASE i \in 2 .. Len(c) + 1
        <5>1. i - 1 \in DOMAIN c /\ y = c[i - 1]
          BY <2>1, <2>4, <4>1, <4>3
        <5> QED BY <5>1, Zenon DEF Range
      <4> QED BY <2>6, <4>2, <4>3
    <3>2. \A m \in 1 .. Len(c) : m + 1 \in 2 .. Len(c) + 1 /\ m + 1 - 1 = m
      BY <2>1
    <3>3. \A m \in 1 .. Len(c) : m + 1 \in DOMAIN u /\ u[m + 1] = c[m]
      <4> SUFFICES ASSUME NEW m \in 1 .. Len(c) PROVE m + 1 \in DOMAIN u /\ u[m + 1] = c[m]
        OBVIOUS
      <4> DEFINE k == m + 1
      <4>1. k \in 2 .. Len(c) + 1 /\ k - 1 = m
        BY <3>2
      <4> HIDE DEF k
      <4>2. k \in DOMAIN u /\ u[k] = c[k - 1]
        BY <2>4, <2>6, <4>1
      <4> QED BY <4>1, <4>2 DEF k
    <3>4. \A y : y \in Range(c) => y \in Range(u)
      BY <2>1, <3>3, Zenon DEF Range
    <3>5. a \in Range(u)
      BY <2>4, <2>6 DEF Range
    <3> QED BY <3>1, <3>4, <3>5
  <2>8. ASSUME \A m, n \in DOMAIN c : m < n => c[m] < c[n], Below(Range(first), Range(c)),
               NEW m \in DOMAIN u, NEW n \in DOMAIN u, m < n
        PROVE  u[m] < u[n]
    <3>1. n \in 2 .. Len(c) + 1
      BY <2>4, <2>8
    <3>2. n - 1 \in 1 .. Len(c) /\ u[n] = c[n - 1] /\ c[n - 1] \in Range(c)
      BY <2>1, <2>4, <3>1 DEF Range
    <3>3. CASE m = 1
      BY <2>4, <2>5, <2>8, <3>2, <3>3 DEF Below
    <3>4. CASE m \in 2 .. Len(c) + 1
      <4>0. m - 1 < n - 1
        BY <2>1, <2>8, <3>1, <3>4
      <4>1. m - 1 \in 1 .. Len(c) /\ u[m] = c[m - 1] /\ m - 1 < n - 1
        BY <2>4, <3>4, <4>0
      <4> QED BY <2>1, <2>8, <3>2, <4>1
    <3> QED BY <2>6, <3>3, <3>4
  <2>9. Range(u) = Range(first) \cup Range(c)
    BY <2>5, <2>7
  <2>10. first # << >>
    BY <1>2
  <2> QED BY <2>3, <2>5, <2>8, <2>9, <2>10 DEF u
<1> QED BY <1>1, <1>2

\* A hold's end is the answer of its request, or that its time is over.
LEMMA AnsweredKeeps ==
  ASSUME NEW src, NEW tn, NEW req, NEW fr, NEW hs, NEW bn \in SUBSET Panes, NEW now, NEW calm,
         NEW g, GateInv(g, src, tn, req, fr, hs, bn, now, calm),
         NEW r, \A i \in Holds : r[i] = req[i] \/ r[i] = "answered"
  PROVE  GateInv(g, src, tn, r, fr, hs, bn, now, calm)
<1>1. g \in Gate /\ GateNames(g, src, bn, now) /\ Asked(g, req) /\ (calm => Orderly(g, src, tn, req, fr, hs))
  BY Zenon DEF GateInv
<1>2. \A i \in DOMAIN g.holds : g.holds[i].id \in Holds
  BY <1>1, GateFields
<1>3. Asked(g, r)
  BY <1>1, <1>2 DEF Asked
<1>4. FreshInv(g, src, req, fr, hs) => FreshInv(g, src, r, fr, hs)
  BY <1>2 DEF FreshInv
<1>5. calm => Orderly(g, src, tn, r, fr, hs)
  BY <1>1, <1>4, Zenon DEF Orderly
<1> QED BY <1>1, <1>3, <1>5, Zenon DEF GateInv

LEMMA DecideKeeps ==
  ASSUME NEW src, NEW tn \in [Holds -> Nat], NEW req, NEW fr, NEW hs, NEW bn \in SUBSET Panes, NEW now \in Nat, NEW calm,
         NEW g, GateInv(g, src, tn, req, fr, hs, bn, now, calm), RequestRules(req, src, tn, fr, bn, now),
         NEW k \in DOMAIN g.holds, g.holds[k].target = Undecided,
         NEW h \in Holds, g.holds[k].id = h,
         NEW target \in Panes \cup {Nowhere}, target = src[h] \/ (req[h] = "opened" /\ target = fr[h]),
         NEW first, first = << >> \/ (first = <<tn[h]>> /\ req[h] = "pastes" /\ target = src[h])
  PROVE  GateInv(Decided(g, k, target, first), src, tn, req, fr, hs, bn, now, calm)
<1> DEFINE d == Decided(g, k, target, first)  x == g.holds[k]  y == d.holds[k]
<1>1. g \in Gate /\ GateNames(g, src, bn, now) /\ Asked(g, req) /\ (calm => Orderly(g, src, tn, req, fr, hs))
  BY Zenon DEF GateInv
<1>2. first \in Seq(Nat) /\ tn[h] \in Nat /\ (first = << >> \/ first = <<tn[h]>>)
  <2>1. tn[h] \in Nat
    OBVIOUS
  <2>2. \A a \in Nat : <<a>> \in Seq(Nat)
    OBVIOUS
  <2>3. << >> \in Seq(Nat)
    OBVIOUS
  <2> QED BY <2>1, <2>2, <2>3
<1>31. g \in Gate
  BY <1>1
<1>32. Becomes(g, d, k, target, first)
  BY <1>2, <1>31, DecidedIs, Zenon
<1> HIDE DEF d
<1>3. /\ d \in Gate /\ d.net = g.net /\ DOMAIN d.holds = DOMAIN g.holds /\ Len(d.holds) = Len(g.holds)
      /\ y.target = target /\ y.chunks = first \o x.chunks
      /\ \A i \in DOMAIN g.holds :
           /\ d.holds[i].id = g.holds[i].id /\ g.holds[i].sources \subseteq d.holds[i].sources
           /\ IsFiniteSet(g.holds[i].sources) => IsFiniteSet(d.holds[i].sources)
           /\ i # k => d.holds[i].target = g.holds[i].target /\ d.holds[i].chunks = g.holds[i].chunks
           /\ \/ d.holds[i].sources = g.holds[i].sources
              \/ k < i /\ g.holds[i].target = Undecided
  BY <1>32, Zenon DEF Becomes
<1>4. target # Undecided
  BY TargetsApart
<1>5. x.chunks \in Seq(Nat)
  BY <1>1, GateFields
<1>6. /\ Range(y.chunks) = Range(first) \cup Range(x.chunks)
      /\ (\A m, n \in DOMAIN x.chunks : m < n => x.chunks[m] < x.chunks[n]) /\ Below(Range(first), Range(x.chunks)) =>
           \A m, n \in DOMAIN y.chunks : m < n => y.chunks[m] < y.chunks[n]
      /\ Range(first) = IF first = << >> THEN {} ELSE {tn[h]}
  <2> DEFINE c == x.chunks  a == tn[h]  u == first \o c
  <2>1. c \in Seq(Nat) /\ first \in Seq(Nat) /\ a \in Nat /\ (first = << >> \/ first = <<a>>) /\ u = y.chunks
    BY <1>2, <1>3, <1>5
  <2> HIDE DEF c, a
  <2>2. /\ Range(u) = Range(first) \cup Range(c)
        /\ (\A m, n \in DOMAIN c : m < n => c[m] < c[n]) /\ Below(Range(first), Range(c)) =>
             \A m, n \in DOMAIN u : m < n => u[m] < u[n]
        /\ Range(first) = IF first = << >> THEN {} ELSE {a}
    BY <2>1, FirstBefore
  <2> HIDE DEF u
  <2> QED BY <2>1, <2>2, Zenon DEF c, a
<1>7. Range(first) \subseteq {tn[h]} \ {0}
  BY <1>6 DEF RequestRules
<1>8. Promised(tn, x) = {tn[h]} \ {0} /\ Promised(tn, y) = {} /\ \A p : Reaches(src, y, p) <=> p = target
  BY <1>3, <1>4 DEF Promised, Reaches
<1>9. Own(tn, y) \subseteq Own(tn, x)
  BY <1>6, <1>7, <1>8 DEF Own
<1>10. HoldOrder(x, tn) => HoldOrder(y, tn)
  BY <1>6, <1>7, <1>8 DEF HoldOrder, Below
<1>11. ASSUME NEW i \in DOMAIN g.holds, i # k
       PROVE  /\ Own(tn, d.holds[i]) = Own(tn, g.holds[i]) /\ (HoldOrder(d.holds[i], tn) <=> HoldOrder(g.holds[i], tn))
              /\ \A p : Reaches(src, d.holds[i], p) <=> Reaches(src, g.holds[i], p)
  <2> DEFINE u == d.holds[i]  v == g.holds[i]
  <2>1. u.id = v.id /\ u.target = v.target /\ u.chunks = v.chunks
    BY <1>3, <1>11
  <2> HIDE DEF u, v
  <2>2. /\ Own(tn, u) = Own(tn, v) /\ (HoldOrder(u, tn) <=> HoldOrder(v, tn))
        /\ \A p : Reaches(src, u, p) <=> Reaches(src, v, p)
    BY <2>1, SameHold
  <2> QED BY <2>2 DEF u, v
<1>12. GateNames(d, src, bn, now)
  <2>1. \A i, m \in DOMAIN d.holds : d.holds[i].id = d.holds[m].id => i = m
    BY <1>1, <1>3 DEF GateNames
  <2>2. ASSUME NEW i \in DOMAIN d.holds
        PROVE  /\ d.holds[i].target \in Panes => d.holds[i].target \in bn
               /\ d.holds[i].target = Undecided => {src[d.holds[i].id]} \ {Nowhere} \subseteq d.holds[i].sources
               /\ Range(d.holds[i].chunks) \subseteq 0 .. now /\ IsFiniteSet(d.holds[i].sources)
    <3>1. /\ g.holds[i].target \in Panes => g.holds[i].target \in bn
          /\ g.holds[i].target = Undecided => {src[g.holds[i].id]} \ {Nowhere} \subseteq g.holds[i].sources
          /\ Range(g.holds[i].chunks) \subseteq 0 .. now /\ IsFiniteSet(g.holds[i].sources)
      BY <1>1, <1>3 DEF GateNames
    <3>2. CASE i = k
      <4>1. target \in Panes => target \in bn
        BY TargetsApart DEF RequestRules
      <4>2. Range(first) \subseteq 0 .. now
        BY <1>7 DEF RequestRules
      <4>3. Range(y.chunks) \subseteq 0 .. now
        BY <1>6, <3>1, <3>2, <4>2
      <4> QED BY <1>3, <1>4, <3>1, <3>2, <4>1, <4>3
    <3>3. CASE i # k
      BY <1>3, <3>1, <3>3
    <3> QED BY <3>2, <3>3
  <2>3. \A i \in DOMAIN d.net : d.net[i].to \in bn /\ d.net[i].chunk <= now
    BY <1>1, <1>3 DEF GateNames
  <2> QED BY <2>1, <2>2, <2>3, Zenon DEF GateNames
<1>13. Asked(d, req)
  BY <1>1, <1>3 DEF Asked
<1>14. ASSUME calm PROVE Orderly(d, src, tn, req, fr, hs)
  <2>1. GateShape(g, src) /\ FreshInv(g, src, req, fr, hs) /\ HoldsOrder(g, src, tn, hs) /\ NetOrder(g, hs)
    BY <1>1, <1>14, Zenon DEF Orderly, GateOrder
  <2>2. \A p : SentTo(d, p) = SentTo(g, p) /\ Sent(hs, d, p) = Sent(hs, g, p)
    <3>1. d.net = g.net
      BY <1>3
    <3>2. \A p : SentTo(d, p) = SentTo(g, p)
      BY <3>1 DEF SentTo
    <3> QED BY <3>2, Zenon DEF Sent
  <2>3. \A i \in DOMAIN d.holds : i = k \/ i # k
    OBVIOUS
  \* The target is the source, or else nothing comes to it.
  <2>4. \/ Reaches(src, x, target)
        \/ /\ req[h] = "opened" /\ target = fr[h] /\ Sent(hs, g, target) = {}
           /\ \A m \in DOMAIN g.holds : ~Reaches(src, g.holds[m], target)
    <3>1. target = src[h] => Reaches(src, x, target)
      BY Zenon DEF Reaches
    <3>2. req[h] = "opened" /\ target = fr[h] => /\ Sent(hs, g, target) = {}
                                                 /\ \A m \in DOMAIN g.holds : ~Reaches(src, g.holds[m], target)
      BY <2>1, Zenon DEF FreshInv
    <3> QED BY <3>1, <3>2
  <2>5. GateShape(d, src)
    <3>1. \A i, m \in DOMAIN d.holds : i < m /\ d.holds[i].target = Undecided /\ d.holds[m].target = Undecided => m = Len(d.holds)
      BY <1>3, <1>4, <2>1 DEF GateShape
    <3>2. ASSUME NEW i \in DOMAIN d.holds, d.holds[i].target = Undecided, src[d.holds[i].id] # Nowhere, i # Len(d.holds)
          PROVE  d.holds[i].sources \subseteq {src[d.holds[i].id]}
      <4>1. i \in DOMAIN g.holds /\ i # k /\ g.holds[i].target = Undecided /\ d.holds[i].id = g.holds[i].id /\ i # Len(g.holds)
        BY <1>3, <1>4, <3>2
      <4>2. ~(k < i)
        BY <2>1, <4>1, Zenon DEF GateShape
      <4>3. g.holds[i].sources \subseteq {src[g.holds[i].id]}
        BY <2>1, <3>2, <4>1, Zenon DEF GateShape
      <4> QED BY <1>3, <4>1, <4>2, <4>3
    <3> QED BY <3>1, <3>2, Zenon DEF GateShape
  <2>6. FreshInv(d, src, req, fr, hs)
    <3> SUFFICES ASSUME NEW i \in DOMAIN d.holds, d.holds[i].target = Undecided, req[d.holds[i].id] = "opened"
                 PROVE  /\ Sent(hs, d, fr[d.holds[i].id]) = {}
                        /\ \A m \in DOMAIN d.holds : ~Reaches(src, d.holds[m], fr[d.holds[i].id])
      BY Zenon DEF FreshInv
    <3> DEFINE e == g.holds[i].id  f == fr[e]
    <3>1. i \in DOMAIN g.holds /\ i # k /\ g.holds[i].target = Undecided /\ d.holds[i].id = e
      BY <1>3, <1>4
    <3>2. req[e] = "opened"
      BY <3>1
    <3>3. Sent(hs, g, f) = {} /\ \A m \in DOMAIN g.holds : ~Reaches(src, g.holds[m], f)
      BY <2>1, <3>1, <3>2, Zenon DEF FreshInv
    <3>4. e \in Holds /\ e # h
      BY <1>1, <3>1, GateFields DEF GateNames
    <3>5. target # f
      <4>1. Reaches(src, x, target) => target # f
        BY <3>3
      <4>2. req[h] = "opened" /\ target = fr[h] => target # f
        BY <3>2, <3>4, Zenon DEF RequestRules
      <4> QED BY <2>4, <4>1, <4>2
    <3>6. ASSUME NEW m \in DOMAIN d.holds PROVE ~Reaches(src, d.holds[m], f)
      <4>1. m = k => ~Reaches(src, d.holds[m], f)
        BY <1>8, <3>5
      <4>2. m # k => ~Reaches(src, d.holds[m], f)
        BY <1>3, <1>11, <3>3
      <4> QED BY <4>1, <4>2
    <3> QED BY <2>2, <3>1, <3>3, <3>6
  <2>7. HoldsOrder(d, src, tn, hs)
    <3>1. \A i \in DOMAIN d.holds : HoldOrder(d.holds[i], tn)
      <4>1. \A i \in DOMAIN g.holds : HoldOrder(g.holds[i], tn)
        BY <2>1, Zenon DEF HoldsOrder
      <4> QED BY <1>3, <1>10, <1>11, <4>1
    <3>2. ASSUME NEW i \in DOMAIN d.holds, NEW p \in Panes, Reaches(src, d.holds[i], p)
          PROVE  Below(Sent(hs, d, p), Own(tn, d.holds[i]))
      <4>0. \A m \in DOMAIN g.holds : Reaches(src, g.holds[m], p) => Below(Sent(hs, g, p), Own(tn, g.holds[m]))
        BY <2>1, Zenon DEF HoldsOrder
      <4>1. CASE i # k
        BY <1>3, <1>11, <2>2, <3>2, <4>0, <4>1
      <4>2. CASE i = k
        <5>1. p = target
          BY <1>8, <3>2, <4>2
        <5>2. Sent(hs, g, p) = {} \/ Below(Sent(hs, g, p), Own(tn, x))
          BY <2>4, <4>0, <5>1
        <5> QED BY <1>9, <2>2, <4>2, <5>2 DEF Below
      <4> QED BY <4>1, <4>2
    <3>3. ASSUME NEW i \in DOMAIN d.holds, NEW m \in DOMAIN d.holds, NEW p \in Panes,
                 i < m, Reaches(src, d.holds[i], p), Reaches(src, d.holds[m], p)
          PROVE  Below(Own(tn, d.holds[i]), Own(tn, d.holds[m]))
      <4>0. Reaches(src, g.holds[i], p) /\ Reaches(src, g.holds[m], p) => Below(Own(tn, g.holds[i]), Own(tn, g.holds[m]))
        BY <1>3, <2>1, <3>3, Zenon DEF HoldsOrder
      <4>1. i # m
        BY <1>1, <1>3, <3>3, GateFields
      <4>2. i # k => Reaches(src, g.holds[i], p) /\ Own(tn, d.holds[i]) = Own(tn, g.holds[i])
        BY <1>3, <1>11, <3>3
      <4>3. m # k => Reaches(src, g.holds[m], p) /\ Own(tn, d.holds[m]) = Own(tn, g.holds[m])
        BY <1>3, <1>11, <3>3
      <4>4. i = k \/ m = k => p = target /\ Reaches(src, x, p)
        <5>1. i = k \/ m = k => p = target
          BY <1>8, <3>3
        <5> QED BY <1>3, <2>4, <4>1, <4>2, <4>3, <5>1
      <4>5. Below(Own(tn, g.holds[i]), Own(tn, g.holds[m]))
        BY <4>0, <4>2, <4>3, <4>4
      <4>6. Own(tn, d.holds[i]) \subseteq Own(tn, g.holds[i]) /\ Own(tn, d.holds[m]) \subseteq Own(tn, g.holds[m])
        BY <1>9, <4>2, <4>3
      <4> QED BY <4>5, <4>6 DEF Below
    <3> QED BY <3>1, <3>2, <3>3, Zenon DEF HoldsOrder
  <2>8. NetOrder(d, hs)
    BY <1>3, <2>1, <2>2, Zenon DEF NetOrder
  <2> QED BY <2>5, <2>6, <2>7, <2>8, Zenon DEF Orderly, GateOrder
<1> QED BY <1>3, <1>12, <1>13, <1>14, Zenon DEF GateInv, d

LEMMA FinishKeeps ==
  ASSUME NEW src, NEW tn \in [Holds -> Nat], NEW req, NEW fr, NEW hs, NEW bn \in SUBSET Panes, NEW now \in Nat, NEW calm,
         NEW g, GateInv(g, src, tn, req, fr, hs, bn, now, calm), RequestRules(req, src, tn, fr, bn, now),
         NEW h \in Holds,
         NEW target \in Panes \cup {Nowhere}, target = src[h] \/ (req[h] = "opened" /\ target = fr[h]),
         NEW first, first = << >> \/ (first = <<tn[h]>> /\ req[h] = "pastes" /\ target = src[h]),
         first = << >> \/ \E i \in DOMAIN g.holds : g.holds[i].id = h /\ g.holds[i].target = Undecided
  PROVE  GateInv(Finish(g, h, target, first), src, tn, req, fr, hs, bn, now, calm)
<1> DEFINE found == {i \in DOMAIN g.holds : g.holds[i].id = h /\ g.holds[i].target = Undecided}
           k == CHOOSE i \in found : TRUE
<1>1. CASE found # {}
  <2>1. k \in found
    BY <1>1, Zenon
  <2>2. Finish(g, h, target, first) = LetGo(Decided(g, k, target, first))
    BY <1>1, Zenon DEF Finish, Decided
  <2> DEFINE d == Decided(g, k, target, first)
  <2>3. k \in DOMAIN g.holds /\ g.holds[k].id = h /\ g.holds[k].target = Undecided
    BY <2>1
  <2> HIDE DEF k, found
  <2>4. GateInv(d, src, tn, req, fr, hs, bn, now, calm)
    BY <2>3, DecideKeeps
  <2> HIDE DEF d
  <2>5. GateInv(LetGo(d), src, tn, req, fr, hs, bn, now, calm)
    BY <2>4, LetGoKeeps
  <2> QED BY <2>2, <2>5 DEF d
<1>2. CASE found = {}
  <2>1. Finish(g, h, target, first) = g
    BY <1>2, Zenon DEF Finish
  <2> QED BY <2>1
<1> QED BY <1>1, <1>2

LEMMA DiscardKeeps ==
  ASSUME NEW src, NEW tn, NEW req, NEW fr, NEW hs, NEW bn \in SUBSET Panes, NEW now, NEW calm,
         NEW g, GateInv(g, src, tn, req, fr, hs, bn, now, calm), RequestRules(req, src, tn, fr, bn, now), NEW H
  PROVE  GateInv(Discard(g, H), src, tn, req, fr, hs, bn, now, calm)
<1> DEFINE D(i) == IF g.holds[i].id \in H /\ g.holds[i].target = Undecided
                     THEN [g.holds[i] EXCEPT !.target = Nowhere] ELSE g.holds[i]
           s == [i \in DOMAIN g.holds |-> D(i)]
           d == [g EXCEPT !.holds = s]
<1>1. g \in Gate /\ GateNames(g, src, bn, now) /\ Asked(g, req) /\ (calm => Orderly(g, src, tn, req, fr, hs))
  BY Zenon DEF GateInv
<1>2. /\ DOMAIN g.holds = 1 .. Len(g.holds) /\ Len(g.holds) \in Nat
      /\ \A i \in DOMAIN g.holds : g.holds[i] \in HoldRecord /\ g.holds[i].id \in Holds
  BY <1>1, GateFields
<1>3. Discard(g, H) = LetGo(d)
  BY Zenon DEF Discard
<1>4. ASSUME NEW i \in DOMAIN g.holds
      PROVE  /\ D(i) \in HoldRecord /\ D(i).id = g.holds[i].id /\ D(i).sources = g.holds[i].sources
             /\ D(i).chunks = g.holds[i].chunks
             /\ D(i).target = g.holds[i].target \/ (D(i).target = Nowhere /\ g.holds[i].target = Undecided)
  <2> DEFINE x == g.holds[i]
  <2>1. x \in HoldRecord
    BY <1>2
  <2>2. CASE g.holds[i].id \in H /\ g.holds[i].target = Undecided
    <3>1. D(i) = [x EXCEPT !.target = Nowhere] /\ x.target = Undecided
      BY <2>2
    <3> DEFINE y == D(i)
    <3> HIDE DEF y, x
    <3>2. y \in HoldRecord /\ y.id = x.id /\ y.sources = x.sources /\ y.target = Nowhere /\ y.chunks = x.chunks
      BY <2>1, <3>1 DEF HoldRecord, y
    <3> QED BY <3>1, <3>2 DEF x, y
  <2>3. CASE ~(g.holds[i].id \in H /\ g.holds[i].target = Undecided)
    <3>1. D(i) = x
      BY <2>3
    <3> QED BY <2>1, <3>1
  <2> QED BY <2>2, <2>3
<1>5. s \in Seq(HoldRecord)
  <2> DEFINE n == Len(g.holds)
  <2>1. s \in [1 .. n -> HoldRecord]
    <3>1. \A i \in DOMAIN g.holds : D(i) \in HoldRecord
      BY <1>4
    <3> HIDE DEF D
    <3> QED BY <1>2, <3>1
  <2>2. n \in Nat
    BY <1>2
  <2> HIDE DEF s, n
  <2> QED BY <2>1, <2>2, SeqDef
<1>6. DOMAIN s = DOMAIN g.holds /\ \A i \in DOMAIN g.holds : s[i] = D(i)
  OBVIOUS
<1> HIDE DEF s, D
<1>7. Len(s) = Len(g.holds)
  <2>1. DOMAIN s = 1 .. Len(s) /\ Len(s) \in Nat
    BY <1>5, LenProperties
  <2> QED BY <1>2, <1>6, <2>1, SameLength
<1>8. d \in Gate /\ d.net = g.net /\ d.holds = s
  BY <1>1, <1>5 DEF Gate
<1> HIDE DEF d
<1>9. /\ DOMAIN d.holds = DOMAIN g.holds /\ Len(d.holds) = Len(g.holds)
      /\ \A i \in DOMAIN g.holds :
           /\ d.holds[i].id = g.holds[i].id /\ d.holds[i].sources = g.holds[i].sources
           /\ d.holds[i].chunks = g.holds[i].chunks
           /\ d.holds[i].target = g.holds[i].target \/ (d.holds[i].target = Nowhere /\ g.holds[i].target = Undecided)
  BY <1>4, <1>6, <1>7, <1>8
<1>10. GateNames(d, src, bn, now)
  <2>1. \A i, m \in DOMAIN d.holds : d.holds[i].id = d.holds[m].id => i = m
    BY <1>1, <1>9 DEF GateNames
  <2>2. ASSUME NEW i \in DOMAIN d.holds
        PROVE  /\ d.holds[i].target \in Panes => d.holds[i].target \in bn
               /\ d.holds[i].target = Undecided => {src[d.holds[i].id]} \ {Nowhere} \subseteq d.holds[i].sources
               /\ Range(d.holds[i].chunks) \subseteq 0 .. now /\ IsFiniteSet(d.holds[i].sources)
    <3>1. /\ g.holds[i].target \in Panes => g.holds[i].target \in bn
          /\ g.holds[i].target = Undecided => {src[g.holds[i].id]} \ {Nowhere} \subseteq g.holds[i].sources
          /\ Range(g.holds[i].chunks) \subseteq 0 .. now /\ IsFiniteSet(g.holds[i].sources)
      BY <1>1, <1>9 DEF GateNames
    <3> QED BY <1>9, <3>1, TargetsApart
  <2>3. \A i \in DOMAIN d.net : d.net[i].to \in bn /\ d.net[i].chunk <= now
    BY <1>1, <1>8 DEF GateNames
  <2> QED BY <2>1, <2>2, <2>3, Zenon DEF GateNames
<1>11. Asked(d, req)
  BY <1>1, <1>9 DEF Asked
<1>12. ASSUME NEW i \in DOMAIN g.holds
       PROVE  /\ Own(tn, d.holds[i]) \subseteq Own(tn, g.holds[i]) /\ (HoldOrder(g.holds[i], tn) => HoldOrder(d.holds[i], tn))
              /\ \A p \in Panes : Reaches(src, d.holds[i], p) => Reaches(src, g.holds[i], p)
  <2> DEFINE u == d.holds[i]  v == g.holds[i]
  <2>1. u.id = v.id /\ u.chunks = v.chunks /\ (u.target = v.target \/ u.target = Nowhere)
    BY <1>9
  <2> HIDE DEF u, v
  <2>2. CASE u.target = v.target
    BY <2>1, <2>2, SameHold DEF u, v
  <2>3. CASE u.target = Nowhere
    <3>1. Promised(tn, u) = {} /\ \A p \in Panes : ~Reaches(src, u, p)
      BY <2>3, TargetsApart DEF Promised, Reaches
    <3>2. HoldOrder(v, tn) => HoldOrder(u, tn)
      BY <2>1, <3>1 DEF HoldOrder, Below
    <3>3. Own(tn, u) \subseteq Own(tn, v)
      BY <2>1, <3>1 DEF Own
    <3> QED BY <3>1, <3>2, <3>3 DEF u, v
  <2> QED BY <2>1, <2>2, <2>3
<1>13. ASSUME calm PROVE Orderly(d, src, tn, req, fr, hs)
  <2>1. GateShape(g, src) /\ FreshInv(g, src, req, fr, hs) /\ HoldsOrder(g, src, tn, hs) /\ NetOrder(g, hs)
    BY <1>1, <1>13, Zenon DEF Orderly, GateOrder
  <2>2. \A p : SentTo(d, p) = SentTo(g, p) /\ Sent(hs, d, p) = Sent(hs, g, p)
    <3>1. \A p : SentTo(d, p) = SentTo(g, p)
      BY <1>8 DEF SentTo
    <3> QED BY <3>1, Zenon DEF Sent
  <2>3. \A i \in DOMAIN g.holds : d.holds[i].target = Undecided => g.holds[i].target = Undecided
    BY <1>9, TargetsApart
  <2>4. GateShape(d, src)
    BY <1>9, <2>1, <2>3 DEF GateShape
  <2>5. FreshInv(d, src, req, fr, hs)
    <3> SUFFICES ASSUME NEW i \in DOMAIN d.holds, d.holds[i].target = Undecided, req[d.holds[i].id] = "opened"
                 PROVE  /\ Sent(hs, d, fr[d.holds[i].id]) = {}
                        /\ \A m \in DOMAIN d.holds : ~Reaches(src, d.holds[m], fr[d.holds[i].id])
      BY Zenon DEF FreshInv
    <3> DEFINE e == g.holds[i].id  f == fr[e]
    <3>1. i \in DOMAIN g.holds /\ g.holds[i].target = Undecided /\ d.holds[i].id = e
      BY <1>9, <2>3
    <3>2. req[e] = "opened" /\ e \in Holds
      BY <1>2, <3>1
    <3>3. Sent(hs, g, f) = {} /\ \A m \in DOMAIN g.holds : ~Reaches(src, g.holds[m], f)
      BY <2>1, <3>1, <3>2, Zenon DEF FreshInv
    <3>4. f \in Panes
      BY <3>2 DEF RequestRules
    <3> QED BY <1>9, <1>12, <2>2, <3>1, <3>3, <3>4
  <2>6. HoldsOrder(d, src, tn, hs)
    <3>1. \A i \in DOMAIN d.holds : HoldOrder(d.holds[i], tn)
      <4>1. \A i \in DOMAIN g.holds : HoldOrder(g.holds[i], tn)
        BY <2>1, Zenon DEF HoldsOrder
      <4> QED BY <1>9, <1>12, <4>1
    <3>2. ASSUME NEW i \in DOMAIN d.holds, NEW p \in Panes, Reaches(src, d.holds[i], p)
          PROVE  Below(Sent(hs, d, p), Own(tn, d.holds[i]))
      <4>1. i \in DOMAIN g.holds /\ Reaches(src, g.holds[i], p) /\ Own(tn, d.holds[i]) \subseteq Own(tn, g.holds[i])
        BY <1>9, <1>12, <3>2
      <4>2. Below(Sent(hs, g, p), Own(tn, g.holds[i]))
        BY <2>1, <4>1, Zenon DEF HoldsOrder
      <4> QED BY <2>2, <4>1, <4>2 DEF Below
    <3>3. ASSUME NEW i \in DOMAIN d.holds, NEW m \in DOMAIN d.holds, NEW p \in Panes,
                 i < m, Reaches(src, d.holds[i], p), Reaches(src, d.holds[m], p)
          PROVE  Below(Own(tn, d.holds[i]), Own(tn, d.holds[m]))
      <4>1. /\ i \in DOMAIN g.holds /\ Reaches(src, g.holds[i], p) /\ Own(tn, d.holds[i]) \subseteq Own(tn, g.holds[i])
            /\ m \in DOMAIN g.holds /\ Reaches(src, g.holds[m], p) /\ Own(tn, d.holds[m]) \subseteq Own(tn, g.holds[m])
        BY <1>9, <1>12, <3>3
      <4>2. Below(Own(tn, g.holds[i]), Own(tn, g.holds[m]))
        BY <2>1, <3>3, <4>1, Zenon DEF HoldsOrder
      <4> QED BY <4>1, <4>2 DEF Below
    <3> QED BY <3>1, <3>2, <3>3, Zenon DEF HoldsOrder
  <2>7. NetOrder(d, hs)
    BY <1>8, <2>1, <2>2, Zenon DEF NetOrder
  <2> QED BY <2>4, <2>5, <2>6, <2>7, Zenon DEF Orderly, GateOrder
<1>14. GateInv(d, src, tn, req, fr, hs, bn, now, calm)
  BY <1>8, <1>10, <1>11, <1>13, Zenon DEF GateInv
<1> QED BY <1>3, <1>14, LetGoKeeps

-----------------------------------------------------------------------------
(* Something is typed.                                                     *)

LEMMA RawsTyped == ASSUME NEW h \in Host PROVE RawsOf(h) \subseteq Nat
<1>1. \A k \in 1 .. Len(h.queue) : h.queue[k] \in Item
  BY HostFields, ElementOfSeq
<1>2. \A k \in 1 .. Len(h.out) : h.out[k] \in Output
  BY HostFields, ElementOfSeq
<1>3. \A x \in Raws(h.queue) : x \in Nat
  BY <1>1, HostFields, RawsIn, ItemKinds
<1>4. \A x \in Raws(h.out) : x \in Nat
  BY <1>2, HostFields, RawsIn, ItemKinds
<1> QED BY <1>3, <1>4 DEF RawsOf

\* All that is on its way was typed before now.
LEMMA SentBefore ==
  ASSUME NEW src, NEW tn \in [Holds -> Nat], NEW req, NEW fr, NEW hs \in [Panes -> Host],
         NEW bn \in SUBSET Panes, NEW now \in Nat,
         NEW g \in Gate, GateNames(g, src, bn, now), RequestRules(req, src, tn, fr, bn, now), Past(hs, now)
  PROVE  /\ \A p \in Panes : \A x \in Sent(hs, g, p) : x \in 0 .. now
         /\ \A i \in DOMAIN g.holds : \A x \in Own(tn, g.holds[i]) : x \in 0 .. now
         /\ \A p : SentTo(g, p) # {} => p \in bn
<1>1. \A p : \A x \in SentTo(g, p) : x \in 0 .. now /\ p \in bn
  <2> SUFFICES ASSUME NEW p, NEW x \in SentTo(g, p) PROVE x \in 0 .. now /\ p \in bn
    OBVIOUS
  <2>1. PICK i \in 1 .. Len(g.net) : g.net[i].to = p /\ x = g.net[i].chunk
    BY SentIn
  <2>2. i \in DOMAIN g.net
    BY GateFields
  <2>3. g.net[i].to \in bn /\ g.net[i].chunk <= now
    BY <2>2, Zenon DEF GateNames
  <2>4. g.net[i].chunk \in Nat
    BY <2>2, GateFields
  <2> QED BY <2>1, <2>3, <2>4
<1>2. \A p \in Panes : \A x \in Sent(hs, g, p) : x \in 0 .. now
  <2> SUFFICES ASSUME NEW p \in Panes, NEW x \in Sent(hs, g, p) PROVE x \in 0 .. now
    OBVIOUS
  <2>1. RawsOf(hs[p]) \subseteq Nat
    BY RawsTyped
  <2>2. \A y \in RawsOf(hs[p]) : y <= now
    BY Zenon DEF Past
  <2>3. \A y \in RawsOf(hs[p]) : y \in 0 .. now
    BY <2>1, <2>2
  <2> QED BY <1>1, <2>3 DEF Sent
<1>3. \A i \in DOMAIN g.holds : \A x \in Own(tn, g.holds[i]) : x \in 0 .. now
  <2> SUFFICES ASSUME NEW i \in DOMAIN g.holds, NEW x \in Own(tn, g.holds[i]) PROVE x \in 0 .. now
    OBVIOUS
  <2>1. Range(g.holds[i].chunks) \subseteq 0 .. now
    BY Zenon DEF GateNames
  <2>2. g.holds[i].id \in Holds
    BY GateFields
  <2>3. tn[g.holds[i].id] <= now /\ tn[g.holds[i].id] \in Nat
    BY <2>2, Zenon DEF RequestRules
  <2>4. x \in Range(g.holds[i].chunks) \/ x = tn[g.holds[i].id]
    BY DEF Own, Promised
  <2> QED BY <2>1, <2>3, <2>4
<1> QED BY <1>1, <1>2, <1>3

\* d is g with x behind what the hold at m has.
Took(g, d, m, x) ==
  /\ d \in Gate /\ d.net = g.net /\ DOMAIN d.holds = DOMAIN g.holds /\ Len(d.holds) = Len(g.holds)
  /\ \A i \in DOMAIN g.holds :
       /\ d.holds[i].id = g.holds[i].id /\ d.holds[i].sources = g.holds[i].sources
       /\ d.holds[i].target = g.holds[i].target
       /\ i # m => d.holds[i].chunks = g.holds[i].chunks
  /\ d.holds[m].chunks = Append(g.holds[m].chunks, x)

LEMMA TakesIs ==
  ASSUME NEW g \in Gate, NEW m \in DOMAIN g.holds, NEW x \in Nat
  PROVE  Took(g, [g EXCEPT !.holds[m].chunks = Append(@, x)], m, x)
<1> DEFINE d == [g EXCEPT !.holds[m].chunks = Append(@, x)]
           u == g.holds[m]
           c == Append(u.chunks, x)
           y == [u EXCEPT !.chunks = c]
           s == [g.holds EXCEPT ![m] = y]
<1>1. /\ g.holds \in Seq(HoldRecord) /\ u \in HoldRecord /\ u.chunks \in Seq(Nat)
  BY GateFields
<1>2. c \in Seq(Nat)
  BY <1>1, AppendProperties
<1>3. d = [g EXCEPT !.holds = s]
  BY DEF Gate
<1> HIDE DEF c, u
<1>4. y \in HoldRecord /\ y.id = u.id /\ y.sources = u.sources /\ y.target = u.target /\ y.chunks = c
  BY <1>1, <1>2 DEF HoldRecord
<1> HIDE DEF y
<1>5. s \in Seq(HoldRecord) /\ Len(s) = Len(g.holds)
  BY <1>1, <1>4, ExceptSeq
<1>6. DOMAIN s = DOMAIN g.holds /\ s[m] = y /\ \A i \in DOMAIN g.holds : i # m => s[i] = g.holds[i]
  OBVIOUS
<1> HIDE DEF s, d
<1>7. d \in Gate /\ d.net = g.net /\ d.holds = s
  BY <1>3, <1>5 DEF Gate
<1>8. \A i \in DOMAIN g.holds : i # m => d.holds[i] = g.holds[i]
  BY <1>6, <1>7
<1>9. d.holds[m] = y
  BY <1>6, <1>7
<1>10. Took(g, d, m, x)
  BY <1>4, <1>5, <1>6, <1>7, <1>8, <1>9 DEF Took, u, c
<1> QED BY <1>10 DEF d

LEMMA AppendChunk ==
  ASSUME NEW c \in Seq(Nat), NEW x \in Nat
  PROVE  LET u == Append(c, x)
         IN  /\ u \in Seq(Nat) /\ Range(u) = Range(c) \cup {x}
             /\ (\A m, n \in DOMAIN c : m < n => c[m] < c[n]) /\ Below(Range(c), {x}) =>
                  \A m, n \in DOMAIN u : m < n => u[m] < u[n]
<1> DEFINE u == Append(c, x)  L == Len(c)
<1>1. DOMAIN c = 1 .. L /\ L \in Nat
  BY LenProperties
<1>2. u \in Seq(Nat) /\ Len(u) = L + 1 /\ (\A i \in 1 .. L : u[i] = c[i]) /\ u[L + 1] = x
  BY AppendProperties
<1> HIDE DEF u
<1>3. DOMAIN u = 1 .. Len(u)
  BY <1>2, LenProperties
<1> HIDE DEF L
<1>4. \A i : i \in DOMAIN u <=> i \in 1 .. L \/ i = L + 1
  BY <1>1, <1>2, <1>3
<1>5. Range(u) = Range(c) \cup {x}
  BY <1>1, <1>2, <1>4 DEF Range
<1>6. ASSUME \A m, n \in DOMAIN c : m < n => c[m] < c[n], Below(Range(c), {x}),
             NEW m \in DOMAIN u, NEW n \in DOMAIN u, m < n
      PROVE  u[m] < u[n]
  <2>1. m \in 1 .. L
    BY <1>1, <1>4, <1>6
  <2>2. CASE n \in 1 .. L
    BY <1>1, <1>2, <1>6, <2>1, <2>2
  <2>3. CASE n = L + 1
    <3>1. c[m] \in Range(c)
      BY <1>1, <2>1 DEF Range
    <3> QED BY <1>2, <1>6, <2>1, <2>3, <3>1 DEF Below
  <2> QED BY <1>4, <2>2, <2>3
<1> QED BY <1>2, <1>5, <1>6 DEF u

\* A hold is open for the fresh pane p of its request.
Fresh(g, req, fr, p) ==
  \E i \in DOMAIN g.holds : g.holds[i].target = Undecided /\ req[g.holds[i].id] = "opened" /\ fr[g.holds[i].id] = p

LEMMA TookKeeps ==
  ASSUME NEW src, NEW tn \in [Holds -> Nat], NEW req, NEW fr,
         NEW hs \in [Panes -> Host], NEW bn \in SUBSET Panes, NEW now \in Nat, NEW calm,
         NEW g, GateInv(g, src, tn, req, fr, hs, bn, now, calm), RequestRules(req, src, tn, fr, bn, now), Past(hs, now),
         NEW p \in bn, NEW m \in DOMAIN g.holds, Takes(g.holds[m], p),
         \A i \in DOMAIN g.holds : Takes(g.holds[i], p) => i <= m,
         NEW x, x = now + 1, NEW d, Took(g, d, m, x)
  PROVE  GateInv(d, src, tn, req, fr, hs, bn, x, calm)
<1> DEFINE u == g.holds[m]  v == d.holds[m]
<1>1. g \in Gate /\ GateNames(g, src, bn, now) /\ Asked(g, req) /\ (calm => Orderly(g, src, tn, req, fr, hs))
  BY Zenon DEF GateInv
<1>2. /\ d \in Gate /\ d.net = g.net /\ DOMAIN d.holds = DOMAIN g.holds /\ Len(d.holds) = Len(g.holds)
      /\ \A i \in DOMAIN g.holds :
           /\ d.holds[i].id = g.holds[i].id /\ d.holds[i].sources = g.holds[i].sources
           /\ d.holds[i].target = g.holds[i].target
           /\ i # m => d.holds[i].chunks = g.holds[i].chunks
      /\ v.chunks = Append(u.chunks, x)
  BY Zenon DEF Took
<1>3. u.chunks \in Seq(Nat) /\ x \in Nat /\ Range(u.chunks) \subseteq 0 .. now
  BY <1>1, GateFields DEF GateNames
<1>4. /\ Range(v.chunks) = Range(u.chunks) \cup {x}
      /\ (\A i, n \in DOMAIN u.chunks : i < n => u.chunks[i] < u.chunks[n]) /\ Below(Range(u.chunks), {x}) =>
             \A i, n \in DOMAIN v.chunks : i < n => v.chunks[i] < v.chunks[n]
  BY <1>2, <1>3, AppendChunk
<1>5. /\ \A q \in Panes : \A y \in Sent(hs, g, q) : y \in 0 .. now
      /\ \A i \in DOMAIN g.holds : \A y \in Own(tn, g.holds[i]) : y \in 0 .. now
  BY <1>1, SentBefore
<1>60. \A y \in 0 .. now : y < x
  OBVIOUS
<1>6. /\ \A q \in Panes : Below(Sent(hs, g, q), {x})
      /\ \A i \in DOMAIN g.holds : Below(Own(tn, g.holds[i]), {x})
  BY <1>5, <1>60 DEF Below
<1>7. Promised(tn, v) = Promised(tn, u)
  BY <1>2, Zenon DEF Promised
<1>8. Own(tn, v) = Own(tn, u) \cup {x}
  BY <1>4, <1>7 DEF Own
<1>9. ASSUME NEW i \in DOMAIN g.holds, i # m
      PROVE  Own(tn, d.holds[i]) = Own(tn, g.holds[i]) /\ (HoldOrder(d.holds[i], tn) <=> HoldOrder(g.holds[i], tn))
  <2> DEFINE a == d.holds[i]  b == g.holds[i]
  <2>1. a.id = b.id /\ a.target = b.target /\ a.chunks = b.chunks
    BY <1>2, <1>9
  <2> HIDE DEF a, b
  <2>2. Own(tn, a) = Own(tn, b) /\ (HoldOrder(a, tn) <=> HoldOrder(b, tn))
    BY <2>1, SameHold
  <2> QED BY <2>2 DEF a, b
<1>10. \A i \in DOMAIN g.holds : \A q : Reaches(src, d.holds[i], q) <=> Reaches(src, g.holds[i], q)
  BY <1>2, Zenon DEF Reaches
<1>11. GateNames(d, src, bn, x)
  <2>1. \A i, k \in DOMAIN d.holds : d.holds[i].id = d.holds[k].id => i = k
    BY <1>1, <1>2 DEF GateNames
  <2>2. ASSUME NEW i \in DOMAIN d.holds
        PROVE  /\ d.holds[i].target \in Panes => d.holds[i].target \in bn
               /\ d.holds[i].target = Undecided => {src[d.holds[i].id]} \ {Nowhere} \subseteq d.holds[i].sources
               /\ Range(d.holds[i].chunks) \subseteq 0 .. x /\ IsFiniteSet(d.holds[i].sources)
    <3>1. /\ g.holds[i].target \in Panes => g.holds[i].target \in bn
          /\ g.holds[i].target = Undecided => {src[g.holds[i].id]} \ {Nowhere} \subseteq g.holds[i].sources
          /\ Range(g.holds[i].chunks) \subseteq 0 .. now /\ IsFiniteSet(g.holds[i].sources)
      BY <1>1, <1>2 DEF GateNames
    <3>2. 0 .. now \subseteq 0 .. x /\ x \in 0 .. x
      OBVIOUS
    <3>3. Range(d.holds[i].chunks) \subseteq 0 .. x
      <4>1. i # m => d.holds[i].chunks = g.holds[i].chunks
        BY <1>2
      <4> QED BY <1>4, <3>1, <3>2, <4>1
    <3> QED BY <1>2, <3>1, <3>3
  <2>3. ASSUME NEW i \in DOMAIN d.net PROVE d.net[i].to \in bn /\ d.net[i].chunk <= x
    <3>1. d.net[i].to \in bn /\ d.net[i].chunk <= now /\ d.net[i].chunk \in Nat
      BY <1>1, <1>2, GateFields DEF GateNames
    <3> QED BY <3>1
  <2> QED BY <2>1, <2>2, <2>3, Zenon DEF GateNames
<1>12. Asked(d, req)
  BY <1>1, <1>2 DEF Asked
<1>13. ASSUME calm PROVE Orderly(d, src, tn, req, fr, hs)
  <2>1. GateShape(g, src) /\ FreshInv(g, src, req, fr, hs) /\ HoldsOrder(g, src, tn, hs) /\ NetOrder(g, hs)
    BY <1>1, <1>13, Zenon DEF Orderly, GateOrder
  <2>2. \A q : SentTo(d, q) = SentTo(g, q) /\ Sent(hs, d, q) = Sent(hs, g, q)
    <3>0. d.net = g.net
      BY <1>2
    <3>1. \A q : SentTo(d, q) = SentTo(g, q)
      BY <3>0 DEF SentTo
    <3> QED BY <3>1, Zenon DEF Sent
  <2>3. GateShape(d, src)
    BY <1>2, <2>1 DEF GateShape
  <2>4. FreshInv(d, src, req, fr, hs)
    <3> SUFFICES ASSUME NEW i \in DOMAIN d.holds, d.holds[i].target = Undecided, req[d.holds[i].id] = "opened"
                 PROVE  /\ Sent(hs, d, fr[d.holds[i].id]) = {}
                        /\ \A k \in DOMAIN d.holds : ~Reaches(src, d.holds[k], fr[d.holds[i].id])
      BY Zenon DEF FreshInv
    <3>1. i \in DOMAIN g.holds /\ g.holds[i].target = Undecided /\ d.holds[i].id = g.holds[i].id
      BY <1>2
    <3>2. req[g.holds[i].id] = "opened"
      BY <3>1
    <3>3. /\ Sent(hs, g, fr[g.holds[i].id]) = {}
          /\ \A k \in DOMAIN g.holds : ~Reaches(src, g.holds[k], fr[g.holds[i].id])
      BY <2>1, <3>1, <3>2, Zenon DEF FreshInv
    <3> QED BY <1>2, <1>10, <2>2, <3>1, <3>3
  <2>5. HoldsOrder(d, src, tn, hs)
    <3>1. \A i \in DOMAIN d.holds : HoldOrder(d.holds[i], tn)
      <4>1. \A i \in DOMAIN g.holds : HoldOrder(g.holds[i], tn)
        BY <2>1, Zenon DEF HoldsOrder
      <4>2. HoldOrder(v, tn)
        <5>1. Below(Promised(tn, u), Range(u.chunks)) /\ \A i, n \in DOMAIN u.chunks : i < n => u.chunks[i] < u.chunks[n]
          BY <4>1, Zenon DEF HoldOrder
        <5>2. Range(u.chunks) \subseteq Own(tn, u) /\ Promised(tn, u) \subseteq Own(tn, u)
          BY Zenon DEF Own
        <5>4. Below(Range(u.chunks), {x}) /\ Below(Promised(tn, u), {x})
          BY <1>6, <5>2 DEF Below
        <5>5. Below(Promised(tn, v), Range(v.chunks))
          BY <1>4, <1>7, <5>1, <5>4 DEF Below
        <5> QED BY <1>4, <5>1, <5>4, <5>5, Zenon DEF HoldOrder
      <4> QED BY <1>2, <1>9, <4>1, <4>2
    <3>2. ASSUME NEW i \in DOMAIN d.holds, NEW q \in Panes, Reaches(src, d.holds[i], q)
          PROVE  Below(Sent(hs, d, q), Own(tn, d.holds[i]))
      <4>1. i \in DOMAIN g.holds /\ Reaches(src, g.holds[i], q)
        BY <1>2, <1>10, <3>2
      <4>2. Below(Sent(hs, g, q), Own(tn, g.holds[i]))
        BY <2>1, <4>1, Zenon DEF HoldsOrder
      <4>3. Below(Sent(hs, g, q), {x})
        BY <1>6
      <4>4. Own(tn, d.holds[i]) \subseteq Own(tn, g.holds[i]) \cup {x}
        BY <1>8, <1>9, <4>1
      <4> QED BY <2>2, <4>2, <4>3, <4>4 DEF Below
    <3>3. ASSUME NEW i \in DOMAIN d.holds, NEW k \in DOMAIN d.holds, NEW q \in Panes,
                 i < k, Reaches(src, d.holds[i], q), Reaches(src, d.holds[k], q)
          PROVE  Below(Own(tn, d.holds[i]), Own(tn, d.holds[k]))
      <4>1. /\ i \in DOMAIN g.holds /\ Reaches(src, g.holds[i], q)
            /\ k \in DOMAIN g.holds /\ Reaches(src, g.holds[k], q)
        BY <1>2, <1>10, <3>3
      <4>2. Below(Own(tn, g.holds[i]), Own(tn, g.holds[k]))
        BY <2>1, <3>3, <4>1, Zenon DEF HoldsOrder
      \* Nothing behind the newest that takes it goes to the same pane.
      <4>3. i # m
        <5> SUFFICES ASSUME i = m PROVE FALSE
          OBVIOUS
        <5>1. ~Takes(g.holds[k], p)
          <6>1. k \in 1 .. Len(g.holds) /\ m \in 1 .. Len(g.holds) /\ m < k
            BY <1>1, <3>3, <4>1, GateFields
          <6>2. ~(k <= m)
            BY <6>1
          <6> QED BY <4>1, <6>2
        <5>2. p \in Panes /\ p # Undecided /\ p # Nowhere
          BY TargetsApart
        <5>3. ~Reaches(src, g.holds[k], p)
          <6>1. g.holds[k].target = Undecided => {src[g.holds[k].id]} \ {Nowhere} \subseteq g.holds[k].sources
            BY <1>1, <4>1, Zenon DEF GateNames
          <6> QED BY <5>1, <5>2, <6>1 DEF Takes, Reaches
        <5>4. CASE u.target # Undecided
          BY <4>1, <5>3, <5>4 DEF Takes, Reaches
        <5>5. CASE u.target = Undecided
          <6>1. src[u.id] = q /\ q # Nowhere
            BY <4>1, <5>5, TargetsApart DEF Reaches
          <6>2. m # Len(g.holds)
            BY <1>1, <3>3, <4>1, GateFields
          <6>3. u.sources \subseteq {q}
            BY <2>1, <5>5, <6>1, <6>2, Zenon DEF GateShape
          <6>4. p = q
            BY <5>5, <6>3 DEF Takes
          <6> QED BY <4>1, <5>3, <6>4
        <5> QED BY <5>4, <5>5
      <4>4. Own(tn, d.holds[i]) = Own(tn, g.holds[i])
        BY <1>9, <4>1, <4>3
      <4>5. Own(tn, d.holds[k]) \subseteq Own(tn, g.holds[k]) \cup {x}
        BY <1>8, <1>9, <4>1
      <4>6. Below(Own(tn, g.holds[i]), {x})
        BY <1>6, <4>1
      <4> QED BY <4>2, <4>4, <4>5, <4>6 DEF Below
    <3> QED BY <3>1, <3>2, <3>3, Zenon DEF HoldsOrder
  <2>6. NetOrder(d, hs)
    BY <1>2, <2>1, <2>2, Zenon DEF NetOrder
  <2> QED BY <2>3, <2>4, <2>5, <2>6, Zenon DEF Orderly, GateOrder
<1> QED BY <1>2, <1>11, <1>12, <1>13, Zenon DEF GateInv

\* d is g with x for the pane p behind what goes to the server.
Goes(g, d, p, x) ==
  /\ d \in Gate /\ d.holds = g.holds
  /\ \A i \in DOMAIN g.net : i \in DOMAIN d.net /\ d.net[i] = g.net[i]
  /\ \A i \in DOMAIN d.net : i \notin DOMAIN g.net =>
       d.net[i].to = p /\ d.net[i].chunk = x /\ \A k \in DOMAIN d.net : k \notin DOMAIN g.net => k = i
  /\ \A i, k \in DOMAIN d.net : i < k /\ k \in DOMAIN g.net => i \in DOMAIN g.net

LEMMA GoesIs ==
  ASSUME NEW g \in Gate, NEW p \in Panes, NEW x \in Nat
  PROVE  Goes(g, [g EXCEPT !.net = Append(@, [to |-> p, chunk |-> x])], p, x)
<1> DEFINE f == [to |-> p, chunk |-> x]
           n == g.net
           s == Append(n, f)
           L == Len(n)
           d == [g EXCEPT !.net = s]
<1>1. n \in Seq(Frame) /\ DOMAIN n = 1 .. L /\ L \in Nat
  BY GateFields
<1>2. f \in Frame /\ f.to = p /\ f.chunk = x
  BY DEF Frame
<1> HIDE DEF f, n
<1>3. s \in Seq(Frame) /\ Len(s) = L + 1 /\ (\A i \in 1 .. L : s[i] = n[i]) /\ s[L + 1] = f
  BY <1>1, <1>2, AppendProperties
<1>4. DOMAIN s = 1 .. Len(s)
  BY <1>3, LenProperties
<1> HIDE DEF s, L
<1>5. \A i : i \in DOMAIN s <=> i \in DOMAIN n \/ i = L + 1
  BY <1>1, <1>3, <1>4
<1>6. \A i, k \in DOMAIN s : i < k /\ k \in DOMAIN n => i \in DOMAIN n
  BY <1>1, <1>3, <1>4
<1>7. d \in Gate /\ d.net = s /\ d.holds = g.holds
  BY <1>3 DEF Gate
<1> HIDE DEF d
<1>8. Goes(g, d, p, x)
  BY <1>1, <1>2, <1>3, <1>5, <1>6, <1>7 DEF Goes, n
<1> QED BY <1>8 DEF d, s, f, n

LEMMA GoesKeeps ==
  ASSUME NEW src, NEW tn \in [Holds -> Nat], NEW req, NEW fr,
         NEW hs \in [Panes -> Host], NEW bn \in SUBSET Panes, NEW now \in Nat, NEW calm,
         NEW g, GateInv(g, src, tn, req, fr, hs, bn, now, calm), RequestRules(req, src, tn, fr, bn, now), Past(hs, now),
         NEW p \in bn, \A i \in DOMAIN g.holds : ~Takes(g.holds[i], p), calm => ~Fresh(g, req, fr, p),
         NEW x, x = now + 1, NEW d, Goes(g, d, p, x)
  PROVE  GateInv(d, src, tn, req, fr, hs, bn, x, calm)
<1>1. g \in Gate /\ GateNames(g, src, bn, now) /\ Asked(g, req) /\ (calm => Orderly(g, src, tn, req, fr, hs))
  BY Zenon DEF GateInv
<1>2. /\ d \in Gate /\ d.holds = g.holds
      /\ \A i \in DOMAIN g.net : i \in DOMAIN d.net /\ d.net[i] = g.net[i]
      /\ \A i \in DOMAIN d.net : i \notin DOMAIN g.net =>
           d.net[i].to = p /\ d.net[i].chunk = x /\ \A k \in DOMAIN d.net : k \notin DOMAIN g.net => k = i
      /\ \A i, k \in DOMAIN d.net : i < k /\ k \in DOMAIN g.net => i \in DOMAIN g.net
  BY Zenon DEF Goes
<1>3. x \in Nat /\ p \in Panes /\ (\A y \in 0 .. now : y < x) /\ 0 .. now \subseteq 0 .. x
  OBVIOUS
<1>4. /\ \A q \in Panes : \A y \in Sent(hs, g, q) : y \in 0 .. now
      /\ \A i \in DOMAIN g.holds : \A y \in Own(tn, g.holds[i]) : y \in 0 .. now
  BY <1>1, SentBefore
<1>5. GateNames(d, src, bn, x)
  <2>1. ASSUME NEW i \in DOMAIN d.net PROVE d.net[i].to \in bn /\ d.net[i].chunk <= x
    <3>1. CASE i \in DOMAIN g.net
      <4>1. d.net[i].to \in bn /\ d.net[i].chunk <= now /\ d.net[i].chunk \in Nat
        BY <1>1, <1>2, <3>1, GateFields DEF GateNames
      <4> QED BY <4>1
    <3>2. CASE i \notin DOMAIN g.net
      BY <1>2, <1>3, <3>2
    <3> QED BY <3>1, <3>2
  <2>2. \A i, k \in DOMAIN d.holds : d.holds[i].id = d.holds[k].id => i = k
    BY <1>1, <1>2, Zenon DEF GateNames
  <2>3. ASSUME NEW i \in DOMAIN d.holds
        PROVE  /\ d.holds[i].target \in Panes => d.holds[i].target \in bn
               /\ d.holds[i].target = Undecided => {src[d.holds[i].id]} \ {Nowhere} \subseteq d.holds[i].sources
               /\ Range(d.holds[i].chunks) \subseteq 0 .. x /\ IsFiniteSet(d.holds[i].sources)
    BY <1>1, <1>2, <1>3 DEF GateNames
  <2> QED BY <2>1, <2>2, <2>3, Zenon DEF GateNames
<1>6. Asked(d, req)
  BY <1>1, <1>2, Zenon DEF Asked
<1>7. ASSUME calm PROVE Orderly(d, src, tn, req, fr, hs)
  <2>1. GateShape(g, src) /\ FreshInv(g, src, req, fr, hs) /\ HoldsOrder(g, src, tn, hs) /\ NetOrder(g, hs)
    BY <1>1, <1>7, Zenon DEF Orderly, GateOrder
  <2>2. \A q, y : y \in SentTo(d, q) => y \in SentTo(g, q) \/ (q = p /\ y = x)
    <3> SUFFICES ASSUME NEW q, NEW y \in SentTo(d, q) PROVE y \in SentTo(g, q) \/ (q = p /\ y = x)
      OBVIOUS
    <3>1. PICK i \in DOMAIN d.net : d.net[i].to = q /\ y = d.net[i].chunk
      BY <1>2, GateFields, SentIn
    <3>2. CASE i \in DOMAIN g.net
      <4>1. d.net[i] = g.net[i]
        BY <1>2, <3>2
      <4> QED BY <1>1, <3>1, <3>2, <4>1, GateFields, SentIn
    <3> QED BY <1>2, <3>1, <3>2
  <2>3. \A q, y : y \in Sent(hs, d, q) => y \in Sent(hs, g, q) \/ (q = p /\ y = x)
    BY <2>2 DEF Sent
  <2>4. \A i \in DOMAIN g.holds : ~Reaches(src, g.holds[i], p)
    <3> SUFFICES ASSUME NEW i \in DOMAIN g.holds PROVE ~Reaches(src, g.holds[i], p)
      OBVIOUS
    <3>1. g.holds[i].target = Undecided => {src[g.holds[i].id]} \ {Nowhere} \subseteq g.holds[i].sources
      BY <1>1, Zenon DEF GateNames
    <3> QED BY <1>3, <3>1, TargetsApart DEF Takes, Reaches
  <2>5. GateShape(d, src)
    BY <1>2, <2>1, Zenon DEF GateShape
  <2>6. FreshInv(d, src, req, fr, hs)
    <3> SUFFICES ASSUME NEW i \in DOMAIN g.holds, g.holds[i].target = Undecided, req[g.holds[i].id] = "opened"
                 PROVE  /\ Sent(hs, d, fr[g.holds[i].id]) = {}
                        /\ \A m \in DOMAIN g.holds : ~Reaches(src, g.holds[m], fr[g.holds[i].id])
      BY <1>2, Zenon DEF FreshInv
    <3>1. /\ Sent(hs, g, fr[g.holds[i].id]) = {}
          /\ \A m \in DOMAIN g.holds : ~Reaches(src, g.holds[m], fr[g.holds[i].id])
      BY <2>1, Zenon DEF FreshInv
    <3>2. fr[g.holds[i].id] # p
      BY <1>7, Zenon DEF Fresh
    <3> QED BY <2>3, <3>1, <3>2
  <2>7. HoldsOrder(d, src, tn, hs)
    <3>1. ASSUME NEW i \in DOMAIN d.holds, NEW q \in Panes, Reaches(src, d.holds[i], q)
          PROVE  Below(Sent(hs, d, q), Own(tn, d.holds[i]))
      <4>1. Below(Sent(hs, g, q), Own(tn, d.holds[i]))
        BY <1>2, <2>1, <3>1, Zenon DEF HoldsOrder
      <4>2. q # p
        BY <1>2, <2>4, <3>1
      <4> QED BY <2>3, <4>1, <4>2 DEF Below
    <3> QED BY <1>2, <2>1, <3>1, Zenon DEF HoldsOrder
  <2>8. NetOrder(d, hs)
    <3>1. ASSUME NEW i \in DOMAIN d.net, NEW k \in DOMAIN d.net, i < k, d.net[i].to = d.net[k].to
          PROVE  d.net[i].chunk < d.net[k].chunk
      <4>1. CASE k \in DOMAIN g.net
        <5>1. i \in DOMAIN g.net
          BY <1>2, <3>1, <4>1
        <5> QED BY <1>2, <2>1, <3>1, <4>1, <5>1 DEF NetOrder
      <4>2. CASE k \notin DOMAIN g.net
        <5>0. i \in Nat /\ k \in Nat /\ i # k
          BY <1>2, <3>1, GateFields
        <5>1. i \in DOMAIN g.net /\ d.net[k].chunk = x /\ d.net[k].to = p
          BY <1>2, <4>2, <5>0
        <5>2. d.net[i] = g.net[i] /\ g.net[i].to = p
          BY <1>2, <3>1, <5>1
        <5>3. g.net[i].chunk \in SentTo(g, p)
          BY <1>1, <5>1, <5>2, GateFields, SentIn
        <5>4. g.net[i].chunk \in 0 .. now
          BY <1>3, <1>4, <5>3 DEF Sent
        <5> QED BY <1>3, <5>1, <5>2, <5>4
      <4> QED BY <4>1, <4>2
    <3>2. ASSUME NEW q \in Panes PROVE Below(RawsOf(hs[q]), SentTo(d, q))
      <4>1. Below(RawsOf(hs[q]), SentTo(g, q))
        BY <2>1, Zenon DEF NetOrder
      <4>2. \A y \in RawsOf(hs[q]) : y < x
        BY <1>3, <1>4 DEF Sent
      <4> QED BY <2>2, <4>1, <4>2 DEF Below
    <3> QED BY <3>1, <3>2, Zenon DEF NetOrder
  <2> QED BY <2>5, <2>6, <2>7, <2>8, Zenon DEF Orderly, GateOrder
<1> QED BY <1>2, <1>5, <1>6, <1>7, Zenon DEF GateInv

LEMMA SendInputKeeps ==
  ASSUME NEW src, NEW tn \in [Holds -> Nat], NEW req, NEW fr,
         NEW hs \in [Panes -> Host], NEW bn \in SUBSET Panes, NEW now \in Nat, NEW calm,
         NEW g, GateInv(g, src, tn, req, fr, hs, bn, now, calm), RequestRules(req, src, tn, fr, bn, now), Past(hs, now),
         NEW p \in bn, calm => ~Fresh(g, req, fr, p), NEW x, x = now + 1
  PROVE  GateInv(SendInput(g, p, x), src, tn, req, fr, hs, bn, x, calm)
<1> DEFINE takers == {i \in DOMAIN g.holds : Takes(g.holds[i], p)}
<1>1. g \in Gate
  BY Zenon DEF GateInv
<1>2. x \in Nat /\ p \in Panes
  OBVIOUS
<1>3. CASE takers = {}
  <2> DEFINE d == [g EXCEPT !.net = Append(@, [to |-> p, chunk |-> x])]
  <2>1. SendInput(g, p, x) = d
    BY <1>3, Zenon DEF SendInput
  <2>2. Goes(g, d, p, x)
    BY <1>1, <1>2, GoesIs, Zenon
  <2>3. \A i \in DOMAIN g.holds : ~Takes(g.holds[i], p)
    BY <1>3
  <2> HIDE DEF d
  <2> QED BY <2>1, <2>2, <2>3, GoesKeeps
<1>4. CASE takers # {}
  <2> DEFINE m == Max(takers)
             d == [g EXCEPT !.holds[m].chunks = Append(@, x)]
  <2>1. SendInput(g, p, x) = d
    BY <1>4, Zenon DEF SendInput
  <2>2. m \in takers /\ \A y \in takers : y <= m
    <3> DEFINE L == Len(g.holds)
    <3>1. L \in Nat /\ takers \in SUBSET (1 .. L)
      BY <1>1, GateFields
    <3> HIDE DEF L, takers
    <3> QED BY <1>4, <3>1, Highest
  <2> HIDE DEF m
  <2>3. m \in DOMAIN g.holds /\ Takes(g.holds[m], p) /\ \A i \in DOMAIN g.holds : Takes(g.holds[i], p) => i <= m
    BY <2>2
  <2>4. Took(g, d, m, x)
    BY <1>1, <1>2, <2>3, TakesIs, Zenon
  <2> HIDE DEF d
  <2> QED BY <2>1, <2>3, <2>4, TookKeeps
<1> QED BY <1>3, <1>4

-----------------------------------------------------------------------------
(* A hold is taken.                                                        *)

LEMMA OnlyOne ==
  ASSUME NEW S, IsFiniteSet(S), ~(Cardinality(S) > 1), NEW x \in S, NEW y \in S
  PROVE  x = y
<1>1. Cardinality(S) \in Nat
  BY FS_CardinalityType
<1>2. IsFiniteSet(S \ {x}) /\ Cardinality(S \ {x}) = Cardinality(S) - 1
  BY FS_RemoveElement
<1>3. Cardinality(S \ {x}) \in Nat
  BY <1>2, FS_CardinalityType
<1>4. Cardinality(S \ {x}) = 0
  BY <1>1, <1>2, <1>3
<1>5. S \ {x} = {}
  BY <1>2, <1>4, FS_EmptySet
<1> QED BY <1>5

\* At most one hold waits, for the pane it was taken for.
LEMMA Uncrowded ==
  ASSUME gate \in Gate, GateNames(gate, source, born, turns), ~Crowded
  PROVE  /\ \A i, k \in DOMAIN gate.holds :
              gate.holds[i].target = Undecided /\ gate.holds[k].target = Undecided => i = k
         /\ \A i \in DOMAIN gate.holds :
              gate.holds[i].target = Undecided /\ source[gate.holds[i].id] # Nowhere
                => gate.holds[i].sources \subseteq {source[gate.holds[i].id]}
<1>1. /\ DOMAIN gate.holds = 1 .. Len(gate.holds) /\ Len(gate.holds) \in Nat
      /\ \A i \in DOMAIN gate.holds : gate.holds[i].id \in Holds
  BY GateFields
<1>2. ~(Cardinality(Open) > 1) /\ \A w \in Undecideds(gate) : ~(Cardinality(w.sources) > 1)
  BY Zenon DEF Crowded
<1>3. \A i \in DOMAIN gate.holds : gate.holds[i].target = Undecided => gate.holds[i] \in Undecideds(gate)
  BY DEF Undecideds, Range
<1>4. \A w \in Undecideds(gate) : \E i \in DOMAIN gate.holds : w = gate.holds[i]
  BY DEF Undecideds, Range
<1>5. IsFiniteSet(Open)
  <2> DEFINE n == Len(gate.holds)
             f == [i \in 1 .. n |-> gate.holds[i].id]
             T == {gate.holds[i].id : i \in 1 .. n}
  <2>1. n \in Nat
    BY <1>1
  <2>2. Open \subseteq T
    BY <1>1, <1>4 DEF Open
  <2>3. f \in Surjection(1 .. n, T)
    BY DEF Surjection
  <2> HIDE DEF n, f, T
  <2>4. IsFiniteSet(1 .. n)
    BY <2>1, FS_Interval
  <2>5. IsFiniteSet(T)
    BY <2>3, <2>4, FS_Surjection
  <2> QED BY <2>2, <2>5, FS_Subset
<1>51. \A x, y \in Open : x = y
  <2>1. ~(Cardinality(Open) > 1)
    BY <1>2
  <2> QED BY <1>5, <2>1, OnlyOne, Zenon
<1>6. ASSUME NEW i \in DOMAIN gate.holds, NEW k \in DOMAIN gate.holds,
             gate.holds[i].target = Undecided, gate.holds[k].target = Undecided
      PROVE  i = k
  <2>1. gate.holds[i].id \in Open /\ gate.holds[k].id \in Open
    BY <1>1, <1>3, <1>6 DEF Open
  <2>2. gate.holds[i].id = gate.holds[k].id
    BY <1>51, <2>1
  <2> QED BY <2>2, Zenon DEF GateNames
<1>7. ASSUME NEW i \in DOMAIN gate.holds, gate.holds[i].target = Undecided, source[gate.holds[i].id] # Nowhere
      PROVE  gate.holds[i].sources \subseteq {source[gate.holds[i].id]}
  <2> DEFINE S == gate.holds[i].sources  x == source[gate.holds[i].id]
  <2>1. {x} \ {Nowhere} \subseteq S /\ IsFiniteSet(S)
    BY <1>7, Zenon DEF GateNames
  <2>2. x \in S
    BY <1>7, <2>1
  <2>3. ~(Cardinality(S) > 1)
    BY <1>2, <1>3, <1>7
  <2> HIDE DEF S, x
  <2>4. \A y \in S : y = x
    BY <2>1, <2>2, <2>3, OnlyOne, Zenon
  <2> QED BY <2>4 DEF S, x
<1> QED BY <1>6, <1>7, Zenon

\* d is g with a new hold for s behind the others.
Holding(g, d, h, s) ==
  /\ d \in Gate /\ d.net = g.net /\ Len(d.holds) = Len(g.holds) + 1
  /\ \A i \in DOMAIN g.holds : i \in DOMAIN d.holds /\ d.holds[i] = g.holds[i]
  /\ d.holds[Len(d.holds)] = NewHold(h, s)
  /\ \A i \in DOMAIN d.holds : i \in DOMAIN g.holds \/ i = Len(d.holds)
  /\ \A i, k \in DOMAIN d.holds : i < k => i \in DOMAIN g.holds

LEMMA NewHoldIs ==
  ASSUME NEW h \in Holds, NEW s \in Panes \cup {Nowhere}
  PROVE  LET y == NewHold(h, s)
         IN  /\ y \in HoldRecord /\ y.id = h /\ y.sources = {s} \ {Nowhere} /\ y.chunks = << >> /\ y.target = Undecided
             /\ Range(y.chunks) = {} /\ DOMAIN y.chunks = {} /\ IsFiniteSet(y.sources)
<1> DEFINE y == NewHold(h, s)
<1>1. y \in HoldRecord /\ y.id = h /\ y.sources = {s} \ {Nowhere} /\ y.chunks = << >> /\ y.target = Undecided
  BY DEF NewHold, HoldRecord
<1> HIDE DEF y
<1>2. DOMAIN y.chunks = {}
  BY <1>1
<1>3. Range(y.chunks) = {}
  BY <1>2 DEF Range
<1>4. y.sources = {} \/ y.sources = {s}
  BY <1>1
<1>5. IsFiniteSet(y.sources)
  <2>1. IsFiniteSet({}) /\ IsFiniteSet({s})
    BY FS_EmptySet, FS_Singleton, Zenon
  <2> QED BY <1>4, <2>1
<1> QED BY <1>1, <1>2, <1>3, <1>5 DEF y

LEMMA HoldingIs ==
  ASSUME NEW g \in Gate, NEW h \in Holds, NEW s \in Panes \cup {Nowhere}
  PROVE  Holding(g, HoldInput(g, h, s), h, s)
<1> DEFINE y == NewHold(h, s)
           n == g.holds
           t == Append(n, y)
           L == Len(n)
           d == [g EXCEPT !.holds = t]
<1>1. n \in Seq(HoldRecord) /\ DOMAIN n = 1 .. L /\ L \in Nat
  BY GateFields
<1>2. y \in HoldRecord
  BY NewHoldIs
<1>3. HoldInput(g, h, s) = d
  BY DEF HoldInput
<1> HIDE DEF y, n
<1>4. t \in Seq(HoldRecord) /\ Len(t) = L + 1 /\ (\A i \in 1 .. L : t[i] = n[i]) /\ t[L + 1] = y
  BY <1>1, <1>2, AppendProperties
<1>5. DOMAIN t = 1 .. Len(t)
  BY <1>4, LenProperties
<1> HIDE DEF t, L
<1>6. \A i : i \in DOMAIN t <=> i \in DOMAIN n \/ i = L + 1
  BY <1>1, <1>4, <1>5
<1>7. \A i, k \in DOMAIN t : i < k => i \in DOMAIN n
  BY <1>1, <1>4, <1>5
<1>8. d \in Gate /\ d.net = g.net /\ d.holds = t
  BY <1>4 DEF Gate
<1> HIDE DEF d
<1>9. Holding(g, d, h, s)
  BY <1>1, <1>4, <1>6, <1>7, <1>8 DEF Holding, n, y, L
<1> QED BY <1>3, <1>9

LEMMA HoldKeeps ==
  ASSUME NEW src, NEW tn \in [Holds -> Nat], NEW req, NEW fr,
         NEW hs \in [Panes -> Host], NEW bn \in SUBSET Panes, NEW now \in Nat, NEW calm,
         NEW g, GateInv(g, src, tn, req, fr, hs, bn, now, calm), RequestRules(req, src, tn, fr, bn, now), Past(hs, now),
         NEW h \in Holds, req[h] = "none", NEW s \in bn \cup {Nowhere},
         NEW src2, src2[h] = s, \A i \in Holds : i # h => src2[i] = src[i],
         NEW req2, req2[h] \in {"opens", "pastes"}, \A i \in Holds : i # h => req2[i] = req[i],
         NEW tn2, \A i \in Holds : i # h => tn2[i] = tn[i],
         NEW now2, (tn2[h] = 0 /\ now2 = now) \/ (tn2[h] = now + 1 /\ now2 = now + 1),
         NEW calm2, calm2 => calm,
         calm2 => ~Fresh(g, req, fr, s),
         calm2 => \A i, k \in DOMAIN g.holds : g.holds[i].target = Undecided /\ g.holds[k].target = Undecided => i = k,
         calm2 => \A i \in DOMAIN g.holds :
                    g.holds[i].target = Undecided /\ src[g.holds[i].id] # Nowhere
                      => g.holds[i].sources \subseteq {src[g.holds[i].id]},
         NEW d, Holding(g, d, h, s)
  PROVE  GateInv(d, src2, tn2, req2, fr, hs, bn, now2, calm2)
<1> DEFINE y == NewHold(h, s)  N == Len(d.holds)
<1>1. g \in Gate /\ GateNames(g, src, bn, now) /\ Asked(g, req) /\ (calm => Orderly(g, src, tn, req, fr, hs))
  BY Zenon DEF GateInv
<1>2. /\ d \in Gate /\ d.net = g.net /\ N = Len(g.holds) + 1
      /\ \A i \in DOMAIN g.holds : i \in DOMAIN d.holds /\ d.holds[i] = g.holds[i]
      /\ d.holds[N] = y
      /\ \A i \in DOMAIN d.holds : i \in DOMAIN g.holds \/ i = N
      /\ \A i, k \in DOMAIN d.holds : i < k => i \in DOMAIN g.holds
  BY Zenon DEF Holding
<1>3. /\ y.id = h /\ y.sources = {s} \ {Nowhere} /\ y.target = Undecided
      /\ Range(y.chunks) = {} /\ DOMAIN y.chunks = {} /\ IsFiniteSet(y.sources)
  BY NewHoldIs
<1> HIDE DEF y, N
<1>4. /\ \A q \in Panes : \A x \in Sent(hs, g, q) : x \in 0 .. now
      /\ \A i \in DOMAIN g.holds : \A x \in Own(tn, g.holds[i]) : x \in 0 .. now
  BY <1>1, SentBefore
<1>5. now2 \in Nat /\ 0 .. now \subseteq 0 .. now2 /\ \A x \in 0 .. now : x <= now2 /\ x < now + 1
  OBVIOUS
<1>6. ASSUME NEW i \in DOMAIN g.holds
      PROVE  /\ g.holds[i].id \in Holds /\ g.holds[i].id # h
             /\ src2[g.holds[i].id] = src[g.holds[i].id] /\ req2[g.holds[i].id] = req[g.holds[i].id]
             /\ tn2[g.holds[i].id] = tn[g.holds[i].id]
  <2>1. g.holds[i].id \in Holds
    BY <1>1, GateFields
  <2>2. req[g.holds[i].id] # "none"
    BY <1>1, Zenon DEF Asked
  <2>3. g.holds[i].id # h
    BY <2>2
  <2> QED BY <2>1, <2>3
<1>7. ASSUME NEW i \in DOMAIN g.holds
      PROVE  /\ Own(tn2, g.holds[i]) = Own(tn, g.holds[i]) /\ (HoldOrder(g.holds[i], tn2) <=> HoldOrder(g.holds[i], tn))
             /\ \A p : Reaches(src2, g.holds[i], p) <=> Reaches(src, g.holds[i], p)
  <2>1. Promised(tn2, g.holds[i]) = Promised(tn, g.holds[i])
    BY <1>6, Zenon DEF Promised
  <2>2. Own(tn2, g.holds[i]) = Own(tn, g.holds[i])
    BY <2>1, Zenon DEF Own
  <2>3. HoldOrder(g.holds[i], tn2) <=> HoldOrder(g.holds[i], tn)
    BY <2>1, Zenon DEF HoldOrder
  <2>4. \A p : Reaches(src2, g.holds[i], p) <=> Reaches(src, g.holds[i], p)
    BY <1>6, Zenon DEF Reaches
  <2> QED BY <2>2, <2>3, <2>4
<1>8. Own(tn2, y) \subseteq {now + 1} /\ HoldOrder(y, tn2) /\ \A p : Reaches(src2, y, p) <=> s = p
  <2>1. Promised(tn2, y) = {tn2[h]} \ {0}
    BY <1>3 DEF Promised
  <2>2. Own(tn2, y) \subseteq {now + 1}
    BY <1>3, <2>1 DEF Own
  <2>3. HoldOrder(y, tn2)
    BY <1>3 DEF HoldOrder, Below
  <2>4. \A p : Reaches(src2, y, p) <=> s = p
    BY <1>3 DEF Reaches
  <2> QED BY <2>2, <2>3, <2>4
<1>9. GateNames(d, src2, bn, now2)
  <2>1. ASSUME NEW i \in DOMAIN d.holds, NEW k \in DOMAIN d.holds, d.holds[i].id = d.holds[k].id PROVE i = k
    <3>1. \A m \in DOMAIN d.holds : (m \in DOMAIN g.holds /\ d.holds[m].id # h) \/ (m = N /\ d.holds[m].id = h)
      BY <1>2, <1>3, <1>6
    <3>2. i \in DOMAIN g.holds /\ k \in DOMAIN g.holds => i = k
      BY <1>1, <1>2, <2>1 DEF GateNames
    <3> QED BY <2>1, <3>1, <3>2
  <2>2. ASSUME NEW i \in DOMAIN d.holds
        PROVE  /\ d.holds[i].target \in Panes => d.holds[i].target \in bn
               /\ d.holds[i].target = Undecided => {src2[d.holds[i].id]} \ {Nowhere} \subseteq d.holds[i].sources
               /\ Range(d.holds[i].chunks) \subseteq 0 .. now2 /\ IsFiniteSet(d.holds[i].sources)
    <3>1. CASE i \in DOMAIN g.holds
      <4>1. /\ g.holds[i].target \in Panes => g.holds[i].target \in bn
            /\ g.holds[i].target = Undecided => {src[g.holds[i].id]} \ {Nowhere} \subseteq g.holds[i].sources
            /\ Range(g.holds[i].chunks) \subseteq 0 .. now /\ IsFiniteSet(g.holds[i].sources)
        BY <1>1, <3>1 DEF GateNames
      <4> QED BY <1>2, <1>5, <1>6, <3>1, <4>1
    <3>2. CASE i = N
      BY <1>2, <1>3, <3>2, TargetsApart
    <3> QED BY <1>2, <3>1, <3>2
  <2>3. ASSUME NEW i \in DOMAIN d.net PROVE d.net[i].to \in bn /\ d.net[i].chunk <= now2
    <3>1. d.net[i].to \in bn /\ d.net[i].chunk <= now /\ d.net[i].chunk \in Nat
      BY <1>1, <1>2, GateFields DEF GateNames
    <3> QED BY <1>5, <3>1
  <2> QED BY <2>1, <2>2, <2>3, Zenon DEF GateNames
<1>10. Asked(d, req2)
  <2>1. \A i \in DOMAIN g.holds : req[g.holds[i].id] # "none"
    BY <1>1, Zenon DEF Asked
  <2> QED BY <1>2, <1>3, <1>6, <2>1 DEF Asked
<1>11. ASSUME calm2 PROVE Orderly(d, src2, tn2, req2, fr, hs)
  <2>1. GateShape(g, src) /\ FreshInv(g, src, req, fr, hs) /\ HoldsOrder(g, src, tn, hs) /\ NetOrder(g, hs)
    BY <1>1, <1>11, Zenon DEF Orderly, GateOrder
  <2>2. \A q : SentTo(d, q) = SentTo(g, q) /\ Sent(hs, d, q) = Sent(hs, g, q)
    <3>0. d.net = g.net
      BY <1>2
    <3>1. \A q : SentTo(d, q) = SentTo(g, q)
      BY <3>0 DEF SentTo
    <3> QED BY <3>1, Zenon DEF Sent
  <2>3. GateShape(d, src2)
    <3>0. Len(d.holds) = N
      BY DEF N
    <3>1. ASSUME NEW i \in DOMAIN d.holds, NEW k \in DOMAIN d.holds, i < k, d.holds[i].target = Undecided, d.holds[k].target = Undecided
          PROVE  k = N
      <4> SUFFICES ASSUME k # N PROVE FALSE
        OBVIOUS
      <4>1. i \in DOMAIN g.holds /\ k \in DOMAIN g.holds
        BY <1>2, <3>1
      <4>2. i = k
        BY <1>2, <1>11, <3>1, <4>1
      <4> QED BY <1>1, <3>1, <4>1, <4>2, GateFields
    <3>2. ASSUME NEW i \in DOMAIN d.holds, d.holds[i].target = Undecided, src2[d.holds[i].id] # Nowhere, i # N
          PROVE  d.holds[i].sources \subseteq {src2[d.holds[i].id]}
      <4>1. i \in DOMAIN g.holds /\ d.holds[i] = g.holds[i]
        BY <1>2, <3>2
      <4>2. src2[g.holds[i].id] = src[g.holds[i].id]
        BY <1>6, <4>1
      <4> QED BY <1>11, <3>2, <4>1, <4>2
    <3> QED BY <3>0, <3>1, <3>2, Zenon DEF GateShape
  <2>4. FreshInv(d, src2, req2, fr, hs)
    <3> SUFFICES ASSUME NEW i \in DOMAIN d.holds, d.holds[i].target = Undecided, req2[d.holds[i].id] = "opened"
                 PROVE  /\ Sent(hs, d, fr[d.holds[i].id]) = {}
                        /\ \A m \in DOMAIN d.holds : ~Reaches(src2, d.holds[m], fr[d.holds[i].id])
      BY Zenon DEF FreshInv
    <3>1. i \in DOMAIN g.holds /\ d.holds[i] = g.holds[i]
      BY <1>2, <1>3
    <3> DEFINE e == g.holds[i].id  f == fr[e]
    <3>2. req[e] = "opened" /\ g.holds[i].target = Undecided /\ d.holds[i].id = e
      BY <1>6, <3>1
    <3>3. Sent(hs, g, f) = {} /\ \A m \in DOMAIN g.holds : ~Reaches(src, g.holds[m], f)
      BY <2>1, <3>1, <3>2, Zenon DEF FreshInv
    <3>4. s # f
      BY <1>11, <3>1, <3>2, Zenon DEF Fresh
    <3>5. ASSUME NEW m \in DOMAIN d.holds PROVE ~Reaches(src2, d.holds[m], f)
      <4>1. CASE m \in DOMAIN g.holds
        <5>1. d.holds[m] = g.holds[m]
          BY <1>2, <4>1
        <5>2. ~Reaches(src, g.holds[m], f)
          BY <3>3, <4>1
        <5>3. \A p : Reaches(src2, g.holds[m], p) <=> Reaches(src, g.holds[m], p)
          BY <1>7, <4>1
        <5> QED BY <5>1, <5>2, <5>3, Zenon
      <4>2. CASE m = N
        BY <1>2, <1>8, <3>4, <4>2
      <4> QED BY <1>2, <4>1, <4>2
    <3> QED BY <2>2, <3>2, <3>3, <3>5
  <2>5. HoldsOrder(d, src2, tn2, hs)
    <3>0. \A i \in DOMAIN g.holds : HoldOrder(g.holds[i], tn)
      BY <2>1, Zenon DEF HoldsOrder
    <3>1. \A i \in DOMAIN d.holds : HoldOrder(d.holds[i], tn2)
      <4> SUFFICES ASSUME NEW i \in DOMAIN d.holds PROVE HoldOrder(d.holds[i], tn2)
        OBVIOUS
      <4>1. CASE i \in DOMAIN g.holds
        BY <1>2, <1>7, <3>0, <4>1
      <4>2. CASE i = N
        BY <1>2, <1>8, <4>2
      <4> QED BY <1>2, <4>1, <4>2
    <3>2. ASSUME NEW i \in DOMAIN d.holds, NEW q \in Panes, Reaches(src2, d.holds[i], q)
          PROVE  Below(Sent(hs, d, q), Own(tn2, d.holds[i]))
      <4>1. CASE i \in DOMAIN g.holds
        <5>1. Reaches(src, g.holds[i], q)
          BY <1>2, <1>7, <3>2, <4>1
        <5>2. Below(Sent(hs, g, q), Own(tn, g.holds[i]))
          BY <2>1, <4>1, <5>1, Zenon DEF HoldsOrder
        <5> QED BY <1>2, <1>7, <2>2, <4>1, <5>2
      <4>2. CASE i = N
        <5>1. Own(tn2, d.holds[i]) \subseteq {now + 1}
          BY <1>2, <1>8, <4>2
        <5>2. Below(Sent(hs, g, q), {now + 1})
          BY <1>4, <1>5 DEF Below
        <5> QED BY <2>2, <5>1, <5>2 DEF Below
      <4> QED BY <1>2, <4>1, <4>2
    <3>3. ASSUME NEW i \in DOMAIN d.holds, NEW k \in DOMAIN d.holds, NEW q \in Panes,
                 i < k, Reaches(src2, d.holds[i], q), Reaches(src2, d.holds[k], q)
          PROVE  Below(Own(tn2, d.holds[i]), Own(tn2, d.holds[k]))
      <4>0. i \in DOMAIN g.holds /\ Own(tn2, d.holds[i]) = Own(tn, g.holds[i]) /\ Reaches(src, g.holds[i], q)
        BY <1>2, <1>7, <3>3
      <4>1. CASE k \in DOMAIN g.holds
        <5>1. Reaches(src, g.holds[k], q) /\ Own(tn2, d.holds[k]) = Own(tn, g.holds[k])
          BY <1>2, <1>7, <3>3, <4>1
        <5>2. Below(Own(tn, g.holds[i]), Own(tn, g.holds[k]))
          BY <2>1, <3>3, <4>0, <4>1, <5>1, Zenon DEF HoldsOrder
        <5> QED BY <4>0, <5>1, <5>2
      <4>2. CASE k = N
        <5>1. Own(tn2, d.holds[k]) \subseteq {now + 1}
          BY <1>2, <1>8, <4>2
        <5>2. Below(Own(tn, g.holds[i]), {now + 1})
          BY <1>4, <1>5, <4>0 DEF Below
        <5> QED BY <4>0, <5>1, <5>2 DEF Below
      <4> QED BY <1>2, <4>1, <4>2
    <3> QED BY <3>1, <3>2, <3>3, Zenon DEF HoldsOrder
  <2>6. NetOrder(d, hs)
    BY <1>2, <2>1, <2>2, Zenon DEF NetOrder
  <2> QED BY <2>3, <2>4, <2>5, <2>6, Zenon DEF Orderly, GateOrder
<1> QED BY <1>2, <1>9, <1>10, <1>11, Zenon DEF GateInv

-----------------------------------------------------------------------------
(* The steps of the client.                                                *)

ClientTypes ==
  /\ request' \in [Holds -> Requests] /\ source' \in [Holds -> Panes \cup {Nowhere}]
  /\ turnOf' \in [Holds -> Nat] /\ fresh' \in [Holds -> Panes \cup {None}]
  /\ born' \in SUBSET Panes /\ turns' \in Nat /\ jumped' \in BOOLEAN

\* Nothing reaches a terminal.
LEMMA ClientStep ==
  ASSUME InputIInv, ClientTypes, menu' = menu, UNCHANGED serverVars,
         born \subseteq born', turns <= turns', jumped => jumped',
         GateInv(gate', source', turnOf', request', fresh', host, born', turns', ~jumped'),
         RequestRules(request', source', turnOf', fresh', born', turns')
  PROVE  InputIInv'
<1>1. host' = host /\ outcome' = outcome /\ refusals' = refusals
  BY DEF serverVars
<1>2. /\ InputTypeOK /\ HostsInv(host, born) /\ Past(host, turns)
      /\ (~jumped => \A p \in Panes : HostOrder(host[p])) /\ ModalsInv
  BY Zenon DEF InputIInv
<1>3. gate' \in Gate
  BY Zenon DEF GateInv
<1>4. InputTypeOK'
  BY <1>1, <1>2, <1>3, Zenon DEF InputTypeOK, ClientTypes
<1>5. HostsInv(host', born')
  <2>1. \A p \in Panes : p \notin born' => p \notin born
    OBVIOUS
  <2> QED BY <1>1, <1>2, <2>1, Zenon DEF HostsInv
<1>6. GateInv(gate', source', turnOf', request', fresh', host', born', turns', ~jumped')
  BY <1>1, Zenon
<1>7. Past(host', turns')
  <2>1. host \in [Panes -> Host] /\ turns \in Nat /\ turns' \in Nat
    BY <1>2 DEF InputTypeOK, ClientTypes
  <2> SUFFICES ASSUME NEW p \in Panes, NEW x \in RawsOf(host[p]) PROVE x <= turns'
    BY <1>1, Zenon DEF Past
  <2>2. x <= turns
    BY <1>2, Zenon DEF Past
  <2>3. x \in Nat
    BY <2>1, RawsTyped
  <2> QED BY <2>1, <2>2, <2>3
<1>8. ~jumped' => \A p \in Panes : HostOrder(host'[p])
  BY <1>1, <1>2
<1>9. ModalsInv'
  BY <1>1, <1>2, Zenon DEF ModalsInv
<1> QED BY <1>4, <1>5, <1>6, <1>7, <1>8, <1>9, Zenon DEF InputIInv

\* What is known before a step of the client.
LEMMA Known ==
  ASSUME InputIInv
  PROVE  /\ GateInv(gate, source, turnOf, request, fresh, host, born, turns, ~jumped)
         /\ RequestRules(request, source, turnOf, fresh, born, turns) /\ Past(host, turns)
         /\ request \in [Holds -> Requests] /\ source \in [Holds -> Panes \cup {Nowhere}]
         /\ turnOf \in [Holds -> Nat] /\ fresh \in [Holds -> Panes \cup {None}]
         /\ born \in SUBSET Panes /\ turns \in Nat /\ jumped \in BOOLEAN /\ host \in [Panes -> Host]
         /\ gate \in Gate /\ GateNames(gate, source, born, turns)
  BY Zenon DEF InputIInv, InputTypeOK, GateInv

\* A pane that no open hold may let go to.
LEMMA NotFresh ==
  ASSUME gate \in Gate, NEW p, ~ \E h \in Open : fresh[h] = p
  PROVE  ~Fresh(gate, request, fresh, p)
<1> SUFFICES ASSUME NEW i \in DOMAIN gate.holds, gate.holds[i].target = Undecided, fresh[gate.holds[i].id] = p PROVE FALSE
  BY Zenon DEF Fresh
<1>1. gate.holds[i].id \in Holds
  BY GateFields
<1>2. gate.holds[i] \in Undecideds(gate)
  BY DEF Undecideds, Range
<1>3. gate.holds[i].id \in Open
  BY <1>1, <1>2 DEF Open
<1> QED BY <1>3

LEMMA OpenHold ==
  ASSUME gate \in Gate, NEW h \in Holds
  PROVE  h \in Open <=> \E i \in DOMAIN gate.holds : gate.holds[i].id = h /\ gate.holds[i].target = Undecided
<1>1. \A x : x \in Undecideds(gate) <=> \E i \in DOMAIN gate.holds : x = gate.holds[i] /\ x.target = Undecided
  BY DEF Undecideds, Range
<1> QED BY <1>1 DEF Open

LEMMA LaterRules ==
  ASSUME NEW req, NEW src, NEW tn \in [Holds -> Nat], NEW fr, NEW bn, NEW now \in Nat,
         RequestRules(req, src, tn, fr, bn, now),
         NEW r, \A i \in Holds : r[i] = req[i] \/ r[i] = "answered", NEW x \in Nat, now <= x
  PROVE  RequestRules(r, src, tn, fr, bn, x)
<1>1. \A h \in Holds : tn[h] <= x
  <2> SUFFICES ASSUME NEW h \in Holds PROVE tn[h] <= x
    OBVIOUS
  <2>1. tn[h] \in Nat /\ tn[h] <= now
    BY DEF RequestRules
  <2> QED BY <2>1
<1> QED BY <1>1 DEF RequestRules

LEMMA TypeStep == ASSUME InputIInv, NEW p \in Panes, Type(p) PROVE InputIInv'
<1>1. /\ p \in born /\ turns' = turns + 1 /\ gate' = SendInput(gate, p, turns + 1)
      /\ (jumped' <=> jumped \/ \E h \in Open : fresh[h] = p)
      /\ request' = request /\ source' = source /\ turnOf' = turnOf /\ fresh' = fresh /\ born' = born
      /\ menu' = menu /\ UNCHANGED serverVars
  BY DEF Type, Turn
<1>10. jumped' \in BOOLEAN
  BY DEF Type
<1>2. /\ GateInv(gate, source, turnOf, request, fresh, host, born, turns, ~jumped)
      /\ RequestRules(request, source, turnOf, fresh, born, turns) /\ Past(host, turns)
      /\ request \in [Holds -> Requests] /\ source \in [Holds -> Panes \cup {Nowhere}]
      /\ turnOf \in [Holds -> Nat] /\ fresh \in [Holds -> Panes \cup {None}]
      /\ born \in SUBSET Panes /\ turns \in Nat /\ jumped \in BOOLEAN /\ host \in [Panes -> Host]
      /\ gate \in Gate
  BY Known
<1>3. turns + 1 \in Nat /\ turns <= turns + 1
  BY <1>2
<1>4. ClientTypes
  BY <1>1, <1>10, <1>2, <1>3 DEF ClientTypes
<1>5. ~jumped' => ~Fresh(gate, request, fresh, p)
  BY <1>1, <1>2, NotFresh, Zenon
<1>6. GateInv(gate, source, turnOf, request, fresh, host, born, turns, ~jumped')
  BY <1>1, <1>2, Zenon DEF GateInv
<1>7. GateInv(SendInput(gate, p, turns + 1), source, turnOf, request, fresh, host, born, turns + 1, ~jumped')
  <2> DEFINE x == turns + 1
  <2>1. x = turns + 1
    OBVIOUS
  <2> HIDE DEF x
  <2> QED BY <1>1, <1>2, <1>5, <1>6, <2>1, SendInputKeeps
<1>8. RequestRules(request, source, turnOf, fresh, born, turns + 1)
  BY <1>2, <1>3, LaterRules
<1>9. /\ GateInv(gate', source', turnOf', request', fresh', host, born', turns', ~jumped')
      /\ RequestRules(request', source', turnOf', fresh', born', turns')
  BY <1>1, <1>7, <1>8, Zenon
<1> QED BY <1>1, <1>3, <1>4, <1>9, ClientStep

LEMMA TakeHoldStep ==
  ASSUME InputIInv, NEW h \in Holds, NEW p \in Panes \cup {Nowhere}, NEW purpose \in {"opens", "pastes"}, TakeHold(h, p, purpose)
  PROVE  InputIInv'
<1>1. /\ request[h] = "none" /\ p \in born \cup {Nowhere} /\ gate' = HoldInput(gate, h, p)
      /\ source' = [source EXCEPT ![h] = p] /\ request' = [request EXCEPT ![h] = purpose]
      /\ \/ purpose = "pastes" /\ turns' = turns + 1 /\ turnOf' = [turnOf EXCEPT ![h] = turns + 1]
         \/ purpose = "opens" /\ turns' = turns /\ turnOf' = turnOf
      /\ (jumped' <=> jumped \/ Crowded \/ \E i \in Open : fresh[i] = p) /\ jumped' \in BOOLEAN
      /\ menu' = menu /\ fresh' = fresh /\ born' = born /\ UNCHANGED serverVars
  BY DEF TakeHold, Turn
<1>2. /\ GateInv(gate, source, turnOf, request, fresh, host, born, turns, ~jumped)
      /\ RequestRules(request, source, turnOf, fresh, born, turns) /\ Past(host, turns)
      /\ request \in [Holds -> Requests] /\ source \in [Holds -> Panes \cup {Nowhere}]
      /\ turnOf \in [Holds -> Nat] /\ fresh \in [Holds -> Panes \cup {None}]
      /\ born \in SUBSET Panes /\ turns \in Nat /\ jumped \in BOOLEAN /\ host \in [Panes -> Host]
      /\ gate \in Gate /\ GateNames(gate, source, born, turns)
  BY Known
<1>3. turns + 1 \in Nat /\ turns <= turns + 1 /\ turns <= turns
  BY <1>2
<1>4. turns' \in Nat /\ turns <= turns'
  BY <1>1, <1>2, <1>3
<1>5. turnOf' \in [Holds -> Nat]
  BY <1>1, <1>2, <1>3
<1>6. ClientTypes
  <2>1. request' \in [Holds -> Requests]
    BY <1>1, <1>2 DEF Requests
  <2>2. source' \in [Holds -> Panes \cup {Nowhere}]
    BY <1>1, <1>2
  <2> QED BY <1>1, <1>2, <1>4, <1>5, <2>1, <2>2 DEF ClientTypes
<1>7. source'[h] = p /\ request'[h] = purpose /\ \A i \in Holds : i # h => source'[i] = source[i] /\ request'[i] = request[i]
  BY <1>1, <1>2
<1>8. \A i \in Holds : i # h => turnOf'[i] = turnOf[i]
  BY <1>1, <1>2
<1>9. (turnOf'[h] = 0 /\ turns' = turns /\ purpose = "opens") \/ (turnOf'[h] = turns + 1 /\ turns' = turns + 1 /\ purpose = "pastes")
  <2>1. turnOf[h] = 0
    BY <1>1, <1>2 DEF RequestRules
  <2>2. CASE purpose = "pastes"
    BY <1>1, <1>2, <2>2
  <2>3. CASE purpose = "opens"
    BY <1>1, <2>1, <2>3
  <2> QED BY <2>2, <2>3
<1>10. jumped => jumped'
  BY <1>1
<1>11. ~jumped' => ~Fresh(gate, request, fresh, p)
  BY <1>1, <1>2, NotFresh, Zenon
<1>12. ~jumped' =>
         /\ \A i, k \in DOMAIN gate.holds :
              gate.holds[i].target = Undecided /\ gate.holds[k].target = Undecided => i = k
         /\ \A i \in DOMAIN gate.holds :
              gate.holds[i].target = Undecided /\ source[gate.holds[i].id] # Nowhere
                => gate.holds[i].sources \subseteq {source[gate.holds[i].id]}
  BY <1>1, <1>2, Uncrowded, Zenon
<1>13. Holding(gate, gate', h, p)
  BY <1>1, <1>2, HoldingIs
<1>14. GateInv(gate', source', turnOf', request', fresh, host, born, turns', ~jumped')
  <2> DEFINE d == gate'  s == source'  r == request'  n == turnOf'  x == turns'  c == ~jumped'  calm == ~jumped
  <2>1. /\ s[h] = p /\ r[h] \in {"opens", "pastes"} /\ (\A i \in Holds : i # h => s[i] = source[i])
        /\ (\A i \in Holds : i # h => r[i] = request[i]) /\ (\A i \in Holds : i # h => n[i] = turnOf[i])
        /\ (c => calm)
    BY <1>7, <1>8, <1>10
  <2>2. (n[h] = 0 /\ x = turns) \/ (n[h] = turns + 1 /\ x = turns + 1)
    BY <1>9
  <2> HIDE DEF d, s, r, n, x, c, calm
  <2>3. GateInv(gate, source, turnOf, request, fresh, host, born, turns, calm)
    BY <1>2 DEF calm
  <2>4. /\ c => ~Fresh(gate, request, fresh, p)
        /\ c => \A i, k \in DOMAIN gate.holds :
                  gate.holds[i].target = Undecided /\ gate.holds[k].target = Undecided => i = k
        /\ c => \A i \in DOMAIN gate.holds :
                  gate.holds[i].target = Undecided /\ source[gate.holds[i].id] # Nowhere
                    => gate.holds[i].sources \subseteq {source[gate.holds[i].id]}
    BY <1>11, <1>12 DEF c
  <2>5. Holding(gate, d, h, p)
    BY <1>13 DEF d
  <2>6. GateInv(d, s, n, r, fresh, host, born, x, c)
    BY <1>1, <1>2, <2>1, <2>2, <2>3, <2>4, <2>5, HoldKeeps
  <2> QED BY <2>6 DEF d, s, r, n, x, c
<1>15. RequestRules(request', source', turnOf', fresh, born, turns')
  <2>1. \A i \in Holds : request'[i] \in {"none", "opens"} => turnOf'[i] = 0
    BY <1>2, <1>7, <1>8, <1>9 DEF RequestRules
  <2>2. \A i \in Holds : request'[i] = "pastes" => turnOf'[i] > 0
    <3> SUFFICES ASSUME NEW i \in Holds, request'[i] = "pastes" PROVE turnOf'[i] > 0
      OBVIOUS
    <3>1. CASE i = h
      BY <1>2, <1>7, <1>9, <3>1
    <3>2. CASE i # h
      BY <1>2, <1>7, <1>8, <3>2 DEF RequestRules
    <3> QED BY <3>1, <3>2
  <2>3. \A i \in Holds : turnOf'[i] <= turns' /\ source'[i] \in born \cup {Nowhere}
    <3> SUFFICES ASSUME NEW i \in Holds PROVE turnOf'[i] <= turns' /\ source'[i] \in born \cup {Nowhere}
      OBVIOUS
    <3>1. CASE i = h
      BY <1>1, <1>2, <1>7, <1>9, <3>1
    <3>2. CASE i # h
      <4>1. turnOf[i] \in Nat /\ turnOf[i] <= turns /\ source[i] \in born \cup {Nowhere}
        BY <1>2 DEF RequestRules
      <4>2. turnOf[i] <= turns'
        BY <1>2, <1>4, <4>1
      <4> QED BY <1>7, <1>8, <3>2, <4>1, <4>2
    <3> QED BY <3>1, <3>2
  <2>4. \A i \in Holds : request'[i] = "opened" => request[i] = "opened"
    BY <1>7
  <2>5. \A i \in Holds : request'[i] = "opened" => fresh[i] \in born
    BY <1>2, <2>4, Zenon DEF RequestRules
  <2>6. \A i, k \in Holds : request'[i] = "opened" /\ request'[k] = "opened" /\ fresh[i] = fresh[k] => i = k
    BY <1>2, <2>4, Zenon DEF RequestRules
  <2> QED BY <2>1, <2>2, <2>3, <2>5, <2>6, Zenon DEF RequestRules
<1>16. /\ GateInv(gate', source', turnOf', request', fresh', host, born', turns', ~jumped')
       /\ RequestRules(request', source', turnOf', fresh', born', turns')
  BY <1>1, <1>14, <1>15, Zenon
<1> QED BY <1>1, <1>4, <1>6, <1>10, <1>16, ClientStep

LEMMA PaneAppearsStep == ASSUME InputIInv, NEW h \in Holds, NEW p \in Panes, PaneAppears(h, p) PROVE InputIInv'
<1>1. /\ request[h] = "opens" /\ p \notin born
      /\ request' = [request EXCEPT ![h] = "opened"] /\ fresh' = [fresh EXCEPT ![h] = p] /\ born' = born \cup {p}
      /\ menu' = menu /\ gate' = gate /\ source' = source /\ turnOf' = turnOf /\ turns' = turns /\ jumped' = jumped
      /\ UNCHANGED serverVars
  BY DEF PaneAppears
<1>2. /\ GateInv(gate, source, turnOf, request, fresh, host, born, turns, ~jumped)
      /\ RequestRules(request, source, turnOf, fresh, born, turns) /\ Past(host, turns)
      /\ request \in [Holds -> Requests] /\ source \in [Holds -> Panes \cup {Nowhere}]
      /\ turnOf \in [Holds -> Nat] /\ fresh \in [Holds -> Panes \cup {None}]
      /\ born \in SUBSET Panes /\ turns \in Nat /\ jumped \in BOOLEAN /\ host \in [Panes -> Host]
      /\ gate \in Gate /\ GateNames(gate, source, born, turns)
  BY Known
<1>3. ClientTypes
  BY <1>1, <1>2 DEF ClientTypes, Requests
<1>4. request'[h] = "opened" /\ fresh'[h] = p /\ \A i \in Holds : i # h => request'[i] = request[i] /\ fresh'[i] = fresh[i]
  BY <1>1, <1>2
<1>5. turns <= turns
  BY <1>2
<1>6. RequestRules(request', source, turnOf, fresh', born', turns)
  <2>1. \A i \in Holds : request'[i] \in {"none", "opens"} => turnOf[i] = 0
    BY <1>2, <1>4 DEF RequestRules
  <2>2. \A i \in Holds : request'[i] = "pastes" => turnOf[i] > 0
    BY <1>2, <1>4 DEF RequestRules
  <2>3. \A i \in Holds : turnOf[i] <= turns /\ source[i] \in born' \cup {Nowhere}
    BY <1>1, <1>2 DEF RequestRules
  <2>4. \A i \in Holds : request'[i] = "opened" => (i = h /\ fresh'[i] = p) \/ (i # h /\ fresh'[i] = fresh[i] /\ fresh[i] \in born /\ request[i] = "opened")
    BY <1>2, <1>4 DEF RequestRules
  <2>5. \A i \in Holds : request'[i] = "opened" => fresh'[i] \in born'
    BY <1>1, <2>4
  <2>6. ASSUME NEW i \in Holds, NEW k \in Holds, request'[i] = "opened", request'[k] = "opened", fresh'[i] = fresh'[k]
        PROVE  i = k
    <3>1. fresh[i] = fresh[k] /\ request[i] = "opened" /\ request[k] = "opened" => i = k
      BY <1>2, Zenon DEF RequestRules
    <3> QED BY <1>1, <2>4, <2>6, <3>1
  <2> QED BY <2>1, <2>2, <2>3, <2>5, <2>6, Zenon DEF RequestRules
<1>7. GateNames(gate, source, born', turns)
  <2>1. born \subseteq born'
    BY <1>1
  <2> QED BY <1>2, <2>1 DEF GateNames
<1>8. \A i \in DOMAIN gate.holds : gate.holds[i].id \in Holds
  BY <1>2, GateFields
<1>9. Asked(gate, request')
  <2>1. Asked(gate, request)
    BY <1>2, Zenon DEF GateInv
  <2> QED BY <1>4, <1>8, <2>1 DEF Asked
<1>10. ~jumped => Orderly(gate, source, turnOf, request', fresh', host)
  <2> SUFFICES ASSUME ~jumped PROVE Orderly(gate, source, turnOf, request', fresh', host)
    OBVIOUS
  <2>1. GateShape(gate, source) /\ FreshInv(gate, source, request, fresh, host) /\ GateOrder(gate, source, turnOf, host)
    BY <1>2, Zenon DEF GateInv, Orderly
  <2>2. Sent(host, gate, p) = {}
    <3>1. host[p].out = << >> /\ host[p].queue = << >>
      BY <1>1, Zenon DEF InputIInv, HostsInv
    <3>2. Raws(<< >>) = {}
      BY DEF Raws
    <3>3. SentTo(gate, p) = {}
      BY <1>1, <1>2, SentBefore, Zenon
    <3> QED BY <3>1, <3>2, <3>3, Zenon DEF Sent, RawsOf
  <2>3. \A k \in DOMAIN gate.holds : ~Reaches(source, gate.holds[k], p)
    <3> SUFFICES ASSUME NEW k \in DOMAIN gate.holds PROVE ~Reaches(source, gate.holds[k], p)
      OBVIOUS
    <3>1. source[gate.holds[k].id] # p
      <4>1. source[gate.holds[k].id] \in born \cup {Nowhere}
        BY <1>2, <1>8 DEF RequestRules
      <4> QED BY <1>1, <4>1, TargetsApart
    <3>2. gate.holds[k].target # p
      BY <1>1, <1>2 DEF GateNames
    <3> QED BY <3>1, <3>2 DEF Reaches
  <2>4. FreshInv(gate, source, request', fresh', host)
    <3> SUFFICES ASSUME NEW i \in DOMAIN gate.holds, gate.holds[i].target = Undecided, request'[gate.holds[i].id] = "opened"
                 PROVE  /\ Sent(host, gate, fresh'[gate.holds[i].id]) = {}
                        /\ \A m \in DOMAIN gate.holds : ~Reaches(source, gate.holds[m], fresh'[gate.holds[i].id])
      BY Zenon DEF FreshInv
    <3> DEFINE e == gate.holds[i].id
    <3>0. e \in Holds
      BY <1>8
    <3>1. CASE e = h
      BY <1>4, <2>2, <2>3, <3>1
    <3>2. CASE e # h
      <4>1. request[e] = "opened" /\ fresh'[e] = fresh[e]
        BY <1>4, <3>0, <3>2
      <4>2. Sent(host, gate, fresh[e]) = {} /\ \A m \in DOMAIN gate.holds : ~Reaches(source, gate.holds[m], fresh[e])
        BY <2>1, <4>1, Zenon DEF FreshInv
      <4> QED BY <4>1, <4>2
    <3> QED BY <3>1, <3>2
  <2> QED BY <2>1, <2>4, Zenon DEF Orderly
<1>11. GateInv(gate, source, turnOf, request', fresh', host, born', turns, ~jumped)
  BY <1>2, <1>7, <1>9, <1>10, Zenon DEF GateInv
<1>12. /\ GateInv(gate', source', turnOf', request', fresh', host, born', turns', ~jumped')
       /\ RequestRules(request', source', turnOf', fresh', born', turns')
  BY <1>1, <1>6, <1>11, Zenon
<1>13. born \subseteq born' /\ turns <= turns' /\ (jumped => jumped')
  BY <1>1, <1>5
<1> QED BY <1>1, <1>3, <1>12, <1>13, ClientStep

\* The gate changes, and requests are answered.
LEMMA AnswerStep ==
  ASSUME InputIInv, GateInv(gate', source, turnOf, request, fresh, host, born, turns, ~jumped),
         request' \in [Holds -> Requests], \A i \in Holds : request'[i] = request[i] \/ request'[i] = "answered",
         menu' = menu, source' = source, turnOf' = turnOf, fresh' = fresh, born' = born, turns' = turns, jumped' = jumped,
         UNCHANGED serverVars
  PROVE  InputIInv'
<1>1. /\ RequestRules(request, source, turnOf, fresh, born, turns)
      /\ source \in [Holds -> Panes \cup {Nowhere}]
      /\ turnOf \in [Holds -> Nat] /\ fresh \in [Holds -> Panes \cup {None}]
      /\ born \in SUBSET Panes /\ turns \in Nat /\ jumped \in BOOLEAN
  BY Known
<1>2. ClientTypes
  BY <1>1 DEF ClientTypes
<1>3. turns <= turns
  BY <1>1
<1>4. GateInv(gate', source, turnOf, request', fresh, host, born, turns, ~jumped)
  <2> DEFINE d == gate'  r == request'
  <2>1. GateInv(d, source, turnOf, request, fresh, host, born, turns, ~jumped) /\ \A i \in Holds : r[i] = request[i] \/ r[i] = "answered"
    OBVIOUS
  <2> HIDE DEF d, r
  <2>2. GateInv(d, source, turnOf, r, fresh, host, born, turns, ~jumped)
    BY <1>1, <2>1, AnsweredKeeps
  <2> QED BY <2>2 DEF d, r
<1>5. RequestRules(request', source, turnOf, fresh, born, turns)
  <2> DEFINE r == request'
  <2>1. \A i \in Holds : r[i] = request[i] \/ r[i] = "answered"
    OBVIOUS
  <2> HIDE DEF r
  <2>2. RequestRules(r, source, turnOf, fresh, born, turns)
    BY <1>1, <1>3, <2>1, LaterRules
  <2> QED BY <2>2 DEF r
<1>6. /\ GateInv(gate', source', turnOf', request', fresh', host, born', turns', ~jumped')
      /\ RequestRules(request', source', turnOf', fresh', born', turns')
  BY <1>4, <1>5, Zenon
<1>7. born \subseteq born' /\ turns <= turns' /\ (jumped => jumped')
  BY <1>3
<1> QED BY <1>2, <1>6, <1>7, ClientStep

LEMMA HoldTimesOutStep == ASSUME InputIInv, NEW h \in Holds, HoldTimesOut(h) PROVE InputIInv'
<1>1. /\ gate' = Finish(gate, h, source[h], << >>)
      /\ menu' = menu /\ request' = request /\ source' = source /\ turnOf' = turnOf /\ fresh' = fresh
      /\ born' = born /\ turns' = turns /\ jumped' = jumped /\ UNCHANGED serverVars
  BY DEF HoldTimesOut, End
<1>2. /\ GateInv(gate, source, turnOf, request, fresh, host, born, turns, ~jumped)
      /\ RequestRules(request, source, turnOf, fresh, born, turns)
      /\ request \in [Holds -> Requests] /\ source[h] \in Panes \cup {Nowhere}
      /\ turnOf \in [Holds -> Nat] /\ born \in SUBSET Panes /\ turns \in Nat
  BY Known
<1>3. GateInv(Finish(gate, h, source[h], << >>), source, turnOf, request, fresh, host, born, turns, ~jumped)
  BY <1>2, FinishKeeps
<1>4. GateInv(gate', source, turnOf, request, fresh, host, born, turns, ~jumped)
  BY <1>1, <1>3, Zenon
<1> QED BY <1>1, <1>2, <1>4, AnswerStep

LEMMA OpeningEndsStep == ASSUME InputIInv, NEW h \in Holds, OpeningEnds(h) PROVE InputIInv'
<1>1. PICK target : /\ target = source[h] \/ (request[h] = "opened" /\ target = fresh[h])
                    /\ gate' = Finish(gate, h, target, << >>)
  BY DEF OpeningEnds, End
<1>2. /\ request' = [i \in Holds |-> IF i \in {h} THEN "answered" ELSE request[i]]
      /\ menu' = menu /\ source' = source /\ turnOf' = turnOf /\ fresh' = fresh
      /\ born' = born /\ turns' = turns /\ jumped' = jumped /\ UNCHANGED serverVars
  BY DEF OpeningEnds, Answered
<1>3. /\ GateInv(gate, source, turnOf, request, fresh, host, born, turns, ~jumped)
      /\ RequestRules(request, source, turnOf, fresh, born, turns)
      /\ request \in [Holds -> Requests] /\ source[h] \in Panes \cup {Nowhere}
      /\ turnOf \in [Holds -> Nat] /\ born \in SUBSET Panes /\ turns \in Nat
  BY Known
<1>4. target \in Panes \cup {Nowhere}
  BY <1>1, <1>3 DEF RequestRules
<1>5. GateInv(Finish(gate, h, target, << >>), source, turnOf, request, fresh, host, born, turns, ~jumped)
  BY <1>1, <1>3, <1>4, FinishKeeps
<1>6. GateInv(gate', source, turnOf, request, fresh, host, born, turns, ~jumped)
  BY <1>1, <1>5, Zenon
<1>7. request' \in [Holds -> Requests] /\ \A i \in Holds : request'[i] = request[i] \/ request'[i] = "answered"
  BY <1>2, <1>3 DEF Requests
<1> QED BY <1>2, <1>6, <1>7, AnswerStep

LEMMA PasteEndsStep == ASSUME InputIInv, NEW h \in Holds, NEW found \in BOOLEAN, PasteEnds(h, found) PROVE InputIInv'
<1> DEFINE first == IF found THEN <<turnOf[h]>> ELSE << >>
<1>1. /\ request[h] = "pastes" /\ h \in Open
      /\ gate' = Finish(gate, h, source[h], first)
      /\ request' = [i \in Holds |-> IF i \in {h} THEN "answered" ELSE request[i]]
      /\ menu' = menu /\ source' = source /\ turnOf' = turnOf /\ fresh' = fresh
      /\ born' = born /\ turns' = turns /\ jumped' = jumped /\ UNCHANGED serverVars
  BY DEF PasteEnds, Answered
<1>2. first = << >> \/ first = <<turnOf[h]>>
  OBVIOUS
<1> HIDE DEF first
<1>3. /\ GateInv(gate, source, turnOf, request, fresh, host, born, turns, ~jumped)
      /\ RequestRules(request, source, turnOf, fresh, born, turns)
      /\ request \in [Holds -> Requests] /\ source[h] \in Panes \cup {Nowhere}
      /\ turnOf \in [Holds -> Nat] /\ born \in SUBSET Panes /\ turns \in Nat /\ gate \in Gate
  BY Known
<1>4. \E i \in DOMAIN gate.holds : gate.holds[i].id = h /\ gate.holds[i].target = Undecided
  BY <1>1, <1>3, OpenHold
<1>5. GateInv(Finish(gate, h, source[h], first), source, turnOf, request, fresh, host, born, turns, ~jumped)
  BY <1>1, <1>2, <1>3, <1>4, FinishKeeps
<1>6. GateInv(gate', source, turnOf, request, fresh, host, born, turns, ~jumped)
  BY <1>1, <1>5, Zenon
<1>7. request' \in [Holds -> Requests] /\ \A i \in Holds : request'[i] = request[i] \/ request'[i] = "answered"
  BY <1>1, <1>3 DEF Requests
<1> QED BY <1>1, <1>6, <1>7, AnswerStep

LEMMA LeaveMachineStep == ASSUME InputIInv, LeaveMachine PROVE InputIInv'
<1> DEFINE H == {h \in Holds : request[h] = "pastes"}
<1>1. /\ gate' = Discard(gate, H)
      /\ request' = [i \in Holds |-> IF i \in H THEN "answered" ELSE request[i]]
      /\ menu' = menu /\ source' = source /\ turnOf' = turnOf /\ fresh' = fresh
      /\ born' = born /\ turns' = turns /\ jumped' = jumped /\ UNCHANGED serverVars
  BY DEF LeaveMachine, Answered
<1> HIDE DEF H
<1>2. /\ GateInv(gate, source, turnOf, request, fresh, host, born, turns, ~jumped)
      /\ RequestRules(request, source, turnOf, fresh, born, turns)
      /\ request \in [Holds -> Requests] /\ born \in SUBSET Panes
  BY Known
<1>3. GateInv(Discard(gate, H), source, turnOf, request, fresh, host, born, turns, ~jumped)
  BY <1>2, DiscardKeeps
<1>4. GateInv(gate', source, turnOf, request, fresh, host, born, turns, ~jumped)
  BY <1>1, <1>3, Zenon
<1>5. request' \in [Holds -> Requests] /\ \A i \in Holds : request'[i] = request[i] \/ request'[i] = "answered"
  BY <1>1, <1>2 DEF Requests
<1> QED BY <1>1, <1>4, <1>5, AnswerStep

LEMMA PasteEndsLateStep == ASSUME InputIInv, NEW h \in Holds, PasteEndsLate(h) PROVE InputIInv'
<1> DEFINE s == source[h]  x == turns + 1
<1>1. /\ request[h] = "pastes" /\ h \notin Open
      /\ turns' = x /\ gate' = Finish(gate, h, s, <<x>>)
      /\ (jumped' <=> jumped \/ \E i \in Open : fresh[i] = s) /\ jumped' \in BOOLEAN
      /\ request' = [i \in Holds |-> IF i \in {h} THEN "answered" ELSE request[i]]
      /\ menu' = menu /\ source' = source /\ turnOf' = turnOf /\ fresh' = fresh
      /\ born' = born /\ UNCHANGED serverVars
  BY DEF PasteEndsLate, Turn, Answered
<1>2. /\ GateInv(gate, source, turnOf, request, fresh, host, born, turns, ~jumped)
      /\ RequestRules(request, source, turnOf, fresh, born, turns) /\ Past(host, turns)
      /\ request \in [Holds -> Requests] /\ source \in [Holds -> Panes \cup {Nowhere}]
      /\ turnOf \in [Holds -> Nat] /\ fresh \in [Holds -> Panes \cup {None}]
      /\ born \in SUBSET Panes /\ turns \in Nat /\ jumped \in BOOLEAN /\ host \in [Panes -> Host]
      /\ gate \in Gate /\ GateNames(gate, source, born, turns)
  BY Known
<1>3. x \in Nat /\ turns <= x /\ x = turns + 1 /\ s \in born \cup {Nowhere}
  BY <1>2 DEF RequestRules
<1>4. request' \in [Holds -> Requests] /\ \A i \in Holds : request'[i] = request[i] \/ request'[i] = "answered"
  BY <1>1, <1>2 DEF Requests
<1>5. ClientTypes
  BY <1>1, <1>2, <1>3, <1>4 DEF ClientTypes
<1>6. GateInv(gate, source, turnOf, request, fresh, host, born, turns, ~jumped')
  BY <1>1, <1>2, Zenon DEF GateInv
\* It is sent like any input, if there is a pane.
<1>7. gate' = IF s # Nowhere THEN SendInput(gate, s, x) ELSE gate
  <2>1. {i \in DOMAIN gate.holds : gate.holds[i].id = h /\ gate.holds[i].target = Undecided} = {}
    BY <1>1, <1>2, OpenHold
  <2>2. <<x>> # << >> /\ <<x>>[1] = x
    OBVIOUS
  <2> HIDE DEF s, x
  <2> QED BY <1>1, <2>1, <2>2, Zenon DEF Finish
<1> HIDE DEF s, x
<1>8. GateInv(gate', source, turnOf, request, fresh, host, born, x, ~jumped')
  <2>1. CASE s # Nowhere
    <3>1. s \in born
      BY <1>3, <2>1
    <3>2. ~jumped' => ~Fresh(gate, request, fresh, s)
      BY <1>1, <1>2, NotFresh, Zenon
    <3>3. GateInv(SendInput(gate, s, x), source, turnOf, request, fresh, host, born, x, ~jumped')
      BY <1>2, <1>3, <1>6, <3>1, <3>2, SendInputKeeps
    <3> QED BY <1>7, <2>1, <3>3, Zenon
  <2>2. CASE s = Nowhere
    <3>1. gate' = gate
      BY <1>7, <2>2
    <3>2. GateNames(gate, source, born, x)
      <4>1. 0 .. turns \subseteq 0 .. x
        BY <1>2, <1>3
      <4>2. ASSUME NEW i \in DOMAIN gate.net PROVE gate.net[i].to \in born /\ gate.net[i].chunk <= x
        <5>1. gate.net[i].to \in born /\ gate.net[i].chunk <= turns /\ gate.net[i].chunk \in Nat
          BY <1>2, GateFields DEF GateNames
        <5> QED BY <1>2, <1>3, <5>1
      <4>3. \A i \in DOMAIN gate.holds :
              /\ gate.holds[i].target \in Panes => gate.holds[i].target \in born
              /\ gate.holds[i].target = Undecided => {source[gate.holds[i].id]} \ {Nowhere} \subseteq gate.holds[i].sources
              /\ Range(gate.holds[i].chunks) \subseteq 0 .. x /\ IsFiniteSet(gate.holds[i].sources)
        BY <1>2, <4>1 DEF GateNames
      <4> QED BY <1>2, <4>2, <4>3, Zenon DEF GateNames
    <3> QED BY <1>6, <3>1, <3>2, Zenon DEF GateInv
  <2> QED BY <2>1, <2>2
<1>9. GateInv(gate', source, turnOf, request', fresh, host, born, x, ~jumped')
  <2> DEFINE d == gate'  r == request'  c == ~jumped'
  <2>1. GateInv(d, source, turnOf, request, fresh, host, born, x, c) /\ \A i \in Holds : r[i] = request[i] \/ r[i] = "answered"
    BY <1>4, <1>8
  <2> HIDE DEF d, r, c
  <2>2. GateInv(d, source, turnOf, r, fresh, host, born, x, c)
    BY <1>2, <2>1, AnsweredKeeps
  <2> QED BY <2>2 DEF d, r, c
<1>10. RequestRules(request', source, turnOf, fresh, born, x)
  <2> DEFINE r == request'
  <2>1. \A i \in Holds : r[i] = request[i] \/ r[i] = "answered"
    BY <1>4
  <2> HIDE DEF r
  <2>2. RequestRules(r, source, turnOf, fresh, born, x)
    BY <1>2, <1>3, <2>1, LaterRules
  <2> QED BY <2>2 DEF r
<1>11. /\ GateInv(gate', source', turnOf', request', fresh', host, born', turns', ~jumped')
       /\ RequestRules(request', source', turnOf', fresh', born', turns')
  BY <1>1, <1>9, <1>10, Zenon
<1>12. born \subseteq born' /\ turns <= turns' /\ (jumped => jumped')
  BY <1>1, <1>3
<1> QED BY <1>1, <1>5, <1>11, <1>12, ClientStep

-----------------------------------------------------------------------------
(* The program of steps.                                                   *)

LEMMA InputStarts == ASSUME InputInit PROVE InputIInv
<1>1. /\ menu \in Menus /\ gate = EmptyGate
      /\ request = [h \in Holds |-> "none"] /\ source = [h \in Holds |-> Nowhere] /\ turnOf = [h \in Holds |-> 0]
      /\ fresh = [h \in Holds |-> None] /\ turns = 0 /\ host = [p \in Panes |-> NewHost(None)]
      /\ outcome = [j \in Modals |-> "none"] /\ refusals = MaxRefusals /\ jumped = FALSE
  BY DEF InputInit
<1>2. born \in SUBSET Panes
  BY PanesAssumption DEF InputInit
<1>3. gate \in Gate /\ DOMAIN gate.holds = {} /\ DOMAIN gate.net = {}
  BY <1>1 DEF EmptyGate, Gate
<1> DEFINE n == NewHost(None)
<1>4. n \in Host /\ n.job = None /\ n.out = << >> /\ n.queue = << >> /\ n.open
  <2>1. << >> \in Seq(Item) /\ << >> \in Seq(Output)
    OBVIOUS
  <2> QED BY <2>1 DEF NewHost, Host
<1>5. Raws(<< >>) = {} /\ \A j : PartsIn(<< >>, j) = {}
  BY DEF Raws, PartsIn
<1>6. Waiting(n) = {}
  BY <1>4 DEF Waiting
<1>7. \A p \in Panes : host[p] = n
  BY <1>1
<1> HIDE DEF n
<1>8. InputTypeOK
  BY <1>1, <1>2, <1>3, <1>4, <1>7, InputBoundsAssumption DEF InputTypeOK, Requests, n
<1>9. HostsInv(host, born)
  BY <1>4, <1>7 DEF HostsInv, HostSound
<1>10. \A p \in Panes : RawsOf(host[p]) = {}
  BY <1>4, <1>5, <1>7 DEF RawsOf
<1>11. \A p : SentTo(gate, p) = {}
  BY <1>3 DEF SentTo
<1>12. GateInv(gate, source, turnOf, request, fresh, host, born, turns, ~jumped)
  <2>1. GateNames(gate, source, born, turns) /\ Asked(gate, request)
    BY <1>3 DEF GateNames, Asked
  <2>2. GateShape(gate, source) /\ FreshInv(gate, source, request, fresh, host) /\ HoldsOrder(gate, source, turnOf, host)
    BY <1>3 DEF GateShape, FreshInv, HoldsOrder
  <2>3. NetOrder(gate, host)
    BY <1>3, <1>11 DEF NetOrder, Below
  <2> QED BY <1>3, <2>1, <2>2, <2>3, Zenon DEF GateInv, Orderly, GateOrder
<1>13. RequestRules(request, source, turnOf, fresh, born, turns)
  BY <1>1 DEF RequestRules
<1>14. Past(host, turns)
  BY <1>10 DEF Past
<1>15. \A p \in Panes : HostOrder(host[p])
  BY <1>4, <1>5, <1>7 DEF HostOrder, Rising, Below
<1>16. ModalsInv
  <2>1. \A p \in Panes : JobsOf(host[p]) = {}
    BY <1>4, <1>5, <1>6, <1>7 DEF JobsOf
  <2>2. \A p \in Panes : HostModals(host[p], outcome)
    BY <1>4, <1>5, <1>6, <1>7 DEF HostModals, NoneTwice
  <2> QED BY <2>1, <2>2 DEF ModalsInv
<1> QED BY <1>8, <1>9, <1>12, <1>13, <1>14, <1>15, <1>16, Zenon DEF InputIInv

LEMMA InputStays == ASSUME InputIInv, UNCHANGED inputVars PROVE InputIInv'
<1>1. /\ menu' = menu /\ gate' = gate /\ request' = request /\ source' = source /\ turnOf' = turnOf /\ fresh' = fresh
      /\ born' = born /\ turns' = turns /\ jumped' = jumped /\ host' = host /\ outcome' = outcome /\ refusals' = refusals
  BY DEF inputVars, clientVars, serverVars
<1> QED BY <1>1 DEF InputIInv, InputTypeOK, ModalsInv

LEMMA InputSteps == ASSUME InputIInv, [InputNext]_inputVars PROVE InputIInv'
<1>1. ASSUME NEW p \in Panes, Type(p) PROVE InputIInv'
  BY <1>1, TypeStep
<1>2. ASSUME NEW h \in Holds, NEW p \in Panes \cup {Nowhere}, NEW purpose \in {"opens", "pastes"}, TakeHold(h, p, purpose)
      PROVE  InputIInv'
  BY <1>2, TakeHoldStep
<1>3. ASSUME NEW h \in Holds, NEW p \in Panes, PaneAppears(h, p) PROVE InputIInv'
  BY <1>3, PaneAppearsStep
<1>4. ASSUME NEW h \in Holds, HoldTimesOut(h) PROVE InputIInv'
  BY <1>4, HoldTimesOutStep
<1>5. ASSUME NEW h \in Holds, OpeningEnds(h) PROVE InputIInv'
  BY <1>5, OpeningEndsStep
<1>6. ASSUME NEW h \in Holds, NEW found \in BOOLEAN, PasteEnds(h, found) PROVE InputIInv'
  BY <1>6, PasteEndsStep
<1>7. ASSUME NEW h \in Holds, PasteEndsLate(h) PROVE InputIInv'
  BY <1>7, PasteEndsLateStep
<1>8. ASSUME LeaveMachine PROVE InputIInv'
  BY <1>8, LeaveMachineStep
<1>9. ASSUME Deliver PROVE InputIInv'
  BY <1>9, DeliverStep
<1>10. ASSUME NEW p \in Panes, NEW j \in Modals, CallWriteModal(p, j) PROVE InputIInv'
  BY <1>10, CallWriteModalStep
<1>11. ASSUME NEW p \in Panes, Flushed(p) PROVE InputIInv'
  BY <1>11, FlushedStep
<1>12. ASSUME NEW p \in Panes, Prepared(p) PROVE InputIInv'
  BY <1>12, PreparedStep
<1>13. ASSUME NEW p \in Panes, Delayed(p) PROVE InputIInv'
  BY <1>13, DelayedStep
<1>14. ASSUME NEW p \in Panes, PaneGoes(p) PROVE InputIInv'
  BY <1>14, PaneGoesStep
<1> QED BY <1>1, <1>2, <1>3, <1>4, <1>5, <1>6, <1>7, <1>8, <1>9, <1>10, <1>11, <1>12, <1>13, <1>14, InputStays,
           Zenon DEF InputNext

-----------------------------------------------------------------------------
(* What follows.                                                           *)

LEMMA OrderFollows == ASSUME InputIInv PROVE TypedInOrder
<1>1. ~jumped => \A p \in Panes : Rising(host[p].out)
  BY Zenon DEF InputIInv, HostOrder
<1> QED BY <1>1, Zenon DEF TypedInOrder, Rising

LEMMA PartOrHalf ==
  ASSUME NEW h \in Host, HostModals(h, outcome), NEW j \in Modals
  PROVE  LET out == h.out
             at(i) == {k \in DOMAIN out : out[k] = [part |-> i, of |-> j]}
             whole == \A k \in at(1) : \A i \in 2..Parts(j) : k + i - 1 \in at(i)
             atWork == h.job = j /\ h.stage = "delay" /\ out # << >> /\ Len(out) \in at(1)
         IN  /\ Cardinality(at(1)) <= 1 /\ Cardinality(at(2)) <= Cardinality(at(1))
             /\ at(1) # {} => whole \/ atWork \/ (~h.open /\ Len(out) \in at(1))
             /\ at(1) # {} => outcome[j] = IF atWork THEN "pending" ELSE IF whole THEN "done" ELSE "refused"
<1> DEFINE out == h.out
           at(i) == {k \in DOMAIN out : out[k] = [part |-> i, of |-> j]}
           P == PartsIn(out, j)
           A == at(1)
           B == at(2)
           atWork == h.job = j /\ h.stage = "delay" /\ out # << >> /\ Len(out) \in A
           whole == \A k \in at(1) : \A i \in 2..Parts(j) : k + i - 1 \in at(i)
           N == Len(out)
<1>1. A \subseteq P /\ B \subseteq P
  BY ItemKinds DEF PartsIn
<1>2. \A k \in A : k \notin B
  OBVIOUS
<1>3. /\ \A k : k \in A <=> k \in DOMAIN out /\ out[k] = [part |-> 1, of |-> j]
      /\ \A k : k \in B <=> k \in DOMAIN out /\ out[k] = [part |-> 2, of |-> j]
  OBVIOUS
<1>4. Parts(j) \in {1, 2}
  BY DEF Parts
<1>5. whole <=> (Parts(j) = 2 => \A k \in A : k + 1 \in B)
  <2>1. DOMAIN out = 1 .. N /\ N \in Nat
    BY HostFields, LenProperties
  <2>2. \A k \in DOMAIN out : k + 2 - 1 = k + 1
    BY <2>1
  <2>3. CASE Parts(j) = 1
    <3>1. 2 .. Parts(j) = {}
      BY <2>3
    <3> QED BY <2>3, <3>1
  <2>4. CASE Parts(j) = 2
    <3>1. 2 .. Parts(j) = {2}
      BY <2>4
    <3> QED BY <2>2, <2>4, <3>1
  <2> QED BY <1>4, <2>3, <2>4
<1>6. \A x : Cardinality({x}) = 1
  BY FS_Singleton
<1>7. Cardinality({}) = 0
  BY FS_EmptySet
<1> HIDE DEF at, P, A, B, whole
<1> SUFFICES /\ Cardinality(A) <= 1 /\ Cardinality(B) <= Cardinality(A)
             /\ A # {} => whole \/ atWork \/ (~h.open /\ N \in A)
             /\ A # {} => outcome[j] = IF atWork THEN "pending" ELSE IF whole THEN "done" ELSE "refused"
  BY DEF at, A, B, whole
<1>8. CASE P = {}
  <2>1. A = {} /\ B = {}
    BY <1>1, <1>8
  <2> QED BY <1>7, <2>1
<1>9. ASSUME HalfWritten(out, j), Parts(j) = 2 PROVE A = {N} /\ B = {} /\ out # << >> /\ ~whole
  <2>1. out # << >> /\ out[N] = [part |-> 1, of |-> j] /\ P = {N}
    BY <1>9, Zenon DEF HalfWritten, P
  <2>2. N \in DOMAIN out
    BY <2>1 DEF P, PartsIn
  <2>3. N \in A
    BY <1>3, <2>1, <2>2
  <2>4. A = {N} /\ B = {}
    BY <1>1, <1>2, <2>1, <2>3
  <2> QED BY <1>5, <1>9, <2>1, <2>4
<1>10. CASE P # {} /\ j = h.job
  <2>1. h.job # None
    BY <1>10, NoneAssumption
  <2>2. outcome[j] = "pending" /\ h.stage = "delay" /\ HalfWritten(out, j) /\ Parts(j) = 2
    BY <1>10, <2>1, Zenon DEF HostModals, P
  <2>3. A = {N} /\ B = {} /\ out # << >>
    BY <1>9, <2>2
  <2>4. atWork
    BY <1>10, <2>2, <2>3
  <2>5. Cardinality(A) = 1 /\ Cardinality(B) = 0
    BY <1>6, <1>7, <2>3
  <2> QED BY <2>2, <2>4, <2>5
<1>11. CASE P # {} /\ j # h.job
  <2>1. ~atWork
    BY <1>11
  <2>2. \/ Complete(out, j) /\ outcome[j] = "done"
        \/ ~h.open /\ HalfWritten(out, j) /\ Parts(j) = 2 /\ outcome[j] = "refused"
    BY <1>11, Zenon DEF HostModals, P
  <2>3. CASE Complete(out, j) /\ outcome[j] = "done"
    <3>1. PICK k \in DOMAIN out :
             /\ out[k] = [part |-> 1, of |-> j]
             /\ IF Parts(j) = 1 THEN P = {k}
                ELSE k + 1 \in DOMAIN out /\ P = {k, k + 1} /\ out[k + 1] = [part |-> 2, of |-> j]
      BY <2>3, Zenon DEF Complete, P
    <3>2. k \in A
      BY <1>3, <3>1
    <3>3. CASE Parts(j) = 1
      <4>1. A = {k} /\ B = {}
        BY <1>1, <1>2, <3>1, <3>2, <3>3
      <4>2. Cardinality(A) = 1 /\ Cardinality(B) = 0
        BY <1>6, <1>7, <4>1
      <4>3. whole
        BY <1>5, <3>3
      <4> QED BY <2>1, <2>3, <4>2, <4>3
    <3>4. CASE Parts(j) # 1
      <4>1. k + 1 \in B
        BY <1>3, <3>1, <3>4
      <4>2. A = {k} /\ B = {k + 1}
        BY <1>1, <1>2, <3>1, <3>2, <3>4, <4>1
      <4>3. Cardinality(A) = 1 /\ Cardinality(B) = 1
        BY <1>6, <4>2
      <4>4. whole
        BY <1>5, <4>2
      <4> QED BY <2>1, <2>3, <4>3, <4>4
    <3> QED BY <3>3, <3>4
  <2>4. CASE ~h.open /\ HalfWritten(out, j) /\ Parts(j) = 2 /\ outcome[j] = "refused"
    <3>1. A = {N} /\ B = {} /\ ~whole
      BY <1>9, <2>4
    <3>2. Cardinality(A) = 1 /\ Cardinality(B) = 0 /\ N \in A
      BY <1>6, <1>7, <3>1
    <3> QED BY <2>1, <2>4, <3>1, <3>2
  <2> QED BY <2>2, <2>3, <2>4
<1> QED BY <1>8, <1>10, <1>11

LEMMA WholeFollows == ASSUME InputIInv PROVE ModalsWhole
<1>1. \A p \in Panes : host[p] \in Host /\ HostModals(host[p], outcome)
  BY DEF InputIInv, InputTypeOK, ModalsInv
<1> SUFFICES ASSUME NEW p \in Panes, NEW j \in Modals
             PROVE LET out == host[p].out
                       at(i) == {k \in DOMAIN out : out[k] = [part |-> i, of |-> j]}
                       whole == \A k \in at(1) : \A i \in 2..Parts(j) : k + i - 1 \in at(i)
                       atWork == host[p].job = j /\ host[p].stage = "delay" /\ out # << >> /\ Len(out) \in at(1)
                   IN  /\ Cardinality(at(1)) <= 1 /\ Cardinality(at(2)) <= Cardinality(at(1))
                       /\ at(1) # {} => whole \/ atWork \/ (~host[p].open /\ Len(out) \in at(1))
                       /\ at(1) # {} => outcome[j] = IF atWork THEN "pending" ELSE IF whole THEN "done" ELSE "refused"
  BY Zenon DEF ModalsWhole
<1> DEFINE h == host[p]
<1>2. h \in Host /\ HostModals(h, outcome)
  BY <1>1
<1> QED BY <1>2, PartOrHalf, Zenon

\* In every state of every run the invariant holds: the order of what is on its way to
\* each pane, through the holds of the gate, its socket and the terminal
\* (InputGate.ts:104, terminalInput.ts:100), and what was written of each modal input.
THEOREM InputInvariance == InputSpec => []InputIInv
<1>1. InputInit => InputIInv
  BY InputStarts
<1>2. InputIInv /\ [InputNext]_inputVars => InputIInv'
  BY InputSteps
<1> QED BY <1>1, <1>2, PTL DEF InputSpec

\* The state keeps its types.
THEOREM InputTypeCorrect == InputSpec => []InputTypeOK
<1>1. InputIInv => InputTypeOK
  BY DEF InputIInv
<1> QED BY <1>1, InputInvariance, PTL

\* Each program reads what was typed for it in the order in which it was typed, through
\* any number of holds, panes and modal inputs.
THEOREM InOrder == InputSpec => []TypedInOrder
<1>1. InputIInv => TypedInOrder
  BY OrderFollows
<1> QED BY <1>1, InputInvariance, PTL

\* A modal input reaches its terminal whole and once, or not at all, unless the terminal
\* goes in its middle.
THEOREM Whole == InputSpec => []ModalsWhole
<1>1. InputIInv => ModalsWhole
  BY WholeFollows
<1> QED BY <1>1, InputInvariance, PTL
=============================================================================
