------------------------ MODULE SizeAuthority_proofs ------------------------
(***************************************************************************)
(* Proofs about the size authority, for any clients, tabs, panes and sizes *)
(* and runs of any length: whoever decides may decide, no tab is passed    *)
(* over, and every pane has the size of its owner's view.                  *)
(***************************************************************************)
EXTENDS SizeAuthority, SequenceTheorems, NaturalsInduction, WellFoundedInduction, TLAPS

\* A list without repetitions over S.
Distinct(S) == {s \in Seq(S) : IsInjective(s)}

State == [recent : Distinct(Clients), desktop : SUBSET Clients, fit : SUBSET Clients,
          view : [Clients -> Views \cup {NoView}],
          owner : [Tabs -> Clients \cup {None}],
          attachments : [Panes -> Clients \cup {None}],
          tabOf : [Panes -> Tabs \cup {None}],
          size : [Panes -> Sizes \cup {0}]]

Deciders(s) ==
  \A t \in Tabs : s.owner[t] # None => s.owner[t] \in Connected(s) /\ canDecideSize(s, s.owner[t])

AttachedHere(s) == \A p \in Panes : s.attachments[p] # None => s.attachments[p] \in Connected(s)

\* Whoever is gone shows nothing.
Quiet(s) == \A c \in Clients : c \notin Connected(s) => s.view[c] = NoView

\* Nobody outside E is passed over.
Served(s, E) ==
  \A t \in LiveTabs(s), c \in Connected(s) \ E :
    s.owner[t] = None => ~(s.view[c].tab = t /\ canDecideSize(s, c))

Sound(s, E) == s \in State /\ Deciders(s) /\ AttachedHere(s) /\ Quiet(s) /\ Served(s, E)

IInv ==
  /\ Sound(m, promoted)
  /\ \A p \in Panes : p \notin excused => Obeys(m, p)
  /\ calls \in 0..MaxCalls /\ excused \subseteq Panes /\ promoted \subseteq Clients

\* The two states differ in owners and sizes only.
Alike(s, r) ==
  /\ r.recent = s.recent /\ r.desktop = s.desktop /\ r.fit = s.fit /\ r.view = s.view
  /\ r.attachments = s.attachments /\ r.tabOf = s.tabOf

-----------------------------------------------------------------------------
(* Lists of clients: the one of the registry stays free of repetitions.    *)

\* An element of a list is where Pos says.
LEMMA PosProperties ==
  ASSUME NEW S, NEW s \in Seq(S), NEW x \in Range(s)
  PROVE  Pos(s, x) \in 1 .. Len(s) /\ s[Pos(s, x)] = x
<1>1. \E i \in DOMAIN s : s[i] = x
  BY DEF Range
<1>2. DOMAIN s = 1 .. Len(s)
  BY LenProperties
<1> QED BY <1>1, <1>2 DEF Pos

\* The list after a removal, place by place.
LEMMA RemoveAtProperties ==
  ASSUME NEW S, NEW s \in Seq(S), NEW i \in 1 .. Len(s)
  PROVE  /\ RemoveAt(s, i) \in Seq(S)
         /\ Len(RemoveAt(s, i)) = Len(s) - 1
         /\ \A j \in 1 .. Len(s) - 1 : RemoveAt(s, i)[j] = IF j < i THEN s[j] ELSE s[j + 1]
<1> DEFINE front == SubSeq(s, 1, i - 1)
           back == SubSeq(s, i + 1, Len(s))
<1>1. Len(s) \in Nat /\ \A j \in 1 .. Len(s) : s[j] \in S
  BY LenProperties
<1>2. /\ front \in Seq(S)
      /\ Len(front) = i - 1
      /\ \A j \in 1 .. i - 1 : front[j] = s[j]
  BY <1>1, SubSeqProperties
<1>3. /\ back \in Seq(S)
      /\ Len(back) = Len(s) - i
      /\ \A j \in 1 .. Len(s) - i : back[j] = s[i + j]
  BY <1>1, SubSeqProperties
<1> HIDE DEF front, back
<1>4. /\ front \o back \in Seq(S)
      /\ Len(front \o back) = Len(s) - 1
      /\ \A j \in 1 .. Len(s) - 1 :
           (front \o back)[j] = IF j <= i - 1 THEN front[j] ELSE back[j - (i - 1)]
  <2>1. front \in Seq(S) /\ back \in Seq(S)
    BY <1>2, <1>3
  <2>2. /\ front \o back \in Seq(S)
        /\ Len(front \o back) = Len(front) + Len(back)
        /\ \A j \in 1 .. Len(front) + Len(back) :
             (front \o back)[j] = IF j <= Len(front) THEN front[j] ELSE back[j - Len(front)]
    BY <2>1, ConcatProperties
  <2>3. Len(front) = i - 1 /\ Len(front) + Len(back) = Len(s) - 1
    BY <1>1, <1>2, <1>3
  <2> QED BY <2>2, <2>3
<1>5. \A j \in 1 .. Len(s) - 1 : j > i - 1 => back[j - (i - 1)] = s[j + 1]
  BY <1>1, <1>3
<1>6. RemoveAt(s, i) = front \o back
  BY DEF RemoveAt, front, back
<1> QED BY <1>1, <1>2, <1>4, <1>5, <1>6

\* Removing a place removes just the id that was there.
LEMMA RemoveAtDistinct ==
  ASSUME NEW S, NEW s \in Distinct(S), NEW i \in 1 .. Len(s)
  PROVE  /\ RemoveAt(s, i) \in Distinct(S)
         /\ Range(RemoveAt(s, i)) = Range(s) \ {s[i]}
         /\ Len(RemoveAt(s, i)) = Len(s) - 1
<1> DEFINE r == RemoveAt(s, i)
<1>1. s \in Seq(S) /\ Len(s) \in Nat /\ DOMAIN s = 1 .. Len(s)
  BY LenProperties DEF Distinct
<1>2. /\ r \in Seq(S)
      /\ Len(r) = Len(s) - 1
      /\ \A j \in 1 .. Len(s) - 1 : r[j] = IF j < i THEN s[j] ELSE s[j + 1]
  BY <1>1, RemoveAtProperties
<1>3. DOMAIN r = 1 .. Len(s) - 1
  BY <1>2, LenProperties
<1> HIDE DEF r
<1>4. \A a, b \in 1 .. Len(s) : s[a] = s[b] => a = b
  BY <1>1 DEF Distinct, IsInjective
<1>5. IsInjective(r)
  <2> SUFFICES ASSUME NEW a \in 1 .. Len(s) - 1, NEW b \in 1 .. Len(s) - 1, r[a] = r[b]
               PROVE  a = b
    BY <1>3 DEF IsInjective
  <2> QED BY <1>1, <1>2, <1>4
<1>6. Range(r) \subseteq Range(s) \ {s[i]}
  <2> SUFFICES ASSUME NEW a \in 1 .. Len(s) - 1
               PROVE  r[a] \in Range(s) \ {s[i]}
    BY <1>3 DEF Range
  <2>1. CASE a < i
    BY <2>1, <1>1, <1>2, <1>4 DEF Range
  <2>2. CASE ~(a < i)
    <3>1. a + 1 \in 1 .. Len(s) /\ a + 1 # i /\ r[a] = s[a + 1]
      BY <2>2, <1>1, <1>2
    <3> QED BY <3>1, <1>1, <1>4 DEF Range
  <2> QED BY <2>1, <2>2
<1>7. Range(s) \ {s[i]} \subseteq Range(r)
  <2> SUFFICES ASSUME NEW a \in 1 .. Len(s), a # i
               PROVE  s[a] \in Range(r)
    BY <1>1 DEF Range
  <2>1. CASE a < i
    BY <2>1, <1>1, <1>2, <1>3 DEF Range
  <2>2. CASE a > i
    <3>1. a - 1 \in 1 .. Len(s) - 1 /\ r[a - 1] = s[a]
      BY <2>2, <1>1, <1>2
    <3> QED BY <3>1, <1>3 DEF Range
  <2> QED BY <2>1, <2>2, <1>1
<1> QED BY <1>2, <1>5, <1>6, <1>7 DEF r, Distinct

\* A list is empty just when it has no ids, and its head is one of them.
LEMMA HeadInRange ==
  ASSUME NEW S, NEW s \in Seq(S)
  PROVE  /\ s = <<>> <=> Range(s) = {}
         /\ s # <<>> => Head(s) \in Range(s)
         /\ Range(s) \subseteq S
<1>1. Len(s) \in Nat /\ DOMAIN s = 1 .. Len(s) /\ \A j \in 1 .. Len(s) : s[j] \in S
  BY LenProperties
<1>2. s = <<>> => Range(s) = {}
  BY <1>1 DEF Range
<1>3. s # <<>> => Head(s) = s[1] /\ 1 \in DOMAIN s
  BY <1>1, EmptySeq
<1> QED BY <1>1, <1>2, <1>3 DEF Range

\* Without takes out one id.
LEMMA WithoutDistinct ==
  ASSUME NEW S, NEW s \in Distinct(S), NEW x
  PROVE  /\ Without(s, x) \in Distinct(S)
         /\ Range(Without(s, x)) = Range(s) \ {x}
<1>1. CASE x \in Range(s)
  <2>1. Pos(s, x) \in 1 .. Len(s) /\ s[Pos(s, x)] = x
    BY <1>1, PosProperties DEF Distinct
  <2> QED BY <1>1, <2>1, RemoveAtDistinct DEF Without
<1>2. CASE x \notin Range(s)
  BY <1>2 DEF Without
<1> QED BY <1>1, <1>2

\* A new id at the end of the list.
LEMMA AppendDistinct ==
  ASSUME NEW S, NEW s \in Distinct(S), NEW y \in S, y \notin Range(s)
  PROVE  /\ Append(s, y) \in Distinct(S)
         /\ Range(Append(s, y)) = Range(s) \cup {y}
<1> DEFINE r == Append(s, y)
<1>1. s \in Seq(S) /\ Len(s) \in Nat /\ DOMAIN s = 1 .. Len(s)
  BY LenProperties DEF Distinct
<1>2. /\ r \in Seq(S)
      /\ Len(r) = Len(s) + 1
      /\ \A j \in 1 .. Len(s) : r[j] = s[j]
      /\ r[Len(s) + 1] = y
  BY <1>1, AppendProperties
<1>3. DOMAIN r = 1 .. Len(s) + 1
  BY <1>2, LenProperties
<1> HIDE DEF r
<1>4. \A a, b \in 1 .. Len(s) : s[a] = s[b] => a = b
  BY <1>1 DEF Distinct, IsInjective
<1>5. \A a \in 1 .. Len(s) : s[a] # y
  BY <1>1 DEF Range
<1>6. IsInjective(r)
  <2> SUFFICES ASSUME NEW a \in 1 .. Len(s) + 1, NEW b \in 1 .. Len(s) + 1, r[a] = r[b]
               PROVE  a = b
    BY <1>3 DEF IsInjective
  <2>1. a \in 1 .. Len(s) \/ a = Len(s) + 1
    BY <1>1
  <2>2. b \in 1 .. Len(s) \/ b = Len(s) + 1
    BY <1>1
  <2> QED BY <2>1, <2>2, <1>2, <1>4, <1>5
<1>7. Range(r) \subseteq Range(s) \cup {y}
  <2> SUFFICES ASSUME NEW a \in 1 .. Len(s) + 1
               PROVE  r[a] \in Range(s) \cup {y}
    BY <1>3 DEF Range
  <2>1. a \in 1 .. Len(s) \/ a = Len(s) + 1
    BY <1>1
  <2> QED BY <2>1, <1>1, <1>2 DEF Range
<1>8. Range(s) \cup {y} \subseteq Range(r)
  BY <1>1, <1>2, <1>3 DEF Range
<1> QED BY <1>2, <1>6, <1>7, <1>8 DEF r, Distinct

-----------------------------------------------------------------------------
(* The fields of a state.                                                  *)

LEMMA StateFields ==
  ASSUME NEW s \in State
  PROVE  /\ s.recent \in Distinct(Clients) /\ s.desktop \in SUBSET Clients
         /\ s.fit \in SUBSET Clients /\ s.view \in [Clients -> Views \cup {NoView}]
         /\ s.owner \in [Tabs -> Clients \cup {None}]
         /\ s.attachments \in [Panes -> Clients \cup {None}]
         /\ s.tabOf \in [Panes -> Tabs \cup {None}]
         /\ s.size \in [Panes -> Sizes \cup {0}]
         /\ Connected(s) \subseteq Clients
<1>1. s.recent \in Distinct(Clients)
  BY DEF State
<1>2. Range(s.recent) \subseteq Clients
  BY <1>1, HeadInRange DEF Distinct
<1> QED BY <1>1, <1>2 DEF State, Connected

-----------------------------------------------------------------------------
(* The last of some places of a list.                                      *)

LEMMA HasMin == ASSUME NEW T \in SUBSET Nat, T # {} PROVE \E x \in T : \A y \in T : x <= y
<1> DEFINE R == OpToRel(<, Nat)
<1>1. IsWellFoundedOn(R, Nat)
  BY NatLessThanWellFounded
<1>2. \A x, y \in Nat : <<y, x>> \in R <=> y < x
  BY DEF OpToRel
<1> HIDE DEF R
<1>3. PICK x \in T : \A y \in T : ~ (<<y, x>> \in R)
  BY <1>1, WFMin
<1>4. ASSUME NEW y \in T PROVE x <= y
  <2>1. ~ (y < x)
    BY <1>2, <1>3
  <2> QED BY <2>1
<1> QED BY <1>4

LEMMA HasMax ==
  ASSUME NEW n \in Nat, NEW C \in SUBSET (1 .. n), C # {}
  PROVE  \E i \in C : \A j \in C : j <= i
<1> DEFINE T == {n - i : i \in C}
<1>1. T \in SUBSET Nat /\ T # {}
  <2>1. \A i \in C : n - i \in Nat
    OBVIOUS
  <2>2. \E i \in C : n - i \in T
    OBVIOUS
  <2> QED BY <2>1, <2>2
<1>2. PICK x \in T : \A y \in T : x <= y
  BY <1>1, HasMin
<1>3. PICK i \in C : x = n - i
  OBVIOUS
<1>4. ASSUME NEW j \in C PROVE j <= i
  <2>1. x <= n - j
    BY <1>2
  <2> QED BY <1>3, <2>1
<1> QED BY <1>4

LEMMA HeirProperties ==
  ASSUME NEW s \in State, NEW t \in Tabs, NEW c
  PROVE  \/ /\ Heir(s, t, c) = None
            /\ \A d \in Connected(s) : d # c => ~(canDecideSize(s, d) /\ s.view[d].tab = t)
         \/ /\ Heir(s, t, c) \in Connected(s) /\ Heir(s, t, c) # c /\ Heir(s, t, c) # None
            /\ canDecideSize(s, Heir(s, t, c)) /\ s.view[Heir(s, t, c)].tab = t
<1> DEFINE C == {i \in DOMAIN s.recent : /\ s.recent[i] # c /\ canDecideSize(s, s.recent[i])
                                         /\ s.view[s.recent[i]].tab = t}
           last == CHOOSE i \in C : \A j \in C : j <= i
<1>1. s.recent \in Seq(Clients)
  BY StateFields DEF Distinct
<1>2. Heir(s, t, c) = IF C = {} THEN None ELSE s.recent[last]
  BY DEF Heir
<1>3. CASE C = {}
  <2>1. \A d \in Connected(s) : \E i \in DOMAIN s.recent : d = s.recent[i]
    BY DEF Connected, Range
  <2> QED BY <1>2, <1>3, <2>1
<1>4. CASE C # {}
  <2>1. Len(s.recent) \in Nat /\ DOMAIN s.recent = 1 .. Len(s.recent)
    BY <1>1, LenProperties
  <2>2. C \in SUBSET (1 .. Len(s.recent))
    BY <2>1
  <2>3. \E i \in C : \A j \in C : j <= i
    BY <1>4, <2>1, <2>2, HasMax
  <2>4. last \in C
    BY <2>3
  <2>a. last \in DOMAIN s.recent
    BY <2>4
  <2> HIDE DEF last
  <2>5. s.recent[last] \in Connected(s) /\ s.recent[last] \in Clients
    BY <1>1, <2>1, <2>a DEF Connected, Range
  <2> QED BY <1>2, <1>4, <2>4, <2>5, NoneAssumption
<1> QED BY <1>3, <1>4

-----------------------------------------------------------------------------
(* What the handlers are made of.                                          *)

\* Ruled, Obeys and the rest look at these fields only.
LEMMA RuledSame ==
  ASSUME NEW s, NEW r, NEW p, r.view = s.view, r.tabOf[p] = s.tabOf[p],
         r.attachments[p] = s.attachments[p],
         s.tabOf[p] # None => r.owner[s.tabOf[p]] = s.owner[s.tabOf[p]]
  PROVE  /\ Ruled(r, p) <=> Ruled(s, p)
         /\ r.size[p] = s.size[p] => (Obeys(s, p) => Obeys(r, p))
BY DEF Ruled, RuledSize, Shows, Obeys

LEMMA NotRuledObeys == ASSUME NEW s, NEW p, ~Ruled(s, p) PROVE Obeys(s, p)
BY DEF Obeys

LEMMA RuledFacts ==
  ASSUME NEW s \in State, NEW p \in Panes, Ruled(s, p)
  PROVE  /\ s.tabOf[p] \in Tabs /\ s.owner[s.tabOf[p]] \in Clients
         /\ s.view[s.owner[s.tabOf[p]]].tab = s.tabOf[p]
         /\ RuledSize(s, p) \in Sizes
<1>1. s.tabOf[p] \in Tabs /\ s.tabOf[p] # None
  BY StateFields DEF Ruled
<1>2. s.owner[s.tabOf[p]] \in Clients
  BY <1>1, StateFields DEF Ruled
<1>3. s.view[s.owner[s.tabOf[p]]].tab = s.tabOf[p]
  BY DEF Ruled, Shows
<1>4. s.view[s.owner[s.tabOf[p]]] \in Views \cup {NoView}
  BY <1>2, StateFields
<1>5. s.view[s.owner[s.tabOf[p]]] \in Views
  BY <1>1, <1>3, <1>4 DEF NoView
<1>6. RuledSize(s, p) \in Sizes
  BY <1>5 DEF Views, RuledSize
<1> QED BY <1>1, <1>2, <1>3, <1>6

LEMMA ApplyProperties ==
  ASSUME NEW s \in State, NEW T
  PROVE  LET r == ApplyOwnerSize(s, T)
         IN  /\ r \in State /\ Alike(s, r) /\ r.owner = s.owner
             /\ \A p \in Panes : s.tabOf[p] \in T \/ Obeys(s, p) => Obeys(r, p)
<1> DEFINE sized(p) == IF s.tabOf[p] \in T /\ Ruled(s, p) THEN RuledSize(s, p) ELSE s.size[p]
           size == [p \in Panes |-> sized(p)]
           r == ApplyOwnerSize(s, T)
<1>1. \A p \in Panes : sized(p) \in Sizes \cup {0}
  BY RuledFacts, StateFields
<1>2. size \in [Panes -> Sizes \cup {0}] /\ \A p \in Panes : size[p] = sized(p)
  BY <1>1
<1>3. r = [s EXCEPT !.size = size]
  BY DEF ApplyOwnerSize
<1> HIDE DEF size, r
<1>4. r \in State /\ Alike(s, r) /\ r.owner = s.owner /\ r.size = size
  BY <1>2, <1>3 DEF State, Alike
<1>5. ASSUME NEW p \in Panes, s.tabOf[p] \in T \/ Obeys(s, p) PROVE Obeys(r, p)
  <2>1. Ruled(r, p) <=> Ruled(s, p)
    BY <1>4 DEF Ruled, Shows, Alike
  <2>2. RuledSize(r, p) = RuledSize(s, p)
    BY <1>4 DEF RuledSize, Alike
  <2>3. r.size[p] = sized(p)
    BY <1>2, <1>4
  <2> QED BY <1>5, <2>1, <2>2, <2>3 DEF Obeys
<1> QED BY <1>4, <1>5 DEF r

LEMMA TouchProperties ==
  ASSUME NEW s \in State, NEW c \in Clients
  PROVE  LET r == Touch(s, c)
         IN  /\ r \in State /\ Connected(r) = Connected(s)
             /\ r.desktop = s.desktop /\ r.fit = s.fit /\ r.view = s.view /\ r.owner = s.owner
             /\ r.attachments = s.attachments /\ r.tabOf = s.tabOf /\ r.size = s.size
<1>1. CASE c \notin Connected(s)
  BY <1>1 DEF Touch
<1>2. CASE c \in Connected(s)
  <2> DEFINE rest == Without(s.recent, c)
             recent == Append(rest, c)
  <2>1. s.recent \in Distinct(Clients)
    BY StateFields
  <2>2. rest \in Distinct(Clients) /\ Range(rest) = Range(s.recent) \ {c}
    BY <2>1, WithoutDistinct
  <2> HIDE DEF rest
  <2>3. recent \in Distinct(Clients) /\ Range(recent) = Range(rest) \cup {c}
    BY <2>2, AppendDistinct
  <2>4. Touch(s, c) = [s EXCEPT !.recent = recent]
    BY <1>2 DEF Touch, rest
  <2> HIDE DEF recent
  <2> QED BY <1>2, <2>2, <2>3, <2>4 DEF State, Connected
<1> QED BY <1>1, <1>2

LEMMA ClaimProperties ==
  ASSUME NEW s \in State, NEW c \in Clients, NEW t
  PROVE  LET r == Claim(s, c, t)
         IN  /\ r \in State /\ Alike(s, r)
             /\ \A u \in Tabs : r.owner[u] = IF u = t /\ u \in LiveTabs(s) THEN c ELSE s.owner[u]
             /\ \A p \in Panes : Obeys(s, p) => Obeys(r, p)
<1>1. CASE t \notin LiveTabs(s)
  BY <1>1 DEF Claim, Alike
<1>2. CASE t \in LiveTabs(s) /\ s.owner[t] = c
  BY <1>2 DEF Claim, Alike
<1>3. CASE t \in LiveTabs(s) /\ s.owner[t] # c
  <2> DEFINE q == [s EXCEPT !.owner[t] = c]
  <2>1. q \in State /\ Alike(s, q) /\ q.size = s.size
        /\ \A u \in Tabs : q.owner[u] = IF u = t THEN c ELSE s.owner[u]
    BY DEF State, Alike
  <2>2. Claim(s, c, t) = ApplyOwnerSize(q, {t})
    BY <1>3 DEF Claim
  <2> HIDE DEF q
  <2>3. \A p \in Panes : s.tabOf[p] = t \/ (Obeys(s, p) => Obeys(q, p))
    <3> SUFFICES ASSUME NEW p \in Panes, s.tabOf[p] # t PROVE Obeys(s, p) => Obeys(q, p)
      OBVIOUS
    <3>1. s.tabOf[p] \in Tabs \cup {None}
      BY StateFields
    <3>2. s.tabOf[p] # None => q.owner[s.tabOf[p]] = s.owner[s.tabOf[p]]
      BY <2>1, <3>1
    <3> QED BY <2>1, <3>2, RuledSame DEF Alike
  <2>4. /\ ApplyOwnerSize(q, {t}) \in State /\ Alike(q, ApplyOwnerSize(q, {t}))
        /\ ApplyOwnerSize(q, {t}).owner = q.owner
        /\ \A p \in Panes : q.tabOf[p] = t \/ Obeys(q, p) => Obeys(ApplyOwnerSize(q, {t}), p)
    BY <2>1, ApplyProperties
  <2> QED BY <1>3, <2>1, <2>2, <2>3, <2>4 DEF Alike
<1> QED BY <1>1, <1>2, <1>3

LEMMA TransferProperties ==
  ASSUME NEW s \in State, NEW T, NEW c
  PROVE  LET r == TransferOwnership(s, T, c)
         IN  /\ r \in State /\ Alike(s, r)
             /\ \A t \in Tabs : r.owner[t] = IF t \in T THEN Heir(s, t, c) ELSE s.owner[t]
             /\ \A p \in Panes : Obeys(s, p) => Obeys(r, p)
<1> DEFINE owner == [t \in Tabs |-> IF t \in T THEN Heir(s, t, c) ELSE s.owner[t]]
           q == [s EXCEPT !.owner = owner]
<1>1. \A t \in Tabs : Heir(s, t, c) \in Clients \cup {None}
  BY HeirProperties, StateFields
<1>2. /\ owner \in [Tabs -> Clients \cup {None}]
      /\ \A t \in Tabs : owner[t] = IF t \in T THEN Heir(s, t, c) ELSE s.owner[t]
  BY <1>1, StateFields
<1>3. TransferOwnership(s, T, c) = ApplyOwnerSize(q, T)
  BY DEF TransferOwnership
<1> HIDE DEF owner
<1>4. q \in State /\ Alike(s, q) /\ q.size = s.size /\ q.owner = owner
  BY <1>2 DEF State, Alike
<1> HIDE DEF q
<1>5. \A p \in Panes : s.tabOf[p] \in T \/ (Obeys(s, p) => Obeys(q, p))
  <2> SUFFICES ASSUME NEW p \in Panes, s.tabOf[p] \notin T PROVE Obeys(s, p) => Obeys(q, p)
    OBVIOUS
  <2>1. s.tabOf[p] \in Tabs \cup {None}
    BY StateFields
  <2>2. s.tabOf[p] # None => q.owner[s.tabOf[p]] = s.owner[s.tabOf[p]]
    BY <1>2, <1>4, <2>1
  <2> QED BY <1>4, <2>2, RuledSame DEF Alike
<1>6. /\ ApplyOwnerSize(q, T) \in State /\ Alike(q, ApplyOwnerSize(q, T))
      /\ ApplyOwnerSize(q, T).owner = q.owner
      /\ \A p \in Panes : q.tabOf[p] \in T \/ Obeys(q, p) => Obeys(ApplyOwnerSize(q, T), p)
  BY <1>4, ApplyProperties
<1> QED BY <1>2, <1>3, <1>4, <1>5, <1>6 DEF Alike

LEMMA ReleaseProperties ==
  ASSUME NEW s \in State, NEW P \in SUBSET Panes
  PROVE  LET r == ReleaseAttachments(s, P)
         IN  /\ r \in State /\ r.recent = s.recent /\ r.desktop = s.desktop /\ r.fit = s.fit
             /\ r.view = s.view /\ r.owner = s.owner /\ r.tabOf = s.tabOf
             /\ \A p \in Panes : r.attachments[p] = IF p \in P THEN None ELSE s.attachments[p]
             /\ \A p \in Panes : Obeys(s, p) => Obeys(r, p)
<1> DEFINE attachments == [p \in Panes |-> IF p \in P THEN None ELSE s.attachments[p]]
           q == [s EXCEPT !.attachments = attachments]
           T == {s.tabOf[p] : p \in P \cap LivePanes(s)}
<1>1. /\ attachments \in [Panes -> Clients \cup {None}]
      /\ \A p \in Panes : attachments[p] = IF p \in P THEN None ELSE s.attachments[p]
  BY StateFields
<1>2. ReleaseAttachments(s, P) = ApplyOwnerSize(q, T)
  BY DEF ReleaseAttachments
<1> HIDE DEF attachments
<1>3. /\ q \in State /\ q.recent = s.recent /\ q.desktop = s.desktop /\ q.fit = s.fit
      /\ q.view = s.view /\ q.owner = s.owner /\ q.tabOf = s.tabOf /\ q.size = s.size
      /\ q.attachments = attachments
  BY <1>1 DEF State
<1> HIDE DEF q
<1>4. \A p \in Panes : s.tabOf[p] \in T \/ (Obeys(s, p) => Obeys(q, p))
  <2> SUFFICES ASSUME NEW p \in Panes, s.tabOf[p] \notin T PROVE Obeys(s, p) => Obeys(q, p)
    OBVIOUS
  <2>1. CASE p \in P
    <3>1. s.tabOf[p] = None
      BY <2>1 DEF LivePanes
    <3>2. ~Ruled(q, p)
      BY <1>3, <3>1 DEF Ruled
    <3> QED BY <3>2, NotRuledObeys
  <2>2. CASE p \notin P
    BY <1>1, <1>3, <2>2, RuledSame
  <2> QED BY <2>1, <2>2
<1> HIDE DEF T
<1>5. /\ ApplyOwnerSize(q, T) \in State /\ Alike(q, ApplyOwnerSize(q, T))
      /\ ApplyOwnerSize(q, T).owner = q.owner
      /\ \A p \in Panes : q.tabOf[p] \in T \/ Obeys(q, p) => Obeys(ApplyOwnerSize(q, T), p)
  BY <1>3, ApplyProperties
<1> QED BY <1>1, <1>2, <1>3, <1>4, <1>5 DEF Alike

-----------------------------------------------------------------------------
(* They keep the registry, the owners and the attachments sound.           *)

LEMMA AlikeSame ==
  ASSUME NEW s, NEW r, Alike(s, r)
  PROVE  /\ Connected(r) = Connected(s) /\ LiveTabs(r) = LiveTabs(s)
         /\ \A c : canDecideSize(r, c) <=> canDecideSize(s, c)
BY DEF Alike, Connected, LiveTabs, LivePanes, canDecideSize

\* A tab with a pane is a tab.
LEMMA LiveTabsType == ASSUME NEW s \in State PROVE LiveTabs(s) \subseteq Tabs
BY StateFields DEF LiveTabs, LivePanes

LEMMA ClaimSound ==
  ASSUME NEW s, NEW E, Sound(s, E), NEW c \in Connected(s), canDecideSize(s, c), NEW t
  PROVE  Sound(Claim(s, c, t), E)
<1> DEFINE r == Claim(s, c, t)
<1>0. s \in State /\ c \in Clients
  BY StateFields DEF Sound
<1>1. /\ r \in State /\ Alike(s, r)
      /\ \A u \in Tabs : r.owner[u] = IF u = t /\ u \in LiveTabs(s) THEN c ELSE s.owner[u]
  BY <1>0, ClaimProperties
<1> HIDE DEF r
<1>2. Deciders(r)
  BY <1>0, <1>1, AlikeSame DEF Sound, Deciders
<1>3. AttachedHere(r) /\ Quiet(r)
  BY <1>0, <1>1, AlikeSame DEF Sound, AttachedHere, Quiet, Alike
<1>4. Served(r, E)
  <2> SUFFICES ASSUME NEW u \in LiveTabs(s), NEW d \in Connected(s) \ E, r.owner[u] = None
               PROVE  ~(s.view[d].tab = u /\ canDecideSize(s, d))
    BY <1>1, AlikeSame DEF Served, Alike
  <2>1. u \in Tabs
    BY <1>0, LiveTabsType
  <2>2. s.owner[u] = None
    BY <1>0, <1>1, <2>1, NoneAssumption
  <2> QED BY <2>2 DEF Sound, Served
<1> QED BY <1>1, <1>2, <1>3, <1>4 DEF Sound, r

\* c need not be fit to own what it owns: all of it passes on.
LEMMA TransferSound ==
  ASSUME NEW s \in State, NEW E, NEW c \in Clients,
         AttachedHere(s), Quiet(s), Served(s, E \cup {c}),
         \A t \in Tabs : s.owner[t] \notin {None, c} =>
                           s.owner[t] \in Connected(s) /\ canDecideSize(s, s.owner[t])
  PROVE  LET r == TransferOwnership(s, OwnedTabs(s, c), c)
         IN  /\ r \in State /\ Alike(s, r) /\ AttachedHere(r) /\ Quiet(r)
             /\ Deciders(r) /\ Served(r, E \cup {c})
             /\ \A t \in Tabs : r.owner[t] # c
<1> DEFINE r == TransferOwnership(s, OwnedTabs(s, c), c)
<1>1. /\ r \in State /\ Alike(s, r)
      /\ \A t \in Tabs : r.owner[t] = IF t \in OwnedTabs(s, c) THEN Heir(s, t, c) ELSE s.owner[t]
  BY TransferProperties
<1> HIDE DEF r
<1>2. \A t \in Tabs : t \in OwnedTabs(s, c) <=> s.owner[t] = c
  BY DEF OwnedTabs
<1>3. c # None
  BY NoneAssumption
<1>4. ASSUME NEW t \in Tabs
      PROVE  /\ r.owner[t] # c
             /\ r.owner[t] # None => r.owner[t] \in Connected(s) /\ canDecideSize(s, r.owner[t])
  <2>1. CASE s.owner[t] = c
    <3>1. r.owner[t] = Heir(s, t, c)
      BY <1>1, <1>2, <2>1
    <3> QED BY <1>3, <3>1, HeirProperties
  <2>2. CASE s.owner[t] # c
    <3>1. r.owner[t] = s.owner[t]
      BY <1>1, <1>2, <2>2
    <3> QED BY <2>2, <3>1
  <2> QED BY <2>1, <2>2
<1>5. Deciders(r) /\ AttachedHere(r) /\ Quiet(r)
  BY <1>1, <1>4, AlikeSame DEF Deciders, AttachedHere, Quiet, Alike
<1>6. Served(r, E \cup {c})
  <2> SUFFICES ASSUME NEW t \in LiveTabs(s), NEW d \in Connected(s) \ (E \cup {c}),
                      r.owner[t] = None
               PROVE  ~(s.view[d].tab = t /\ canDecideSize(s, d))
    BY <1>1, AlikeSame DEF Served, Alike
  <2>1. t \in Tabs
    BY LiveTabsType
  <2>2. CASE s.owner[t] = c
    <3>1. Heir(s, t, c) = None
      BY <1>1, <1>2, <2>1, <2>2
    <3> QED BY <2>1, <3>1, HeirProperties
  <2>3. CASE s.owner[t] # c
    <3>1. s.owner[t] = None
      BY <1>1, <1>2, <2>1, <2>3
    <3> QED BY <3>1 DEF Served
  <2> QED BY <2>2, <2>3
<1> QED BY <1>1, <1>4, <1>5, <1>6 DEF r

LEMMA ReleaseIfUnqualifiedSound ==
  ASSUME NEW s \in State, NEW E, NEW c \in Connected(s),
         AttachedHere(s), Quiet(s), Served(s, E),
         \A t \in Tabs : s.owner[t] \notin {None, c} =>
                           s.owner[t] \in Connected(s) /\ canDecideSize(s, s.owner[t])
  PROVE  /\ Sound(ReleaseIfUnqualified(s, c), E)
         /\ \A p \in Panes : Obeys(s, p) => Obeys(ReleaseIfUnqualified(s, c), p)
<1>0. c \in Clients
  BY StateFields
<1>1. CASE canDecideSize(s, c)
  <2>1. Deciders(s)
    BY <1>1 DEF Deciders
  <2> QED BY <1>1, <2>1 DEF ReleaseIfUnqualified, Sound
<1>2. CASE ~canDecideSize(s, c)
  <2> DEFINE r == TransferOwnership(s, OwnedTabs(s, c), c)
  <2>1. ReleaseIfUnqualified(s, c) = r
    BY <1>2 DEF ReleaseIfUnqualified
  <2>2. Served(s, E \cup {c})
    BY DEF Served
  <2>3. /\ r \in State /\ Alike(s, r) /\ AttachedHere(r) /\ Quiet(r)
        /\ Deciders(r) /\ Served(r, E \cup {c})
    BY <1>0, <2>2, TransferSound
  <2>4. \A p \in Panes : Obeys(s, p) => Obeys(r, p)
    BY TransferProperties
  <2> HIDE DEF r
  <2>5. Served(r, E)
    <3> SUFFICES ASSUME NEW t \in LiveTabs(r), NEW d \in Connected(r) \ E, r.owner[t] = None
                 PROVE  ~(r.view[d].tab = t /\ canDecideSize(r, d))
      BY DEF Served
    <3>1. CASE d = c
      BY <1>2, <2>3, <3>1, AlikeSame
    <3>2. CASE d # c
      BY <2>3, <3>2 DEF Served
    <3> QED BY <3>1, <3>2
  <2> QED BY <2>1, <2>3, <2>4, <2>5 DEF Sound
<1> QED BY <1>1, <1>2

LEMMA TouchSound ==
  ASSUME NEW s, NEW E, Sound(s, E), NEW c \in Clients
  PROVE  /\ Sound(Touch(s, c), E)
         /\ \A p \in Panes : Obeys(s, p) => Obeys(Touch(s, c), p)
<1> DEFINE r == Touch(s, c)
<1>1. /\ r \in State /\ Connected(r) = Connected(s)
      /\ r.desktop = s.desktop /\ r.fit = s.fit /\ r.view = s.view /\ r.owner = s.owner
      /\ r.attachments = s.attachments /\ r.tabOf = s.tabOf /\ r.size = s.size
  BY TouchProperties DEF Sound
<1> HIDE DEF r
<1>2. LiveTabs(r) = LiveTabs(s) /\ \A d : canDecideSize(r, d) <=> canDecideSize(s, d)
  BY <1>1 DEF LiveTabs, LivePanes, canDecideSize
<1>3. Sound(r, E)
  BY <1>1, <1>2 DEF Sound, Deciders, AttachedHere, Quiet, Served
<1>4. \A p \in Panes : Obeys(s, p) => Obeys(r, p)
  BY <1>1, RuledSame
<1> QED BY <1>3, <1>4 DEF r

LEMMA NoteInteractionSound ==
  ASSUME NEW s, NEW E, Sound(s, E), NEW c \in Clients, NEW p \in Panes
  PROVE  /\ Sound(NoteInteraction(s, c, p), E)
         /\ \A q \in Panes : Obeys(s, q) => Obeys(NoteInteraction(s, c, p), q)
<1>1. /\ Sound(Touch(s, c), E)
      /\ \A q \in Panes : Obeys(s, q) => Obeys(Touch(s, c), q)
  BY TouchSound
<1>2. CASE c \in Connected(s) /\ canDecideSize(s, c) /\ p \in LivePanes(s)
  <2> DEFINE r == Touch(s, c)
  <2>1. NoteInteraction(s, c, p) = Claim(r, c, s.tabOf[p])
    BY <1>2 DEF NoteInteraction
  <2>2. c \in Connected(r) /\ canDecideSize(r, c) /\ r \in State
    BY <1>2, TouchProperties DEF Sound, canDecideSize
  <2> HIDE DEF r
  <2>3. Sound(r, E) /\ \A q \in Panes : Obeys(s, q) => Obeys(r, q)
    BY <1>1 DEF r
  <2>4. Sound(Claim(r, c, s.tabOf[p]), E)
    BY <2>2, <2>3, ClaimSound
  <2>5. \A q \in Panes : Obeys(r, q) => Obeys(Claim(r, c, s.tabOf[p]), q)
    BY <2>2, ClaimProperties
  <2> QED BY <2>1, <2>3, <2>4, <2>5
<1>3. CASE ~(c \in Connected(s) /\ canDecideSize(s, c) /\ p \in LivePanes(s))
  <2>1. NoteInteraction(s, c, p) = Touch(s, c)
    BY <1>3 DEF NoteInteraction
  <2> QED BY <1>1, <2>1
<1> QED BY <1>2, <1>3

\* What is left to show of a step.
LEMMA BecomeStep ==
  ASSUME IInv, NEW r, NEW moved \in SUBSET Panes, Become(r, moved),
         promoted' \subseteq Clients, Sound(r, promoted'),
         \A p \in Panes : p \notin excused \cup moved => Obeys(r, p)
  PROVE  IInv'
<1>1. m' = r /\ calls' \in 0..MaxCalls
  BY CallsAssumption DEF Become, IInv
<1>2. excused' = {p \in excused \cup moved : ~Obeys(r, p)}
  BY DEF Become
<1>3. excused' \subseteq Panes /\ \A p \in Panes : p \notin excused' => Obeys(r, p)
  BY <1>2 DEF IInv
<1> HIDE DEF Become
<1>4. Sound(m', promoted')
  BY <1>1
<1>5. \A p \in Panes : p \notin excused' => Obeys(m', p)
  BY <1>1, <1>3
<1> QED BY <1>1, <1>3, <1>4, <1>5 DEF IInv

-----------------------------------------------------------------------------
(* The steps.                                                              *)

LEMMA InitInv == Init => IInv
<1> SUFFICES ASSUME Init PROVE IInv
  OBVIOUS
<1>1. PICK p \in Panes, t \in Tabs :
        m = [recent |-> << >>, desktop |-> {}, fit |-> {},
             view |-> [c \in Clients |-> NoView],
             owner |-> [u \in Tabs |-> None],
             attachments |-> [q \in Panes |-> None],
             tabOf |-> [q \in Panes |-> IF q = p THEN t ELSE None],
             size |-> [q \in Panes |-> 0]]
  BY DEF Init
<1>2. << >> \in Distinct(Clients) /\ Range(<< >>) = {}
  BY DEF Distinct, IsInjective, Range
<1>3. m \in State /\ Connected(m) = {} /\ m.owner = [u \in Tabs |-> None]
      /\ m.attachments = [q \in Panes |-> None] /\ m.view = [c \in Clients |-> NoView]
      /\ m.tabOf \in [Panes -> Tabs \cup {None}]
  BY <1>1, <1>2 DEF State, Connected
<1>4. Sound(m, promoted)
  BY <1>3 DEF Sound, Deciders, AttachedHere, Quiet, Served
<1>5. ASSUME NEW q \in Panes PROVE Obeys(m, q)
  BY <1>3 DEF Obeys, Ruled
<1> QED BY <1>4, <1>5, CallsAssumption DEF IInv, Init

\* A view that is not there is of no tab.
LEMMA NoViewNoTab == ASSUME NEW t \in Tabs, NEW v, v = NoView PROVE v.tab # t
BY NoneAssumption DEF NoView

LEMMA ConnectStep == ASSUME IInv, NEW c \in Clients, CallConnect(c) PROVE IInv'
<1> DEFINE recent == Append(m.recent, c)
           r == [m EXCEPT !.recent = recent, !.desktop = @ \cup {c}]
<1>0. Sound(m, promoted) /\ m \in State
  BY DEF IInv, Sound
<1>1. c \notin Connected(m) /\ promoted' = promoted
      /\ Become([m EXCEPT !.recent = Append(@, c), !.desktop = @ \cup {c}], {})
  BY DEF CallConnect
<1>2. recent \in Distinct(Clients) /\ Range(recent) = Connected(m) \cup {c}
  BY <1>0, <1>1, StateFields, AppendDistinct DEF Connected
<1>3. Become(r, {})
  BY <1>1
<1> HIDE DEF recent
<1>4. /\ r \in State /\ Connected(r) = Connected(m) \cup {c} /\ r.desktop = m.desktop \cup {c}
      /\ r.fit = m.fit /\ r.view = m.view /\ r.owner = m.owner /\ r.size = m.size
      /\ r.attachments = m.attachments /\ r.tabOf = m.tabOf
  BY <1>0, <1>2 DEF State, Connected
<1> HIDE DEF r
<1>5. /\ LiveTabs(r) = LiveTabs(m)
      /\ \A d : d # c => (canDecideSize(r, d) <=> canDecideSize(m, d))
      /\ \A d : canDecideSize(m, d) => canDecideSize(r, d)
  BY <1>4 DEF LiveTabs, LivePanes, canDecideSize
<1>6. Deciders(r) /\ AttachedHere(r) /\ Quiet(r)
  BY <1>0, <1>4, <1>5 DEF Sound, Deciders, AttachedHere, Quiet
<1>7. Served(r, promoted)
  <2> SUFFICES ASSUME NEW t \in LiveTabs(m), NEW d \in Connected(r) \ promoted, r.owner[t] = None
               PROVE  ~(m.view[d].tab = t /\ canDecideSize(r, d))
    BY <1>4, <1>5 DEF Served
  <2>1. CASE d = c
    <3>1. m.view[c] = NoView
      BY <1>0, <1>1 DEF Sound, Quiet
    <3>2. t \in Tabs
      BY <1>0, LiveTabsType
    <3> QED BY <2>1, <3>1, <3>2, NoViewNoTab
  <2>2. CASE d # c
    BY <1>0, <1>4, <1>5, <2>2 DEF Sound, Served
  <2> QED BY <2>1, <2>2
<1>8. \A p \in Panes : Obeys(m, p) => Obeys(r, p)
  BY <1>4, RuledSame
<1>9. promoted' \subseteq Clients /\ Sound(r, promoted')
  BY <1>1, <1>4, <1>6, <1>7 DEF Sound, IInv
<1>10. \A p \in Panes : p \notin excused \cup {} => Obeys(r, p)
  BY <1>8 DEF IInv
<1>11. {} \in SUBSET Panes
  OBVIOUS
<1> QED BY <1>3, <1>9, <1>10, <1>11, BecomeStep

LEMMA HelloStep ==
  ASSUME IInv, NEW c \in Clients, NEW desktop \in BOOLEAN, CallHello(c, desktop) PROVE IInv'
<1> DEFINE kind == IF desktop THEN m.desktop \cup {c} ELSE m.desktop \ {c}
           said == [m EXCEPT !.desktop = kind]
           r == ReleaseIfUnqualified(said, c)
<1>0. Sound(m, promoted) /\ m \in State /\ promoted \subseteq Clients
  BY DEF IInv, Sound
<1>1. /\ c \in Connected(m) /\ Become(r, {})
      /\ promoted' = IF desktop /\ c \notin m.desktop /\ m.view[c] # NoView
                     THEN promoted \cup {c} ELSE promoted
  BY DEF CallHello
<1>2. kind \in SUBSET Clients /\ \A d : d # c => (d \in kind <=> d \in m.desktop)
      /\ (c \in kind <=> desktop)
  BY <1>0, StateFields
<1> HIDE DEF kind
<1>3. /\ said \in State /\ said.recent = m.recent /\ said.desktop = kind
      /\ said.fit = m.fit /\ said.view = m.view /\ said.owner = m.owner /\ said.size = m.size
      /\ said.attachments = m.attachments /\ said.tabOf = m.tabOf
  BY <1>0, <1>2 DEF State
<1> HIDE DEF said
<1>4. /\ LiveTabs(said) = LiveTabs(m) /\ Connected(said) = Connected(m)
      /\ \A d : d # c => (canDecideSize(said, d) <=> canDecideSize(m, d))
      /\ canDecideSize(said, c) <=> desktop \/ c \in m.fit
  BY <1>2, <1>3 DEF LiveTabs, LivePanes, canDecideSize, Connected
<1>5. AttachedHere(said) /\ Quiet(said)
  BY <1>0, <1>3, <1>4 DEF Sound, AttachedHere, Quiet
<1>6. Served(said, promoted')
  <2> SUFFICES ASSUME NEW t \in LiveTabs(m), NEW d \in Connected(m) \ promoted', m.owner[t] = None
               PROVE  ~(m.view[d].tab = t /\ canDecideSize(said, d))
    BY <1>3, <1>4 DEF Served
  <2>1. d \notin promoted
    BY <1>1
  <2>2. CASE d # c \/ canDecideSize(m, d)
    BY <1>0, <1>4, <2>1, <2>2 DEF Sound, Served
  <2>3. CASE d = c /\ ~canDecideSize(m, d)
    <3>1. c \notin m.desktop /\ c \notin m.fit
      BY <2>3 DEF canDecideSize
    <3>2. canDecideSize(said, c) => m.view[c] = NoView
      BY <1>1, <1>4, <2>3, <3>1
    <3>3. t \in Tabs
      BY <1>0, LiveTabsType
    <3> QED BY <2>3, <3>2, <3>3, NoViewNoTab
  <2> QED BY <2>2, <2>3
<1>7. \A t \in Tabs : said.owner[t] \notin {None, c} =>
                        said.owner[t] \in Connected(said) /\ canDecideSize(said, said.owner[t])
  BY <1>0, <1>3, <1>4 DEF Sound, Deciders
<1>8. Sound(r, promoted') /\ \A p \in Panes : Obeys(said, p) => Obeys(r, p)
  BY <1>1, <1>3, <1>4, <1>5, <1>6, <1>7, ReleaseIfUnqualifiedSound
<1>9. \A p \in Panes : Obeys(m, p) => Obeys(said, p)
  BY <1>3, RuledSame
<1>10. promoted' \subseteq Clients
  BY <1>0, <1>1
<1>11. \A p \in Panes : p \notin excused \cup {} => Obeys(r, p)
  BY <1>8, <1>9 DEF IInv
<1> HIDE DEF r
<1>12. {} \in SUBSET Panes
  OBVIOUS
<1> QED BY <1>1, <1>8, <1>10, <1>11, <1>12, BecomeStep

LEMMA ViewStep == ASSUME IInv, NEW c \in Clients, NEW v \in Views, CallView(c, v) PROVE IInv'
<1> DEFINE view == [m.view EXCEPT ![c] = v]
           shown == [m EXCEPT !.view = view]
           t == v.tab
           owned == [shown EXCEPT !.owner[t] = c]
<1>0. /\ Sound(m, promoted) /\ m \in State /\ promoted \subseteq Clients /\ t \in Tabs
      /\ m.view \in [Clients -> Views \cup {NoView}]
      /\ m.owner \in [Tabs -> Clients \cup {None}]
      /\ m.tabOf \in [Panes -> Tabs \cup {None}]
  BY StateFields DEF IInv, Sound, Views
<1>1. c \in Connected(m) /\ promoted' = promoted \ {c} /\ [m EXCEPT !.view[c] = v] = shown
  BY DEF CallView
<1>2. /\ view \in [Clients -> Views \cup {NoView}] /\ view[c] = v
      /\ \A d \in Clients : d # c => view[d] = m.view[d]
  BY <1>0
<1> HIDE DEF view
<1>3. /\ shown \in State /\ shown.recent = m.recent /\ shown.desktop = m.desktop
      /\ shown.fit = m.fit /\ shown.view = view /\ shown.owner = m.owner /\ shown.size = m.size
      /\ shown.attachments = m.attachments /\ shown.tabOf = m.tabOf
  BY <1>0, <1>2 DEF State
<1>4. /\ owned \in State /\ owned.recent = m.recent /\ owned.desktop = m.desktop
      /\ owned.fit = m.fit /\ owned.view = view /\ owned.size = m.size
      /\ owned.attachments = m.attachments /\ owned.tabOf = m.tabOf
      /\ \A u \in Tabs : owned.owner[u] = IF u = t THEN c ELSE m.owner[u]
  BY <1>0, <1>3 DEF State
<1>5. CASE t \notin LiveTabs(m) \/ ~canDecideSize(m, c) \/ m.owner[t] \notin {c, None}
  <2>1. Become(shown, {})
    <3>1. ~canDecideSize(m, c) => m.owner[t] # c
      BY <1>0, NoneAssumption DEF Sound, Deciders
    <3> QED BY <1>1, <1>5, <3>1 DEF CallView
  <2> HIDE DEF shown
  <2>2. /\ LiveTabs(shown) = LiveTabs(m) /\ Connected(shown) = Connected(m)
        /\ \A d : canDecideSize(shown, d) <=> canDecideSize(m, d)
    BY <1>3 DEF LiveTabs, LivePanes, canDecideSize, Connected
  <2>3. Deciders(shown) /\ AttachedHere(shown) /\ Quiet(shown)
    BY <1>0, <1>1, <1>2, <1>3, <2>2 DEF Sound, Deciders, AttachedHere, Quiet
  <2>4. Served(shown, promoted')
    <3> SUFFICES ASSUME NEW u \in LiveTabs(m), NEW d \in Connected(m) \ promoted', m.owner[u] = None
                 PROVE  ~(view[d].tab = u /\ canDecideSize(m, d))
      BY <1>3, <2>2 DEF Served
    <3>1. CASE d = c
      BY <1>2, <1>5, <3>1
    <3>2. CASE d # c
      <4>1. d \in Clients
        BY <1>0, StateFields
      <4> QED BY <1>0, <1>1, <1>2, <3>2, <4>1 DEF Sound, Served
    <3> QED BY <3>1, <3>2
  <2>5. \A p \in Panes : Obeys(m, p) => Obeys(shown, p)
    <3> SUFFICES ASSUME NEW p \in Panes, Obeys(m, p), Ruled(shown, p)
                 PROVE  shown.size[p] = RuledSize(shown, p)
      BY DEF Obeys
    <3> DEFINE o == m.owner[m.tabOf[p]]
    <3>1. m.tabOf[p] \in Tabs /\ o \in Clients /\ view[o].tab = m.tabOf[p]
      BY <1>3, RuledFacts
    <3>2. m.tabOf[p] \in LiveTabs(m)
      BY <3>1, NoneAssumption DEF LiveTabs, LivePanes
    <3>3. o # c
      <4> SUFFICES ASSUME o = c PROVE FALSE
        OBVIOUS
      <4>1. m.tabOf[p] = t
        BY <1>2, <3>1
      <4>2. canDecideSize(m, c)
        BY <1>0, <3>1, NoneAssumption DEF Sound, Deciders
      <4> QED BY <1>5, <3>2, <4>1, <4>2
    <3>4. view[o] = m.view[o]
      BY <1>2, <3>1, <3>3
    <3>5. Ruled(m, p) /\ RuledSize(m, p) = RuledSize(shown, p)
      BY <1>3, <3>4 DEF Ruled, RuledSize, Shows
    <3> QED BY <1>3, <3>5 DEF Obeys
  <2>6. promoted' \subseteq Clients /\ Sound(shown, promoted')
    BY <1>0, <1>1, <1>3, <2>3, <2>4 DEF Sound
  <2>7. \A p \in Panes : p \notin excused \cup {} => Obeys(shown, p)
    BY <2>5 DEF IInv
  <2>8. {} \in SUBSET Panes
    OBVIOUS
  <2> QED BY <2>1, <2>6, <2>7, <2>8, BecomeStep
<1>6. CASE t \in LiveTabs(m) /\ canDecideSize(m, c) /\ m.owner[t] \in {c, None}
  <2> DEFINE r == ApplyOwnerSize(owned, {t})
  <2>1. Become(r, {})
    BY <1>1, <1>6 DEF CallView
  <2> HIDE DEF shown, owned
  <2>a. /\ r \in State /\ Alike(owned, r) /\ r.owner = owned.owner
        /\ \A p \in Panes : owned.tabOf[p] \in {t} \/ Obeys(owned, p) => Obeys(r, p)
    BY <1>4, ApplyProperties
  <2> HIDE DEF r
  <2>2. /\ LiveTabs(r) = LiveTabs(m) /\ Connected(r) = Connected(m)
        /\ \A d : canDecideSize(r, d) <=> canDecideSize(m, d)
    BY <1>4, <2>a DEF Alike, LiveTabs, LivePanes, canDecideSize, Connected
  <2>b. /\ r.view = view /\ r.attachments = m.attachments
        /\ \A u \in Tabs : r.owner[u] = IF u = t THEN c ELSE m.owner[u]
    BY <1>4, <2>a DEF Alike
  <2>3. Deciders(r) /\ AttachedHere(r) /\ Quiet(r)
    BY <1>0, <1>1, <1>2, <1>6, <2>b, <2>2 DEF Sound, Deciders, AttachedHere, Quiet
  <2>4. Served(r, promoted')
    <3> SUFFICES ASSUME NEW u \in LiveTabs(m), NEW d \in Connected(m) \ promoted', r.owner[u] = None
                 PROVE  ~(view[d].tab = u /\ canDecideSize(m, d))
      BY <2>2, <2>b DEF Served
    <3>0. u \in Tabs /\ u # t /\ m.owner[u] = None
      BY <1>0, <2>b, LiveTabsType, NoneAssumption
    <3>1. CASE d = c
      BY <1>2, <3>0, <3>1
    <3>2. CASE d # c
      <4>1. d \in Clients
        BY <1>0, StateFields
      <4> QED BY <1>0, <1>1, <1>2, <3>0, <3>2, <4>1 DEF Sound, Served
    <3> QED BY <3>1, <3>2
  <2>5. ASSUME NEW p \in Panes, Obeys(m, p) PROVE Obeys(r, p)
    <3>1. CASE m.tabOf[p] = t
      BY <1>4, <2>a, <3>1
    <3>2. CASE m.tabOf[p] # t
      <4> SUFFICES ASSUME Ruled(owned, p) PROVE owned.size[p] = RuledSize(owned, p)
        BY <2>a DEF Obeys
      <4> DEFINE o == m.owner[m.tabOf[p]]
      <4>1. /\ m.tabOf[p] \in Tabs /\ o \in Clients /\ view[o].tab = m.tabOf[p]
            /\ owned.owner[m.tabOf[p]] = o
        <5>1. /\ m.tabOf[p] \in Tabs /\ owned.owner[m.tabOf[p]] \in Clients
              /\ view[owned.owner[m.tabOf[p]]].tab = m.tabOf[p]
          BY <1>4, RuledFacts
        <5>2. owned.owner[m.tabOf[p]] = o
          BY <1>4, <3>2, <5>1
        <5> QED BY <5>1, <5>2
      <4>2. o # c
        BY <1>2, <3>2, <4>1
      <4>3. view[o] = m.view[o]
        BY <1>2, <4>1, <4>2
      <4> HIDE DEF o
      <4>4. Ruled(m, p) /\ RuledSize(m, p) = RuledSize(owned, p)
        BY <1>4, <4>1, <4>3 DEF Ruled, RuledSize, Shows, o
      <4> QED BY <1>4, <2>5, <4>4 DEF Obeys
    <3> QED BY <3>1, <3>2
  <2>6. promoted' \subseteq Clients /\ Sound(r, promoted')
    BY <1>0, <1>1, <2>a, <2>3, <2>4 DEF Sound
  <2>7. \A p \in Panes : p \notin excused \cup {} => Obeys(r, p)
    BY <2>5 DEF IInv
  <2>8. {} \in SUBSET Panes
    OBVIOUS
  <2> QED BY <2>1, <2>6, <2>7, <2>8, BecomeStep
<1> QED BY <1>5, <1>6

LEMMA FitStep == ASSUME IInv, NEW c \in Clients, NEW on \in BOOLEAN, CallFit(c, on) PROVE IInv'
<1> DEFINE fit == IF on THEN m.fit \cup {c} ELSE m.fit \ {c}
           fitted == [m EXCEPT !.fit = fit]
<1>0. Sound(m, promoted) /\ m \in State /\ promoted \subseteq Clients
  BY DEF IInv, Sound
<1>1. c \in Connected(m) /\ promoted' = promoted
  BY DEF CallFit
<1>2. fit \in SUBSET Clients /\ \A d : d # c => (d \in fit <=> d \in m.fit)
      /\ (c \in fit <=> on)
  BY <1>0, StateFields
<1>a. /\ on /\ m.view[c] = NoView => Become(fitted, {})
      /\ on /\ m.view[c] # NoView => Become(Claim(Touch(fitted, c), c, m.view[c].tab), {})
      /\ ~on => Become(ReleaseIfUnqualified(fitted, c), {})
  BY DEF CallFit
<1> HIDE DEF fit
<1>3. /\ fitted \in State /\ fitted.recent = m.recent /\ fitted.fit = fit
      /\ fitted.desktop = m.desktop /\ fitted.view = m.view /\ fitted.owner = m.owner
      /\ fitted.size = m.size /\ fitted.attachments = m.attachments /\ fitted.tabOf = m.tabOf
  BY <1>0, <1>2 DEF State
<1> HIDE DEF fitted
<1>4. /\ LiveTabs(fitted) = LiveTabs(m) /\ Connected(fitted) = Connected(m)
      /\ \A d : d # c => (canDecideSize(fitted, d) <=> canDecideSize(m, d))
      /\ on => canDecideSize(fitted, c) /\ c \in fitted.fit
      /\ ~on => (canDecideSize(fitted, c) => canDecideSize(m, c))
  BY <1>2, <1>3 DEF LiveTabs, LivePanes, canDecideSize, Connected
<1>5. AttachedHere(fitted) /\ Quiet(fitted)
  BY <1>0, <1>3, <1>4 DEF Sound, AttachedHere, Quiet
<1>6. \A p \in Panes : Obeys(m, p) => Obeys(fitted, p)
  BY <1>3, RuledSame
<1>7. on => Deciders(fitted)
  BY <1>0, <1>3, <1>4 DEF Sound, Deciders
<1>8. {} \in SUBSET Panes
  OBVIOUS
<1>9. CASE on /\ m.view[c] = NoView
  <2>1. Served(fitted, promoted)
    <3> SUFFICES ASSUME NEW t \in LiveTabs(m), NEW d \in Connected(m) \ promoted, m.owner[t] = None
                 PROVE  ~(m.view[d].tab = t /\ canDecideSize(fitted, d))
      BY <1>3, <1>4 DEF Served
    <3>1. CASE d = c
      <4>1. t \in Tabs
        BY <1>0, LiveTabsType
      <4> QED BY <1>9, <3>1, <4>1, NoViewNoTab
    <3>2. CASE d # c
      BY <1>0, <1>4, <3>2 DEF Sound, Served
    <3> QED BY <3>1, <3>2
  <2>2. \A p \in Panes : p \notin excused \cup {} => Obeys(fitted, p)
    BY <1>6 DEF IInv
  <2>3. promoted' \subseteq Clients /\ Sound(fitted, promoted')
    BY <1>0, <1>1, <1>3, <1>5, <1>7, <1>9, <2>1 DEF Sound
  <2>4. Become(fitted, {})
    BY <1>9, <1>a
  <2> QED BY <1>8, <2>2, <2>3, <2>4, BecomeStep
<1>10. CASE on /\ m.view[c] # NoView
  <2> DEFINE touched == Touch(fitted, c)
             t == m.view[c].tab
             r == Claim(touched, c, t)
  <2>1. Served(fitted, promoted \cup {c})
    <3> SUFFICES ASSUME NEW u \in LiveTabs(m), NEW d \in Connected(m) \ (promoted \cup {c}),
                        m.owner[u] = None
                 PROVE  ~(m.view[d].tab = u /\ canDecideSize(fitted, d))
      BY <1>3, <1>4 DEF Served
    <3> QED BY <1>0, <1>4 DEF Sound, Served
  <2>2. Sound(fitted, promoted \cup {c})
    BY <1>3, <1>5, <1>7, <1>10, <2>1 DEF Sound
  <2>3. Sound(touched, promoted \cup {c}) /\ \A p \in Panes : Obeys(fitted, p) => Obeys(touched, p)
    BY <2>2, TouchSound
  <2>4. /\ touched \in State /\ c \in Connected(touched) /\ canDecideSize(touched, c)
        /\ LiveTabs(touched) = LiveTabs(m) /\ touched.view = m.view
    <3>1. /\ touched \in State /\ Connected(touched) = Connected(fitted)
          /\ touched.desktop = fitted.desktop /\ touched.fit = fitted.fit
          /\ touched.view = fitted.view /\ touched.tabOf = fitted.tabOf
      BY <1>3, TouchProperties
    <3> QED BY <1>1, <1>3, <1>4, <1>10, <3>1 DEF canDecideSize, LiveTabs, LivePanes
  <2> HIDE DEF touched
  <2>5. Sound(r, promoted \cup {c})
    BY <2>3, <2>4, ClaimSound
  <2>6. /\ Alike(touched, r) /\ \A p \in Panes : Obeys(touched, p) => Obeys(r, p)
        /\ \A u \in Tabs : u = t /\ u \in LiveTabs(m) => r.owner[u] = c
    BY <2>4, ClaimProperties
  <2>7. Served(r, promoted)
    <3> HIDE DEF r
    <3> SUFFICES ASSUME NEW u \in LiveTabs(r), NEW d \in Connected(r) \ promoted, r.owner[u] = None
                 PROVE  ~(r.view[d].tab = u /\ canDecideSize(r, d))
      BY DEF Served
    <3>1. CASE d = c
      <4>1. u \in Tabs /\ u \in LiveTabs(m)
        BY <2>4, <2>5, <2>6, AlikeSame, LiveTabsType DEF Sound
      <4>2. u # t
        BY <2>6, <4>1, NoneAssumption
      <4>3. r.view[d].tab = t
        BY <2>4, <2>6, <3>1 DEF Alike
      <4> QED BY <4>2, <4>3
    <3>2. CASE d # c
      BY <2>5, <3>2 DEF Sound, Served
    <3> QED BY <3>1, <3>2
  <2>8. promoted' \subseteq Clients /\ Sound(r, promoted')
    BY <1>0, <1>1, <2>5, <2>7 DEF Sound
  <2>9. \A p \in Panes : p \notin excused \cup {} => Obeys(r, p)
    BY <1>6, <2>3, <2>6 DEF IInv
  <2>10. Become(r, {})
    BY <1>10, <1>a DEF touched
  <2> HIDE DEF r
  <2> QED BY <1>8, <2>8, <2>9, <2>10, BecomeStep
<1>11. CASE ~on
  <2> DEFINE r == ReleaseIfUnqualified(fitted, c)
  <2>1. Served(fitted, promoted)
    <3> SUFFICES ASSUME NEW t \in LiveTabs(m), NEW d \in Connected(m) \ promoted, m.owner[t] = None
                 PROVE  ~(m.view[d].tab = t /\ canDecideSize(fitted, d))
      BY <1>3, <1>4 DEF Served
    <3>1. canDecideSize(fitted, d) => canDecideSize(m, d)
      BY <1>4, <1>11
    <3> QED BY <1>0, <3>1 DEF Sound, Served
  <2>2. \A t \in Tabs : fitted.owner[t] \notin {None, c} =>
                          fitted.owner[t] \in Connected(fitted) /\ canDecideSize(fitted, fitted.owner[t])
    BY <1>0, <1>3, <1>4 DEF Sound, Deciders
  <2>3. Sound(r, promoted) /\ \A p \in Panes : Obeys(fitted, p) => Obeys(r, p)
    BY <1>1, <1>3, <1>4, <1>5, <2>1, <2>2, ReleaseIfUnqualifiedSound
  <2>4. \A p \in Panes : p \notin excused \cup {} => Obeys(r, p)
    BY <1>6, <2>3 DEF IInv
  <2>5. Become(r, {}) /\ promoted' \subseteq Clients
    BY <1>0, <1>1, <1>11, <1>a
  <2> HIDE DEF r
  <2> QED BY <1>1, <1>8, <2>3, <2>4, <2>5, BecomeStep
<1> QED BY <1>9, <1>10, <1>11

LEMMA GoneStep == ASSUME IInv, NEW c \in Clients, CallGone(c) PROVE IInv'
<1> DEFINE passed == TransferOwnership(m, OwnedTabs(m, c), c)
           P == {p \in Panes : m.attachments[p] = c}
           freed == ReleaseAttachments(passed, P)
           recent == Without(freed.recent, c)
           view == [freed.view EXCEPT ![c] = NoView]
           r == [freed EXCEPT !.recent = recent, !.desktop = freed.desktop \ {c},
                              !.fit = freed.fit \ {c}, !.view = view]
<1>0. Sound(m, promoted) /\ m \in State /\ promoted \subseteq Clients
  BY DEF IInv, Sound
<1>1. promoted' = promoted \ {c} /\ Become(r, {})
  <2>1. /\ promoted' = promoted \ {c}
        /\ Become([freed EXCEPT !.recent = Without(@, c), !.desktop = @ \ {c}, !.fit = @ \ {c},
                                !.view[c] = NoView], {})
    BY DEF CallGone
  <2> QED BY <2>1
<1>2. /\ passed \in State /\ Alike(m, passed) /\ AttachedHere(passed) /\ Quiet(passed)
      /\ Deciders(passed) /\ Served(passed, promoted \cup {c})
      /\ \A t \in Tabs : passed.owner[t] # c
  <2>1. Served(m, promoted \cup {c})
    BY <1>0 DEF Sound, Served
  <2>2. \A t \in Tabs : m.owner[t] \notin {None, c} =>
                          m.owner[t] \in Connected(m) /\ canDecideSize(m, m.owner[t])
    BY <1>0 DEF Sound, Deciders
  <2> QED BY <1>0, <2>1, <2>2, TransferSound DEF Sound
<1>3. \A p \in Panes : Obeys(m, p) => Obeys(passed, p)
  BY <1>0, TransferProperties
<1> HIDE DEF passed
<1>4. /\ freed \in State /\ freed.recent = m.recent /\ freed.desktop = m.desktop
      /\ freed.fit = m.fit /\ freed.view = m.view /\ freed.owner = passed.owner
      /\ freed.tabOf = m.tabOf
      /\ \A p \in Panes : freed.attachments[p] = IF p \in P THEN None ELSE m.attachments[p]
      /\ \A p \in Panes : Obeys(passed, p) => Obeys(freed, p)
  <2>1. P \in SUBSET Panes
    OBVIOUS
  <2> HIDE DEF P
  <2>2. /\ freed \in State /\ freed.recent = passed.recent /\ freed.desktop = passed.desktop
        /\ freed.fit = passed.fit /\ freed.view = passed.view /\ freed.owner = passed.owner
        /\ freed.tabOf = passed.tabOf
        /\ \A p \in Panes : freed.attachments[p] = IF p \in P THEN None ELSE passed.attachments[p]
        /\ \A p \in Panes : Obeys(passed, p) => Obeys(freed, p)
    BY <1>2, <2>1, ReleaseProperties
  <2> QED BY <1>2, <2>2 DEF Alike
<1> HIDE DEF freed
<1>5. recent \in Distinct(Clients) /\ Range(recent) = Connected(m) \ {c}
  BY <1>0, <1>4, StateFields, WithoutDistinct DEF Connected
<1>6. /\ view \in [Clients -> Views \cup {NoView}] /\ view[c] = NoView
      /\ \A d \in Clients : d # c => view[d] = m.view[d]
  BY <1>0, <1>4, StateFields
<1> HIDE DEF recent, view
<1>7. /\ r \in State /\ Connected(r) = Connected(m) \ {c} /\ r.desktop = m.desktop \ {c}
      /\ r.fit = m.fit \ {c} /\ r.view = view /\ r.owner = passed.owner /\ r.tabOf = m.tabOf
      /\ r.attachments = freed.attachments /\ r.size = freed.size
  BY <1>4, <1>5, <1>6 DEF State, Connected
<1> HIDE DEF r
<1>8. /\ LiveTabs(r) = LiveTabs(m) /\ LiveTabs(passed) = LiveTabs(m)
      /\ Connected(passed) = Connected(m)
      /\ \A d : d # c => (canDecideSize(r, d) <=> canDecideSize(passed, d))
  BY <1>2, <1>7 DEF LiveTabs, LivePanes, canDecideSize, Alike, Connected
<1>9. Deciders(r)
  BY <1>2, <1>7, <1>8 DEF Deciders
<1>10. AttachedHere(r)
  <2> SUFFICES ASSUME NEW p \in Panes, r.attachments[p] # None
               PROVE  r.attachments[p] \in Connected(m) \ {c}
    BY <1>7 DEF AttachedHere
  <2>1. m.attachments[p] # c /\ r.attachments[p] = m.attachments[p]
    BY <1>4, <1>7
  <2> QED BY <1>0, <2>1 DEF Sound, AttachedHere
<1>11. Quiet(r)
  BY <1>0, <1>6, <1>7 DEF Sound, Quiet
<1>12. Served(r, promoted')
  <2> SUFFICES ASSUME NEW t \in LiveTabs(m), NEW d \in Connected(m), d # c, d \notin promoted,
                      passed.owner[t] = None
               PROVE  ~(view[d].tab = t /\ canDecideSize(passed, d))
    BY <1>1, <1>7, <1>8 DEF Served
  <2>1. view[d] = passed.view[d]
    BY <1>0, <1>2, <1>6, StateFields DEF Alike
  <2> QED BY <1>2, <1>8, <2>1 DEF Served
<1>13. ASSUME NEW p \in Panes, Obeys(freed, p) PROVE Obeys(r, p)
  <2> SUFFICES ASSUME Ruled(r, p) PROVE r.size[p] = RuledSize(r, p)
    BY DEF Obeys
  <2> DEFINE o == passed.owner[m.tabOf[p]]
  <2>1. m.tabOf[p] \in Tabs /\ o \in Clients
    BY <1>7, RuledFacts
  <2>2. view[o] = m.view[o]
    BY <1>2, <1>6, <2>1
  <2> HIDE DEF o
  <2>3. Ruled(freed, p) /\ RuledSize(freed, p) = RuledSize(r, p)
    BY <1>4, <1>7, <2>2 DEF Ruled, RuledSize, Shows, o
  <2> QED BY <1>7, <1>13, <2>3 DEF Obeys
<1>14. \A p \in Panes : p \notin excused \cup {} => Obeys(r, p)
  BY <1>3, <1>4, <1>13 DEF IInv
<1>15. promoted' \subseteq Clients /\ Sound(r, promoted') /\ {} \in SUBSET Panes
  BY <1>0, <1>1, <1>7, <1>9, <1>10, <1>11, <1>12 DEF Sound
<1> QED BY <1>1, <1>14, <1>15, BecomeStep

LEMMA InteractStep ==
  ASSUME IInv, NEW c \in Clients, NEW p \in Panes, CallInteract(c, p) PROVE IInv'
<1> DEFINE r == NoteInteraction(m, c, p)
<1>1. Become(r, {}) /\ promoted' = promoted /\ {} \in SUBSET Panes
  BY DEF CallInteract
<1>2. Sound(r, promoted) /\ \A q \in Panes : Obeys(m, q) => Obeys(r, q)
  BY NoteInteractionSound DEF IInv
<1> HIDE DEF r
<1>3. promoted' \subseteq Clients /\ \A q \in Panes : q \notin excused \cup {} => Obeys(r, q)
  BY <1>1, <1>2 DEF IInv
<1> QED BY <1>1, <1>2, <1>3, BecomeStep

\* A step that changes attachments or sizes keeps everything else sound.
LEMMA PaneSound ==
  ASSUME NEW s, NEW E, Sound(s, E), NEW r \in State,
         r.recent = s.recent, r.desktop = s.desktop, r.fit = s.fit, r.view = s.view,
         r.owner = s.owner, r.tabOf = s.tabOf, AttachedHere(r)
  PROVE  Sound(r, E)
BY DEF Sound, Deciders, Quiet, Served, Connected, LiveTabs, LivePanes, canDecideSize

LEMMA AttachStep ==
  ASSUME IInv, NEW c \in Clients, NEW p \in Panes, NEW n \in Sizes, NEW takeover \in BOOLEAN,
         CallAttach(c, p, n, takeover)
  PROVE  IInv'
<1> DEFINE r == [m EXCEPT !.attachments[p] = c, !.size[p] = n]
<1>0. Sound(m, promoted) /\ m \in State
  BY DEF IInv, Sound
<1>1. c \in Connected(m) /\ Become(r, {}) /\ promoted' = promoted /\ {} \in SUBSET Panes
  BY DEF CallAttach
<1>2. /\ r \in State /\ r.recent = m.recent /\ r.desktop = m.desktop /\ r.fit = m.fit
      /\ r.view = m.view /\ r.owner = m.owner /\ r.tabOf = m.tabOf
      /\ \A q \in Panes : r.attachments[q] = IF q = p THEN c ELSE m.attachments[q]
      /\ \A q \in Panes : q # p => r.size[q] = m.size[q]
  BY <1>0 DEF State
<1> HIDE DEF r
<1>3. AttachedHere(r)
  BY <1>0, <1>1, <1>2 DEF Sound, AttachedHere, Connected
<1>4. Sound(r, promoted)
  BY <1>0, <1>2, <1>3, PaneSound
<1>5. ASSUME NEW q \in Panes, Obeys(m, q) PROVE Obeys(r, q)
  <2>1. CASE q = p
    <3>1. ~Ruled(r, p)
      BY <1>2, NoneAssumption DEF Ruled
    <3> QED BY <2>1, <3>1, NotRuledObeys
  <2>2. CASE q # p
    BY <1>2, <1>5, <2>2, RuledSame
  <2> QED BY <2>1, <2>2
<1>6. promoted' \subseteq Clients /\ \A q \in Panes : q \notin excused \cup {} => Obeys(r, q)
  BY <1>1, <1>5 DEF IInv
<1> QED BY <1>1, <1>4, <1>6, BecomeStep

LEMMA ResizeAttachedStep ==
  ASSUME IInv, NEW c \in Clients, NEW p \in Panes, NEW n \in Sizes, CallResizeAttached(c, p, n)
  PROVE  IInv'
<1> DEFINE r == [m EXCEPT !.size[p] = n]
<1>0. Sound(m, promoted) /\ m \in State
  BY DEF IInv, Sound
<1>1. m.attachments[p] = c /\ Become(r, {}) /\ promoted' = promoted /\ {} \in SUBSET Panes
  BY DEF CallResizeAttached
<1>2. /\ r \in State /\ r.recent = m.recent /\ r.desktop = m.desktop /\ r.fit = m.fit
      /\ r.view = m.view /\ r.owner = m.owner /\ r.tabOf = m.tabOf
      /\ r.attachments = m.attachments
      /\ \A q \in Panes : q # p => r.size[q] = m.size[q]
  BY <1>0 DEF State
<1> HIDE DEF r
<1>3. AttachedHere(r)
  BY <1>0, <1>2 DEF Sound, AttachedHere, Connected
<1>4. Sound(r, promoted)
  BY <1>0, <1>2, <1>3, PaneSound
<1>5. ASSUME NEW q \in Panes, Obeys(m, q) PROVE Obeys(r, q)
  <2>1. CASE q = p
    <3>1. ~Ruled(r, p)
      BY <1>1, <1>2, NoneAssumption DEF Ruled
    <3> QED BY <2>1, <3>1, NotRuledObeys
  <2>2. CASE q # p
    BY <1>2, <1>5, <2>2, RuledSame
  <2> QED BY <2>1, <2>2
<1>6. promoted' \subseteq Clients /\ \A q \in Panes : q \notin excused \cup {} => Obeys(r, q)
  BY <1>1, <1>5 DEF IInv
<1> QED BY <1>1, <1>4, <1>6, BecomeStep

LEMMA DetachStep ==
  ASSUME IInv, NEW c \in Clients, NEW p \in Panes, CallDetach(c, p) PROVE IInv'
<1> DEFINE r == ReleaseAttachments(m, {p})
<1>0. Sound(m, promoted) /\ m \in State /\ {p} \in SUBSET Panes
  BY DEF IInv, Sound
<1>1. Become(r, {}) /\ promoted' = promoted /\ {} \in SUBSET Panes
  BY DEF CallDetach
<1>2. /\ r \in State /\ r.recent = m.recent /\ r.desktop = m.desktop /\ r.fit = m.fit
      /\ r.view = m.view /\ r.owner = m.owner /\ r.tabOf = m.tabOf
      /\ \A q \in Panes : r.attachments[q] = IF q \in {p} THEN None ELSE m.attachments[q]
      /\ \A q \in Panes : Obeys(m, q) => Obeys(r, q)
  BY <1>0, ReleaseProperties
<1> HIDE DEF r
<1>3. AttachedHere(r)
  BY <1>0, <1>2 DEF Sound, AttachedHere, Connected
<1>4. Sound(r, promoted)
  BY <1>0, <1>2, <1>3, PaneSound
<1>5. promoted' \subseteq Clients /\ \A q \in Panes : q \notin excused \cup {} => Obeys(r, q)
  BY <1>1, <1>2 DEF IInv
<1> QED BY <1>1, <1>4, <1>5, BecomeStep

\* A pane opens, goes or changes tab: nobody shows a tab that is new.
LEMMA TabSound ==
  ASSUME NEW s, NEW E, Sound(s, E), NEW r \in State, NEW p \in Panes, NEW t \in Tabs \cup {None},
         t \in LiveTabs(s) \/ t = None \/ FreshTab(t), s = m,
         r.recent = s.recent, r.desktop = s.desktop, r.fit = s.fit, r.view = s.view,
         r.owner = s.owner, r.attachments = s.attachments,
         \A q \in Panes : r.tabOf[q] = IF q = p THEN t ELSE s.tabOf[q],
         \A q \in Panes : q # p => r.size[q] = s.size[q]
  PROVE  /\ Sound(r, E)
         /\ \A q \in Panes : q # p => (Obeys(s, q) => Obeys(r, q))
<1>1. /\ Connected(r) = Connected(s) /\ \A d : canDecideSize(r, d) <=> canDecideSize(s, d)
  BY DEF Connected, canDecideSize
<1>2. \A u \in LiveTabs(r) : u \in LiveTabs(s) \/ (u = t /\ t # None)
  <2> TAKE u \in LiveTabs(r)
  <2>1. PICK q \in Panes : r.tabOf[q] = u /\ r.tabOf[q] # None
    BY DEF LiveTabs, LivePanes
  <2>2. CASE q = p
    BY <2>1, <2>2
  <2>3. CASE q # p
    BY <2>1, <2>3 DEF LiveTabs, LivePanes
  <2> QED BY <2>2, <2>3
<1>3. Deciders(r) /\ AttachedHere(r) /\ Quiet(r)
  BY <1>1 DEF Sound, Deciders, AttachedHere, Quiet
<1>4. Served(r, E)
  <2> SUFFICES ASSUME NEW u \in LiveTabs(r), NEW d \in Connected(s) \ E, s.owner[u] = None
               PROVE  ~(s.view[d].tab = u /\ canDecideSize(s, d))
    BY <1>1 DEF Served
  <2>1. CASE u \in LiveTabs(s)
    BY <2>1 DEF Sound, Served
  <2>2. CASE u \notin LiveTabs(s)
    <3>1. FreshTab(u)
      BY <1>2, <2>2
    <3>2. d \in Clients
      BY StateFields DEF Sound
    <3> QED BY <3>1, <3>2 DEF FreshTab
  <2> QED BY <2>1, <2>2
<1>5. \A q \in Panes : q # p => (Obeys(s, q) => Obeys(r, q))
  BY RuledSame
<1> QED BY <1>3, <1>4, <1>5 DEF Sound

LEMMA WithoutOwnersSound ==
  ASSUME NEW s, NEW E, Sound(s, E)
  PROVE  /\ Sound(WithoutOwners(s), E)
         /\ \A p \in Panes : Obeys(s, p) => Obeys(WithoutOwners(s), p)
<1> DEFINE owner == [t \in Tabs |-> IF t \in LiveTabs(s) THEN s.owner[t] ELSE None]
           r == [s EXCEPT !.owner = owner]
<1>1. /\ owner \in [Tabs -> Clients \cup {None}]
      /\ \A t \in Tabs : owner[t] = IF t \in LiveTabs(s) THEN s.owner[t] ELSE None
  BY StateFields DEF Sound
<1>2. WithoutOwners(s) = r
  BY DEF WithoutOwners
<1> HIDE DEF owner
<1>3. r \in State /\ Alike(s, r) /\ r.owner = owner /\ r.size = s.size
  BY <1>1 DEF State, Alike, Sound
<1> HIDE DEF r
<1>4. Deciders(r) /\ AttachedHere(r) /\ Quiet(r)
  BY <1>1, <1>3, AlikeSame DEF Sound, Deciders, AttachedHere, Quiet, Alike
<1>5. Served(r, E)
  <2> SUFFICES ASSUME NEW t \in LiveTabs(s), NEW d \in Connected(s) \ E, r.owner[t] = None
               PROVE  ~(s.view[d].tab = t /\ canDecideSize(s, d))
    BY <1>3, AlikeSame DEF Served, Alike
  <2>1. t \in Tabs
    BY LiveTabsType DEF Sound
  <2>2. s.owner[t] = None
    BY <1>1, <1>3, <2>1
  <2> QED BY <2>2 DEF Sound, Served
<1>6. ASSUME NEW p \in Panes, Obeys(s, p) PROVE Obeys(r, p)
  <2>1. s.tabOf[p] # None => s.tabOf[p] \in LiveTabs(s) /\ s.tabOf[p] \in Tabs
    BY StateFields DEF LiveTabs, LivePanes, Sound
  <2>2. s.tabOf[p] # None => r.owner[s.tabOf[p]] = s.owner[s.tabOf[p]]
    BY <1>1, <1>3, <2>1
  <2> QED BY <1>3, <1>6, <2>2, RuledSame DEF Alike
<1> QED BY <1>2, <1>3, <1>4, <1>5, <1>6 DEF Sound

LEMMA OpenStep ==
  ASSUME IInv, NEW c \in Clients, NEW p \in Panes, NEW t \in Tabs, CallOpen(c, p, t) PROVE IInv'
<1> DEFINE opened == [m EXCEPT !.tabOf[p] = t, !.size[p] = 0]
           r == NoteInteraction(opened, c, p)
<1>0. Sound(m, promoted) /\ m \in State
  BY DEF IInv, Sound
<1>1. /\ t \in LiveTabs(m) \/ FreshTab(t)
      /\ Become(r, {p}) /\ promoted' = promoted /\ {p} \in SUBSET Panes
  BY DEF CallOpen
<1>2. /\ opened \in State /\ opened.recent = m.recent /\ opened.desktop = m.desktop
      /\ opened.fit = m.fit /\ opened.view = m.view /\ opened.owner = m.owner
      /\ opened.attachments = m.attachments
      /\ \A q \in Panes : opened.tabOf[q] = IF q = p THEN t ELSE m.tabOf[q]
      /\ \A q \in Panes : q # p => opened.size[q] = m.size[q]
  BY <1>0 DEF State
<1> HIDE DEF opened
<1>3. Sound(opened, promoted) /\ \A q \in Panes : q # p => (Obeys(m, q) => Obeys(opened, q))
  BY <1>0, <1>1, <1>2, TabSound
<1>4. Sound(r, promoted) /\ \A q \in Panes : Obeys(opened, q) => Obeys(r, q)
  BY <1>3, NoteInteractionSound
<1> HIDE DEF r
<1>5. promoted' \subseteq Clients /\ \A q \in Panes : q \notin excused \cup {p} => Obeys(r, q)
  BY <1>1, <1>3, <1>4 DEF IInv
<1> QED BY <1>1, <1>4, <1>5, BecomeStep

LEMMA MoveStep ==
  ASSUME IInv, NEW c \in Clients, NEW p \in Panes, NEW t \in Tabs, CallMove(c, p, t) PROVE IInv'
<1> DEFINE moved == [m EXCEPT !.tabOf[p] = t]
           swept == WithoutOwners(moved)
           r == NoteInteraction(swept, c, p)
<1>0. Sound(m, promoted) /\ m \in State
  BY DEF IInv, Sound
<1>1. /\ t \in LiveTabs(m) \/ FreshTab(t)
      /\ Become(r, {p}) /\ promoted' = promoted /\ {p} \in SUBSET Panes
  BY DEF CallMove
<1>2. /\ moved \in State /\ moved.recent = m.recent /\ moved.desktop = m.desktop
      /\ moved.fit = m.fit /\ moved.view = m.view /\ moved.owner = m.owner
      /\ moved.attachments = m.attachments
      /\ \A q \in Panes : moved.tabOf[q] = IF q = p THEN t ELSE m.tabOf[q]
      /\ \A q \in Panes : q # p => moved.size[q] = m.size[q]
  BY <1>0 DEF State
<1> HIDE DEF moved
<1>3. Sound(moved, promoted) /\ \A q \in Panes : q # p => (Obeys(m, q) => Obeys(moved, q))
  BY <1>0, <1>1, <1>2, TabSound
<1>4. Sound(swept, promoted) /\ \A q \in Panes : Obeys(moved, q) => Obeys(swept, q)
  BY <1>3, WithoutOwnersSound
<1> HIDE DEF swept
<1>5. Sound(r, promoted) /\ \A q \in Panes : Obeys(swept, q) => Obeys(r, q)
  BY <1>4, NoteInteractionSound
<1> HIDE DEF r
<1>6. promoted' \subseteq Clients /\ \A q \in Panes : q \notin excused \cup {p} => Obeys(r, q)
  BY <1>1, <1>3, <1>4, <1>5 DEF IInv
<1> QED BY <1>1, <1>5, <1>6, BecomeStep

LEMMA PaneClosesStep == ASSUME IInv, NEW p \in Panes, PaneCloses(p) PROVE IInv'
<1> DEFINE closed == [m EXCEPT !.tabOf[p] = None]
           r == WithoutOwners(closed)
<1>0. Sound(m, promoted) /\ m \in State
  BY DEF IInv, Sound
<1>1. Become(r, {}) /\ promoted' = promoted /\ {} \in SUBSET Panes
  BY DEF PaneCloses
<1>2. /\ closed \in State /\ closed.recent = m.recent /\ closed.desktop = m.desktop
      /\ closed.fit = m.fit /\ closed.view = m.view /\ closed.owner = m.owner
      /\ closed.attachments = m.attachments
      /\ \A q \in Panes : closed.tabOf[q] = IF q = p THEN None ELSE m.tabOf[q]
      /\ \A q \in Panes : q # p => closed.size[q] = m.size[q]
  BY <1>0 DEF State
<1> HIDE DEF closed
<1>3. Sound(closed, promoted) /\ \A q \in Panes : q # p => (Obeys(m, q) => Obeys(closed, q))
  BY <1>0, <1>2, TabSound
<1>4. Obeys(closed, p)
  BY <1>2 DEF Obeys, Ruled
<1>5. Sound(r, promoted) /\ \A q \in Panes : Obeys(closed, q) => Obeys(r, q)
  BY <1>3, WithoutOwnersSound
<1> HIDE DEF r
<1>6. promoted' \subseteq Clients /\ \A q \in Panes : q \notin excused \cup {} => Obeys(r, q)
  BY <1>1, <1>3, <1>4, <1>5 DEF IInv
<1> QED BY <1>1, <1>5, <1>6, BecomeStep

LEMMA NextInv == IInv /\ [Next]_vars => IInv'
<1> SUFFICES ASSUME IInv, [Next]_vars PROVE IInv'
  OBVIOUS
<1>1. CASE UNCHANGED vars
  <2>1. m' = m /\ calls' = calls /\ excused' = excused /\ promoted' = promoted
    BY <1>1 DEF vars
  <2> QED BY <2>1 DEF IInv
<1>2. CASE Next
  BY <1>2, ConnectStep, HelloStep, ViewStep, FitStep, GoneStep, InteractStep, AttachStep,
     ResizeAttachedStep, DetachStep, OpenStep, MoveStep, PaneClosesStep DEF Next
<1> QED BY <1>1, <1>2

-----------------------------------------------------------------------------
\* The inductive invariant of the size authority (SizeAuthority.ts).
THEOREM Invariance == Spec => []IInv
BY InitInv, NextInv, PTL DEF Spec

\* The registry, the owners and the attachments keep their types; nobody is in the
\* registry twice.
THEOREM TypeCorrect == Spec => []TypeOK
<1>1. IInv => TypeOK
  BY StateFields DEF IInv, Sound, TypeOK, Distinct
<1> QED BY <1>1, Invariance, PTL

\* Owners and attached clients are connected, and owners may decide, for any number
\* of clients and any order of their calls (SizeAuthority.ts:118-134, 175-204).
THEOREM DecidersQualify == Spec => []OwnersMayDecide
<1>1. IInv => OwnersMayDecide
  BY DEF IInv, Sound, OwnersMayDecide, Deciders, AttachedHere
<1> QED BY <1>1, Invariance, PTL

\* A pane that nobody is attached to has the size of its owner's view
\* (SizeAuthority.ts:166-172, 181-186, 195-214).
THEOREM OwnersRule == Spec => []SizesFollowOwner
<1>1. IInv => SizesFollowOwner
  BY DEF IInv, SizesFollowOwner
<1> QED BY <1>1, Invariance, PTL

\* A tab has no owner only if nobody who may decide shows it (SizeAuthority.ts:81-98,
\* 195-204).
THEOREM NobodyWaits == Spec => []NobodyPassedOver
<1>1. IInv => NobodyPassedOver
  BY DEF IInv, Sound, Served, NobodyPassedOver
<1> QED BY <1>1, Invariance, PTL

=============================================================================
