------------------------- MODULE SessionState_proofs -------------------------
(***************************************************************************)
(* Each operation of SessionState leaves a consistent model consistent.    *)
(* The operations that work in two steps (a pane leaves a tab that closes, *)
(* a tab leaves a workspace that closes) pass through models that are not; *)
(* the predicates OkBut... say what such a model still has.  And which ids *)
(* an operation puts into the maps.                                        *)
(***************************************************************************)
EXTENDS SessionState, SequenceTheorems, TLAPS

-----------------------------------------------------------------------------
(* What the list operations of IdList return, for lists of distinct ids:   *)
(* a list of distinct ids again, with exactly the ids it should have.      *)

\* A list without repetitions over S.
Distinct(S) == {s \in Seq(S) : IsInjective(s)}

\* An element of a list is where Pos says.
LEMMA PosProperties ==
  ASSUME NEW S, NEW s \in Seq(S), NEW x \in Range(s)
  PROVE  Pos(s, x) \in 1 .. Len(s) /\ s[Pos(s, x)] = x
<1>1. \E i \in DOMAIN s : s[i] = x
  BY DEF Range
<1>2. DOMAIN s = 1 .. Len(s)
  BY LenProperties
<1> QED BY <1>1, <1>2 DEF Pos

\* The list after an insertion, place by place.
LEMMA InsertAtProperties ==
  ASSUME NEW S, NEW s \in Seq(S), NEW i \in 1 .. Len(s) + 1, NEW e \in S
  PROVE  /\ InsertAt(s, i, e) \in Seq(S)
         /\ Len(InsertAt(s, i, e)) = Len(s) + 1
         /\ \A j \in 1 .. Len(s) + 1 :
              InsertAt(s, i, e)[j] = IF j < i THEN s[j] ELSE IF j = i THEN e ELSE s[j - 1]
<1> DEFINE front == SubSeq(s, 1, i - 1)
           back == SubSeq(s, i, Len(s))
           begin == front \o <<e>>
<1>1. Len(s) \in Nat /\ \A j \in 1 .. Len(s) : s[j] \in S
  BY LenProperties
<1>2. /\ front \in Seq(S)
      /\ Len(front) = i - 1
      /\ \A j \in 1 .. i - 1 : front[j] = s[j]
  BY <1>1, SubSeqProperties
<1>3. /\ back \in Seq(S)
      /\ Len(back) = Len(s) - i + 1
      /\ \A j \in 1 .. Len(s) - i + 1 : back[j] = s[i + j - 1]
  BY <1>1, SubSeqProperties
<1>4. <<e>> \in Seq(S) /\ Len(<<e>>) = 1 /\ <<e>>[1] = e
  OBVIOUS
<1> HIDE DEF front, back
<1>5. /\ begin \in Seq(S)
      /\ Len(begin) = i
      /\ \A j \in 1 .. i : begin[j] = IF j < i THEN s[j] ELSE e
  BY <1>2, <1>4, ConcatProperties
<1> HIDE DEF begin
<1>6. /\ begin \o back \in Seq(S)
      /\ Len(begin \o back) = Len(s) + 1
      /\ \A j \in 1 .. Len(s) + 1 :
           (begin \o back)[j] = IF j <= i THEN begin[j] ELSE back[j - i]
  <2>1. begin \in Seq(S) /\ back \in Seq(S)
    BY <1>3, <1>5
  <2>2. /\ begin \o back \in Seq(S)
        /\ Len(begin \o back) = Len(begin) + Len(back)
        /\ \A j \in 1 .. Len(begin) + Len(back) :
             (begin \o back)[j] = IF j <= Len(begin) THEN begin[j] ELSE back[j - Len(begin)]
    BY <2>1, ConcatProperties
  <2>3. Len(begin) = i /\ Len(begin) + Len(back) = Len(s) + 1
    BY <1>1, <1>3, <1>5
  <2> QED BY <2>2, <2>3
<1>7. \A j \in 1 .. Len(s) + 1 : j > i => back[j - i] = s[j - 1]
  BY <1>1, <1>3
<1>8. InsertAt(s, i, e) = begin \o back
  BY DEF InsertAt, begin, front, back
<1> QED BY <1>5, <1>6, <1>7, <1>8

\* The list after a removal, place by place.
LEMMA RemoveAtProperties ==
  ASSUME NEW S, NEW s \in Seq(S), NEW i \in 1 .. Len(s)
  PROVE  /\ RemoveAt(s, i) \in Seq(S)
         /\ Len(RemoveAt(s, i)) = Len(s) - 1
         /\ \A j \in 1 .. Len(s) - 1 : RemoveAt(s, i)[j] = IF j < i THEN s[j] ELSE s[j + 1]
<1> DEFINE front == SubSeq(s, 1, i - 1)
           back == SubSeq(s, i + 1, Len(s))
<1>1. Len(s) \in Nat /\ \A j \in 1 .. Len(s) : s[j] \in S
  BY LenProperties
<1>2. /\ front \in Seq(S)
      /\ Len(front) = i - 1
      /\ \A j \in 1 .. i - 1 : front[j] = s[j]
  BY <1>1, SubSeqProperties
<1>3. /\ back \in Seq(S)
      /\ Len(back) = Len(s) - i
      /\ \A j \in 1 .. Len(s) - i : back[j] = s[i + j]
  BY <1>1, SubSeqProperties
<1> HIDE DEF front, back
<1>4. /\ front \o back \in Seq(S)
      /\ Len(front \o back) = Len(s) - 1
      /\ \A j \in 1 .. Len(s) - 1 :
           (front \o back)[j] = IF j <= i - 1 THEN front[j] ELSE back[j - (i - 1)]
  <2>1. front \in Seq(S) /\ back \in Seq(S)
    BY <1>2, <1>3
  <2>2. /\ front \o back \in Seq(S)
        /\ Len(front \o back) = Len(front) + Len(back)
        /\ \A j \in 1 .. Len(front) + Len(back) :
             (front \o back)[j] = IF j <= Len(front) THEN front[j] ELSE back[j - Len(front)]
    BY <2>1, ConcatProperties
  <2>3. Len(front) = i - 1 /\ Len(front) + Len(back) = Len(s) - 1
    BY <1>1, <1>2, <1>3
  <2> QED BY <2>2, <2>3
<1>5. \A j \in 1 .. Len(s) - 1 : j > i - 1 => back[j - (i - 1)] = s[j + 1]
  BY <1>1, <1>3
<1>6. RemoveAt(s, i) = front \o back
  BY DEF RemoveAt, front, back
<1> QED BY <1>1, <1>2, <1>4, <1>5, <1>6

\* Inserting an id that is not in the list adds just that id.
LEMMA InsertAtDistinct ==
  ASSUME NEW S, NEW s \in Distinct(S), NEW i \in 1 .. Len(s) + 1,
         NEW e \in S, e \notin Range(s)
  PROVE  /\ InsertAt(s, i, e) \in Distinct(S)
         /\ Range(InsertAt(s, i, e)) = Range(s) \cup {e}
<1> DEFINE r == InsertAt(s, i, e)
<1>1. s \in Seq(S) /\ Len(s) \in Nat /\ DOMAIN s = 1 .. Len(s)
  BY LenProperties DEF Distinct
<1>2. /\ r \in Seq(S)
      /\ Len(r) = Len(s) + 1
      /\ \A j \in 1 .. Len(s) + 1 : r[j] = IF j < i THEN s[j] ELSE IF j = i THEN e ELSE s[j - 1]
  <2>1. s \in Seq(S)
    BY <1>1
  <2>2. InsertAt(s, i, e) \in Seq(S)
    BY <2>1, InsertAtProperties
  <2>3. Len(InsertAt(s, i, e)) = Len(s) + 1
    BY <2>1, InsertAtProperties
  <2>4. ASSUME NEW j \in 1 .. Len(s) + 1
        PROVE  InsertAt(s, i, e)[j] = IF j < i THEN s[j] ELSE IF j = i THEN e ELSE s[j - 1]
    BY <2>1, InsertAtProperties
  <2> QED BY <2>2, <2>3, <2>4
<1>3. DOMAIN r = 1 .. Len(s) + 1
  BY <1>2, LenProperties
<1> HIDE DEF r
<1>4. \A a, b \in 1 .. Len(s) : s[a] = s[b] => a = b
  BY <1>1 DEF Distinct, IsInjective
<1>5. \A a \in 1 .. Len(s) : s[a] # e
  BY <1>1 DEF Range
<1>6. IsInjective(r)
  <2> SUFFICES ASSUME NEW a \in 1 .. Len(s) + 1, NEW b \in 1 .. Len(s) + 1, r[a] = r[b]
               PROVE  a = b
    BY <1>3 DEF IsInjective
  <2>1. CASE a = i
    BY <2>1, <1>1, <1>2, <1>5
  <2>2. CASE b = i
    BY <2>2, <1>1, <1>2, <1>5
  <2>3. CASE a # i /\ b # i
    BY <2>3, <1>1, <1>2, <1>4
  <2> QED BY <2>1, <2>2, <2>3
<1>7. Range(r) \subseteq Range(s) \cup {e}
  BY <1>1, <1>2, <1>3 DEF Range
<1>8. e \in Range(r)
  BY <1>1, <1>2, <1>3 DEF Range
<1>9. Range(s) \subseteq Range(r)
  <2> SUFFICES ASSUME NEW a \in 1 .. Len(s)
               PROVE  s[a] \in Range(r)
    BY <1>1 DEF Range
  <2>1. CASE a < i
    BY <2>1, <1>1, <1>2, <1>3 DEF Range
  <2>2. CASE ~(a < i)
    <3>1. a + 1 \in 1 .. Len(s) + 1 /\ r[a + 1] = s[a]
      BY <2>2, <1>1, <1>2
    <3> QED BY <3>1, <1>3 DEF Range
  <2> QED BY <2>1, <2>2
<1> QED BY <1>2, <1>6, <1>7, <1>8, <1>9 DEF r, Distinct

\* Removing a place removes just the id that was there.
LEMMA RemoveAtDistinct ==
  ASSUME NEW S, NEW s \in Distinct(S), NEW i \in 1 .. Len(s)
  PROVE  /\ RemoveAt(s, i) \in Distinct(S)
         /\ Range(RemoveAt(s, i)) = Range(s) \ {s[i]}
         /\ Len(RemoveAt(s, i)) = Len(s) - 1
<1> DEFINE r == RemoveAt(s, i)
<1>1. s \in Seq(S) /\ Len(s) \in Nat /\ DOMAIN s = 1 .. Len(s)
  BY LenProperties DEF Distinct
<1>2. /\ r \in Seq(S)
      /\ Len(r) = Len(s) - 1
      /\ \A j \in 1 .. Len(s) - 1 : r[j] = IF j < i THEN s[j] ELSE s[j + 1]
  BY <1>1, RemoveAtProperties
<1>3. DOMAIN r = 1 .. Len(s) - 1
  BY <1>2, LenProperties
<1> HIDE DEF r
<1>4. \A a, b \in 1 .. Len(s) : s[a] = s[b] => a = b
  BY <1>1 DEF Distinct, IsInjective
<1>5. IsInjective(r)
  <2> SUFFICES ASSUME NEW a \in 1 .. Len(s) - 1, NEW b \in 1 .. Len(s) - 1, r[a] = r[b]
               PROVE  a = b
    BY <1>3 DEF IsInjective
  <2> QED BY <1>1, <1>2, <1>4
<1>6. Range(r) \subseteq Range(s) \ {s[i]}
  <2> SUFFICES ASSUME NEW a \in 1 .. Len(s) - 1
               PROVE  r[a] \in Range(s) \ {s[i]}
    BY <1>3 DEF Range
  <2>1. CASE a < i
    BY <2>1, <1>1, <1>2, <1>4 DEF Range
  <2>2. CASE ~(a < i)
    <3>1. a + 1 \in 1 .. Len(s) /\ a + 1 # i /\ r[a] = s[a + 1]
      BY <2>2, <1>1, <1>2
    <3> QED BY <3>1, <1>1, <1>4 DEF Range
  <2> QED BY <2>1, <2>2
<1>7. Range(s) \ {s[i]} \subseteq Range(r)
  <2> SUFFICES ASSUME NEW a \in 1 .. Len(s), a # i
               PROVE  s[a] \in Range(r)
    BY <1>1 DEF Range
  <2>1. CASE a < i
    BY <2>1, <1>1, <1>2, <1>3 DEF Range
  <2>2. CASE a > i
    <3>1. a - 1 \in 1 .. Len(s) - 1 /\ r[a - 1] = s[a]
      BY <2>2, <1>1, <1>2
    <3> QED BY <3>1, <1>3 DEF Range
  <2> QED BY <2>1, <2>2, <1>1
<1> QED BY <1>2, <1>5, <1>6, <1>7 DEF r, Distinct

\* A list is empty just when it has no ids, and its head is one of them.
LEMMA HeadInRange ==
  ASSUME NEW S, NEW s \in Seq(S)
  PROVE  /\ s = <<>> <=> Range(s) = {}
         /\ s # <<>> => Head(s) \in Range(s)
         /\ Range(s) \subseteq S
<1>1. Len(s) \in Nat /\ DOMAIN s = 1 .. Len(s) /\ \A j \in 1 .. Len(s) : s[j] \in S
  BY LenProperties
<1>2. s = <<>> => Range(s) = {}
  BY <1>1 DEF Range
<1>3. s # <<>> => Head(s) = s[1] /\ 1 \in DOMAIN s
  BY <1>1, EmptySeq
<1> QED BY <1>1, <1>2, <1>3 DEF Range

\* Without takes out one id.
LEMMA WithoutDistinct ==
  ASSUME NEW S, NEW s \in Distinct(S), NEW x
  PROVE  /\ Without(s, x) \in Distinct(S)
         /\ Range(Without(s, x)) = Range(s) \ {x}
<1>1. CASE x \in Range(s)
  <2>1. Pos(s, x) \in 1 .. Len(s) /\ s[Pos(s, x)] = x
    BY <1>1, PosProperties DEF Distinct
  <2> QED BY <1>1, <2>1, RemoveAtDistinct DEF Without
<1>2. CASE x \notin Range(s)
  BY <1>2 DEF Without
<1> QED BY <1>1, <1>2

\* Inserting a new id beside one that is there, or at the end.
LEMMA InsertDistinct ==
  ASSUME NEW S, NEW s \in Distinct(S), NEW x \in Range(s), NEW y \in S, y \notin Range(s)
  PROVE  /\ InsertAfter(s, x, y) \in Distinct(S)
         /\ Range(InsertAfter(s, x, y)) = Range(s) \cup {y}
         /\ InsertBefore(s, x, y) \in Distinct(S)
         /\ Range(InsertBefore(s, x, y)) = Range(s) \cup {y}
<1>1. Pos(s, x) \in 1 .. Len(s) /\ Len(s) \in Nat
  BY PosProperties, LenProperties DEF Distinct
<1>2. Pos(s, x) + 1 \in 1 .. Len(s) + 1 /\ Pos(s, x) \in 1 .. Len(s) + 1
  BY <1>1
<1> QED BY <1>2, InsertAtDistinct DEF InsertAfter, InsertBefore

\* A new id at the end of the list.
LEMMA AppendDistinct ==
  ASSUME NEW S, NEW s \in Distinct(S), NEW y \in S, y \notin Range(s)
  PROVE  /\ Append(s, y) \in Distinct(S)
         /\ Range(Append(s, y)) = Range(s) \cup {y}
<1> DEFINE r == Append(s, y)
<1>1. s \in Seq(S) /\ Len(s) \in Nat /\ DOMAIN s = 1 .. Len(s)
  BY LenProperties DEF Distinct
<1>2. /\ r \in Seq(S)
      /\ Len(r) = Len(s) + 1
      /\ \A j \in 1 .. Len(s) : r[j] = s[j]
      /\ r[Len(s) + 1] = y
  BY <1>1, AppendProperties
<1>3. DOMAIN r = 1 .. Len(s) + 1
  BY <1>2, LenProperties
<1> HIDE DEF r
<1>4. \A a, b \in 1 .. Len(s) : s[a] = s[b] => a = b
  BY <1>1 DEF Distinct, IsInjective
<1>5. \A a \in 1 .. Len(s) : s[a] # y
  BY <1>1 DEF Range
<1>6. IsInjective(r)
  <2> SUFFICES ASSUME NEW a \in 1 .. Len(s) + 1, NEW b \in 1 .. Len(s) + 1, r[a] = r[b]
               PROVE  a = b
    BY <1>3 DEF IsInjective
  <2>1. a \in 1 .. Len(s) \/ a = Len(s) + 1
    BY <1>1
  <2>2. b \in 1 .. Len(s) \/ b = Len(s) + 1
    BY <1>1
  <2> QED BY <2>1, <2>2, <1>2, <1>4, <1>5
<1>7. Range(r) \subseteq Range(s) \cup {y}
  <2> SUFFICES ASSUME NEW a \in 1 .. Len(s) + 1
               PROVE  r[a] \in Range(s) \cup {y}
    BY <1>3 DEF Range
  <2>1. a \in 1 .. Len(s) \/ a = Len(s) + 1
    BY <1>1
  <2> QED BY <2>1, <1>1, <1>2 DEF Range
<1>8. Range(s) \cup {y} \subseteq Range(r)
  BY <1>1, <1>2, <1>3 DEF Range
<1> QED BY <1>2, <1>6, <1>7, <1>8 DEF r, Distinct

\* A list of one id.
LEMMA SingletonDistinct ==
  ASSUME NEW S, NEW y \in S
  PROVE  <<y>> \in Distinct(S) /\ Range(<<y>>) = {y} /\ <<y>> # <<>>
BY DEF Distinct, IsInjective, Range

\* Exchanging two ids of the list keeps the ids.
LEMMA ExchangeDistinct ==
  ASSUME NEW S, NEW s \in Distinct(S), NEW x \in Range(s), NEW y \in Range(s)
  PROVE  /\ Exchange(s, x, y) \in Distinct(S)
         /\ Range(Exchange(s, x, y)) = Range(s)
<1> DEFINE r == Exchange(s, x, y)
<1>1. s \in Seq(S) /\ Len(s) \in Nat /\ DOMAIN s = 1 .. Len(s) /\ \A i \in 1 .. Len(s) : s[i] \in S
  BY LenProperties DEF Distinct
<1>2. x \in S /\ y \in S
  BY <1>1 DEF Range
<1>3. r = [i \in 1 .. Len(s) |-> IF s[i] = x THEN y ELSE IF s[i] = y THEN x ELSE s[i]]
  BY <1>1 DEF Exchange
<1> HIDE DEF r
<1>4. DOMAIN r = 1 .. Len(s)
  BY <1>3
<1>5. r \in Seq(S)
  <2>1. \A i \in 1 .. Len(s) : r[i] \in S
    BY <1>1, <1>2, <1>3
  <2>2. r \in [1 .. Len(s) -> S]
    BY <1>3, <2>1
  <2> QED BY <1>1, <2>2
<1>6. \A a, b \in 1 .. Len(s) : s[a] = s[b] => a = b
  BY <1>1 DEF Distinct, IsInjective
<1>7. IsInjective(r)
  <2> SUFFICES ASSUME NEW a \in 1 .. Len(s), NEW b \in 1 .. Len(s), r[a] = r[b]
               PROVE  a = b
    BY <1>4 DEF IsInjective
  <2>1. s[a] = s[b]
    BY <1>3
  <2> QED BY <1>6, <2>1
<1>8. PICK i \in 1 .. Len(s) : s[i] = x
  BY <1>1 DEF Range
<1>9. PICK j \in 1 .. Len(s) : s[j] = y
  BY <1>1 DEF Range
<1>10. Range(r) \subseteq Range(s)
  BY <1>1, <1>3, <1>4, <1>8, <1>9 DEF Range
<1>11. Range(s) \subseteq Range(r)
  <2> SUFFICES ASSUME NEW a \in 1 .. Len(s)
               PROVE  s[a] \in Range(r)
    BY <1>1 DEF Range
  <2>1. r[i] = y /\ r[j] = x
    BY <1>3, <1>8, <1>9
  <2>2. s[a] # x /\ s[a] # y => r[a] = s[a]
    BY <1>3
  <2> QED BY <1>4, <2>1, <2>2 DEF Range
<1> QED BY <1>5, <1>7, <1>10, <1>11 DEF r, Distinct

\* Moving one place on or back keeps the ids.
LEMMA MoveOneDistinct ==
  ASSUME NEW S, NEW s \in Distinct(S), NEW x \in Range(s), Len(s) > 1,
         NEW direction \in {"previous", "next"}
  PROVE  /\ MoveOne(s, x, direction) \in Distinct(S)
         /\ Range(MoveOne(s, x, direction)) = Range(s)
<1> DEFINE k == Pos(s, x)
           last == Len(s)
           target == CASE direction = "next" /\ k = last -> 1
                       [] direction = "next" /\ k # last -> k + 1
                       [] direction = "previous" /\ k = 1 -> last
                       [] direction = "previous" /\ k # 1 -> k - 1
           rest == RemoveAt(s, k)
<1>1. s \in Seq(S) /\ Len(s) \in Nat
  BY LenProperties DEF Distinct
<1>2. k \in 1 .. Len(s) /\ s[k] = x
  BY <1>1, PosProperties
<1>3. x \in S
  BY <1>1, RangeOfSeq
<1>4. /\ rest \in Distinct(S)
      /\ Range(rest) = Range(s) \ {x}
      /\ Len(rest) = Len(s) - 1
  BY <1>2, RemoveAtDistinct
<1>5. target \in 1 .. Len(s)
  BY <1>1, <1>2
<1> HIDE DEF rest, target, k
<1>6. MoveOne(s, x, direction) = InsertAt(rest, target, x)
  BY DEF MoveOne, rest, target, k, last
<1>7. target \in 1 .. Len(rest) + 1 /\ x \notin Range(rest)
  BY <1>1, <1>4, <1>5
<1>8. InsertAt(rest, target, x) \in Distinct(S) /\ Range(InsertAt(rest, target, x)) = Range(rest) \cup {x}
  BY <1>3, <1>4, <1>7, InsertAtDistinct
<1> QED BY <1>4, <1>6, <1>8

\* Moving a block of ids keeps the ids.
LEMMA RearrangementsDistinct ==
  ASSUME NEW S, NEW s \in Distinct(S), NEW r \in Rearrangements(s)
  PROVE  r \in Distinct(S) /\ Range(r) = Range(s)
<1>1. s \in Seq(S) /\ Len(s) \in Nat /\ DOMAIN s = 1 .. Len(s) /\ Range(s) \subseteq S
  BY LenProperties, RangeOfSeq DEF Distinct
<1>2. r \in [1 .. Len(s) -> S] /\ IsInjective(r) /\ Range(r) = Range(s)
  BY <1>1 DEF Rearrangements
<1>3. r \in Seq(S)
  BY <1>1, <1>2
<1> QED BY <1>2, <1>3 DEF Distinct

-----------------------------------------------------------------------------
(* The states of the session.                                              *)

Ok(m) == m \in Model /\ Consistent(m)

\* The counters start at one.
CountersStart(n) == n.nextW >= 1 /\ n.nextT >= 1 /\ n.nextP >= 1

\* Nothing new is in the maps and no id was handed out.
OpensNothing(a, b) ==
  /\ LiveWs(b) \subseteq LiveWs(a)
  /\ LiveTabs(b) \subseteq LiveTabs(a)
  /\ LivePanes(b) \subseteq LivePanes(a)
  /\ b.nextW = a.nextW /\ b.nextT = a.nextT /\ b.nextP = a.nextP

\* All of Consistent but the focus.
Structure(m) ==
  /\ PanesAreLeaves(m)
  /\ TabsAreListed(m)
  /\ FocusedAndZoomedAreLeaves(m)
  /\ ActiveIsListed(m)
  /\ IdsBelowNext(m)

\* Workspace w has lost its tabs and is about to go.
OkButWorkspace(m, w) ==
  /\ m \in Model
  /\ w \in LiveWs(m)
  /\ \A t \in TabId : m.wsOf[t] # w
  /\ PanesAreLeaves(m)
  /\ FocusedAndZoomedAreLeaves(m)
  /\ IsInjective(m.order)
  /\ \A v \in WsId \ {w} :
       /\ IsInjective(m.tabIds[v]) /\ Range(m.tabIds[v]) = {t \in TabId : m.wsOf[t] = v}
       /\ v \in LiveWs(m) <=> m.tabIds[v] # <<>>
       /\ IF v \in LiveWs(m) THEN m.active[v] \in Range(m.tabIds[v]) ELSE m.active[v] = None
  /\ FocusOnOpenWorkspace(m)
  /\ IdsBelowNext(m)

\* The parts of a model have the types Model gives them.
LEMMA ModelTypes ==
  ASSUME NEW m \in Model
  PROVE  /\ m.order \in Seq(WsId)
         /\ m.tabIds \in [WsId -> Seq(TabId)]
         /\ m.active \in [WsId -> TabId \cup {None}]
         /\ m.wsOf \in [TabId -> WsId \cup {None}]
         /\ m.leaves \in [TabId -> Seq(PaneId)]
         /\ m.focused \in [TabId -> PaneId \cup {None}]
         /\ m.zoomed \in [TabId -> PaneId \cup {None}]
         /\ m.tabOf \in [PaneId -> TabId \cup {None}]
         /\ m.focus \in Focus
         /\ m.nextW \in Nat /\ m.nextT \in Nat /\ m.nextP \in Nat
BY DEF Model

\* Ids are positive, None is not an id.
LEMMA IdTypes == None \notin WsId /\ None \notin TabId /\ None \notin PaneId
BY BoundsAssumption DEF None, WsId, TabId, PaneId

\* setFocus keeps the maps and puts the focus on an open workspace.
LEMMA SetFocusOk ==
  ASSUME NEW m \in Model, Structure(m), NEW w \in LiveWs(m),
         NEW t \in TabId \cup {None}, NEW p \in PaneId \cup {None}
  PROVE  Ok(SetFocus(m, w, t, p))
<1> DEFINE n == SetFocus(m, w, t, p)
<1>1. w \in WsId
  BY ModelTypes, HeadInRange DEF LiveWs
<1>2. /\ n.order = m.order /\ n.tabIds = m.tabIds /\ n.active = m.active /\ n.wsOf = m.wsOf
      /\ n.leaves = m.leaves /\ n.focused = m.focused /\ n.zoomed = m.zoomed
      /\ n.tabOf = m.tabOf /\ n.nextW = m.nextW /\ n.nextT = m.nextT /\ n.nextP = m.nextP
      /\ n.focus = [ws |-> w, tab |-> t, pane |-> p]
  BY DEF SetFocus, Model
<1>3. n \in Model
  BY <1>1 DEF SetFocus, Model, Focus
<1> HIDE DEF n
<1>4. Structure(n)
  BY <1>2 DEF Structure, PanesAreLeaves, TabsAreListed, FocusedAndZoomedAreLeaves, ActiveIsListed,
              IdsBelowNext, LiveWs, LiveTabs, LivePanes
<1>5. FocusOnOpenWorkspace(n)
  <2>1. m.order # <<>>
    BY ModelTypes, HeadInRange DEF LiveWs
  <2> QED BY <1>2, <2>1 DEF FocusOnOpenWorkspace, LiveWs
<1> QED BY <1>3, <1>4, <1>5 DEF Ok, Consistent, Structure, n

\* closeWorkspace, once the tabs and panes are gone.
LEMMA DropWorkspaceOk ==
  ASSUME NEW m, NEW w, OkButWorkspace(m, w)
  PROVE  Ok(DropWorkspace(m, w))
<1> DEFINE rest == Without(m.order, w)
           gone == [m EXCEPT !.order = rest, !.tabIds[w] = <<>>, !.active[w] = None]
           next == Head(rest)
<1>1. m \in Model /\ w \in WsId /\ m.order \in Distinct(WsId)
  BY ModelTypes, HeadInRange DEF OkButWorkspace, LiveWs, Distinct
<1>2. rest \in Distinct(WsId) /\ Range(rest) = LiveWs(m) \ {w} /\ rest \in Seq(WsId)
  BY <1>1, WithoutDistinct DEF LiveWs, Distinct
<1> HIDE DEF rest
<1>3. /\ gone.order = rest
      /\ gone.tabIds = [m.tabIds EXCEPT ![w] = <<>>]
      /\ gone.active = [m.active EXCEPT ![w] = None]
      /\ gone.wsOf = m.wsOf /\ gone.leaves = m.leaves /\ gone.focused = m.focused
      /\ gone.zoomed = m.zoomed /\ gone.tabOf = m.tabOf /\ gone.focus = m.focus
      /\ gone.nextW = m.nextW /\ gone.nextT = m.nextT /\ gone.nextP = m.nextP
  BY <1>1 DEF Model
<1>4. gone \in Model
  <2>1. <<>> \in Seq(TabId)
    OBVIOUS
  <2>2. /\ [m.tabIds EXCEPT ![w] = <<>>] \in [WsId -> Seq(TabId)]
        /\ [m.active EXCEPT ![w] = None] \in [WsId -> TabId \cup {None}]
    BY <1>1, <2>1, ModelTypes
  <2> QED BY <1>1, <1>2, <2>2 DEF Model
<1> HIDE DEF gone
<1>5. LiveWs(gone) = LiveWs(m) \ {w} /\ LiveTabs(gone) = LiveTabs(m) /\ LivePanes(gone) = LivePanes(m)
  BY <1>2, <1>3 DEF LiveWs, LiveTabs, LivePanes
<1>6. Structure(gone)
  <2>1. PanesAreLeaves(gone) /\ FocusedAndZoomedAreLeaves(gone)
    BY <1>3 DEF OkButWorkspace, PanesAreLeaves, FocusedAndZoomedAreLeaves
  <2>2. TabsAreListed(gone)
    <3>1. IsInjective(gone.order)
      BY <1>2, <1>3 DEF Distinct
    <3>2. ASSUME NEW v \in WsId
          PROVE  /\ IsInjective(gone.tabIds[v])
                 /\ Range(gone.tabIds[v]) = {t \in TabId : gone.wsOf[t] = v}
                 /\ v \in LiveWs(gone) <=> gone.tabIds[v] # <<>>
      <4>1. CASE v = w
        <5>1. gone.tabIds[v] = <<>>
          BY <4>1, <1>1, <1>3, ModelTypes
        <5>2. IsInjective(<<>>) /\ Range(<<>>) = {}
          BY DEF IsInjective, Range
        <5> QED BY <4>1, <5>1, <5>2, <1>3, <1>5 DEF OkButWorkspace
      <4>2. CASE v # w
        <5>1. gone.tabIds[v] = m.tabIds[v]
          BY <4>2, <1>1, <1>3, ModelTypes
        <5> QED BY <4>2, <5>1, <1>3, <1>5 DEF OkButWorkspace
      <4> QED BY <4>1, <4>2
    <3> QED BY <3>1, <3>2 DEF TabsAreListed
  <2>3. ActiveIsListed(gone)
    <3> SUFFICES ASSUME NEW v \in WsId
                 PROVE  IF v \in LiveWs(gone) THEN gone.active[v] \in Range(gone.tabIds[v])
                        ELSE gone.active[v] = None
      BY DEF ActiveIsListed
    <3>1. CASE v = w
      BY <3>1, <1>1, <1>3, <1>5, ModelTypes
    <3>2. CASE v # w
      <4>1. gone.tabIds[v] = m.tabIds[v] /\ gone.active[v] = m.active[v]
        BY <3>2, <1>1, <1>3, ModelTypes
      <4> QED BY <3>2, <4>1, <1>5 DEF OkButWorkspace
    <3> QED BY <3>1, <3>2
  <2>4. IdsBelowNext(gone)
    BY <1>3, <1>5 DEF OkButWorkspace, IdsBelowNext
  <2> QED BY <2>1, <2>2, <2>3, <2>4 DEF Structure
<1>7. CASE m.focus.ws # w
  <2>1. FocusOnOpenWorkspace(gone)
    <3>1. m.focus.ws \in LiveWs(m)
      BY HeadInRange, ModelTypes, <1>1 DEF OkButWorkspace, FocusOnOpenWorkspace, LiveWs
    <3>2. gone.order # <<>>
      BY <1>2, <1>3, <1>5, <1>7, <3>1, HeadInRange
    <3> QED BY <3>1, <3>2, <1>3, <1>5, <1>7 DEF FocusOnOpenWorkspace
  <2>2. DropWorkspace(m, w) = gone
    BY <1>7 DEF DropWorkspace, gone, rest
  <2> QED BY <1>4, <1>6, <2>1, <2>2 DEF Ok, Consistent, Structure
<1>8. CASE m.focus.ws = w /\ rest = <<>>
  <2> DEFINE n == [gone EXCEPT !.focus = NoFocus]
  <2>1. DropWorkspace(m, w) = n
    BY <1>8 DEF DropWorkspace, gone, rest
  <2>2. /\ n.order = gone.order /\ n.tabIds = gone.tabIds /\ n.active = gone.active
        /\ n.wsOf = gone.wsOf /\ n.leaves = gone.leaves /\ n.focused = gone.focused
        /\ n.zoomed = gone.zoomed /\ n.tabOf = gone.tabOf /\ n.nextW = gone.nextW
        /\ n.nextT = gone.nextT /\ n.nextP = gone.nextP /\ n.focus = NoFocus
    BY <1>4 DEF Model
  <2>3. n \in Model
    BY <1>4 DEF Model, Focus, NoFocus
  <2> HIDE DEF n
  <2>4. Structure(n)
    BY <1>6, <2>2 DEF Structure, PanesAreLeaves, TabsAreListed, FocusedAndZoomedAreLeaves,
                      ActiveIsListed, IdsBelowNext, LiveWs, LiveTabs, LivePanes
  <2>5. FocusOnOpenWorkspace(n)
    BY <1>3, <1>8, <2>2 DEF FocusOnOpenWorkspace
  <2> QED BY <2>1, <2>3, <2>4, <2>5 DEF Ok, Consistent, Structure
<1>9. CASE m.focus.ws = w /\ rest # <<>>
  <2>1. next \in LiveWs(gone) /\ next \in WsId
    BY <1>2, <1>3, <1>9, HeadInRange DEF LiveWs
  <2>2. gone.active[next] \in TabId
    <3>1. gone.active[next] \in Range(gone.tabIds[next])
      BY <1>6, <2>1 DEF Structure, ActiveIsListed
    <3>2. gone.tabIds[next] \in Seq(TabId)
      BY <1>4, <2>1, ModelTypes
    <3> QED BY <3>1, <3>2, HeadInRange
  <2>3. gone.active[next] = m.active[next]
    BY <1>1, <1>2, <1>3, <1>5, <2>1, ModelTypes
  <2>4. m.focused[m.active[next]] \in PaneId \cup {None}
    BY <1>1, <2>2, <2>3, ModelTypes
  <2>5. DropWorkspace(m, w) = SetFocus(gone, next, m.active[next], m.focused[m.active[next]])
    BY <1>9 DEF DropWorkspace, gone, rest
  <2> QED BY <1>4, <1>6, <2>1, <2>2, <2>3, <2>4, <2>5, SetFocusOk
<1> QED BY <1>7, <1>8, <1>9

\* It leaves the tabs as they are.
LEMMA DropWorkspaceTabs ==
  ASSUME NEW m \in Model, NEW w
  PROVE  DropWorkspace(m, w).wsOf = m.wsOf
BY DEF DropWorkspace, SetFocus, Model

-----------------------------------------------------------------------------
(* Operations within one tab.                                              *)

\* In a consistent model a live tab has a list of distinct panes, and its
\* workspace is open.
LEMMA LiveTabFacts ==
  ASSUME NEW m, Ok(m), NEW t \in LiveTabs(m)
  PROVE  /\ t \in TabId /\ t # None
         /\ m.wsOf[t] \in LiveWs(m) /\ m.wsOf[t] \in WsId
         /\ t \in Range(m.tabIds[m.wsOf[t]])
         /\ m.tabIds[m.wsOf[t]] \in Distinct(TabId)
         /\ m.leaves[t] \in Distinct(PaneId)
         /\ Range(m.leaves[t]) = {p \in PaneId : m.tabOf[p] = t}
         /\ m.leaves[t] # <<>>
         /\ m.focused[t] \in Range(m.leaves[t])
         /\ m.focused[t] \in PaneId
<1>1. m \in Model /\ t \in TabId /\ m.wsOf[t] # None
  BY DEF Ok, LiveTabs
<1>2. m.wsOf[t] \in WsId /\ m.leaves[t] \in Seq(PaneId)
  BY <1>1, ModelTypes
<1>3. m.tabIds[m.wsOf[t]] \in Distinct(TabId) /\ t \in Range(m.tabIds[m.wsOf[t]])
  BY <1>1, <1>2, ModelTypes DEF Ok, Consistent, TabsAreListed, Distinct
<1>4. m.tabIds[m.wsOf[t]] # <<>>
  BY <1>2, <1>3, HeadInRange DEF Distinct
<1>5. m.wsOf[t] \in LiveWs(m)
  BY <1>2, <1>4 DEF Ok, Consistent, TabsAreListed
<1>6. /\ m.leaves[t] \in Distinct(PaneId)
      /\ Range(m.leaves[t]) = {p \in PaneId : m.tabOf[p] = t}
      /\ m.leaves[t] # <<>>
  BY <1>1, <1>2 DEF Ok, Consistent, PanesAreLeaves, Distinct
<1>7. m.focused[t] \in Range(m.leaves[t])
  BY <1>1 DEF Ok, Consistent, FocusedAndZoomedAreLeaves
<1> QED BY <1>1, <1>2, <1>3, <1>5, <1>6, <1>7, IdTypes

\* In a consistent model the tab of a live pane is live and has it as a leaf.
LEMMA LivePaneFacts ==
  ASSUME NEW m, Ok(m), NEW p \in LivePanes(m)
  PROVE  /\ p \in PaneId /\ p # None
         /\ m.tabOf[p] \in LiveTabs(m) /\ m.tabOf[p] \in TabId
         /\ p \in Range(m.leaves[m.tabOf[p]])
<1>1. m \in Model /\ p \in PaneId /\ m.tabOf[p] \in TabId
  BY ModelTypes DEF Ok, LivePanes
<1>2. p \in Range(m.leaves[m.tabOf[p]])
  BY <1>1 DEF Ok, Consistent, PanesAreLeaves
<1>3. m.leaves[m.tabOf[p]] # <<>>
  BY <1>1, <1>2, ModelTypes, HeadInRange
<1>4. m.tabOf[p] \in LiveTabs(m)
  BY <1>1, <1>3 DEF Ok, Consistent, PanesAreLeaves, LiveTabs
<1> QED BY <1>1, <1>2, <1>4, IdTypes

\* Workspaces and the lists of tabs are the same.
SameTabs(m, n) ==
  /\ n.order = m.order /\ n.tabIds = m.tabIds /\ n.active = m.active /\ n.wsOf = m.wsOf
  /\ n.nextW = m.nextW /\ n.nextT = m.nextT /\ n.nextP = m.nextP

\* Every tab but t has the panes it had.
OtherTabsSame(m, n, t) ==
  \A u \in TabId \ {t} : /\ n.leaves[u] = m.leaves[u]
                         /\ n.focused[u] = m.focused[u]
                         /\ n.zoomed[u] = m.zoomed[u]
                         /\ \A p \in PaneId : n.tabOf[p] = u <=> m.tabOf[p] = u

\* Tab t has panes, each once, and its focus and zoom on them.
TabIsWhole(n, t) ==
  /\ n.leaves[t] \in Distinct(PaneId) /\ n.leaves[t] # <<>>
  /\ \A p \in PaneId : p \in Range(n.leaves[t]) <=> n.tabOf[p] = t
  /\ n.focused[t] \in Range(n.leaves[t])
  /\ n.zoomed[t] \in Range(n.leaves[t]) \cup {None}

\* All of Ok but what is in tab t.
OkBeside(m, t) ==
  /\ m \in Model
  /\ t \in LiveTabs(m)
  /\ \A u \in TabId \ {t} :
       /\ IsInjective(m.leaves[u]) /\ Range(m.leaves[u]) = {p \in PaneId : m.tabOf[p] = u}
       /\ m.wsOf[u] # None <=> m.leaves[u] # <<>>
       /\ IF m.wsOf[u] = None THEN m.focused[u] = None ELSE m.focused[u] \in Range(m.leaves[u])
       /\ m.zoomed[u] \in Range(m.leaves[u]) \cup {None}
  /\ TabsAreListed(m)
  /\ ActiveIsListed(m)
  /\ FocusOnOpenWorkspace(m)
  /\ IdsBelowNext(m)

\* A step that changes only what is in one tab, and makes that tab whole.
LEMMA TabMended ==
  ASSUME NEW m, NEW n \in Model, NEW t, OkBeside(m, t),
         SameTabs(m, n), OtherTabsSame(m, n, t), TabIsWhole(n, t),
         \A p \in LivePanes(n) : p < m.nextP
  PROVE  Structure(n)
<1> USE DEF SameTabs, OtherTabsSame, TabIsWhole
<1>1. t \in TabId /\ m.wsOf[t] # None
  BY DEF OkBeside, LiveTabs
<1>2. Range(n.leaves[t]) \subseteq PaneId
  BY HeadInRange DEF Distinct
<1>3. PanesAreLeaves(n)
  <2> SUFFICES ASSUME NEW u \in TabId
               PROVE  /\ IsInjective(n.leaves[u])
                      /\ Range(n.leaves[u]) = {p \in PaneId : n.tabOf[p] = u}
                      /\ n.wsOf[u] # None <=> n.leaves[u] # <<>>
    BY DEF PanesAreLeaves
  <2>1. CASE u = t
    BY <2>1, <1>1, <1>2 DEF Distinct
  <2>2. CASE u # t
    BY <2>2 DEF OkBeside
  <2> QED BY <2>1, <2>2
<1>4. FocusedAndZoomedAreLeaves(n)
  <2> SUFFICES ASSUME NEW u \in TabId
               PROVE  /\ IF n.wsOf[u] = None THEN n.focused[u] = None
                         ELSE n.focused[u] \in Range(n.leaves[u])
                      /\ n.zoomed[u] \in Range(n.leaves[u]) \cup {None}
    BY DEF FocusedAndZoomedAreLeaves
  <2>1. CASE u = t
    BY <2>1, <1>1
  <2>2. CASE u # t
    BY <2>2 DEF OkBeside
  <2> QED BY <2>1, <2>2
<1>5. TabsAreListed(n) /\ ActiveIsListed(n)
  BY DEF OkBeside, TabsAreListed, ActiveIsListed, LiveWs
<1>6. IdsBelowNext(n)
  BY DEF OkBeside, IdsBelowNext, LiveWs, LiveTabs
<1> QED BY <1>3, <1>4, <1>5, <1>6 DEF Structure

\* The same from a consistent model.
LEMMA TabChanged ==
  ASSUME NEW m, Ok(m), NEW n \in Model, NEW t \in LiveTabs(m),
         SameTabs(m, n), OtherTabsSame(m, n, t), TabIsWhole(n, t),
         \A p \in LivePanes(n) : p < m.nextP
  PROVE  Structure(n)
<1>1. OkBeside(m, t)
  BY DEF OkBeside, Ok, Consistent, PanesAreLeaves, FocusedAndZoomedAreLeaves
<1> QED BY <1>1, TabMended

\* A step that leaves the focus and the workspaces alone.
LEMMA FocusKept ==
  ASSUME NEW m, FocusOnOpenWorkspace(m), NEW n \in Model, Structure(n),
         n.order = m.order, n.focus = m.focus
  PROVE  Ok(n)
BY DEF Ok, Consistent, Structure, FocusOnOpenWorkspace, LiveWs

\* splitPane with a reserved id.
LEMMA SplitPaneOk ==
  ASSUME NEW m, Ok(m), NEW q \in LivePanes(m), NEW p \in PaneId \ LivePanes(m), p < m.nextP
  PROVE  Ok(SplitPane(m, q, p))
<1> DEFINE t == m.tabOf[q]
           longer == InsertAfter(m.leaves[t], q, p)
           n == [m EXCEPT !.leaves[t] = longer, !.focused[t] = p, !.zoomed[t] = None,
                          !.tabOf[p] = t]
<1>1. m \in Model /\ t \in TabId /\ t \in LiveTabs(m) /\ q \in Range(m.leaves[t])
  BY LivePaneFacts DEF Ok
<1>2. /\ m.leaves[t] \in Distinct(PaneId)
      /\ Range(m.leaves[t]) = {r \in PaneId : m.tabOf[r] = t}
  BY <1>1, LiveTabFacts
<1>3. m.tabOf[p] = None
  BY DEF LivePanes
<1>4. p \notin Range(m.leaves[t])
  BY <1>1, <1>2, <1>3, IdTypes
<1>5. longer \in Distinct(PaneId) /\ Range(longer) = Range(m.leaves[t]) \cup {p}
  BY <1>1, <1>2, <1>4, InsertDistinct
<1> HIDE DEF longer, t
<1>6. /\ n.order = m.order /\ n.tabIds = m.tabIds /\ n.active = m.active /\ n.wsOf = m.wsOf
      /\ n.leaves = [m.leaves EXCEPT ![t] = longer]
      /\ n.focused = [m.focused EXCEPT ![t] = p]
      /\ n.zoomed = [m.zoomed EXCEPT ![t] = None]
      /\ n.tabOf = [m.tabOf EXCEPT ![p] = t]
      /\ n.nextW = m.nextW /\ n.nextT = m.nextT /\ n.nextP = m.nextP
  BY <1>1 DEF Model
<1>7. n \in Model
  <2>1. /\ [m.leaves EXCEPT ![t] = longer] \in [TabId -> Seq(PaneId)]
        /\ [m.focused EXCEPT ![t] = p] \in [TabId -> PaneId \cup {None}]
        /\ [m.zoomed EXCEPT ![t] = None] \in [TabId -> PaneId \cup {None}]
        /\ [m.tabOf EXCEPT ![p] = t] \in [PaneId -> TabId \cup {None}]
    BY <1>1, <1>5, ModelTypes DEF Distinct
  <2> QED BY <1>1, <2>1 DEF Model
<1> HIDE DEF n
<1>8. Structure(n)
  <2>1. /\ n.leaves[t] = longer /\ n.focused[t] = p /\ n.zoomed[t] = None
        /\ \A u \in TabId \ {t} : /\ n.leaves[u] = m.leaves[u] /\ n.focused[u] = m.focused[u]
                                  /\ n.zoomed[u] = m.zoomed[u]
    BY <1>1, <1>6, ModelTypes
  <2>2. \A r \in PaneId : n.tabOf[r] = IF r = p THEN t ELSE m.tabOf[r]
    BY <1>1, <1>6, ModelTypes
  <2>3. \A u \in TabId \ {t} : \A r \in PaneId : n.tabOf[r] = u <=> m.tabOf[r] = u
    BY <1>3, <2>2, IdTypes
  <2>4. \A r \in PaneId : r \in Range(n.leaves[t]) <=> n.tabOf[r] = t
    BY <1>2, <1>5, <2>1, <2>2
  <2>5. longer # <<>>
    BY <1>5, HeadInRange DEF Distinct
  <2>6. \A r \in LivePanes(n) : r < m.nextP
    BY <2>2 DEF LivePanes, Ok, Consistent, IdsBelowNext
  <2>7. SameTabs(m, n) /\ OtherTabsSame(m, n, t)
    BY <1>6, <2>1, <2>3 DEF SameTabs, OtherTabsSame
  <2>8. TabIsWhole(n, t)
    BY <1>5, <2>1, <2>4, <2>5 DEF TabIsWhole
  <2> QED BY <1>1, <1>7, <2>6, <2>7, <2>8, TabChanged
<1>9. m.wsOf[t] \in LiveWs(n)
  BY <1>1, <1>6, LiveTabFacts DEF LiveWs
<1>10. SplitPane(m, q, p) = SetFocus(n, m.wsOf[t], t, p)
  BY DEF SplitPane, n, longer, t
<1> QED BY <1>1, <1>7, <1>8, <1>9, <1>10, SetFocusOk

\* Where two panes of one tab are.
LEMMA SameTabFacts ==
  ASSUME NEW m, Ok(m), NEW p, NEW q, SameTab(m, p, q), NEW t, t = m.tabOf[p]
  PROVE  /\ m \in Model /\ t \in TabId /\ t \in LiveTabs(m)
         /\ p \in PaneId /\ q \in PaneId /\ m.tabOf[p] = t /\ m.tabOf[q] = t
         /\ p \in Range(m.leaves[t]) /\ q \in Range(m.leaves[t])
         /\ m.leaves[t] \in Distinct(PaneId)
         /\ Range(m.leaves[t]) = {r \in PaneId : m.tabOf[r] = t}
         /\ m.wsOf[t] \in LiveWs(m)
<1>1. /\ t \in TabId /\ t \in LiveTabs(m)
      /\ p \in PaneId /\ q \in PaneId /\ m.tabOf[p] = t /\ m.tabOf[q] = t
      /\ p \in Range(m.leaves[t]) /\ q \in Range(m.leaves[t])
  BY LivePaneFacts DEF SameTab
<1> QED BY <1>1, LiveTabFacts DEF Ok

\* A step that only gives tab t another order of the same panes.
LEMMA LeavesReordered ==
  ASSUME NEW m, Ok(m), NEW t \in LiveTabs(m), NEW s \in Distinct(PaneId),
         Range(s) = Range(m.leaves[t])
  PROVE  /\ [m EXCEPT !.leaves[t] = s] \in Model
         /\ Structure([m EXCEPT !.leaves[t] = s])
         /\ [m EXCEPT !.leaves[t] = s].order = m.order
         /\ [m EXCEPT !.leaves[t] = s].focus = m.focus
<1> DEFINE n == [m EXCEPT !.leaves[t] = s]
<1>1. m \in Model /\ t \in TabId
  BY LiveTabFacts DEF Ok
<1>2. /\ n.order = m.order /\ n.tabIds = m.tabIds /\ n.active = m.active /\ n.wsOf = m.wsOf
      /\ n.leaves = [m.leaves EXCEPT ![t] = s]
      /\ n.focused = m.focused /\ n.zoomed = m.zoomed /\ n.tabOf = m.tabOf /\ n.focus = m.focus
      /\ n.nextW = m.nextW /\ n.nextT = m.nextT /\ n.nextP = m.nextP
  BY <1>1 DEF Model
<1>3. n \in Model
  <2>1. [m.leaves EXCEPT ![t] = s] \in [TabId -> Seq(PaneId)]
    BY <1>1, ModelTypes DEF Distinct
  <2> QED BY <1>1, <2>1 DEF Model
<1> HIDE DEF n
<1>4. n.leaves[t] = s /\ \A u \in TabId \ {t} : n.leaves[u] = m.leaves[u]
  BY <1>1, <1>2, ModelTypes
<1>5. SameTabs(m, n) /\ OtherTabsSame(m, n, t)
  BY <1>2, <1>4 DEF SameTabs, OtherTabsSame
<1>6. TabIsWhole(n, t)
  <2>1. s # <<>>
    BY LiveTabFacts, HeadInRange DEF Distinct
  <2>2. m.zoomed[t] \in Range(m.leaves[t]) \cup {None}
    BY <1>1 DEF Ok, Consistent, FocusedAndZoomedAreLeaves
  <2> QED BY <1>2, <1>4, <2>1, <2>2, LiveTabFacts DEF TabIsWhole
<1>7. \A p \in LivePanes(n) : p < m.nextP
  BY <1>2 DEF LivePanes, Ok, Consistent, IdsBelowNext
<1> QED BY <1>2, <1>3, <1>5, <1>6, <1>7, TabChanged DEF n

\* swapPane and swapPaneWith.
LEMMA SwapPaneOk ==
  ASSUME NEW m, Ok(m), NEW p, NEW q, SameTab(m, p, q)
  PROVE  Ok(SwapPane(m, p, q)) /\ Ok(SwapPaneWith(m, p, q))
<1> DEFINE t == m.tabOf[p]
           s == Exchange(m.leaves[t], p, q)
           n == [m EXCEPT !.leaves[t] = s]
<1>1. /\ t \in LiveTabs(m) /\ t \in TabId /\ m.wsOf[t] \in LiveWs(m)
      /\ p \in Range(m.leaves[t]) /\ q \in Range(m.leaves[t]) /\ p \in PaneId
      /\ m.leaves[t] \in Distinct(PaneId)
  BY SameTabFacts
<1>2. s \in Distinct(PaneId) /\ Range(s) = Range(m.leaves[t])
  BY <1>1, ExchangeDistinct
<1> HIDE DEF s, t
<1>3. n \in Model /\ Structure(n) /\ n.order = m.order /\ n.focus = m.focus
  BY <1>1, <1>2, LeavesReordered
<1>4. SwapPane(m, p, q) = n
  BY DEF SwapPane, n, s, t
<1>5. SwapPaneWith(m, p, q) = SetFocus(n, m.wsOf[t], t, p)
  BY <1>4 DEF SwapPaneWith, t
<1> HIDE DEF n
<1>6. Ok(n)
  BY <1>3, FocusKept DEF Ok, Consistent
<1>7. m.wsOf[t] \in LiveWs(n)
  BY <1>1, <1>3 DEF LiveWs
<1> QED BY <1>1, <1>3, <1>4, <1>5, <1>6, <1>7, SetFocusOk

\* moveToEdge.
LEMMA MoveToEdgeOk ==
  ASSUME NEW m, Ok(m), NEW p, NEW q, SameTab(m, p, q), NEW edge
  PROVE  Ok(MoveToEdge(m, p, q, edge))
<1> DEFINE t == m.tabOf[p]
           rest == Without(m.leaves[t], p)
           s == IF edge \in {"left", "top"} THEN InsertBefore(rest, q, p) ELSE InsertAfter(rest, q, p)
           n == [m EXCEPT !.leaves[t] = s]
<1>1. /\ t \in LiveTabs(m) /\ t \in TabId /\ m.wsOf[t] \in LiveWs(m)
      /\ p \in Range(m.leaves[t]) /\ q \in Range(m.leaves[t]) /\ p \in PaneId /\ p # q
      /\ m.leaves[t] \in Distinct(PaneId)
  BY SameTabFacts DEF SameTab
<1>2. rest \in Distinct(PaneId) /\ Range(rest) = Range(m.leaves[t]) \ {p}
  BY <1>1, WithoutDistinct
<1> HIDE DEF rest
<1>3. s \in Distinct(PaneId) /\ Range(s) = Range(m.leaves[t])
  <2>1. q \in Range(rest) /\ p \notin Range(rest)
    BY <1>1, <1>2
  <2>2. s \in Distinct(PaneId) /\ Range(s) = Range(rest) \cup {p}
    BY <1>1, <1>2, <2>1, InsertDistinct
  <2> QED BY <1>1, <1>2, <2>2
<1> HIDE DEF s, t
<1>4. n \in Model /\ Structure(n) /\ n.order = m.order
  BY <1>1, <1>3, LeavesReordered
<1>5. MoveToEdge(m, p, q, edge) = SetFocus(n, m.wsOf[t], t, p)
  BY <1>1 DEF MoveToEdge, n, s, rest, t, Ok, Model
<1> HIDE DEF n
<1>6. m.wsOf[t] \in LiveWs(n)
  BY <1>1, <1>4 DEF LiveWs
<1> QED BY <1>1, <1>4, <1>5, <1>6, SetFocusOk

\* replacePane.
LEMMA ReplacePaneOk ==
  ASSUME NEW m, Ok(m), NEW p, NEW q, SameTab(m, p, q)
  PROVE  Ok(ReplacePane(m, p, q))
<1> DEFINE t == m.tabOf[p]
           swapped == Exchange(m.leaves[t], p, q)
           s == Without(swapped, q)
           f == IF m.focused[t] = q THEN p ELSE m.focused[t]
           n == [m EXCEPT !.leaves[t] = s, !.tabOf[q] = None, !.focused[t] = f, !.zoomed[t] = None]
<1>1. /\ m \in Model /\ t \in LiveTabs(m) /\ t \in TabId /\ m.wsOf[t] \in LiveWs(m)
      /\ p \in Range(m.leaves[t]) /\ q \in Range(m.leaves[t]) /\ p \in PaneId /\ q \in PaneId /\ p # q
      /\ m.leaves[t] \in Distinct(PaneId) /\ m.tabOf[q] = t
      /\ Range(m.leaves[t]) = {r \in PaneId : m.tabOf[r] = t}
  BY SameTabFacts DEF SameTab
<1>2. swapped \in Distinct(PaneId) /\ Range(swapped) = Range(m.leaves[t])
  BY <1>1, ExchangeDistinct
<1> HIDE DEF swapped
<1>3. s \in Distinct(PaneId) /\ Range(s) = Range(m.leaves[t]) \ {q}
  BY <1>2, WithoutDistinct
<1>4. f \in Range(s) /\ f \in PaneId
  BY <1>1, <1>3, LiveTabFacts
<1> HIDE DEF s, t, f
<1>5. /\ n.order = m.order /\ n.tabIds = m.tabIds /\ n.active = m.active /\ n.wsOf = m.wsOf
      /\ n.leaves = [m.leaves EXCEPT ![t] = s]
      /\ n.focused = [m.focused EXCEPT ![t] = f]
      /\ n.zoomed = [m.zoomed EXCEPT ![t] = None]
      /\ n.tabOf = [m.tabOf EXCEPT ![q] = None]
      /\ n.nextW = m.nextW /\ n.nextT = m.nextT /\ n.nextP = m.nextP
  BY <1>1 DEF Model
<1>6. n \in Model
  <2>1. /\ [m.leaves EXCEPT ![t] = s] \in [TabId -> Seq(PaneId)]
        /\ [m.focused EXCEPT ![t] = f] \in [TabId -> PaneId \cup {None}]
        /\ [m.zoomed EXCEPT ![t] = None] \in [TabId -> PaneId \cup {None}]
        /\ [m.tabOf EXCEPT ![q] = None] \in [PaneId -> TabId \cup {None}]
    BY <1>1, <1>3, <1>4, ModelTypes DEF Distinct
  <2> QED BY <1>1, <2>1 DEF Model
<1>7. ReplacePane(m, p, q) = SetFocus(n, m.wsOf[t], t, p)
  <2>1. m.focused \in [TabId -> PaneId \cup {None}]
    BY <1>1, ModelTypes
  <2> QED BY <1>1, <2>1 DEF ReplacePane, n, s, swapped, t, f
<1> HIDE DEF n
<1>8. /\ n.leaves[t] = s /\ n.focused[t] = f /\ n.zoomed[t] = None
      /\ \A u \in TabId \ {t} : /\ n.leaves[u] = m.leaves[u] /\ n.focused[u] = m.focused[u]
                                /\ n.zoomed[u] = m.zoomed[u]
  BY <1>1, <1>5, ModelTypes
<1>9. \A r \in PaneId : n.tabOf[r] = IF r = q THEN None ELSE m.tabOf[r]
  BY <1>1, <1>5, ModelTypes
<1>10. SameTabs(m, n) /\ OtherTabsSame(m, n, t)
  BY <1>1, <1>5, <1>8, <1>9, IdTypes DEF SameTabs, OtherTabsSame
<1>11. TabIsWhole(n, t)
  <2>1. s # <<>>
    BY <1>3, <1>4, HeadInRange DEF Distinct
  <2>2. \A r \in PaneId : r \in Range(n.leaves[t]) <=> n.tabOf[r] = t
    BY <1>1, <1>3, <1>8, <1>9, IdTypes
  <2> QED BY <1>3, <1>4, <1>8, <2>1, <2>2 DEF TabIsWhole
<1>12. \A r \in LivePanes(n) : r < m.nextP
  BY <1>9 DEF LivePanes, Ok, Consistent, IdsBelowNext
<1>13. Structure(n)
  BY <1>1, <1>6, <1>10, <1>11, <1>12, TabChanged
<1>14. m.wsOf[t] \in LiveWs(n)
  BY <1>1, <1>5 DEF LiveWs
<1> QED BY <1>1, <1>6, <1>7, <1>13, <1>14, SetFocusOk

\* zoomPane.
LEMMA ZoomPaneOk ==
  ASSUME NEW m, Ok(m), NEW p \in LivePanes(m), NEW mode
  PROVE  Ok(ZoomPane(m, p, mode))
<1> DEFINE t == m.tabOf[p]
           on == mode = "on" \/ (mode = "toggle" /\ m.zoomed[t] # p)
           z == IF on THEN p ELSE None
           n == [m EXCEPT !.zoomed[t] = z]
<1>1. m \in Model /\ t \in LiveTabs(m) /\ t \in TabId /\ p \in Range(m.leaves[t]) /\ p \in PaneId
  BY LivePaneFacts DEF Ok
<1>2. z \in {p, None} /\ ZoomPane(m, p, mode) = n
  BY DEF ZoomPane
<1> HIDE DEF z, t
<1>3. /\ n.order = m.order /\ n.tabIds = m.tabIds /\ n.active = m.active /\ n.wsOf = m.wsOf
      /\ n.leaves = m.leaves /\ n.focused = m.focused /\ n.tabOf = m.tabOf /\ n.focus = m.focus
      /\ n.zoomed = [m.zoomed EXCEPT ![t] = z]
      /\ n.nextW = m.nextW /\ n.nextT = m.nextT /\ n.nextP = m.nextP
  BY <1>1 DEF Model
<1>4. n \in Model
  <2>1. [m.zoomed EXCEPT ![t] = z] \in [TabId -> PaneId \cup {None}]
    BY <1>1, <1>2, ModelTypes
  <2> QED BY <1>1, <2>1 DEF Model
<1> HIDE DEF n
<1>5. n.zoomed[t] = z /\ \A u \in TabId \ {t} : n.zoomed[u] = m.zoomed[u]
  BY <1>1, <1>3, ModelTypes
<1>6. SameTabs(m, n) /\ OtherTabsSame(m, n, t)
  BY <1>3, <1>5 DEF SameTabs, OtherTabsSame
<1>7. TabIsWhole(n, t)
  BY <1>1, <1>2, <1>3, <1>5, LiveTabFacts DEF TabIsWhole
<1>8. \A r \in LivePanes(n) : r < m.nextP
  BY <1>3 DEF LivePanes, Ok, Consistent, IdsBelowNext
<1>9. Structure(n)
  BY <1>1, <1>4, <1>6, <1>7, <1>8, TabChanged
<1> QED BY <1>2, <1>3, <1>4, <1>9, FocusKept DEF Ok, Consistent

-----------------------------------------------------------------------------
(* Closing.                                                                *)

\* closeEmptyTabShell: tab t has lost its panes and goes, its workspace too
\* when it was the last tab.
LEMMA DropTabOk ==
  ASSUME NEW m, NEW t, OkBeside(m, t), \A p \in PaneId : m.tabOf[p] # t
  PROVE  /\ Ok(DropTab(m, t))
         /\ \A u \in TabId \ {t} : DropTab(m, t).wsOf[u] = m.wsOf[u]
<1> DEFINE w == m.wsOf[t]
           rest == Without(m.tabIds[w], t)
           gone == [m EXCEPT !.wsOf[t] = None, !.leaves[t] = <<>>,
                             !.focused[t] = None, !.zoomed[t] = None]
           listed == [gone EXCEPT !.tabIds[w] = rest]
           first == Head(rest)
           passed == [gone EXCEPT !.tabIds[w] = rest, !.active[w] = first]
<1>1. m \in Model /\ t \in TabId /\ w \in WsId /\ t # None
  BY ModelTypes, IdTypes DEF OkBeside, LiveTabs
<1>2. /\ m.tabIds[w] \in Distinct(TabId) /\ Range(m.tabIds[w]) = {u \in TabId : m.wsOf[u] = w}
      /\ w \in LiveWs(m)
  <2>1. /\ m.tabIds[w] \in Distinct(TabId) /\ Range(m.tabIds[w]) = {u \in TabId : m.wsOf[u] = w}
    BY <1>1, ModelTypes DEF OkBeside, TabsAreListed, Distinct
  <2>2. m.tabIds[w] # <<>>
    BY <1>1, <2>1, HeadInRange DEF Distinct
  <2> QED BY <1>1, <2>1, <2>2 DEF OkBeside, TabsAreListed
<1>3. rest \in Distinct(TabId) /\ Range(rest) = {u \in TabId \ {t} : m.wsOf[u] = w}
  BY <1>2, WithoutDistinct
<1>4. DropTab(m, t) = IF rest = <<>> THEN DropWorkspace(gone, w)
                      ELSE IF m.active[w] # t THEN listed
                      ELSE SetFocus(passed, w, first, m.focused[first])
  BY DEF DropTab
<1> HIDE DEF rest, w
<1>5. /\ gone.order = m.order /\ gone.tabIds = m.tabIds /\ gone.active = m.active
      /\ gone.wsOf = [m.wsOf EXCEPT ![t] = None]
      /\ gone.leaves = [m.leaves EXCEPT ![t] = <<>>]
      /\ gone.focused = [m.focused EXCEPT ![t] = None]
      /\ gone.zoomed = [m.zoomed EXCEPT ![t] = None]
      /\ gone.tabOf = m.tabOf /\ gone.focus = m.focus
      /\ gone.nextW = m.nextW /\ gone.nextT = m.nextT /\ gone.nextP = m.nextP
  BY <1>1 DEF Model
<1>6. gone \in Model
  <2>1. <<>> \in Seq(PaneId)
    OBVIOUS
  <2>2. /\ [m.wsOf EXCEPT ![t] = None] \in [TabId -> WsId \cup {None}]
        /\ [m.leaves EXCEPT ![t] = <<>>] \in [TabId -> Seq(PaneId)]
        /\ [m.focused EXCEPT ![t] = None] \in [TabId -> PaneId \cup {None}]
        /\ [m.zoomed EXCEPT ![t] = None] \in [TabId -> PaneId \cup {None}]
    BY <1>1, <2>1, ModelTypes
  <2> QED BY <1>1, <2>2 DEF Model
<1> HIDE DEF gone
<1>7. /\ gone.wsOf[t] = None /\ gone.leaves[t] = <<>> /\ gone.focused[t] = None /\ gone.zoomed[t] = None
      /\ \A u \in TabId \ {t} : /\ gone.wsOf[u] = m.wsOf[u] /\ gone.leaves[u] = m.leaves[u]
                                /\ gone.focused[u] = m.focused[u] /\ gone.zoomed[u] = m.zoomed[u]
  BY <1>1, <1>5, ModelTypes
<1>8. PanesAreLeaves(gone)
  <2> SUFFICES ASSUME NEW u \in TabId
               PROVE  /\ IsInjective(gone.leaves[u])
                      /\ Range(gone.leaves[u]) = {p \in PaneId : gone.tabOf[p] = u}
                      /\ gone.wsOf[u] # None <=> gone.leaves[u] # <<>>
    BY DEF PanesAreLeaves
  <2>1. CASE u = t
    <3>1. IsInjective(<<>>) /\ Range(<<>>) = {}
      BY DEF IsInjective, Range
    <3> QED BY <2>1, <3>1, <1>5, <1>7
  <2>2. CASE u # t
    BY <2>2, <1>5, <1>7 DEF OkBeside
  <2> QED BY <2>1, <2>2
<1>9. FocusedAndZoomedAreLeaves(gone)
  <2> SUFFICES ASSUME NEW u \in TabId
               PROVE  /\ IF gone.wsOf[u] = None THEN gone.focused[u] = None
                         ELSE gone.focused[u] \in Range(gone.leaves[u])
                      /\ gone.zoomed[u] \in Range(gone.leaves[u]) \cup {None}
    BY DEF FocusedAndZoomedAreLeaves
  <2>1. CASE u = t
    BY <2>1, <1>7
  <2>2. CASE u # t
    BY <2>2, <1>7 DEF OkBeside
  <2> QED BY <2>1, <2>2
<1>10. LiveWs(gone) = LiveWs(m) /\ LiveTabs(gone) \subseteq LiveTabs(m) /\ LivePanes(gone) = LivePanes(m)
  BY <1>5, <1>7 DEF LiveWs, LiveTabs, LivePanes
<1>11. IdsBelowNext(gone)
  BY <1>5, <1>10 DEF OkBeside, IdsBelowNext
<1>12. FocusOnOpenWorkspace(gone)
  BY <1>5, <1>10 DEF OkBeside, FocusOnOpenWorkspace
<1>13. ASSUME NEW v \in WsId \ {w}
       PROVE  /\ IsInjective(m.tabIds[v]) /\ Range(m.tabIds[v]) = {u \in TabId : gone.wsOf[u] = v}
              /\ v \in LiveWs(m) <=> m.tabIds[v] # <<>>
              /\ IF v \in LiveWs(m) THEN m.active[v] \in Range(m.tabIds[v]) ELSE m.active[v] = None
  <2>1. \A u \in TabId : gone.wsOf[u] = v <=> m.wsOf[u] = v
    BY <1>1, <1>7, IdTypes DEF w
  <2> QED BY <2>1 DEF OkBeside, TabsAreListed, ActiveIsListed
<1>14. {u \in TabId : gone.wsOf[u] = w} = Range(rest)
  BY <1>1, <1>3, <1>7, IdTypes
<1>15. CASE rest = <<>>
  <2>1. \A u \in TabId : gone.wsOf[u] # w
    <3>1. Range(rest) = {}
      BY <1>3, <1>15, HeadInRange DEF Distinct
    <3> QED BY <1>14, <3>1
  <2>2. IsInjective(gone.order)
    BY <1>5 DEF OkBeside, TabsAreListed
  <2>3. OkButWorkspace(gone, w)
    BY <1>2, <1>5, <1>6, <1>8, <1>9, <1>10, <1>11, <1>12, <1>13, <2>1, <2>2 DEF OkButWorkspace
  <2> QED BY <1>4, <1>6, <1>7, <1>15, <2>3, DropWorkspaceOk, DropWorkspaceTabs
<1>16. ASSUME rest # <<>>,
              NEW n \in Model, n.order = gone.order, n.wsOf = gone.wsOf, n.leaves = gone.leaves,
              n.focused = gone.focused, n.zoomed = gone.zoomed, n.tabOf = gone.tabOf,
              n.nextW = gone.nextW, n.nextT = gone.nextT, n.nextP = gone.nextP,
              n.tabIds[w] = rest, \A v \in WsId \ {w} : n.tabIds[v] = m.tabIds[v],
              \A v \in WsId \ {w} : n.active[v] = m.active[v],
              n.active[w] \in Range(rest)
       PROVE  Structure(n)
  <2>1. PanesAreLeaves(n) /\ FocusedAndZoomedAreLeaves(n) /\ IdsBelowNext(n)
    BY <1>8, <1>9, <1>11, <1>16
       DEF PanesAreLeaves, FocusedAndZoomedAreLeaves, IdsBelowNext, LiveWs, LiveTabs, LivePanes
  <2>2. LiveWs(n) = LiveWs(m)
    BY <1>10, <1>16 DEF LiveWs
  <2>3. TabsAreListed(n)
    <3>1. IsInjective(n.order)
      BY <1>5, <1>16 DEF OkBeside, TabsAreListed
    <3>2. ASSUME NEW v \in WsId
          PROVE  /\ IsInjective(n.tabIds[v])
                 /\ Range(n.tabIds[v]) = {u \in TabId : n.wsOf[u] = v}
                 /\ v \in LiveWs(n) <=> n.tabIds[v] # <<>>
      <4>1. CASE v = w
        BY <4>1, <1>2, <1>3, <1>14, <1>16, <2>2 DEF Distinct
      <4>2. CASE v # w
        BY <4>2, <1>13, <1>16, <2>2
      <4> QED BY <4>1, <4>2
    <3> QED BY <3>1, <3>2 DEF TabsAreListed
  <2>4. ActiveIsListed(n)
    <3> SUFFICES ASSUME NEW v \in WsId
                 PROVE  IF v \in LiveWs(n) THEN n.active[v] \in Range(n.tabIds[v]) ELSE n.active[v] = None
      BY DEF ActiveIsListed
    <3>1. CASE v = w
      BY <3>1, <1>2, <1>16, <2>2
    <3>2. CASE v # w
      BY <3>2, <1>13, <1>16, <2>2
    <3> QED BY <3>1, <3>2
  <2> QED BY <2>1, <2>3, <2>4 DEF Structure
<1>17. [m.tabIds EXCEPT ![w] = rest] \in [WsId -> Seq(TabId)]
  BY <1>1, <1>3, ModelTypes DEF Distinct
<1>18. CASE rest # <<>> /\ m.active[w] # t
  <2>1. /\ listed.order = gone.order /\ listed.tabIds = [m.tabIds EXCEPT ![w] = rest]
        /\ listed.active = m.active /\ listed.wsOf = gone.wsOf /\ listed.leaves = gone.leaves
        /\ listed.focused = gone.focused /\ listed.zoomed = gone.zoomed
        /\ listed.tabOf = gone.tabOf /\ listed.focus = gone.focus
        /\ listed.nextW = gone.nextW /\ listed.nextT = gone.nextT /\ listed.nextP = gone.nextP
    BY <1>5, <1>6 DEF Model
  <2>2. listed \in Model
    BY <1>5, <1>6, <1>17 DEF Model
  <2>3. m.active[w] \in Range(rest)
    <3>1. m.active[w] \in Range(m.tabIds[w])
      BY <1>1, <1>2 DEF OkBeside, ActiveIsListed
    <3> QED BY <3>1, <1>2, <1>3, <1>18
  <2> HIDE DEF listed
  <2>4. /\ listed.tabIds[w] = rest
        /\ \A v \in WsId \ {w} : listed.tabIds[v] = m.tabIds[v]
    BY <1>1, <2>1, ModelTypes
  <2>5. Structure(listed)
    BY <1>16, <1>18, <2>1, <2>2, <2>3, <2>4
  <2>6. Ok(listed)
    BY <1>12, <2>1, <2>2, <2>5, FocusKept
  <2> QED BY <1>4, <1>7, <1>18, <2>1, <2>6
<1>19. CASE rest # <<>> /\ m.active[w] = t
  <2>1. first \in Range(rest) /\ first \in TabId
    BY <1>3, <1>19, HeadInRange DEF Distinct
  <2> HIDE DEF first
  <2>2. /\ passed.order = gone.order /\ passed.tabIds = [m.tabIds EXCEPT ![w] = rest]
        /\ passed.active = [m.active EXCEPT ![w] = first]
        /\ passed.wsOf = gone.wsOf /\ passed.leaves = gone.leaves
        /\ passed.focused = gone.focused /\ passed.zoomed = gone.zoomed
        /\ passed.tabOf = gone.tabOf /\ passed.focus = gone.focus
        /\ passed.nextW = gone.nextW /\ passed.nextT = gone.nextT /\ passed.nextP = gone.nextP
    BY <1>5, <1>6 DEF Model
  <2>3. passed \in Model
    <3>1. [m.active EXCEPT ![w] = first] \in [WsId -> TabId \cup {None}]
      BY <1>1, <2>1, ModelTypes
    <3> QED BY <1>5, <1>6, <1>17, <3>1 DEF Model
  <2> HIDE DEF passed
  <2>4. /\ passed.tabIds[w] = rest /\ passed.active[w] = first
        /\ \A v \in WsId \ {w} : passed.tabIds[v] = m.tabIds[v] /\ passed.active[v] = m.active[v]
    BY <1>1, <2>2, ModelTypes
  <2>5. Structure(passed)
    BY <1>16, <1>19, <2>1, <2>2, <2>3, <2>4
  <2>6. m.focused[first] \in PaneId \cup {None} /\ w \in LiveWs(passed)
    BY <1>1, <1>2, <1>10, <2>1, <2>2, ModelTypes DEF LiveWs
  <2>7. Ok(SetFocus(passed, w, first, m.focused[first]))
    BY <2>1, <2>3, <2>5, <2>6, SetFocusOk
  <2>8. SetFocus(passed, w, first, m.focused[first]).wsOf = gone.wsOf
    BY <2>2, <2>3 DEF SetFocus, Model
  <2> QED BY <1>4, <1>7, <1>19, <2>7, <2>8
<1> QED BY <1>15, <1>18, <1>19

\* closeTab.
LEMMA CloseTabOk ==
  ASSUME NEW m, Ok(m), NEW t \in LiveTabs(m)
  PROVE  Ok(CloseTab(m, t))
<1> DEFINE owner == [p \in PaneId |-> IF m.tabOf[p] = t THEN None ELSE m.tabOf[p]]
           n == [m EXCEPT !.tabOf = owner]
<1>1. m \in Model /\ t \in TabId
  BY LiveTabFacts DEF Ok
<1>2. owner \in [PaneId -> TabId \cup {None}]
  BY <1>1, ModelTypes
<1>3. \A p \in PaneId : owner[p] = IF m.tabOf[p] = t THEN None ELSE m.tabOf[p]
  OBVIOUS
<1>4. CloseTab(m, t) = DropTab(n, t)
  BY DEF CloseTab
<1> HIDE DEF owner
<1>5. /\ n.order = m.order /\ n.tabIds = m.tabIds /\ n.active = m.active /\ n.wsOf = m.wsOf
      /\ n.leaves = m.leaves /\ n.focused = m.focused /\ n.zoomed = m.zoomed
      /\ n.tabOf = owner /\ n.focus = m.focus
      /\ n.nextW = m.nextW /\ n.nextT = m.nextT /\ n.nextP = m.nextP
  BY <1>1 DEF Model
<1>6. n \in Model
  BY <1>1, <1>2 DEF Model
<1> HIDE DEF n
<1>7. LiveWs(n) = LiveWs(m) /\ LiveTabs(n) = LiveTabs(m) /\ LivePanes(n) \subseteq LivePanes(m)
  BY <1>3, <1>5 DEF LiveWs, LiveTabs, LivePanes
<1>8. ASSUME NEW u \in TabId \ {t}
      PROVE  /\ IsInjective(n.leaves[u]) /\ Range(n.leaves[u]) = {p \in PaneId : n.tabOf[p] = u}
             /\ n.wsOf[u] # None <=> n.leaves[u] # <<>>
             /\ IF n.wsOf[u] = None THEN n.focused[u] = None ELSE n.focused[u] \in Range(n.leaves[u])
             /\ n.zoomed[u] \in Range(n.leaves[u]) \cup {None}
  <2>1. \A p \in PaneId : n.tabOf[p] = u <=> m.tabOf[p] = u
    BY <1>3, <1>5, IdTypes
  <2> QED BY <1>5, <2>1 DEF Ok, Consistent, PanesAreLeaves, FocusedAndZoomedAreLeaves
<1>9. TabsAreListed(n) /\ ActiveIsListed(n) /\ FocusOnOpenWorkspace(n) /\ IdsBelowNext(n)
  BY <1>5, <1>7 DEF Ok, Consistent, TabsAreListed, ActiveIsListed, FocusOnOpenWorkspace, IdsBelowNext
<1>10. OkBeside(n, t)
  BY <1>6, <1>7, <1>8, <1>9 DEF OkBeside
<1>11. \A p \in PaneId : n.tabOf[p] # t
  BY <1>1, <1>3, <1>5, IdTypes
<1> QED BY <1>4, <1>10, <1>11, DropTabOk

\* closeWorkspace.
LEMMA CloseWorkspaceOk ==
  ASSUME NEW m, Ok(m), NEW w \in LiveWs(m)
  PROVE  Ok(CloseWorkspace(m, w))
<1> DEFINE InW(t) == t # None /\ m.wsOf[t] = w
           owner == [p \in PaneId |-> IF InW(m.tabOf[p]) THEN None ELSE m.tabOf[p]]
           home == [t \in TabId |-> IF InW(t) THEN None ELSE m.wsOf[t]]
           panes == [t \in TabId |-> IF InW(t) THEN <<>> ELSE m.leaves[t]]
           focused == [t \in TabId |-> IF InW(t) THEN None ELSE m.focused[t]]
           zoomed == [t \in TabId |-> IF InW(t) THEN None ELSE m.zoomed[t]]
           n == [m EXCEPT !.tabOf = owner, !.wsOf = home, !.leaves = panes,
                          !.focused = focused, !.zoomed = zoomed]
<1>1. m \in Model /\ w \in WsId
  BY ModelTypes, HeadInRange DEF Ok, LiveWs
<1>2. CloseWorkspace(m, w) = DropWorkspace(n, w)
  BY DEF CloseWorkspace
<1>3. /\ owner \in [PaneId -> TabId \cup {None}]
      /\ home \in [TabId -> WsId \cup {None}]
      /\ focused \in [TabId -> PaneId \cup {None}]
      /\ zoomed \in [TabId -> PaneId \cup {None}]
  BY <1>1, ModelTypes
<1>4. panes \in [TabId -> Seq(PaneId)]
  <2>1. <<>> \in Seq(PaneId)
    OBVIOUS
  <2> QED BY <1>1, <2>1, ModelTypes
<1>5. \A t \in TabId : IF m.wsOf[t] = w
                         THEN home[t] = None /\ panes[t] = <<>> /\ focused[t] = None /\ zoomed[t] = None
                         ELSE /\ home[t] = m.wsOf[t] /\ panes[t] = m.leaves[t]
                              /\ focused[t] = m.focused[t] /\ zoomed[t] = m.zoomed[t]
  BY IdTypes
<1>6. \A p \in PaneId : owner[p] = IF InW(m.tabOf[p]) THEN None ELSE m.tabOf[p]
  OBVIOUS
<1> HIDE DEF owner, home, panes, focused, zoomed
<1>7. /\ n.order = m.order /\ n.tabIds = m.tabIds /\ n.active = m.active /\ n.wsOf = home
      /\ n.leaves = panes /\ n.focused = focused /\ n.zoomed = zoomed
      /\ n.tabOf = owner /\ n.focus = m.focus
      /\ n.nextW = m.nextW /\ n.nextT = m.nextT /\ n.nextP = m.nextP
  BY <1>1 DEF Model
<1>8. n \in Model
  BY <1>1, <1>3, <1>4 DEF Model
<1> HIDE DEF n
<1>9. LiveWs(n) = LiveWs(m) /\ LiveTabs(n) \subseteq LiveTabs(m) /\ LivePanes(n) \subseteq LivePanes(m)
  BY <1>5, <1>6, <1>7 DEF LiveWs, LiveTabs, LivePanes
<1>10. PanesAreLeaves(n) /\ FocusedAndZoomedAreLeaves(n)
  <2> SUFFICES ASSUME NEW t \in TabId
               PROVE  /\ IsInjective(n.leaves[t]) /\ Range(n.leaves[t]) = {p \in PaneId : n.tabOf[p] = t}
                      /\ n.wsOf[t] # None <=> n.leaves[t] # <<>>
                      /\ IF n.wsOf[t] = None THEN n.focused[t] = None
                         ELSE n.focused[t] \in Range(n.leaves[t])
                      /\ n.zoomed[t] \in Range(n.leaves[t]) \cup {None}
    BY DEF PanesAreLeaves, FocusedAndZoomedAreLeaves
  <2>1. CASE m.wsOf[t] = w
    <3>1. IsInjective(<<>>) /\ Range(<<>>) = {}
      BY DEF IsInjective, Range
    <3>2. \A p \in PaneId : n.tabOf[p] # t
      BY <2>1, <1>6, <1>7, IdTypes
    <3> QED BY <2>1, <3>1, <3>2, <1>5, <1>7
  <2>2. CASE m.wsOf[t] # w
    <3>1. \A p \in PaneId : n.tabOf[p] = t <=> m.tabOf[p] = t
      BY <2>2, <1>6, <1>7, IdTypes
    <3> QED BY <2>2, <3>1, <1>5, <1>7 DEF Ok, Consistent, PanesAreLeaves, FocusedAndZoomedAreLeaves
  <2> QED BY <2>1, <2>2
<1>11. ASSUME NEW v \in WsId \ {w}
       PROVE  /\ IsInjective(n.tabIds[v]) /\ Range(n.tabIds[v]) = {t \in TabId : n.wsOf[t] = v}
              /\ v \in LiveWs(n) <=> n.tabIds[v] # <<>>
              /\ IF v \in LiveWs(n) THEN n.active[v] \in Range(n.tabIds[v]) ELSE n.active[v] = None
  <2>1. \A t \in TabId : n.wsOf[t] = v <=> m.wsOf[t] = v
    BY <1>5, <1>7, IdTypes
  <2> QED BY <2>1, <1>7, <1>9 DEF Ok, Consistent, TabsAreListed, ActiveIsListed
<1>12. \A t \in TabId : n.wsOf[t] # w
  BY <1>1, <1>5, <1>7, IdTypes
<1>13. IsInjective(n.order) /\ FocusOnOpenWorkspace(n) /\ IdsBelowNext(n)
  BY <1>7, <1>9 DEF Ok, Consistent, TabsAreListed, FocusOnOpenWorkspace, IdsBelowNext
<1>14. OkButWorkspace(n, w)
  BY <1>8, <1>9, <1>10, <1>11, <1>12, <1>13 DEF OkButWorkspace
<1> QED BY <1>2, <1>14, DropWorkspaceOk

\* closePane, whatever successor the caller names.
LEMMA ClosePaneOk ==
  ASSUME NEW m, Ok(m), NEW p \in LivePanes(m), NEW successor
  PROVE  Ok(ClosePane(m, p, successor))
<1> DEFINE t == m.tabOf[p]
           rest == Without(m.leaves[t], p)
           gone == [m EXCEPT !.tabOf[p] = None, !.leaves[t] = rest, !.zoomed[t] = None]
           next == IF successor \in Range(rest) THEN successor ELSE Head(rest)
           passed == [gone EXCEPT !.focused[t] = next]
<1>1. m \in Model /\ t \in LiveTabs(m) /\ t \in TabId /\ p \in PaneId
  BY LivePaneFacts DEF Ok
<1>2. /\ m.leaves[t] \in Distinct(PaneId) /\ Range(m.leaves[t]) = {q \in PaneId : m.tabOf[q] = t}
      /\ m.wsOf[t] \in LiveWs(m) /\ m.focused[t] \in Range(m.leaves[t])
  BY <1>1, LiveTabFacts
<1>3. rest \in Distinct(PaneId) /\ Range(rest) = {q \in PaneId \ {p} : m.tabOf[q] = t}
  BY <1>2, WithoutDistinct
<1>4. ClosePane(m, p, successor) = IF rest = <<>> THEN CloseTab(m, t)
                                   ELSE IF m.focused[t] # p THEN gone
                                   ELSE SetFocus(passed, m.wsOf[t], t, next)
  BY DEF ClosePane
<1>5. rest # <<>> => next \in Range(rest) /\ next \in PaneId
  BY <1>3, HeadInRange DEF Distinct
<1> HIDE DEF rest, t, next
<1>6. /\ gone.order = m.order /\ gone.tabIds = m.tabIds /\ gone.active = m.active /\ gone.wsOf = m.wsOf
      /\ gone.tabOf = [m.tabOf EXCEPT ![p] = None]
      /\ gone.leaves = [m.leaves EXCEPT ![t] = rest]
      /\ gone.zoomed = [m.zoomed EXCEPT ![t] = None]
      /\ gone.focused = m.focused /\ gone.focus = m.focus
      /\ gone.nextW = m.nextW /\ gone.nextT = m.nextT /\ gone.nextP = m.nextP
  BY <1>1 DEF Model
<1>7. gone \in Model
  <2>1. /\ [m.tabOf EXCEPT ![p] = None] \in [PaneId -> TabId \cup {None}]
        /\ [m.leaves EXCEPT ![t] = rest] \in [TabId -> Seq(PaneId)]
        /\ [m.zoomed EXCEPT ![t] = None] \in [TabId -> PaneId \cup {None}]
    BY <1>1, <1>3, ModelTypes DEF Distinct
  <2> QED BY <1>1, <2>1 DEF Model
<1> HIDE DEF gone
<1>8. /\ gone.leaves[t] = rest /\ gone.zoomed[t] = None
      /\ \A u \in TabId \ {t} : gone.leaves[u] = m.leaves[u] /\ gone.zoomed[u] = m.zoomed[u]
      /\ \A q \in PaneId : gone.tabOf[q] = IF q = p THEN None ELSE m.tabOf[q]
  BY <1>1, <1>6, ModelTypes
<1>9. \A u \in TabId \ {t}, q \in PaneId : gone.tabOf[q] = u <=> m.tabOf[q] = u
  BY <1>1, <1>8, IdTypes DEF t
<1>10. ASSUME rest # <<>>, NEW n \in Model, SameTabs(gone, n),
              n.leaves = gone.leaves, n.zoomed = gone.zoomed, n.tabOf = gone.tabOf,
              n.focused[t] \in Range(rest), \A u \in TabId \ {t} : n.focused[u] = m.focused[u]
       PROVE  Structure(n)
  <2>1. SameTabs(m, n)
    BY <1>6, <1>10 DEF SameTabs
  <2>2. OtherTabsSame(m, n, t)
    BY <1>8, <1>9, <1>10 DEF OtherTabsSame
  <2>3. \A q \in PaneId : q \in Range(n.leaves[t]) <=> n.tabOf[q] = t
    BY <1>1, <1>3, <1>8, <1>10, IdTypes
  <2>4. TabIsWhole(n, t)
    BY <1>3, <1>8, <1>10, <2>3 DEF TabIsWhole
  <2>5. \A q \in LivePanes(n) : q < m.nextP
    BY <1>8, <1>10 DEF LivePanes, Ok, Consistent, IdsBelowNext
  <2> QED BY <1>1, <2>1, <2>2, <2>4, <2>5, TabChanged
<1>11. CASE rest = <<>>
  BY <1>1, <1>4, <1>11, CloseTabOk
<1>12. CASE rest # <<>> /\ m.focused[t] # p
  <2>1. gone.focused[t] \in Range(rest)
    BY <1>1, <1>2, <1>3, <1>6, <1>12, ModelTypes
  <2>2. Structure(gone)
    BY <1>6, <1>7, <1>10, <1>12, <2>1 DEF SameTabs
  <2> QED BY <1>4, <1>6, <1>7, <1>12, <2>2, FocusKept DEF Ok, Consistent
<1>13. CASE rest # <<>> /\ m.focused[t] = p
  <2>1. /\ SameTabs(gone, passed) /\ passed.leaves = gone.leaves /\ passed.zoomed = gone.zoomed
        /\ passed.tabOf = gone.tabOf /\ passed.focused = [m.focused EXCEPT ![t] = next]
    BY <1>6, <1>7 DEF SameTabs, Model
  <2>2. passed \in Model
    <3>1. [m.focused EXCEPT ![t] = next] \in [TabId -> PaneId \cup {None}]
      BY <1>1, <1>5, <1>13, ModelTypes
    <3> QED BY <1>6, <1>7, <3>1 DEF Model
  <2> HIDE DEF passed
  <2>3. passed.focused[t] = next /\ \A u \in TabId \ {t} : passed.focused[u] = m.focused[u]
    BY <1>1, <2>1, ModelTypes
  <2>4. Structure(passed)
    BY <1>5, <1>10, <1>13, <2>1, <2>2, <2>3
  <2>5. m.wsOf[t] \in LiveWs(passed)
    BY <1>2, <1>6, <2>1 DEF SameTabs, LiveWs
  <2> QED BY <1>1, <1>4, <1>5, <1>13, <2>2, <2>4, <2>5, SetFocusOk
<1> QED BY <1>11, <1>12, <1>13

-----------------------------------------------------------------------------
(* Moves between tabs.                                                     *)

\* The source tab of a move: p is still among the leaves of s and no longer
\* says so itself; the tab shrinks or goes, no other tab does.
LEMMA LeaveTabOk ==
  ASSUME NEW m, NEW s, NEW p \in PaneId, OkBeside(m, s), m.tabOf[p] # s,
         m.leaves[s] \in Distinct(PaneId),
         Range(m.leaves[s]) = {q \in PaneId : m.tabOf[q] = s} \cup {p},
         m.focused[s] \in Range(m.leaves[s])
  PROVE  /\ Ok(LeaveTab(m, s, p))
         /\ \A u \in TabId \ {s} : LeaveTab(m, s, p).wsOf[u] = m.wsOf[u]
<1> DEFINE rest == Without(m.leaves[s], p)
           f == IF m.focused[s] = p THEN Head(rest) ELSE m.focused[s]
           n == [m EXCEPT !.leaves[s] = rest, !.focused[s] = f, !.zoomed[s] = None]
<1>1. m \in Model /\ s \in TabId /\ s \in LiveTabs(m)
  BY DEF OkBeside, LiveTabs
<1>2. rest \in Distinct(PaneId) /\ Range(rest) = {q \in PaneId : m.tabOf[q] = s}
  BY WithoutDistinct
<1>3. LeaveTab(m, s, p) = IF rest = <<>> THEN DropTab(m, s) ELSE n
  <2>1. m.focused \in [TabId -> PaneId \cup {None}]
    BY <1>1, ModelTypes
  <2> QED BY <1>1, <2>1 DEF LeaveTab
<1>4. rest # <<>> => f \in Range(rest) /\ f \in PaneId
  BY <1>2, HeadInRange DEF Distinct
<1> HIDE DEF rest, f
<1>5. CASE rest = <<>>
  <2>1. Range(rest) = {}
    BY <1>2, <1>5, HeadInRange DEF Distinct
  <2> QED BY <1>2, <1>3, <1>5, <2>1, DropTabOk
<1>6. CASE rest # <<>>
  <2>1. /\ n.order = m.order /\ n.tabIds = m.tabIds /\ n.active = m.active /\ n.wsOf = m.wsOf
        /\ n.leaves = [m.leaves EXCEPT ![s] = rest]
        /\ n.focused = [m.focused EXCEPT ![s] = f]
        /\ n.zoomed = [m.zoomed EXCEPT ![s] = None]
        /\ n.tabOf = m.tabOf /\ n.focus = m.focus
        /\ n.nextW = m.nextW /\ n.nextT = m.nextT /\ n.nextP = m.nextP
    BY <1>1 DEF Model
  <2>2. n \in Model
    <3>1. /\ [m.leaves EXCEPT ![s] = rest] \in [TabId -> Seq(PaneId)]
          /\ [m.focused EXCEPT ![s] = f] \in [TabId -> PaneId \cup {None}]
          /\ [m.zoomed EXCEPT ![s] = None] \in [TabId -> PaneId \cup {None}]
      BY <1>1, <1>2, <1>4, <1>6, ModelTypes DEF Distinct
    <3> QED BY <1>1, <3>1 DEF Model
  <2> HIDE DEF n
  <2>3. /\ n.leaves[s] = rest /\ n.focused[s] = f /\ n.zoomed[s] = None
        /\ \A u \in TabId \ {s} : /\ n.leaves[u] = m.leaves[u] /\ n.focused[u] = m.focused[u]
                                  /\ n.zoomed[u] = m.zoomed[u]
    BY <1>1, <2>1, ModelTypes
  <2>4. SameTabs(m, n) /\ OtherTabsSame(m, n, s)
    BY <2>1, <2>3 DEF SameTabs, OtherTabsSame
  <2>5. TabIsWhole(n, s)
    BY <1>2, <1>4, <1>6, <2>1, <2>3 DEF TabIsWhole
  <2>6. \A q \in LivePanes(n) : q < m.nextP
    BY <2>1 DEF LivePanes, OkBeside, IdsBelowNext
  <2>7. Structure(n)
    BY <2>2, <2>4, <2>5, <2>6, TabMended
  <2>8. Ok(n)
    BY <2>1, <2>2, <2>7, FocusKept DEF OkBeside
  <2> QED BY <1>3, <1>6, <2>1, <2>8
<1> QED BY <1>5, <1>6

\* moveToTab.
LEMMA MoveToTabOk ==
  ASSUME NEW m, Ok(m), NEW p \in LivePanes(m), NEW t \in LiveTabs(m), m.tabOf[p] # t
  PROVE  Ok(MoveToTab(m, p, t))
<1> DEFINE s == m.tabOf[p]
           longer == InsertAfter(m.leaves[t], m.focused[t], p)
           n == [m EXCEPT !.tabOf[p] = t, !.leaves[t] = longer, !.focused[t] = p, !.zoomed[t] = None]
<1>1. /\ m \in Model /\ s \in TabId /\ s \in LiveTabs(m) /\ t \in TabId /\ s # t
      /\ p \in PaneId /\ p \in Range(m.leaves[s])
  BY LivePaneFacts, LiveTabFacts DEF Ok
<1>2. /\ m.leaves[t] \in Distinct(PaneId) /\ Range(m.leaves[t]) = {q \in PaneId : m.tabOf[q] = t}
      /\ m.focused[t] \in Range(m.leaves[t]) /\ m.wsOf[t] \in WsId
      /\ m.leaves[s] \in Distinct(PaneId) /\ Range(m.leaves[s]) = {q \in PaneId : m.tabOf[q] = s}
      /\ m.focused[s] \in Range(m.leaves[s])
  BY <1>1, LiveTabFacts
<1>3. p \notin Range(m.leaves[t])
  BY <1>1, <1>2
<1>4. longer \in Distinct(PaneId) /\ Range(longer) = Range(m.leaves[t]) \cup {p}
  BY <1>1, <1>2, <1>3, InsertDistinct
<1>5. MoveToTab(m, p, t) = SetFocus(LeaveTab(n, s, p), m.wsOf[t], t, p)
  BY <1>1 DEF MoveToTab, Ok, Model
<1>6. m.tabOf[p] = s
  OBVIOUS
<1> HIDE DEF longer, s
<1>7. /\ n.order = m.order /\ n.tabIds = m.tabIds /\ n.active = m.active /\ n.wsOf = m.wsOf
      /\ n.tabOf = [m.tabOf EXCEPT ![p] = t]
      /\ n.leaves = [m.leaves EXCEPT ![t] = longer]
      /\ n.focused = [m.focused EXCEPT ![t] = p]
      /\ n.zoomed = [m.zoomed EXCEPT ![t] = None]
      /\ n.focus = m.focus /\ n.nextW = m.nextW /\ n.nextT = m.nextT /\ n.nextP = m.nextP
  BY <1>1 DEF Model
<1>8. n \in Model
  <2>1. /\ [m.tabOf EXCEPT ![p] = t] \in [PaneId -> TabId \cup {None}]
        /\ [m.leaves EXCEPT ![t] = longer] \in [TabId -> Seq(PaneId)]
        /\ [m.focused EXCEPT ![t] = p] \in [TabId -> PaneId \cup {None}]
        /\ [m.zoomed EXCEPT ![t] = None] \in [TabId -> PaneId \cup {None}]
    BY <1>1, <1>4, ModelTypes DEF Distinct
  <2> QED BY <1>1, <2>1 DEF Model
<1> HIDE DEF n
<1>9. /\ n.leaves[t] = longer /\ n.focused[t] = p /\ n.zoomed[t] = None
      /\ \A u \in TabId \ {t} : /\ n.leaves[u] = m.leaves[u] /\ n.focused[u] = m.focused[u]
                                /\ n.zoomed[u] = m.zoomed[u]
      /\ \A q \in PaneId : n.tabOf[q] = IF q = p THEN t ELSE m.tabOf[q]
  BY <1>1, <1>7, ModelTypes
<1>10. LiveWs(n) = LiveWs(m) /\ LiveTabs(n) = LiveTabs(m) /\ LivePanes(n) \subseteq LivePanes(m)
  BY <1>1, <1>7, <1>9 DEF LiveWs, LiveTabs, LivePanes
<1>11. ASSUME NEW u \in TabId \ {s}
       PROVE  /\ IsInjective(n.leaves[u]) /\ Range(n.leaves[u]) = {q \in PaneId : n.tabOf[q] = u}
              /\ n.wsOf[u] # None <=> n.leaves[u] # <<>>
              /\ IF n.wsOf[u] = None THEN n.focused[u] = None ELSE n.focused[u] \in Range(n.leaves[u])
              /\ n.zoomed[u] \in Range(n.leaves[u]) \cup {None}
  <2>1. CASE u = t
    <3>1. IsInjective(longer) /\ p \in Range(longer) /\ longer # <<>>
      BY <1>4, HeadInRange DEF Distinct
    <3>2. Range(n.leaves[t]) = {q \in PaneId : n.tabOf[q] = t}
      BY <1>1, <1>2, <1>4, <1>9
    <3>3. n.wsOf[t] # None
      BY <1>2, <1>7, IdTypes
    <3> QED BY <2>1, <3>1, <3>2, <3>3, <1>9
  <2>2. CASE u # t
    <3>1. \A q \in PaneId : n.tabOf[q] = u <=> m.tabOf[q] = u
      BY <2>2, <1>6, <1>9
    <3> QED BY <2>2, <3>1, <1>7, <1>9 DEF Ok, Consistent, PanesAreLeaves, FocusedAndZoomedAreLeaves
  <2> QED BY <2>1, <2>2
<1>12. TabsAreListed(n) /\ ActiveIsListed(n) /\ FocusOnOpenWorkspace(n) /\ IdsBelowNext(n)
  BY <1>7, <1>10 DEF Ok, Consistent, TabsAreListed, ActiveIsListed, FocusOnOpenWorkspace, IdsBelowNext
<1>13. OkBeside(n, s)
  BY <1>1, <1>8, <1>10, <1>11, <1>12 DEF OkBeside
<1>14. /\ n.tabOf[p] # s /\ n.leaves[s] \in Distinct(PaneId)
       /\ n.focused[s] \in Range(n.leaves[s])
       /\ Range(n.leaves[s]) = {q \in PaneId : n.tabOf[q] = s} \cup {p}
  <2>1. n.leaves[s] = m.leaves[s] /\ n.focused[s] = m.focused[s]
    BY <1>1, <1>9
  <2> QED BY <1>1, <1>2, <1>6, <1>9, <2>1
<1> DEFINE left == LeaveTab(n, s, p)
<1>15. Ok(left) /\ left.wsOf[t] = m.wsOf[t]
  <2>1. Ok(left) /\ \A u \in TabId \ {s} : left.wsOf[u] = n.wsOf[u]
    BY <1>1, <1>13, <1>14, LeaveTabOk
  <2> QED BY <1>1, <1>7, <2>1
<1> HIDE DEF left
<1>16. m.wsOf[t] \in LiveWs(left)
  <2>1. t \in LiveTabs(left)
    BY <1>1, <1>2, <1>15, IdTypes DEF LiveTabs
  <2> QED BY <1>15, <2>1, LiveTabFacts
<1>17. left \in Model /\ Structure(left)
  BY <1>15 DEF Ok, Consistent, Structure
<1> QED BY <1>1, <1>5, <1>16, <1>17, SetFocusOk DEF left

\* A new tab at the end of a workspace's strip, and active there.
LEMMA TabListed ==
  ASSUME NEW m \in Model, TabsAreListed(m), ActiveIsListed(m),
         NEW w \in LiveWs(m), NEW t \in TabId \ LiveTabs(m), NEW n,
         n.order = m.order,
         n.tabIds = [m.tabIds EXCEPT ![w] = Append(m.tabIds[w], t)],
         n.active = [m.active EXCEPT ![w] = t],
         n.wsOf = [m.wsOf EXCEPT ![t] = w]
  PROVE  TabsAreListed(n) /\ ActiveIsListed(n)
<1>1. w \in WsId /\ w # None /\ m.wsOf[t] = None
  BY ModelTypes, HeadInRange, IdTypes DEF LiveWs, LiveTabs
<1>2. m.tabIds[w] \in Distinct(TabId) /\ Range(m.tabIds[w]) = {u \in TabId : m.wsOf[u] = w}
  BY <1>1, ModelTypes DEF TabsAreListed, Distinct
<1>3. t \notin Range(m.tabIds[w])
  BY <1>1, <1>2
<1>4. /\ Append(m.tabIds[w], t) \in Distinct(TabId)
      /\ Range(Append(m.tabIds[w], t)) = Range(m.tabIds[w]) \cup {t}
  BY <1>2, <1>3, AppendDistinct
<1>5. /\ n.tabIds[w] = Append(m.tabIds[w], t) /\ n.active[w] = t
      /\ \A v \in WsId \ {w} : n.tabIds[v] = m.tabIds[v] /\ n.active[v] = m.active[v]
      /\ \A u \in TabId : n.wsOf[u] = IF u = t THEN w ELSE m.wsOf[u]
  BY <1>1, ModelTypes
<1>6. LiveWs(n) = LiveWs(m)
  BY DEF LiveWs
<1>7. TabsAreListed(n)
  <2>1. IsInjective(n.order)
    BY DEF TabsAreListed
  <2>2. ASSUME NEW v \in WsId
        PROVE  /\ IsInjective(n.tabIds[v]) /\ Range(n.tabIds[v]) = {u \in TabId : n.wsOf[u] = v}
               /\ v \in LiveWs(n) <=> n.tabIds[v] # <<>>
    <3>1. CASE v = w
      <4>1. Append(m.tabIds[w], t) # <<>>
        BY <1>4, HeadInRange DEF Distinct
      <4> QED BY <3>1, <4>1, <1>2, <1>4, <1>5, <1>6 DEF Distinct
    <3>2. CASE v # w
      <4>1. \A u \in TabId : n.wsOf[u] = v <=> m.wsOf[u] = v
        BY <3>2, <1>1, <1>5, IdTypes
      <4> QED BY <3>2, <4>1, <1>5, <1>6 DEF TabsAreListed
    <3> QED BY <3>1, <3>2
  <2> QED BY <2>1, <2>2 DEF TabsAreListed
<1>8. ActiveIsListed(n)
  <2> SUFFICES ASSUME NEW v \in WsId
               PROVE  IF v \in LiveWs(n) THEN n.active[v] \in Range(n.tabIds[v]) ELSE n.active[v] = None
    BY DEF ActiveIsListed
  <2>1. CASE v = w
    BY <2>1, <1>4, <1>5, <1>6
  <2>2. CASE v # w
    BY <2>2, <1>5, <1>6 DEF ActiveIsListed
  <2> QED BY <2>1, <2>2
<1> QED BY <1>7, <1>8

\* moveToNewTab, the new tab's id being the next one.
LEMMA MoveToNewTabOk ==
  ASSUME NEW m, Ok(m), NEW p \in LivePanes(m), NEW w \in LiveWs(m), m.nextT \in TabId
  PROVE  Ok(MoveToNewTab(m, p, w))
<1> DEFINE t == m.nextT
           s == m.tabOf[p]
           n == [m EXCEPT !.nextT = t + 1,
                          !.tabOf[p] = t,
                          !.wsOf[t] = w,
                          !.leaves[t] = <<p>>,
                          !.focused[t] = p,
                          !.tabIds[w] = Append(m.tabIds[w], t),
                          !.active[w] = t]
<1>1. /\ m \in Model /\ s \in TabId /\ s \in LiveTabs(m) /\ t \in TabId /\ t \in Nat
      /\ p \in PaneId /\ p \in Range(m.leaves[s]) /\ w \in WsId /\ w # None
  BY LivePaneFacts, ModelTypes, HeadInRange, IdTypes DEF Ok, LiveWs
<1>2. t \notin LiveTabs(m)
  BY <1>1 DEF Ok, Consistent, IdsBelowNext
<1>3. s # t /\ m.wsOf[t] = None /\ m.tabOf[p] = s
  BY <1>1, <1>2 DEF LiveTabs
<1>4. /\ m.leaves[s] \in Distinct(PaneId) /\ Range(m.leaves[s]) = {q \in PaneId : m.tabOf[q] = s}
      /\ m.focused[s] \in Range(m.leaves[s])
  BY <1>1, LiveTabFacts
<1>5. MoveToNewTab(m, p, w) = SetFocus(LeaveTab(n, s, p), w, t, p)
  BY <1>1 DEF MoveToNewTab, Ok, Model
<1>6. m.zoomed[t] = None /\ \A q \in PaneId : m.tabOf[q] # t
  <2>1. m.leaves[t] = <<>>
    BY <1>1, <1>3 DEF Ok, Consistent, PanesAreLeaves
  <2>2. Range(m.leaves[t]) = {}
    BY <1>1, <2>1, ModelTypes, HeadInRange
  <2> QED BY <1>1, <2>2 DEF Ok, Consistent, PanesAreLeaves, FocusedAndZoomedAreLeaves
<1> HIDE DEF s, t
<1>7. /\ n.order = m.order /\ n.tabIds = [m.tabIds EXCEPT ![w] = Append(m.tabIds[w], t)]
      /\ n.active = [m.active EXCEPT ![w] = t] /\ n.wsOf = [m.wsOf EXCEPT ![t] = w]
      /\ n.tabOf = [m.tabOf EXCEPT ![p] = t]
      /\ n.leaves = [m.leaves EXCEPT ![t] = <<p>>]
      /\ n.focused = [m.focused EXCEPT ![t] = p]
      /\ n.zoomed = m.zoomed
      /\ n.focus = m.focus /\ n.nextW = m.nextW /\ n.nextT = t + 1 /\ n.nextP = m.nextP
  BY <1>1 DEF Model
<1>8. <<p>> \in Distinct(PaneId) /\ Range(<<p>>) = {p} /\ <<p>> # <<>>
  BY <1>1, SingletonDistinct
<1>9. n \in Model
  <2>1. /\ [m.tabOf EXCEPT ![p] = t] \in [PaneId -> TabId \cup {None}]
        /\ [m.wsOf EXCEPT ![t] = w] \in [TabId -> WsId \cup {None}]
        /\ [m.leaves EXCEPT ![t] = <<p>>] \in [TabId -> Seq(PaneId)]
        /\ [m.focused EXCEPT ![t] = p] \in [TabId -> PaneId \cup {None}]
        /\ [m.active EXCEPT ![w] = t] \in [WsId -> TabId \cup {None}]
    BY <1>1, <1>8, ModelTypes DEF Distinct
  <2>2. [m.tabIds EXCEPT ![w] = Append(m.tabIds[w], t)] \in [WsId -> Seq(TabId)]
    BY <1>1, ModelTypes
  <2>3. t + 1 \in Nat
    BY <1>1
  <2> QED BY <1>1, <2>1, <2>2, <2>3, ZenonT(60) DEF Model
<1> HIDE DEF n
<1>10. /\ n.wsOf[t] = w /\ n.leaves[t] = <<p>> /\ n.focused[t] = p
       /\ \A u \in TabId \ {t} : /\ n.wsOf[u] = m.wsOf[u] /\ n.leaves[u] = m.leaves[u]
                                 /\ n.focused[u] = m.focused[u]
       /\ \A q \in PaneId : n.tabOf[q] = IF q = p THEN t ELSE m.tabOf[q]
  BY <1>1, <1>7, ModelTypes, SMTT(30)
<1>11. /\ LiveWs(n) = LiveWs(m) /\ LiveTabs(n) = LiveTabs(m) \cup {t}
       /\ LivePanes(n) \subseteq LivePanes(m)
  BY <1>1, <1>7, <1>10 DEF LiveWs, LiveTabs, LivePanes
<1>12. ASSUME NEW u \in TabId \ {s}
       PROVE  /\ IsInjective(n.leaves[u]) /\ Range(n.leaves[u]) = {q \in PaneId : n.tabOf[q] = u}
              /\ n.wsOf[u] # None <=> n.leaves[u] # <<>>
              /\ IF n.wsOf[u] = None THEN n.focused[u] = None ELSE n.focused[u] \in Range(n.leaves[u])
              /\ n.zoomed[u] \in Range(n.leaves[u]) \cup {None}
  <2>1. CASE u = t
    <3>1. {q \in PaneId : n.tabOf[q] = t} = {p}
      BY <1>1, <1>6, <1>10
    <3> QED BY <2>1, <3>1, <1>1, <1>6, <1>7, <1>8, <1>10 DEF Distinct
  <2>2. CASE u # t
    <3>1. \A q \in PaneId : n.tabOf[q] = u <=> m.tabOf[q] = u
      BY <2>2, <1>3, <1>10
    <3> QED BY <2>2, <3>1, <1>7, <1>10 DEF Ok, Consistent, PanesAreLeaves, FocusedAndZoomedAreLeaves
  <2> QED BY <2>1, <2>2
<1>13. TabsAreListed(n) /\ ActiveIsListed(n)
  BY <1>1, <1>2, <1>7, TabListed, ZenonT(60) DEF Ok, Consistent
<1>14. FocusOnOpenWorkspace(n)
  BY <1>7, <1>11 DEF Ok, Consistent, FocusOnOpenWorkspace
<1>15. IdsBelowNext(n)
  <2>1. \A u \in LiveTabs(m) : u < t /\ u \in Nat
    BY DEF Ok, Consistent, IdsBelowNext, t, LiveTabs, TabId
  <2> QED BY <1>1, <1>7, <1>11, <2>1 DEF Ok, Consistent, IdsBelowNext
<1>16. OkBeside(n, s)
  BY <1>1, <1>9, <1>11, <1>12, <1>13, <1>14, <1>15 DEF OkBeside
<1>17. /\ n.tabOf[p] # s /\ n.leaves[s] \in Distinct(PaneId)
       /\ n.focused[s] \in Range(n.leaves[s])
       /\ Range(n.leaves[s]) = {q \in PaneId : n.tabOf[q] = s} \cup {p}
  <2>1. n.leaves[s] = m.leaves[s] /\ n.focused[s] = m.focused[s]
    BY <1>1, <1>3, <1>10
  <2> QED BY <1>1, <1>3, <1>4, <1>10, <2>1
<1> DEFINE left == LeaveTab(n, s, p)
<1>18. Ok(left) /\ left.wsOf[t] = w
  <2>1. Ok(left) /\ \A u \in TabId \ {s} : left.wsOf[u] = n.wsOf[u]
    BY <1>1, <1>16, <1>17, LeaveTabOk
  <2> QED BY <1>1, <1>3, <1>10, <2>1
<1> HIDE DEF left
<1>19. w \in LiveWs(left)
  <2>1. t \in LiveTabs(left)
    BY <1>1, <1>18 DEF LiveTabs
  <2> QED BY <1>18, <2>1, LiveTabFacts
<1>20. left \in Model /\ Structure(left)
  BY <1>18 DEF Ok, Consistent, Structure
<1> QED BY <1>1, <1>5, <1>19, <1>20, SetFocusOk DEF left

-----------------------------------------------------------------------------
(* Creation.                                                               *)

\* commitTab with reserved ids, the workspace being open.
LEMMA CommitTabOk ==
  ASSUME NEW m, Ok(m), NEW w \in LiveWs(m), NEW t \in TabId \ LiveTabs(m),
         NEW p \in PaneId \ LivePanes(m), t < m.nextT, p < m.nextP
  PROVE  Ok(CommitTab(m, w, t, p))
<1> DEFINE n == [m EXCEPT !.tabIds[w] = Append(m.tabIds[w], t),
                          !.active[w] = t,
                          !.wsOf[t] = w,
                          !.leaves[t] = <<p>>,
                          !.focused[t] = p,
                          !.tabOf[p] = t]
<1>1. m \in Model /\ w \in WsId /\ w # None /\ m.wsOf[t] = None /\ m.tabOf[p] = None
  BY ModelTypes, HeadInRange, IdTypes DEF Ok, LiveWs, LiveTabs, LivePanes
<1>2. CommitTab(m, w, t, p) = SetFocus(n, w, t, p)
  BY <1>1 DEF CommitTab, Model
<1>3. m.zoomed[t] = None /\ \A q \in PaneId : m.tabOf[q] # t
  <2>1. m.leaves[t] = <<>>
    BY <1>1 DEF Ok, Consistent, PanesAreLeaves
  <2>2. Range(m.leaves[t]) = {}
    BY <1>1, <2>1, ModelTypes, HeadInRange
  <2> QED BY <1>1, <2>2 DEF Ok, Consistent, PanesAreLeaves, FocusedAndZoomedAreLeaves
<1>4. /\ n.order = m.order /\ n.tabIds = [m.tabIds EXCEPT ![w] = Append(m.tabIds[w], t)]
      /\ n.active = [m.active EXCEPT ![w] = t] /\ n.wsOf = [m.wsOf EXCEPT ![t] = w]
      /\ n.tabOf = [m.tabOf EXCEPT ![p] = t]
      /\ n.leaves = [m.leaves EXCEPT ![t] = <<p>>]
      /\ n.focused = [m.focused EXCEPT ![t] = p]
      /\ n.zoomed = m.zoomed
      /\ n.focus = m.focus /\ n.nextW = m.nextW /\ n.nextT = m.nextT /\ n.nextP = m.nextP
  BY <1>1 DEF Model
<1>5. <<p>> \in Distinct(PaneId) /\ Range(<<p>>) = {p} /\ <<p>> # <<>>
  BY <1>1, SingletonDistinct
<1>6. n \in Model
  <2>1. /\ [m.tabOf EXCEPT ![p] = t] \in [PaneId -> TabId \cup {None}]
        /\ [m.wsOf EXCEPT ![t] = w] \in [TabId -> WsId \cup {None}]
        /\ [m.leaves EXCEPT ![t] = <<p>>] \in [TabId -> Seq(PaneId)]
        /\ [m.focused EXCEPT ![t] = p] \in [TabId -> PaneId \cup {None}]
        /\ [m.active EXCEPT ![w] = t] \in [WsId -> TabId \cup {None}]
    BY <1>1, <1>5, ModelTypes DEF Distinct
  <2>2. [m.tabIds EXCEPT ![w] = Append(m.tabIds[w], t)] \in [WsId -> Seq(TabId)]
    BY <1>1, ModelTypes
  <2> QED BY <1>1, <2>1, <2>2 DEF Model
<1> HIDE DEF n
<1>7. /\ n.wsOf[t] = w /\ n.leaves[t] = <<p>> /\ n.focused[t] = p
      /\ \A u \in TabId \ {t} : /\ n.wsOf[u] = m.wsOf[u] /\ n.leaves[u] = m.leaves[u]
                                /\ n.focused[u] = m.focused[u]
      /\ \A q \in PaneId : n.tabOf[q] = IF q = p THEN t ELSE m.tabOf[q]
  BY <1>1, <1>4, ModelTypes
<1>8. PanesAreLeaves(n) /\ FocusedAndZoomedAreLeaves(n)
  <2> SUFFICES ASSUME NEW u \in TabId
               PROVE  /\ IsInjective(n.leaves[u]) /\ Range(n.leaves[u]) = {q \in PaneId : n.tabOf[q] = u}
                      /\ n.wsOf[u] # None <=> n.leaves[u] # <<>>
                      /\ IF n.wsOf[u] = None THEN n.focused[u] = None
                         ELSE n.focused[u] \in Range(n.leaves[u])
                      /\ n.zoomed[u] \in Range(n.leaves[u]) \cup {None}
    BY DEF PanesAreLeaves, FocusedAndZoomedAreLeaves
  <2>1. CASE u = t
    <3>1. {q \in PaneId : n.tabOf[q] = t} = {p}
      BY <1>3, <1>7
    <3> QED BY <2>1, <3>1, <1>1, <1>3, <1>4, <1>5, <1>7 DEF Distinct
  <2>2. CASE u # t
    <3>1. \A q \in PaneId : n.tabOf[q] = u <=> m.tabOf[q] = u
      BY <2>2, <1>1, <1>7, IdTypes
    <3> QED BY <2>2, <3>1, <1>4, <1>7 DEF Ok, Consistent, PanesAreLeaves, FocusedAndZoomedAreLeaves
  <2> QED BY <2>1, <2>2
<1>9. TabsAreListed(n) /\ ActiveIsListed(n)
  <2>1. m \in Model /\ TabsAreListed(m) /\ ActiveIsListed(m)
    BY DEF Ok, Consistent
  <2> QED BY ONLY <2>1, <1>4, TabListed, w \in LiveWs(m), t \in TabId \ LiveTabs(m), ZenonT(60)
<1>10. /\ LiveWs(n) = LiveWs(m) /\ LiveTabs(n) \subseteq LiveTabs(m) \cup {t}
       /\ LivePanes(n) \subseteq LivePanes(m) \cup {p}
  BY <1>1, <1>4, <1>7 DEF LiveWs, LiveTabs, LivePanes
<1>11. IdsBelowNext(n)
  BY <1>4, <1>10 DEF Ok, Consistent, IdsBelowNext
<1>12. Structure(n)
  BY <1>8, <1>9, <1>11 DEF Structure
<1> QED BY <1>1, <1>2, <1>6, <1>10, <1>12, SetFocusOk

\* commitWorkspace with reserved ids.
LEMMA CommitWorkspaceOk ==
  ASSUME NEW m, Ok(m), NEW w \in WsId \ LiveWs(m), NEW t \in TabId \ LiveTabs(m),
         NEW p \in PaneId \ LivePanes(m), w < m.nextW, t < m.nextT, p < m.nextP
  PROVE  Ok(CommitWorkspace(m, w, t, p))
<1> DEFINE n == [m EXCEPT !.order = Append(m.order, w),
                          !.tabIds[w] = <<t>>,
                          !.active[w] = t,
                          !.wsOf[t] = w,
                          !.leaves[t] = <<p>>,
                          !.focused[t] = p,
                          !.tabOf[p] = t]
<1>1. /\ m \in Model /\ w # None /\ m.wsOf[t] = None /\ m.tabOf[p] = None
      /\ m.order \in Distinct(WsId) /\ w \notin Range(m.order)
  BY ModelTypes, IdTypes DEF Ok, LiveWs, LiveTabs, LivePanes, Consistent, TabsAreListed, Distinct
<1>2. CommitWorkspace(m, w, t, p) = SetFocus(n, w, t, p)
  BY <1>1 DEF CommitWorkspace, Model
<1>3. m.zoomed[t] = None /\ \A q \in PaneId : m.tabOf[q] # t
  <2>1. m.leaves[t] = <<>>
    BY <1>1 DEF Ok, Consistent, PanesAreLeaves
  <2>2. Range(m.leaves[t]) = {}
    BY <1>1, <2>1, ModelTypes, HeadInRange
  <2> QED BY <1>1, <2>2 DEF Ok, Consistent, PanesAreLeaves, FocusedAndZoomedAreLeaves
<1>4. \A u \in TabId : m.wsOf[u] # w
  <2>1. m.tabIds[w] = <<>>
    BY <1>1 DEF Ok, Consistent, TabsAreListed
  <2>2. Range(m.tabIds[w]) = {}
    BY <1>1, <2>1, ModelTypes, HeadInRange
  <2> QED BY <2>2 DEF Ok, Consistent, TabsAreListed
<1>5. /\ n.order = Append(m.order, w) /\ n.tabIds = [m.tabIds EXCEPT ![w] = <<t>>]
      /\ n.active = [m.active EXCEPT ![w] = t] /\ n.wsOf = [m.wsOf EXCEPT ![t] = w]
      /\ n.tabOf = [m.tabOf EXCEPT ![p] = t]
      /\ n.leaves = [m.leaves EXCEPT ![t] = <<p>>]
      /\ n.focused = [m.focused EXCEPT ![t] = p]
      /\ n.zoomed = m.zoomed
      /\ n.focus = m.focus /\ n.nextW = m.nextW /\ n.nextT = m.nextT /\ n.nextP = m.nextP
  BY <1>1 DEF Model
<1>6. /\ <<p>> \in Distinct(PaneId) /\ Range(<<p>>) = {p} /\ <<p>> # <<>>
      /\ <<t>> \in Distinct(TabId) /\ Range(<<t>>) = {t} /\ <<t>> # <<>>
  BY <1>1, SingletonDistinct
<1>7. Append(m.order, w) \in Distinct(WsId) /\ Range(Append(m.order, w)) = LiveWs(m) \cup {w}
  BY <1>1, AppendDistinct DEF LiveWs
<1>8. n \in Model
  <2>1. /\ [m.tabOf EXCEPT ![p] = t] \in [PaneId -> TabId \cup {None}]
        /\ [m.wsOf EXCEPT ![t] = w] \in [TabId -> WsId \cup {None}]
        /\ [m.leaves EXCEPT ![t] = <<p>>] \in [TabId -> Seq(PaneId)]
        /\ [m.focused EXCEPT ![t] = p] \in [TabId -> PaneId \cup {None}]
        /\ [m.active EXCEPT ![w] = t] \in [WsId -> TabId \cup {None}]
        /\ [m.tabIds EXCEPT ![w] = <<t>>] \in [WsId -> Seq(TabId)]
        /\ Append(m.order, w) \in Seq(WsId)
    BY <1>1, <1>6, <1>7, ModelTypes DEF Distinct
  <2> QED BY <1>1, <2>1 DEF Model
<1> HIDE DEF n
<1>9. /\ n.wsOf[t] = w /\ n.leaves[t] = <<p>> /\ n.focused[t] = p
      /\ \A u \in TabId \ {t} : /\ n.wsOf[u] = m.wsOf[u] /\ n.leaves[u] = m.leaves[u]
                                /\ n.focused[u] = m.focused[u]
      /\ \A q \in PaneId : n.tabOf[q] = IF q = p THEN t ELSE m.tabOf[q]
      /\ n.tabIds[w] = <<t>> /\ n.active[w] = t
      /\ \A v \in WsId \ {w} : n.tabIds[v] = m.tabIds[v] /\ n.active[v] = m.active[v]
  BY <1>1, <1>5, ModelTypes
<1>10. PanesAreLeaves(n) /\ FocusedAndZoomedAreLeaves(n)
  <2> SUFFICES ASSUME NEW u \in TabId
               PROVE  /\ IsInjective(n.leaves[u]) /\ Range(n.leaves[u]) = {q \in PaneId : n.tabOf[q] = u}
                      /\ n.wsOf[u] # None <=> n.leaves[u] # <<>>
                      /\ IF n.wsOf[u] = None THEN n.focused[u] = None
                         ELSE n.focused[u] \in Range(n.leaves[u])
                      /\ n.zoomed[u] \in Range(n.leaves[u]) \cup {None}
    BY DEF PanesAreLeaves, FocusedAndZoomedAreLeaves
  <2>1. CASE u = t
    <3>1. {q \in PaneId : n.tabOf[q] = t} = {p}
      BY <1>3, <1>9
    <3> QED BY <2>1, <3>1, <1>1, <1>3, <1>5, <1>6, <1>9, ZenonT(60) DEF Distinct
  <2>2. CASE u # t
    <3>1. \A q \in PaneId : n.tabOf[q] = u <=> m.tabOf[q] = u
      BY <2>2, <1>1, <1>9, IdTypes
    <3> QED BY <2>2, <3>1, <1>5, <1>9 DEF Ok, Consistent, PanesAreLeaves, FocusedAndZoomedAreLeaves
  <2> QED BY <2>1, <2>2
<1>11. /\ LiveWs(n) = LiveWs(m) \cup {w} /\ LiveTabs(n) \subseteq LiveTabs(m) \cup {t}
       /\ LivePanes(n) \subseteq LivePanes(m) \cup {p}
  BY <1>5, <1>7, <1>9 DEF LiveWs, LiveTabs, LivePanes
<1>12. TabsAreListed(n)
  <2>1. IsInjective(n.order)
    BY <1>5, <1>7 DEF Distinct
  <2>2. ASSUME NEW v \in WsId
        PROVE  /\ IsInjective(n.tabIds[v]) /\ Range(n.tabIds[v]) = {u \in TabId : n.wsOf[u] = v}
               /\ v \in LiveWs(n) <=> n.tabIds[v] # <<>>
    <3>1. CASE v = w
      <4>1. {u \in TabId : n.wsOf[u] = w} = {t}
        BY <1>4, <1>9
      <4> QED BY <3>1, <4>1, <1>6, <1>9, <1>11 DEF Distinct
    <3>2. CASE v # w
      <4>1. \A u \in TabId : n.wsOf[u] = v <=> m.wsOf[u] = v
        BY <3>2, <1>1, <1>9, IdTypes
      <4> QED BY <3>2, <4>1, <1>9, <1>11 DEF Ok, Consistent, TabsAreListed
    <3> QED BY <3>1, <3>2
  <2> QED BY <2>1, <2>2 DEF TabsAreListed
<1>13. ActiveIsListed(n)
  <2> SUFFICES ASSUME NEW v \in WsId
               PROVE  IF v \in LiveWs(n) THEN n.active[v] \in Range(n.tabIds[v]) ELSE n.active[v] = None
    BY DEF ActiveIsListed
  <2>1. CASE v = w
    BY <2>1, <1>6, <1>9, <1>11
  <2>2. CASE v # w
    BY <2>2, <1>9, <1>11 DEF Ok, Consistent, ActiveIsListed
  <2> QED BY <2>1, <2>2
<1>14. IdsBelowNext(n)
  BY <1>5, <1>11 DEF Ok, Consistent, IdsBelowNext
<1>15. Structure(n)
  BY <1>10, <1>12, <1>13, <1>14 DEF Structure
<1> QED BY <1>2, <1>8, <1>11, <1>15, SetFocusOk

-----------------------------------------------------------------------------
(* Focus and order.                                                        *)

\* A step that only makes tab t the active tab of its workspace.
LEMMA ActiveChanged ==
  ASSUME NEW m, Ok(m), NEW t \in LiveTabs(m), NEW n, n \in Model,
         n.order = m.order, n.tabIds = m.tabIds, n.wsOf = m.wsOf,
         n.active = [m.active EXCEPT ![m.wsOf[t]] = t],
         PanesAreLeaves(n), FocusedAndZoomedAreLeaves(n), n.tabOf = m.tabOf,
         n.nextW = m.nextW, n.nextT = m.nextT, n.nextP = m.nextP
  PROVE  Structure(n)
<1>1. m \in Model /\ m.wsOf[t] \in WsId /\ m.wsOf[t] \in LiveWs(m) /\ t \in Range(m.tabIds[m.wsOf[t]])
  BY LiveTabFacts DEF Ok
<1>2. TabsAreListed(n) /\ IdsBelowNext(n)
  BY DEF Ok, Consistent, TabsAreListed, IdsBelowNext, LiveWs, LiveTabs, LivePanes
<1>3. ActiveIsListed(n)
  <2> SUFFICES ASSUME NEW v \in WsId
               PROVE  IF v \in LiveWs(n) THEN n.active[v] \in Range(n.tabIds[v]) ELSE n.active[v] = None
    BY DEF ActiveIsListed
  <2>1. n.active[v] = IF v = m.wsOf[t] THEN t ELSE m.active[v]
    BY <1>1, ModelTypes
  <2> QED BY <1>1, <2>1 DEF Ok, Consistent, ActiveIsListed, LiveWs
<1> QED BY <1>2, <1>3 DEF Structure

\* focusWorkspace.
LEMMA FocusWorkspaceOk ==
  ASSUME NEW m, Ok(m), NEW w \in LiveWs(m)
  PROVE  Ok(FocusWorkspace(m, w))
<1>1. m \in Model /\ w \in WsId /\ Structure(m)
  BY ModelTypes, HeadInRange DEF Ok, LiveWs, Consistent, Structure
<1>2. m.active[w] \in TabId
  <2>1. m.active[w] \in Range(m.tabIds[w])
    BY <1>1 DEF Ok, Consistent, ActiveIsListed
  <2> QED BY <1>1, <2>1, ModelTypes, HeadInRange
<1>3. m.focused[m.active[w]] \in PaneId \cup {None}
  BY <1>1, <1>2, ModelTypes
<1> QED BY <1>1, <1>2, <1>3, SetFocusOk DEF FocusWorkspace

\* focusTab.
LEMMA FocusTabOk ==
  ASSUME NEW m, Ok(m), NEW t \in LiveTabs(m)
  PROVE  Ok(FocusTab(m, t))
<1> DEFINE w == m.wsOf[t]
           n == [m EXCEPT !.active[w] = t]
<1>1. m \in Model /\ t \in TabId /\ w \in WsId /\ w \in LiveWs(m) /\ m.focused[t] \in PaneId
  BY LiveTabFacts DEF Ok
<1>2. FocusTab(m, t) = SetFocus(n, w, t, m.focused[t])
  BY DEF FocusTab
<1>3. /\ n.order = m.order /\ n.tabIds = m.tabIds /\ n.wsOf = m.wsOf
      /\ n.active = [m.active EXCEPT ![w] = t]
      /\ n.leaves = m.leaves /\ n.focused = m.focused /\ n.zoomed = m.zoomed /\ n.tabOf = m.tabOf
      /\ n.nextW = m.nextW /\ n.nextT = m.nextT /\ n.nextP = m.nextP
  BY <1>1 DEF Model
<1>4. n \in Model
  <2>1. [m.active EXCEPT ![w] = t] \in [WsId -> TabId \cup {None}]
    BY <1>1, ModelTypes
  <2> QED BY <1>1, <2>1 DEF Model
<1> HIDE DEF n
<1>5. PanesAreLeaves(n) /\ FocusedAndZoomedAreLeaves(n)
  BY <1>3 DEF Ok, Consistent, PanesAreLeaves, FocusedAndZoomedAreLeaves
<1>6. Structure(n)
  BY <1>3, <1>4, <1>5, ActiveChanged
<1>7. w \in LiveWs(n)
  BY <1>1, <1>3 DEF LiveWs
<1> QED BY <1>1, <1>2, <1>4, <1>6, <1>7, SetFocusOk

\* focusPane.
LEMMA FocusPaneOk ==
  ASSUME NEW m, Ok(m), NEW p \in LivePanes(m)
  PROVE  Ok(FocusPane(m, p))
<1> DEFINE t == m.tabOf[p]
           w == m.wsOf[t]
           n == [m EXCEPT !.focused[t] = p, !.active[w] = t]
<1>1. /\ m \in Model /\ t \in TabId /\ t \in LiveTabs(m) /\ p \in PaneId /\ p \in Range(m.leaves[t])
      /\ w \in WsId /\ w \in LiveWs(m) /\ w # None
  BY LivePaneFacts, LiveTabFacts, IdTypes DEF Ok
<1>2. FocusPane(m, p) = SetFocus(n, w, t, p)
  BY DEF FocusPane
<1> HIDE DEF t
<1>3. /\ n.order = m.order /\ n.tabIds = m.tabIds /\ n.wsOf = m.wsOf
      /\ n.active = [m.active EXCEPT ![w] = t] /\ n.focused = [m.focused EXCEPT ![t] = p]
      /\ n.leaves = m.leaves /\ n.zoomed = m.zoomed /\ n.tabOf = m.tabOf
      /\ n.nextW = m.nextW /\ n.nextT = m.nextT /\ n.nextP = m.nextP
  BY <1>1 DEF Model
<1>4. n \in Model
  <2>1. /\ [m.active EXCEPT ![w] = t] \in [WsId -> TabId \cup {None}]
        /\ [m.focused EXCEPT ![t] = p] \in [TabId -> PaneId \cup {None}]
    BY <1>1, ModelTypes
  <2> QED BY <1>1, <2>1 DEF Model
<1> HIDE DEF n
<1>5. PanesAreLeaves(n)
  BY <1>3 DEF Ok, Consistent, PanesAreLeaves
<1>6. FocusedAndZoomedAreLeaves(n)
  <2>1. \A u \in TabId : n.focused[u] = IF u = t THEN p ELSE m.focused[u]
    BY <1>1, <1>3, ModelTypes
  <2> QED BY <1>1, <1>3, <2>1 DEF Ok, Consistent, FocusedAndZoomedAreLeaves
<1>7. Structure(n)
  BY <1>1, <1>3, <1>4, <1>5, <1>6, ActiveChanged
<1>8. w \in LiveWs(n)
  BY <1>1, <1>3 DEF LiveWs
<1> QED BY <1>1, <1>2, <1>4, <1>7, <1>8, SetFocusOk

\* moveTab.
LEMMA MoveTabOk ==
  ASSUME NEW m, Ok(m), NEW t \in LiveTabs(m), NEW direction \in {"previous", "next"},
         Len(m.tabIds[m.wsOf[t]]) > 1
  PROVE  Ok(MoveTab(m, t, direction))
<1> DEFINE w == m.wsOf[t]
           strip == MoveOne(m.tabIds[w], t, direction)
           n == [m EXCEPT !.tabIds[w] = strip]
<1>1. /\ m \in Model /\ t \in TabId /\ w \in WsId /\ m.tabIds[w] \in Distinct(TabId)
      /\ t \in Range(m.tabIds[w])
  BY LiveTabFacts DEF Ok
<1>2. strip \in Distinct(TabId) /\ Range(strip) = Range(m.tabIds[w])
  BY <1>1, MoveOneDistinct
<1>3. MoveTab(m, t, direction) = n
  BY <1>1 DEF MoveTab, Model
<1> HIDE DEF strip, w
<1>4. /\ n.order = m.order /\ n.tabIds = [m.tabIds EXCEPT ![w] = strip] /\ n.wsOf = m.wsOf
      /\ n.active = m.active /\ n.focused = m.focused /\ n.focus = m.focus
      /\ n.leaves = m.leaves /\ n.zoomed = m.zoomed /\ n.tabOf = m.tabOf
      /\ n.nextW = m.nextW /\ n.nextT = m.nextT /\ n.nextP = m.nextP
  BY <1>1 DEF Model
<1>5. n \in Model
  <2>1. [m.tabIds EXCEPT ![w] = strip] \in [WsId -> Seq(TabId)]
    BY <1>1, <1>2, ModelTypes DEF Distinct
  <2> QED BY <1>1, <2>1 DEF Model
<1> HIDE DEF n
<1>6. \A v \in WsId : n.tabIds[v] = IF v = w THEN strip ELSE m.tabIds[v]
  BY <1>1, <1>4, ModelTypes
<1>7. strip # <<>> /\ m.tabIds[w] # <<>> /\ IsInjective(strip)
  BY <1>1, <1>2, HeadInRange DEF Distinct
<1>8. PanesAreLeaves(n) /\ FocusedAndZoomedAreLeaves(n) /\ IdsBelowNext(n)
  BY <1>4 DEF Ok, Consistent, PanesAreLeaves, FocusedAndZoomedAreLeaves, IdsBelowNext,
              LiveWs, LiveTabs, LivePanes
<1>9. TabsAreListed(n) /\ ActiveIsListed(n)
  BY <1>2, <1>4, <1>6, <1>7 DEF Ok, Consistent, TabsAreListed, ActiveIsListed, LiveWs
<1>10. Structure(n)
  BY <1>8, <1>9 DEF Structure
<1> QED BY <1>3, <1>4, <1>5, <1>10, FocusKept DEF Ok, Consistent

\* A step that only gives the workspaces another order.
LEMMA OrderChanged ==
  ASSUME NEW m, Ok(m), NEW order \in Distinct(WsId), Range(order) = LiveWs(m)
  PROVE  Ok([m EXCEPT !.order = order])
<1> DEFINE n == [m EXCEPT !.order = order]
<1>1. m \in Model /\ m.order \in Seq(WsId) /\ order \in Seq(WsId) /\ IsInjective(order)
  BY ModelTypes DEF Ok, Distinct
<1>2. /\ n.order = order /\ n.tabIds = m.tabIds /\ n.wsOf = m.wsOf
      /\ n.active = m.active /\ n.focused = m.focused /\ n.focus = m.focus
      /\ n.leaves = m.leaves /\ n.zoomed = m.zoomed /\ n.tabOf = m.tabOf
      /\ n.nextW = m.nextW /\ n.nextT = m.nextT /\ n.nextP = m.nextP
  BY <1>1 DEF Model
<1>3. n \in Model
  BY <1>1 DEF Model
<1> HIDE DEF n
<1>4. LiveWs(n) = LiveWs(m) /\ LiveTabs(n) = LiveTabs(m) /\ LivePanes(n) = LivePanes(m)
  BY <1>2 DEF LiveWs, LiveTabs, LivePanes
<1>5. order = <<>> <=> m.order = <<>>
  BY <1>1, HeadInRange DEF LiveWs
<1> QED BY <1>1, <1>2, <1>3, <1>4, <1>5
        DEF n, Ok, Consistent, PanesAreLeaves, TabsAreListed, FocusedAndZoomedAreLeaves,
            ActiveIsListed, FocusOnOpenWorkspace, IdsBelowNext

\* moveWorkspace and moveWorkspacesTo.
LEMMA ReorderOk ==
  ASSUME NEW m, Ok(m)
  PROVE  /\ \A w \in LiveWs(m), direction \in {"previous", "next"} :
              Len(m.order) > 1 => Ok(MoveWorkspace(m, w, direction))
         /\ \A order \in Rearrangements(m.order) : Ok(MoveWorkspacesTo(m, order))
<1>1. m \in Model /\ m.order \in Distinct(WsId)
  BY ModelTypes DEF Ok, Consistent, TabsAreListed, Distinct
<1>2. ASSUME NEW w \in LiveWs(m), NEW direction \in {"previous", "next"}, Len(m.order) > 1
      PROVE  Ok(MoveWorkspace(m, w, direction))
  <2> DEFINE order == MoveOne(m.order, w, direction)
  <2>1. order \in Distinct(WsId) /\ Range(order) = LiveWs(m)
    BY <1>1, <1>2, MoveOneDistinct DEF LiveWs
  <2>2. MoveWorkspace(m, w, direction) = [m EXCEPT !.order = order]
    BY <1>1 DEF MoveWorkspace, Model
  <2> QED BY <2>1, <2>2, OrderChanged
<1>3. ASSUME NEW order \in Rearrangements(m.order)
      PROVE  Ok(MoveWorkspacesTo(m, order))
  BY <1>1, RearrangementsDistinct, OrderChanged DEF MoveWorkspacesTo, LiveWs
<1> QED BY <1>2, <1>3

-----------------------------------------------------------------------------
(* Which operations open nothing.                                          *)

\* setFocus changes nothing but the focus.
LEMMA SetFocusOpensNothing ==
  ASSUME NEW a \in Model, NEW b \in Model, OpensNothing(a, b), NEW w, NEW t, NEW p
  PROVE  OpensNothing(a, SetFocus(b, w, t, p))
BY DEF SetFocus, Model, OpensNothing, LiveWs, LiveTabs, LivePanes

\* closeWorkspace, once its tabs are gone.
LEMMA DropWorkspaceOpensNothing ==
  ASSUME NEW a \in Model, IsInjective(a.order), NEW w
  PROVE  OpensNothing(a, DropWorkspace(a, w))
<1> DEFINE rest == Without(a.order, w)
<1>1. Range(rest) \subseteq LiveWs(a)
  BY ModelTypes, WithoutDistinct DEF LiveWs, Distinct
<1> HIDE DEF rest
<1>2. /\ DropWorkspace(a, w).order = rest
      /\ DropWorkspace(a, w).wsOf = a.wsOf
      /\ DropWorkspace(a, w).tabOf = a.tabOf
      /\ DropWorkspace(a, w).nextW = a.nextW
      /\ DropWorkspace(a, w).nextT = a.nextT
      /\ DropWorkspace(a, w).nextP = a.nextP
  BY DEF DropWorkspace, SetFocus, Model, rest
<1> QED BY <1>1, <1>2 DEF OpensNothing, LiveWs, LiveTabs, LivePanes

\* The tab goes, at most its workspace with it.
LEMMA DropTabOpensNothing ==
  ASSUME NEW a \in Model, IsInjective(a.order), NEW t \in TabId
  PROVE  OpensNothing(a, DropTab(a, t))
<1> DEFINE w == a.wsOf[t]
           rest == Without(a.tabIds[w], t)
           gone == [a EXCEPT !.wsOf[t] = None, !.leaves[t] = <<>>,
                             !.focused[t] = None, !.zoomed[t] = None]
           first == Head(rest)
<1>1. DropTab(a, t) = IF rest = <<>> THEN DropWorkspace(gone, w)
                      ELSE IF a.active[w] # t THEN [gone EXCEPT !.tabIds[w] = rest]
                      ELSE SetFocus([gone EXCEPT !.tabIds[w] = rest, !.active[w] = first],
                                    w, first, a.focused[first])
  BY DEF DropTab
<1> HIDE DEF rest, w, first
<1>2. /\ gone.order = a.order /\ gone.wsOf = [a.wsOf EXCEPT ![t] = None]
      /\ gone.leaves = [a.leaves EXCEPT ![t] = <<>>]
      /\ gone.focused = [a.focused EXCEPT ![t] = None]
      /\ gone.zoomed = [a.zoomed EXCEPT ![t] = None]
      /\ gone.tabOf = a.tabOf
      /\ gone.nextW = a.nextW /\ gone.nextT = a.nextT /\ gone.nextP = a.nextP
  BY DEF Model
<1>3. gone \in Model
  <2>1. <<>> \in Seq(PaneId)
    OBVIOUS
  <2>2. /\ [a.wsOf EXCEPT ![t] = None] \in [TabId -> WsId \cup {None}]
        /\ [a.leaves EXCEPT ![t] = <<>>] \in [TabId -> Seq(PaneId)]
        /\ [a.focused EXCEPT ![t] = None] \in [TabId -> PaneId \cup {None}]
        /\ [a.zoomed EXCEPT ![t] = None] \in [TabId -> PaneId \cup {None}]
    BY <2>1, ModelTypes
  <2> QED BY <2>2 DEF Model
<1> HIDE DEF gone
<1>4. \A u \in TabId : gone.wsOf[u] = IF u = t THEN None ELSE a.wsOf[u]
  BY <1>2, ModelTypes
<1>5. /\ LiveWs(gone) = LiveWs(a) /\ LiveTabs(gone) \subseteq LiveTabs(a)
      /\ LivePanes(gone) = LivePanes(a)
  BY <1>2, <1>4 DEF LiveWs, LiveTabs, LivePanes
<1>6. CASE rest = <<>>
  <2>1. OpensNothing(gone, DropWorkspace(gone, w))
    BY <1>2, <1>3, DropWorkspaceOpensNothing
  <2> QED BY <1>1, <1>2, <1>5, <1>6, <2>1 DEF OpensNothing
<1>7. CASE rest # <<>>
  <2> DEFINE b == DropTab(a, t)
  <2>1. /\ b.order = gone.order /\ b.wsOf = gone.wsOf /\ b.tabOf = gone.tabOf
        /\ b.nextW = gone.nextW /\ b.nextT = gone.nextT /\ b.nextP = gone.nextP
    BY <1>1, <1>3, <1>7 DEF SetFocus, Model
  <2> QED BY <1>2, <1>5, <2>1 DEF OpensNothing, LiveWs, LiveTabs, LivePanes
<1> QED BY <1>6, <1>7

\* closeTab and closeWorkspace.
LEMMA CloseOpensNothing ==
  ASSUME NEW a, Ok(a)
  PROVE  /\ \A t \in LiveTabs(a) : OpensNothing(a, CloseTab(a, t))
         /\ \A w \in LiveWs(a) : OpensNothing(a, CloseWorkspace(a, w))
<1>1. a \in Model /\ IsInjective(a.order)
  BY DEF Ok, Consistent, TabsAreListed
<1>2. ASSUME NEW t \in LiveTabs(a)
      PROVE  OpensNothing(a, CloseTab(a, t))
  <2> DEFINE owner == [p \in PaneId |-> IF a.tabOf[p] = t THEN None ELSE a.tabOf[p]]
             b == [a EXCEPT !.tabOf = owner]
  <2>1. CloseTab(a, t) = DropTab(b, t)
    BY DEF CloseTab
  <2>2. /\ owner \in [PaneId -> TabId \cup {None}]
        /\ \A p \in PaneId : owner[p] # None => a.tabOf[p] # None
    BY <1>1, ModelTypes
  <2> HIDE DEF owner
  <2>3. /\ b.order = a.order /\ b.wsOf = a.wsOf /\ b.tabOf = owner
        /\ b.nextW = a.nextW /\ b.nextT = a.nextT /\ b.nextP = a.nextP
    BY <1>1 DEF Model
  <2>4. b \in Model
    BY <1>1, <2>2 DEF Model
  <2> HIDE DEF b
  <2>5. OpensNothing(b, DropTab(b, t))
    BY <1>1, <2>3, <2>4, DropTabOpensNothing DEF LiveTabs
  <2>6. OpensNothing(a, b)
    BY <2>2, <2>3 DEF OpensNothing, LiveWs, LiveTabs, LivePanes
  <2> QED BY <2>1, <2>5, <2>6 DEF OpensNothing
<1>3. ASSUME NEW w \in LiveWs(a)
      PROVE  OpensNothing(a, CloseWorkspace(a, w))
  <2> DEFINE InW(t) == t # None /\ a.wsOf[t] = w
             owner == [p \in PaneId |-> IF InW(a.tabOf[p]) THEN None ELSE a.tabOf[p]]
             home == [t \in TabId |-> IF InW(t) THEN None ELSE a.wsOf[t]]
             panes == [t \in TabId |-> IF InW(t) THEN <<>> ELSE a.leaves[t]]
             focused == [t \in TabId |-> IF InW(t) THEN None ELSE a.focused[t]]
             zoomed == [t \in TabId |-> IF InW(t) THEN None ELSE a.zoomed[t]]
             b == [a EXCEPT !.tabOf = owner, !.wsOf = home, !.leaves = panes,
                            !.focused = focused, !.zoomed = zoomed]
  <2>1. CloseWorkspace(a, w) = DropWorkspace(b, w)
    BY DEF CloseWorkspace
  <2>2. /\ owner \in [PaneId -> TabId \cup {None}]
        /\ home \in [TabId -> WsId \cup {None}]
        /\ focused \in [TabId -> PaneId \cup {None}]
        /\ zoomed \in [TabId -> PaneId \cup {None}]
    BY <1>1, ModelTypes
  <2>3. panes \in [TabId -> Seq(PaneId)]
    <3>1. <<>> \in Seq(PaneId)
      OBVIOUS
    <3> QED BY <1>1, <3>1, ModelTypes
  <2>4. /\ \A p \in PaneId : owner[p] # None => a.tabOf[p] # None
        /\ \A t \in TabId : home[t] # None => a.wsOf[t] # None
    OBVIOUS
  <2> HIDE DEF owner, home, panes, focused, zoomed
  <2>5. /\ b.order = a.order /\ b.wsOf = home /\ b.tabOf = owner
        /\ b.nextW = a.nextW /\ b.nextT = a.nextT /\ b.nextP = a.nextP
    BY <1>1 DEF Model
  <2>6. b \in Model
    BY <1>1, <2>2, <2>3 DEF Model
  <2> HIDE DEF b
  <2>7. OpensNothing(b, DropWorkspace(b, w))
    BY <1>1, <2>5, <2>6, DropWorkspaceOpensNothing
  <2>8. OpensNothing(a, b)
    BY <2>4, <2>5 DEF OpensNothing, LiveWs, LiveTabs, LivePanes
  <2> QED BY <2>1, <2>7, <2>8 DEF OpensNothing
<1> QED BY <1>2, <1>3

\* closePane.
LEMMA ClosePaneOpensNothing ==
  ASSUME NEW a, Ok(a), NEW p \in LivePanes(a), NEW successor
  PROVE  OpensNothing(a, ClosePane(a, p, successor))
<1> DEFINE t == a.tabOf[p]
           rest == Without(a.leaves[t], p)
           next == IF successor \in Range(rest) THEN successor ELSE Head(rest)
           b == ClosePane(a, p, successor)
<1>1. a \in Model /\ t \in LiveTabs(a) /\ p \in PaneId
  BY LivePaneFacts DEF Ok
<1>2. CASE rest = <<>>
  BY <1>1, <1>2, CloseOpensNothing DEF ClosePane
<1>3. CASE rest # <<>>
  <2> HIDE DEF rest, next, t
  <2>1. /\ b.order = a.order /\ b.wsOf = a.wsOf /\ b.tabOf = [a.tabOf EXCEPT ![p] = None]
        /\ b.nextW = a.nextW /\ b.nextT = a.nextT /\ b.nextP = a.nextP
    BY <1>1, <1>3 DEF ClosePane, SetFocus, Model, rest, next, t
  <2>2. \A q \in PaneId : b.tabOf[q] # None => a.tabOf[q] # None
    BY <1>1, <2>1, ModelTypes
  <2> QED BY <2>1, <2>2 DEF OpensNothing, LiveWs, LiveTabs, LivePanes
<1> QED BY <1>2, <1>3

\* A pane that is closed is no longer in the map.
LEMMA ClosePaneCloses ==
  ASSUME NEW a, Ok(a), NEW p \in LivePanes(a), NEW successor
  PROVE  p \notin LivePanes(ClosePane(a, p, successor))
<1> DEFINE t == a.tabOf[p]
           rest == Without(a.leaves[t], p)
           next == IF successor \in Range(rest) THEN successor ELSE Head(rest)
           b == ClosePane(a, p, successor)
<1>1. a \in Model /\ t \in LiveTabs(a) /\ t \in TabId /\ p \in PaneId
  BY LivePaneFacts DEF Ok
<1>2. CASE rest = <<>>
  <2> DEFINE owner == [q \in PaneId |-> IF a.tabOf[q] = t THEN None ELSE a.tabOf[q]]
             c == [a EXCEPT !.tabOf = owner]
  <2>1. ClosePane(a, p, successor) = DropTab(c, t)
    BY <1>2 DEF ClosePane, CloseTab
  <2>2. /\ owner \in [PaneId -> TabId \cup {None}] /\ owner[p] = None
        /\ c.tabOf = owner /\ c.order = a.order
    BY <1>1, ModelTypes DEF Model
  <2>3. c \in Model /\ IsInjective(c.order)
    BY <1>1, <2>2 DEF Model, Ok, Consistent, TabsAreListed
  <2> HIDE DEF c
  <2>4. LivePanes(DropTab(c, t)) \subseteq LivePanes(c)
    BY <1>1, <2>3, DropTabOpensNothing DEF OpensNothing
  <2> QED BY <2>1, <2>2, <2>4 DEF LivePanes
<1>3. CASE rest # <<>>
  <2> HIDE DEF rest, next, t
  <2>1. b.tabOf = [a.tabOf EXCEPT ![p] = None]
    BY <1>1, <1>3 DEF ClosePane, SetFocus, Model, rest, next, t
  <2> QED BY <1>1, <2>1, ModelTypes DEF LivePanes
<1> QED BY <1>2, <1>3

\* zoomPane keeps everything but the zoom.
LEMMA ZoomPaneKeeps ==
  ASSUME NEW a \in Model, NEW p, NEW mode, NEW b, b = ZoomPane(a, p, mode)
  PROVE  /\ LiveWs(b) = LiveWs(a) /\ LiveTabs(b) = LiveTabs(a) /\ LivePanes(b) = LivePanes(a)
         /\ b.nextW = a.nextW /\ b.nextT = a.nextT /\ b.nextP = a.nextP
BY DEF ZoomPane, Model, LiveWs, LiveTabs, LivePanes

\* The arrangements within a tab, the focus changes and the reorderings keep
\* the sets of workspaces and tabs, and replacePane removes a pane.
LEMMA RestOpensNothing ==
  ASSUME NEW a, Ok(a)
  PROVE  /\ \A p, q : OpensNothing(a, SwapPane(a, p, q))
         /\ \A p, q : OpensNothing(a, SwapPaneWith(a, p, q))
         /\ \A p, q, edge : OpensNothing(a, MoveToEdge(a, p, q, edge))
         /\ \A p, q : OpensNothing(a, ReplacePane(a, p, q))
         /\ \A w : OpensNothing(a, FocusWorkspace(a, w))
         /\ \A t : OpensNothing(a, FocusTab(a, t))
         /\ \A p : OpensNothing(a, FocusPane(a, p))
         /\ \A p, mode : OpensNothing(a, ZoomPane(a, p, mode))
         /\ \A t, direction : OpensNothing(a, MoveTab(a, t, direction))
         /\ \A w \in LiveWs(a), direction \in {"previous", "next"} :
              Len(a.order) > 1 => OpensNothing(a, MoveWorkspace(a, w, direction))
         /\ \A order \in Rearrangements(a.order) : OpensNothing(a, MoveWorkspacesTo(a, order))
<1> USE DEF OpensNothing, LiveWs, LiveTabs, LivePanes
<1>1. a \in Model /\ a.order \in Distinct(WsId)
  BY ModelTypes DEF Ok, Consistent, TabsAreListed, Distinct
<1>2. \A p, q : OpensNothing(a, SwapPane(a, p, q))
  BY <1>1 DEF SwapPane, Model
<1>3. \A p, q : OpensNothing(a, SwapPaneWith(a, p, q))
  BY <1>1 DEF SwapPaneWith, SwapPane, SetFocus, Model
<1>4. \A p, q, edge : OpensNothing(a, MoveToEdge(a, p, q, edge))
  BY <1>1 DEF MoveToEdge, SetFocus, Model
<1>5. \A p, q : OpensNothing(a, ReplacePane(a, p, q))
  <2> SUFFICES ASSUME NEW p, NEW q
               PROVE  OpensNothing(a, ReplacePane(a, p, q))
    OBVIOUS
  <2> DEFINE b == ReplacePane(a, p, q)
  <2>1. /\ b.order = a.order /\ b.wsOf = a.wsOf /\ b.tabOf = [a.tabOf EXCEPT ![q] = None]
        /\ b.nextW = a.nextW /\ b.nextT = a.nextT /\ b.nextP = a.nextP
    BY <1>1 DEF ReplacePane, SetFocus, Model
  <2>2. \A r \in PaneId : b.tabOf[r] # None => a.tabOf[r] # None
    BY <1>1, <2>1, ModelTypes
  <2> QED BY <2>1, <2>2
<1>6. \A w : OpensNothing(a, FocusWorkspace(a, w))
  BY <1>1 DEF FocusWorkspace, SetFocus, Model
<1>7. \A t : OpensNothing(a, FocusTab(a, t))
  BY <1>1 DEF FocusTab, SetFocus, Model
<1>8. \A p : OpensNothing(a, FocusPane(a, p))
  BY <1>1 DEF FocusPane, SetFocus, Model
<1>9. \A p, mode : OpensNothing(a, ZoomPane(a, p, mode))
  BY <1>1 DEF ZoomPane, Model
<1>10. \A t, direction : OpensNothing(a, MoveTab(a, t, direction))
  BY <1>1 DEF MoveTab, Model
<1>11. ASSUME NEW order, Range(order) = Range(a.order)
       PROVE  OpensNothing(a, [a EXCEPT !.order = order])
  BY <1>1, <1>11 DEF Model
<1>12. ASSUME NEW w \in LiveWs(a), NEW direction \in {"previous", "next"}, Len(a.order) > 1
       PROVE  OpensNothing(a, MoveWorkspace(a, w, direction))
  <2>1. Range(MoveOne(a.order, w, direction)) = Range(a.order)
    BY <1>1, <1>12, MoveOneDistinct
  <2>2. MoveWorkspace(a, w, direction) = [a EXCEPT !.order = MoveOne(a.order, w, direction)]
    BY <1>1 DEF MoveWorkspace, Model
  <2> QED BY <1>11, <2>1, <2>2
<1>13. \A order \in Rearrangements(a.order) : OpensNothing(a, MoveWorkspacesTo(a, order))
  BY <1>11 DEF MoveWorkspacesTo, Rearrangements
<1> QED BY <1>2, <1>3, <1>4, <1>5, <1>6, <1>7, <1>8, <1>9, <1>10, <1>12, <1>13

\* What a move between tabs does to the tab it leaves.
LEMMA LeaveTabOpensNothing ==
  ASSUME NEW a \in Model, IsInjective(a.order), NEW s \in TabId, NEW p
  PROVE  OpensNothing(a, LeaveTab(a, s, p))
<1> DEFINE rest == Without(a.leaves[s], p)
<1>1. CASE rest = <<>>
  BY <1>1, DropTabOpensNothing DEF LeaveTab
<1>2. CASE rest # <<>>
  <2> HIDE DEF rest
  <2> DEFINE b == LeaveTab(a, s, p)
  <2>1. /\ b.order = a.order /\ b.wsOf = a.wsOf /\ b.tabOf = a.tabOf
        /\ b.nextW = a.nextW /\ b.nextT = a.nextT /\ b.nextP = a.nextP
    BY <1>2 DEF LeaveTab, Model, rest
  <2> QED BY <2>1 DEF OpensNothing, LiveWs, LiveTabs, LivePanes
<1> QED BY <1>1, <1>2

\* moveToTab.
LEMMA MoveToTabOpensNothing ==
  ASSUME NEW a, Ok(a), NEW p \in LivePanes(a), NEW t \in LiveTabs(a)
  PROVE  OpensNothing(a, MoveToTab(a, p, t))
<1> DEFINE s == a.tabOf[p]
           longer == InsertAfter(a.leaves[t], a.focused[t], p)
           b == [a EXCEPT !.tabOf[p] = t, !.leaves[t] = longer, !.focused[t] = p, !.zoomed[t] = None]
<1>1. /\ a \in Model /\ IsInjective(a.order) /\ s \in TabId /\ p \in PaneId /\ t \in TabId
      /\ s \in LiveTabs(a)
  BY LivePaneFacts, LiveTabFacts DEF Ok, Consistent, TabsAreListed
<1>2. longer \in Seq(PaneId)
  <2>1. a.leaves[t] \in Distinct(PaneId) /\ a.focused[t] \in Range(a.leaves[t])
    BY LiveTabFacts
  <2>2. a.leaves[t] \in Seq(PaneId)
    BY <2>1 DEF Distinct
  <2>3. Pos(a.leaves[t], a.focused[t]) + 1 \in 1 .. Len(a.leaves[t]) + 1
    <3>1. Pos(a.leaves[t], a.focused[t]) \in 1 .. Len(a.leaves[t]) /\ Len(a.leaves[t]) \in Nat
      BY <2>1, <2>2, PosProperties, LenProperties
    <3> QED BY <3>1
  <2> QED BY <1>1, <2>2, <2>3, InsertAtProperties DEF InsertAfter
<1>3. MoveToTab(a, p, t) = SetFocus(LeaveTab(b, s, p), a.wsOf[t], t, p)
  BY <1>1 DEF MoveToTab, Model
<1> HIDE DEF longer, s
<1>4. /\ b.order = a.order /\ b.wsOf = a.wsOf /\ b.tabOf = [a.tabOf EXCEPT ![p] = t]
      /\ b.nextW = a.nextW /\ b.nextT = a.nextT /\ b.nextP = a.nextP
  BY <1>1 DEF Model
<1>5. b \in Model
  <2>1. /\ [a.tabOf EXCEPT ![p] = t] \in [PaneId -> TabId \cup {None}]
        /\ [a.leaves EXCEPT ![t] = longer] \in [TabId -> Seq(PaneId)]
        /\ [a.focused EXCEPT ![t] = p] \in [TabId -> PaneId \cup {None}]
        /\ [a.zoomed EXCEPT ![t] = None] \in [TabId -> PaneId \cup {None}]
    BY <1>1, <1>2, ModelTypes
  <2> QED BY <1>1, <2>1 DEF Model
<1> HIDE DEF b
<1>6. \A q \in PaneId : b.tabOf[q] = IF q = p THEN t ELSE a.tabOf[q]
  BY <1>1, <1>4, ModelTypes
<1>7. OpensNothing(a, b)
  BY <1>4, <1>6 DEF OpensNothing, LiveWs, LiveTabs, LivePanes
<1>8. OpensNothing(b, LeaveTab(b, s, p))
  BY <1>1, <1>4, <1>5, LeaveTabOpensNothing
<1>9. OpensNothing(a, LeaveTab(b, s, p))
  BY <1>7, <1>8 DEF OpensNothing
<1>10. OpensNothing(a, SetFocus(LeaveTab(b, s, p), a.wsOf[t], t, p))
  <2> DEFINE c == LeaveTab(b, s, p)
             d == SetFocus(c, a.wsOf[t], t, p)
  <2>1. /\ d.order = c.order /\ d.wsOf = c.wsOf /\ d.tabOf = c.tabOf
        /\ d.nextW = c.nextW /\ d.nextT = c.nextT /\ d.nextP = c.nextP
    BY DEF SetFocus
  <2> QED BY <1>9, <2>1 DEF OpensNothing, LiveWs, LiveTabs, LivePanes
<1> QED BY <1>3, <1>10

\* moveToNewTab opens the tab with the next id and nothing else.
LEMMA MoveToNewTabOpensOne ==
  ASSUME NEW a, Ok(a), NEW p \in LivePanes(a), NEW w \in LiveWs(a), a.nextT \in TabId,
         NEW z, z = MoveToNewTab(a, p, w)
  PROVE  /\ LiveWs(z) \subseteq LiveWs(a)
         /\ LiveTabs(z) \subseteq LiveTabs(a) \cup {a.nextT}
         /\ LivePanes(z) \subseteq LivePanes(a)
         /\ z.nextW = a.nextW /\ z.nextT = a.nextT + 1 /\ z.nextP = a.nextP
<1> DEFINE t == a.nextT
           s == a.tabOf[p]
           b == [a EXCEPT !.nextT = t + 1,
                          !.tabOf[p] = t,
                          !.wsOf[t] = w,
                          !.leaves[t] = <<p>>,
                          !.focused[t] = p,
                          !.tabIds[w] = Append(a.tabIds[w], t),
                          !.active[w] = t]
           c == LeaveTab(b, s, p)
<1>1. /\ a \in Model /\ IsInjective(a.order) /\ s \in TabId /\ p \in PaneId /\ t \in TabId /\ t \in Nat
      /\ w \in WsId /\ p \in LivePanes(a)
  BY LivePaneFacts, ModelTypes, HeadInRange DEF Ok, LiveWs, Consistent, TabsAreListed
<1>2. z = SetFocus(c, w, t, p)
  BY <1>1 DEF MoveToNewTab, Model
<1> HIDE DEF t, s
<1>3. /\ b.order = a.order /\ b.wsOf = [a.wsOf EXCEPT ![t] = w]
      /\ b.tabOf = [a.tabOf EXCEPT ![p] = t]
      /\ b.nextW = a.nextW /\ b.nextT = t + 1 /\ b.nextP = a.nextP
  BY <1>1 DEF Model
<1>4. b \in Model
  <2>1. /\ [a.tabOf EXCEPT ![p] = t] \in [PaneId -> TabId \cup {None}]
        /\ [a.wsOf EXCEPT ![t] = w] \in [TabId -> WsId \cup {None}]
        /\ [a.focused EXCEPT ![t] = p] \in [TabId -> PaneId \cup {None}]
        /\ [a.active EXCEPT ![w] = t] \in [WsId -> TabId \cup {None}]
    BY <1>1, ModelTypes
  <2>2. [a.tabIds EXCEPT ![w] = Append(a.tabIds[w], t)] \in [WsId -> Seq(TabId)]
    BY <1>1, ModelTypes
  <2>3. <<p>> \in Seq(PaneId)
    BY <1>1
  <2>4. [a.leaves EXCEPT ![t] = <<p>>] \in [TabId -> Seq(PaneId)]
    BY <1>1, <2>3, ModelTypes
  <2>5. t + 1 \in Nat
    BY <1>1
  <2> QED BY <1>1, <2>1, <2>2, <2>4, <2>5, ZenonT(60) DEF Model
<1> HIDE DEF b
<1>5. /\ \A q \in PaneId : b.tabOf[q] = IF q = p THEN t ELSE a.tabOf[q]
      /\ \A u \in TabId : b.wsOf[u] = IF u = t THEN w ELSE a.wsOf[u]
  BY <1>1, <1>3, ModelTypes
<1>6. /\ LiveWs(b) = LiveWs(a) /\ LiveTabs(b) \subseteq LiveTabs(a) \cup {t}
      /\ LivePanes(b) \subseteq LivePanes(a)
  BY <1>1, <1>3, <1>5 DEF LiveWs, LiveTabs, LivePanes
<1>7. OpensNothing(b, c)
  BY <1>1, <1>3, <1>4, LeaveTabOpensNothing
<1> HIDE DEF c
<1>8. /\ z.order = c.order /\ z.wsOf = c.wsOf /\ z.tabOf = c.tabOf
      /\ z.nextW = c.nextW /\ z.nextT = c.nextT /\ z.nextP = c.nextP
  BY <1>2 DEF SetFocus
<1> QED BY <1>3, <1>6, <1>7, <1>8 DEF OpensNothing, LiveWs, LiveTabs, LivePanes, t

\* commitTab opens the tab and the pane it is given.
LEMMA CommitTabOpens ==
  ASSUME NEW a, Ok(a), NEW w \in WsId, NEW t \in TabId, NEW p \in PaneId,
         NEW b, b = CommitTab(a, w, t, p)
  PROVE  /\ LiveWs(b) = LiveWs(a) /\ LiveTabs(b) = LiveTabs(a) \cup {t}
         /\ LivePanes(b) = LivePanes(a) \cup {p}
         /\ b.nextW = a.nextW /\ b.nextT = a.nextT /\ b.nextP = a.nextP
<1>1. a \in Model
  BY DEF Ok
<1>2. /\ \A u \in TabId : [a.wsOf EXCEPT ![t] = w][u] = IF u = t THEN w ELSE a.wsOf[u]
      /\ \A r \in PaneId : [a.tabOf EXCEPT ![p] = t][r] = IF r = p THEN t ELSE a.tabOf[r]
  BY <1>1, ModelTypes
<1>3. /\ b.order = a.order /\ b.wsOf = [a.wsOf EXCEPT ![t] = w]
      /\ b.tabOf = [a.tabOf EXCEPT ![p] = t]
      /\ b.nextW = a.nextW /\ b.nextT = a.nextT /\ b.nextP = a.nextP
  BY <1>1 DEF CommitTab, SetFocus, Model
<1> QED BY <1>2, <1>3, IdTypes DEF LiveWs, LiveTabs, LivePanes

\* splitPane opens the pane it is given.
LEMMA SplitPaneOpens ==
  ASSUME NEW a, Ok(a), NEW q \in LivePanes(a), NEW p \in PaneId,
         NEW b, b = SplitPane(a, q, p)
  PROVE  /\ LiveWs(b) = LiveWs(a) /\ LiveTabs(b) = LiveTabs(a)
         /\ LivePanes(b) = LivePanes(a) \cup {p}
         /\ b.nextW = a.nextW /\ b.nextT = a.nextT /\ b.nextP = a.nextP
<1>1. a \in Model /\ a.tabOf[q] # None
  BY DEF Ok, LivePanes
<1>2. \A r \in PaneId : [a.tabOf EXCEPT ![p] = a.tabOf[q]][r] = IF r = p THEN a.tabOf[q] ELSE a.tabOf[r]
  BY <1>1, ModelTypes
<1>3. /\ b.order = a.order /\ b.wsOf = a.wsOf
      /\ b.tabOf = [a.tabOf EXCEPT ![p] = a.tabOf[q]]
      /\ b.nextW = a.nextW /\ b.nextT = a.nextT /\ b.nextP = a.nextP
  BY <1>1 DEF SplitPane, SetFocus, Model
<1> QED BY <1>1, <1>2, <1>3 DEF LiveWs, LiveTabs, LivePanes

\* commitWorkspace likewise.
LEMMA CommitWorkspaceOpens ==
  ASSUME NEW a, Ok(a), NEW w \in WsId \ LiveWs(a), NEW t \in TabId, NEW p \in PaneId,
         NEW b, b = CommitWorkspace(a, w, t, p)
  PROVE  /\ LiveWs(b) = LiveWs(a) \cup {w} /\ LiveTabs(b) = LiveTabs(a) \cup {t}
         /\ LivePanes(b) = LivePanes(a) \cup {p}
         /\ b.nextW = a.nextW /\ b.nextT = a.nextT /\ b.nextP = a.nextP
<1>1. a \in Model /\ a.order \in Distinct(WsId)
  BY ModelTypes DEF Ok, Consistent, TabsAreListed, Distinct
<1>2. Range(Append(a.order, w)) = Range(a.order) \cup {w}
  BY <1>1, AppendDistinct DEF LiveWs
<1>3. /\ \A u \in TabId : [a.wsOf EXCEPT ![t] = w][u] = IF u = t THEN w ELSE a.wsOf[u]
      /\ \A r \in PaneId : [a.tabOf EXCEPT ![p] = t][r] = IF r = p THEN t ELSE a.tabOf[r]
  BY <1>1, ModelTypes
<1>4. /\ b.order = Append(a.order, w) /\ b.wsOf = [a.wsOf EXCEPT ![t] = w]
      /\ b.tabOf = [a.tabOf EXCEPT ![p] = t]
      /\ b.nextW = a.nextW /\ b.nextT = a.nextT /\ b.nextP = a.nextP
  BY <1>1 DEF CommitWorkspace, SetFocus, Model
<1> QED BY <1>2, <1>3, <1>4, IdTypes DEF LiveWs, LiveTabs, LivePanes

\* Counting a counter up leaves the maps as they are.
LEMMA CountersMoved ==
  ASSUME NEW a, Ok(a), NEW b \in Model,
         b.order = a.order, b.tabIds = a.tabIds, b.active = a.active, b.wsOf = a.wsOf,
         b.leaves = a.leaves, b.focused = a.focused, b.zoomed = a.zoomed, b.tabOf = a.tabOf,
         b.focus = a.focus, a.nextW <= b.nextW, a.nextT <= b.nextT, a.nextP <= b.nextP
  PROVE  Ok(b) /\ LiveWs(b) = LiveWs(a) /\ LiveTabs(b) = LiveTabs(a) /\ LivePanes(b) = LivePanes(a)
<1>1. /\ LiveWs(b) = LiveWs(a) /\ LiveTabs(b) = LiveTabs(a) /\ LivePanes(b) = LivePanes(a)
      /\ LiveWs(a) \subseteq Nat /\ LiveTabs(a) \subseteq Nat /\ LivePanes(a) \subseteq Nat
  <2>1. LiveWs(b) = LiveWs(a) /\ LiveTabs(b) = LiveTabs(a) /\ LivePanes(b) = LivePanes(a)
    BY DEF LiveWs, LiveTabs, LivePanes
  <2>2. LiveTabs(a) \subseteq Nat /\ LivePanes(a) \subseteq Nat
    BY DEF LiveTabs, LivePanes, TabId, PaneId
  <2>3. LiveWs(a) \subseteq Nat
    <3>1. a.order \in Seq(WsId)
      BY ModelTypes DEF Ok
    <3>2. Range(a.order) \subseteq WsId
      BY <3>1 DEF Range
    <3> QED BY <3>2 DEF LiveWs, WsId
  <2> QED BY <2>1, <2>2, <2>3
<1>2. IdsBelowNext(b)
  <2>1. /\ a.nextW \in Nat /\ a.nextT \in Nat /\ a.nextP \in Nat
        /\ b.nextW \in Nat /\ b.nextT \in Nat /\ b.nextP \in Nat
    BY ModelTypes DEF Ok
  <2> QED BY <1>1, <2>1 DEF Ok, Consistent, IdsBelowNext
<1>3. /\ PanesAreLeaves(b) /\ TabsAreListed(b) /\ FocusedAndZoomedAreLeaves(b)
      /\ ActiveIsListed(b) /\ FocusOnOpenWorkspace(b)
  BY <1>1 DEF Ok, Consistent, PanesAreLeaves, TabsAreListed, FocusedAndZoomedAreLeaves,
              ActiveIsListed, FocusOnOpenWorkspace
<1> QED BY <1>1, <1>2, <1>3 DEF Ok, Consistent

\* The model of a server that has just started.
LEMMA EmptyModelOk == Ok(EmptyModel) /\ CountersStart(EmptyModel) /\ LivePanes(EmptyModel) = {}
<1> DEFINE e == EmptyModel
<1>1. <<>> \in Seq(WsId) /\ <<>> \in Seq(TabId) /\ <<>> \in Seq(PaneId)
  OBVIOUS
<1>2. Range(<<>>) = {} /\ IsInjective(<<>>)
  BY DEF Range, IsInjective
<1>3. e \in Model
  <2>1. [w \in WsId |-> <<>>] \in [WsId -> Seq(TabId)] /\ [t \in TabId |-> <<>>] \in [TabId -> Seq(PaneId)]
    BY <1>1
  <2>2. NoFocus \in Focus
    BY DEF NoFocus, Focus
  <2> QED BY <1>1, <2>1, <2>2 DEF EmptyModel, Model
<1>4. /\ e.order = <<>> /\ e.tabIds = [w \in WsId |-> <<>>] /\ e.active = [w \in WsId |-> None]
      /\ e.wsOf = [t \in TabId |-> None] /\ e.leaves = [t \in TabId |-> <<>>]
      /\ e.focused = [t \in TabId |-> None] /\ e.zoomed = [t \in TabId |-> None]
      /\ e.tabOf = [p \in PaneId |-> None] /\ e.focus = NoFocus
      /\ e.nextW = 1 /\ e.nextT = 1 /\ e.nextP = 1
  BY DEF EmptyModel
<1> HIDE DEF e
<1>5. LiveWs(e) = {} /\ LiveTabs(e) = {} /\ LivePanes(e) = {}
  BY <1>2, <1>4 DEF LiveWs, LiveTabs, LivePanes
<1>6. PanesAreLeaves(e) /\ FocusedAndZoomedAreLeaves(e)
  BY <1>2, <1>4, IdTypes DEF PanesAreLeaves, FocusedAndZoomedAreLeaves
<1>7. TabsAreListed(e) /\ ActiveIsListed(e)
  BY <1>2, <1>4, <1>5, IdTypes DEF TabsAreListed, ActiveIsListed
<1>8. FocusOnOpenWorkspace(e) /\ IdsBelowNext(e) /\ CountersStart(e)
  BY <1>4, <1>5 DEF FocusOnOpenWorkspace, IdsBelowNext, CountersStart
<1>9. Ok(e)
  BY <1>3, <1>6, <1>7, <1>8 DEF Ok, Consistent
<1> QED BY <1>5, <1>8, <1>9 DEF e

-----------------------------------------------------------------------------
(* What an operation leaves alone, which is what its events need not tell. *)

\* From a to b only the panes P, the tabs T and the workspaces W have changed, or gone.
Spares(a, b, P, T, W) ==
  /\ \A p \in PaneId \ P : b.tabOf[p] \in {a.tabOf[p], None}
  /\ \A t \in TabId \ T :
       b.wsOf[t] # None => /\ b.wsOf[t] = a.wsOf[t] /\ b.leaves[t] = a.leaves[t]
                           /\ b.zoomed[t] = a.zoomed[t]
  /\ \A w \in WsId \ W : b.tabIds[w] \in {a.tabIds[w], <<>>}

\* The order of the workspaces stays, but for w, which may have gone.
OrderKept(a, b, w) == b.order \in {a.order, Without(a.order, w)}

\* Nothing that events tell has changed.
SameMaps(a, b) ==
  /\ b.order = a.order /\ b.tabIds = a.tabIds /\ b.wsOf = a.wsOf /\ b.leaves = a.leaves
  /\ b.zoomed = a.zoomed /\ b.tabOf = a.tabOf

LEMMA SparesInTurn ==
  ASSUME NEW a, NEW b, NEW c, NEW P, NEW Q, NEW S, NEW T, NEW V, NEW W,
         Spares(a, b, P, S, V), Spares(b, c, Q, T, W)
  PROVE  Spares(a, c, P \cup Q, S \cup T, V \cup W)
<1>1. \A p \in PaneId \ (P \cup Q) : c.tabOf[p] \in {a.tabOf[p], None}
  BY DEF Spares
<1>2. ASSUME NEW t \in TabId \ (S \cup T), c.wsOf[t] # None
      PROVE  c.wsOf[t] = a.wsOf[t] /\ c.leaves[t] = a.leaves[t] /\ c.zoomed[t] = a.zoomed[t]
  BY <1>2 DEF Spares
<1>3. \A w \in WsId \ (V \cup W) : c.tabIds[w] \in {a.tabIds[w], <<>>}
  BY DEF Spares
<1> QED BY <1>1, <1>2, <1>3 DEF Spares

LEMMA SetFocusSpares == ASSUME NEW a, NEW w, NEW t, NEW p PROVE SameMaps(a, SetFocus(a, w, t, p))
BY DEF SetFocus, SameMaps

LEMMA DropWorkspaceIs ==
  ASSUME NEW n \in Model, NEW w \in WsId, NEW b, b = DropWorkspace(n, w)
  PROVE  /\ b.order = Without(n.order, w) /\ b.tabIds = [n.tabIds EXCEPT ![w] = <<>>]
         /\ b.wsOf = n.wsOf /\ b.leaves = n.leaves /\ b.zoomed = n.zoomed /\ b.tabOf = n.tabOf
<1> DEFINE rest == Without(n.order, w)
<1> HIDE DEF rest
<1> QED BY DEF DropWorkspace, SetFocus, Model, rest

LEMMA DropTabIs ==
  ASSUME NEW n \in Model, NEW t \in TabId, NEW w \in WsId, w = n.wsOf[t], NEW b, b = DropTab(n, t)
  PROVE  /\ b.wsOf = [n.wsOf EXCEPT ![t] = None]
         /\ b.leaves = [n.leaves EXCEPT ![t] = <<>>]
         /\ b.zoomed = [n.zoomed EXCEPT ![t] = None]
         /\ b.tabOf = n.tabOf
         /\ b.tabIds = [n.tabIds EXCEPT ![w] = Without(n.tabIds[w], t)]
         /\ OrderKept(n, b, w)
<1> DEFINE rest == Without(n.tabIds[w], t)
           gone == [n EXCEPT !.wsOf[t] = None, !.leaves[t] = <<>>,
                             !.focused[t] = None, !.zoomed[t] = None]
           first == Head(rest)
<1>1. b = IF rest = <<>> THEN DropWorkspace(gone, w)
          ELSE IF n.active[w] # t THEN [gone EXCEPT !.tabIds[w] = rest]
          ELSE SetFocus([gone EXCEPT !.tabIds[w] = rest, !.active[w] = first],
                        w, first, n.focused[first])
  BY DEF DropTab
<1> HIDE DEF rest, first
<1>2. /\ gone.order = n.order /\ gone.wsOf = [n.wsOf EXCEPT ![t] = None]
      /\ gone.leaves = [n.leaves EXCEPT ![t] = <<>>]
      /\ gone.focused = [n.focused EXCEPT ![t] = None]
      /\ gone.zoomed = [n.zoomed EXCEPT ![t] = None]
      /\ gone.tabOf = n.tabOf /\ gone.tabIds = n.tabIds /\ gone.active = n.active
  BY DEF Model
<1>3. gone \in Model
  <2>1. <<>> \in Seq(PaneId)
    OBVIOUS
  <2>2. /\ [n.wsOf EXCEPT ![t] = None] \in [TabId -> WsId \cup {None}]
        /\ [n.leaves EXCEPT ![t] = <<>>] \in [TabId -> Seq(PaneId)]
        /\ [n.focused EXCEPT ![t] = None] \in [TabId -> PaneId \cup {None}]
        /\ [n.zoomed EXCEPT ![t] = None] \in [TabId -> PaneId \cup {None}]
    BY <2>1, ModelTypes
  <2> QED BY <2>2 DEF Model
<1> HIDE DEF gone
<1>4. CASE rest = <<>>
  <2>1. b = DropWorkspace(gone, w)
    BY <1>1, <1>4
  <2>2. /\ b.order = Without(gone.order, w) /\ b.tabIds = [gone.tabIds EXCEPT ![w] = <<>>]
        /\ b.wsOf = gone.wsOf /\ b.leaves = gone.leaves /\ b.zoomed = gone.zoomed /\ b.tabOf = gone.tabOf
    BY <1>3, <2>1, DropWorkspaceIs
  <2>3. Without(n.tabIds[w], t) = <<>>
    BY <1>4 DEF rest
  <2> QED BY <1>2, <2>2, <2>3 DEF OrderKept
<1>5. CASE rest # <<>>
  <2>1. /\ b.order = gone.order /\ b.wsOf = gone.wsOf /\ b.leaves = gone.leaves
        /\ b.zoomed = gone.zoomed /\ b.tabOf = gone.tabOf
        /\ b.tabIds = [gone.tabIds EXCEPT ![w] = rest]
    BY <1>1, <1>3, <1>5 DEF SetFocus, Model
  <2> QED BY <1>2, <2>1 DEF OrderKept, rest
<1> QED BY <1>4, <1>5

\* closeTab: only the strip that lists the tab changes.
LEMMA CloseTabSpares ==
  ASSUME NEW a, Ok(a), NEW t \in LiveTabs(a), NEW b, b = CloseTab(a, t)
  PROVE  Spares(a, b, {}, {}, {a.wsOf[t]}) /\ OrderKept(a, b, a.wsOf[t]) /\ t \notin LiveTabs(b)
<1> DEFINE owner == [p \in PaneId |-> IF a.tabOf[p] = t THEN None ELSE a.tabOf[p]]
           n == [a EXCEPT !.tabOf = owner]
           w == a.wsOf[t]
<1>1. a \in Model /\ t \in TabId /\ w \in WsId
  BY LiveTabFacts, ModelTypes DEF Ok, LiveTabs
<1>2. owner \in [PaneId -> TabId \cup {None}] /\ \A p \in PaneId : owner[p] \in {a.tabOf[p], None}
  BY <1>1, ModelTypes
<1>3. b = DropTab(n, t)
  BY DEF CloseTab
<1> HIDE DEF owner
<1>4. /\ n.order = a.order /\ n.tabIds = a.tabIds /\ n.wsOf = a.wsOf /\ n.leaves = a.leaves
      /\ n.zoomed = a.zoomed /\ n.tabOf = owner /\ n \in Model
  BY <1>1, <1>2 DEF Model
<1> HIDE DEF n
<1>5. /\ b.wsOf = [a.wsOf EXCEPT ![t] = None] /\ b.leaves = [a.leaves EXCEPT ![t] = <<>>]
      /\ b.zoomed = [a.zoomed EXCEPT ![t] = None] /\ b.tabOf = owner
      /\ b.tabIds = [a.tabIds EXCEPT ![w] = Without(a.tabIds[w], t)]
      /\ OrderKept(a, b, w)
  BY <1>1, <1>3, <1>4, DropTabIs DEF OrderKept
<1>6. /\ \A u \in TabId : b.wsOf[u] = IF u = t THEN None ELSE a.wsOf[u]
      /\ \A u \in TabId \ {t} : b.leaves[u] = a.leaves[u] /\ b.zoomed[u] = a.zoomed[u]
      /\ \A v \in WsId \ {w} : b.tabIds[v] = a.tabIds[v]
  BY <1>1, <1>5, ModelTypes
<1> QED BY <1>2, <1>5, <1>6 DEF Spares, LiveTabs

\* closeWorkspace.
LEMMA CloseWorkspaceSpares ==
  ASSUME NEW a, Ok(a), NEW w \in LiveWs(a), NEW b, b = CloseWorkspace(a, w)
  PROVE  Spares(a, b, {}, {}, {}) /\ OrderKept(a, b, w)
<1> DEFINE InW(t) == t # None /\ a.wsOf[t] = w
           owner == [p \in PaneId |-> IF InW(a.tabOf[p]) THEN None ELSE a.tabOf[p]]
           home == [t \in TabId |-> IF InW(t) THEN None ELSE a.wsOf[t]]
           panes == [t \in TabId |-> IF InW(t) THEN <<>> ELSE a.leaves[t]]
           focused == [t \in TabId |-> IF InW(t) THEN None ELSE a.focused[t]]
           zoomed == [t \in TabId |-> IF InW(t) THEN None ELSE a.zoomed[t]]
           n == [a EXCEPT !.tabOf = owner, !.wsOf = home, !.leaves = panes,
                          !.focused = focused, !.zoomed = zoomed]
<1>1. a \in Model /\ w \in WsId
  BY ModelTypes, HeadInRange DEF Ok, LiveWs
<1>2. b = DropWorkspace(n, w)
  BY DEF CloseWorkspace
<1>3. /\ owner \in [PaneId -> TabId \cup {None}]
      /\ home \in [TabId -> WsId \cup {None}]
      /\ focused \in [TabId -> PaneId \cup {None}]
      /\ zoomed \in [TabId -> PaneId \cup {None}]
  BY <1>1, ModelTypes
<1>4. panes \in [TabId -> Seq(PaneId)]
  <2>1. <<>> \in Seq(PaneId)
    OBVIOUS
  <2> QED BY <1>1, <2>1, ModelTypes
<1>5. /\ \A p \in PaneId : owner[p] \in {a.tabOf[p], None}
      /\ \A t \in TabId : home[t] # None =>
           home[t] = a.wsOf[t] /\ panes[t] = a.leaves[t] /\ zoomed[t] = a.zoomed[t]
  OBVIOUS
<1> HIDE DEF owner, home, panes, focused, zoomed
<1>6. /\ n.order = a.order /\ n.tabIds = a.tabIds /\ n.wsOf = home /\ n.leaves = panes
      /\ n.zoomed = zoomed /\ n.tabOf = owner
  BY <1>1 DEF Model
<1>7. n \in Model
  BY <1>1, <1>3, <1>4 DEF Model
<1> HIDE DEF n
<1>8. /\ b.order = Without(a.order, w) /\ b.tabIds = [a.tabIds EXCEPT ![w] = <<>>]
      /\ b.wsOf = home /\ b.leaves = panes /\ b.zoomed = zoomed /\ b.tabOf = owner
  BY <1>1, <1>2, <1>6, <1>7, DropWorkspaceIs
<1>9. \A v \in WsId : b.tabIds[v] \in {a.tabIds[v], <<>>}
  BY <1>1, <1>8, ModelTypes
<1> QED BY <1>5, <1>8, <1>9 DEF Spares, OrderKept

\* closePane: its tab changes, and a workspace only when that tab goes.  As long as the
\* tab stays, the other panes are in it, and the successor gets the focus that p had.
ClosedIn(a, b, t, p, successor) ==
  t \in LiveTabs(b) =>
    /\ \A q \in Range(a.leaves[t]) \ {p} : b.tabOf[q] = t
    /\ a.focused[t] = p /\ successor \in Range(a.leaves[t]) \ {p} => b.focused[t] = successor

LEMMA ClosePaneSpares ==
  ASSUME NEW a, Ok(a), NEW p \in LivePanes(a), NEW successor,
         NEW t, t = a.tabOf[p], NEW b, b = ClosePane(a, p, successor)
  PROVE  /\ Spares(a, b, {}, {t}, IF t \in LiveTabs(b) THEN {} ELSE {a.wsOf[t]})
         /\ OrderKept(a, b, a.wsOf[t])
         /\ ClosedIn(a, b, t, p, successor)
<1> DEFINE rest == Without(a.leaves[t], p)
           next == IF successor \in Range(rest) THEN successor ELSE Head(rest)
<1>1. a \in Model /\ t \in LiveTabs(a) /\ t \in TabId /\ p \in PaneId /\ a.leaves[t] \in Distinct(PaneId)
  BY LivePaneFacts, LiveTabFacts DEF Ok
<1>2. Range(rest) = Range(a.leaves[t]) \ {p}
  BY <1>1, WithoutDistinct
<1>3. CASE rest = <<>>
  <2>1. b = CloseTab(a, t)
    BY <1>3 DEF ClosePane
  <2>2. Spares(a, b, {}, {}, {a.wsOf[t]}) /\ OrderKept(a, b, a.wsOf[t]) /\ t \notin LiveTabs(b)
    BY <1>1, <2>1, CloseTabSpares
  <2> QED BY <2>2 DEF Spares, ClosedIn
<1>4. CASE rest # <<>>
  <2> HIDE DEF rest
  <2>1. b = IF a.focused[t] # p
              THEN [a EXCEPT !.tabOf[p] = None, !.leaves[t] = rest, !.zoomed[t] = None]
              ELSE SetFocus([[a EXCEPT !.tabOf[p] = None, !.leaves[t] = rest, !.zoomed[t] = None]
                               EXCEPT !.focused[t] = next], a.wsOf[t], t, next)
    BY <1>4 DEF ClosePane, rest
  <2> HIDE DEF next
  <2>2. /\ b.order = a.order /\ b.tabIds = a.tabIds /\ b.wsOf = a.wsOf
        /\ b.tabOf = [a.tabOf EXCEPT ![p] = None]
        /\ b.leaves = [a.leaves EXCEPT ![t] = rest] /\ b.zoomed = [a.zoomed EXCEPT ![t] = None]
        /\ a.focused[t] = p => b.focused = [a.focused EXCEPT ![t] = next]
    BY <1>1, <2>1 DEF SetFocus, Model
  <2>3. /\ \A q \in PaneId : b.tabOf[q] = IF q = p THEN None ELSE a.tabOf[q]
        /\ \A u \in TabId \ {t} : b.leaves[u] = a.leaves[u] /\ b.zoomed[u] = a.zoomed[u]
        /\ a.focused[t] = p => b.focused[t] = next
    BY <1>1, <2>2, ModelTypes
  <2>4. Spares(a, b, {}, {t}, {}) /\ OrderKept(a, b, a.wsOf[t]) /\ t \in LiveTabs(b)
    BY <1>1, <2>2, <2>3 DEF Spares, OrderKept, LiveTabs
  <2>5. \A q \in Range(a.leaves[t]) \ {p} : b.tabOf[q] = t
    BY <1>1, <2>3 DEF Ok, Consistent, PanesAreLeaves
  <2>6. successor \in Range(a.leaves[t]) \ {p} => next = successor
    BY <1>2 DEF next
  <2> QED BY <2>3, <2>4, <2>5, <2>6 DEF ClosedIn
<1> QED BY <1>3, <1>4

\* swapPane, swapPaneWith, moveToEdge, replacePane, zoomPane: the tab only.
LEMMA ArrangeSpares ==
  ASSUME NEW a, Ok(a), NEW p \in LivePanes(a), NEW t, t = a.tabOf[p], NEW q, NEW edge, NEW mode, NEW b,
         b \in {SwapPane(a, p, q), SwapPaneWith(a, p, q), MoveToEdge(a, p, q, edge),
                ReplacePane(a, p, q), ZoomPane(a, p, mode)}
  PROVE  /\ Spares(a, b, {}, {t}, {}) /\ b.order = a.order /\ b.wsOf = a.wsOf
         /\ b.tabOf = a.tabOf \/ b = ReplacePane(a, p, q)
<1>1. a \in Model /\ t \in TabId
  BY LivePaneFacts DEF Ok
<1> DEFINE Arranged(c) == /\ c.order = a.order /\ c.tabIds = a.tabIds /\ c.wsOf = a.wsOf
                          /\ \E s : c.leaves = [a.leaves EXCEPT ![t] = s]
                          /\ \E z : c.zoomed = [a.zoomed EXCEPT ![t] = z]
                          /\ \/ c.tabOf = a.tabOf
                             \/ c = ReplacePane(a, p, q) /\ c.tabOf = [a.tabOf EXCEPT ![q] = None]
<1>2. ASSUME b = SwapPane(a, p, q) \/ b = SwapPaneWith(a, p, q)
      PROVE  Arranged(b)
  <2> DEFINE s == Exchange(a.leaves[t], p, q)
  <2>1. /\ b.order = a.order /\ b.tabIds = a.tabIds /\ b.wsOf = a.wsOf
        /\ b.leaves = [a.leaves EXCEPT ![t] = s] /\ b.tabOf = a.tabOf /\ b.zoomed = a.zoomed
    BY <1>1, <1>2 DEF SwapPane, SwapPaneWith, SetFocus, Model
  <2>2. b.zoomed = [a.zoomed EXCEPT ![t] = a.zoomed[t]]
    BY <1>1, <2>1, ModelTypes
  <2> HIDE DEF s
  <2> QED BY <2>1, <2>2
<1>3. ASSUME b = MoveToEdge(a, p, q, edge)
      PROVE  Arranged(b)
  <2> DEFINE rest == Without(a.leaves[t], p)
             s == IF edge \in {"left", "top"} THEN InsertBefore(rest, q, p) ELSE InsertAfter(rest, q, p)
  <2>1. /\ b.order = a.order /\ b.tabIds = a.tabIds /\ b.wsOf = a.wsOf
        /\ b.leaves = [a.leaves EXCEPT ![t] = s] /\ b.tabOf = a.tabOf /\ b.zoomed = a.zoomed
    BY <1>1, <1>3 DEF MoveToEdge, SetFocus, Model
  <2>2. b.zoomed = [a.zoomed EXCEPT ![t] = a.zoomed[t]]
    BY <1>1, <2>1, ModelTypes
  <2> HIDE DEF s
  <2> QED BY <2>1, <2>2
<1>4. ASSUME b = ReplacePane(a, p, q)
      PROVE  Arranged(b)
  <2> DEFINE s == Without(Exchange(a.leaves[t], p, q), q)
  <2>1. /\ b.order = a.order /\ b.tabIds = a.tabIds /\ b.wsOf = a.wsOf
        /\ b.leaves = [a.leaves EXCEPT ![t] = s] /\ b.zoomed = [a.zoomed EXCEPT ![t] = None]
        /\ b.tabOf = [a.tabOf EXCEPT ![q] = None]
    BY <1>1, <1>4 DEF ReplacePane, SetFocus, Model
  <2> HIDE DEF s
  <2> QED BY <1>4, <2>1
<1>5. ASSUME b = ZoomPane(a, p, mode)
      PROVE  Arranged(b)
  <2> DEFINE z == IF mode = "on" \/ (mode = "toggle" /\ a.zoomed[t] # p) THEN p ELSE None
  <2>1. /\ b.order = a.order /\ b.tabIds = a.tabIds /\ b.wsOf = a.wsOf
        /\ b.leaves = a.leaves /\ b.zoomed = [a.zoomed EXCEPT ![t] = z] /\ b.tabOf = a.tabOf
    BY <1>1, <1>5 DEF ZoomPane, Model
  <2>2. b.leaves = [a.leaves EXCEPT ![t] = a.leaves[t]]
    BY <1>1, <2>1, ModelTypes
  <2> HIDE DEF z
  <2> QED BY <2>1, <2>2
<1>6. Arranged(b)
  BY <1>2, <1>3, <1>4, <1>5
<1>7. /\ \A u \in TabId \ {t} : b.leaves[u] = a.leaves[u] /\ b.zoomed[u] = a.zoomed[u]
      /\ \A r \in PaneId : b.tabOf[r] \in {a.tabOf[r], None}
  BY <1>1, <1>6, ModelTypes
<1> QED BY <1>6, <1>7 DEF Spares

\* A zoom that is put on.
LEMMA ZoomOnIs ==
  ASSUME NEW a \in Model, NEW p \in PaneId, a.tabOf[p] \in TabId, NEW b, b = ZoomPane(a, p, "on")
  PROVE  b.zoomed[a.tabOf[p]] = p /\ b.focused = a.focused /\ b.wsOf = a.wsOf
<1>1. b.zoomed = [a.zoomed EXCEPT ![a.tabOf[p]] = p] /\ b.focused = a.focused /\ b.wsOf = a.wsOf
  BY DEF ZoomPane, Model
<1> QED BY <1>1, ModelTypes

\* moveTab, moveWorkspace, moveWorkspacesTo and the changes of the focus.
LEMMA OrderSpares ==
  ASSUME NEW a, Ok(a)
  PROVE  /\ \A t \in LiveTabs(a) : \A direction :
              /\ Spares(a, MoveTab(a, t, direction), {}, {}, {a.wsOf[t]})
              /\ MoveTab(a, t, direction).order = a.order
         /\ \A w, direction : Spares(a, MoveWorkspace(a, w, direction), {}, {}, {})
         /\ \A order : Spares(a, MoveWorkspacesTo(a, order), {}, {}, {})
         /\ \A w : SameMaps(a, FocusWorkspace(a, w))
         /\ \A t : SameMaps(a, FocusTab(a, t))
         /\ \A p : SameMaps(a, FocusPane(a, p))
<1>1. a \in Model
  BY DEF Ok
<1>2. ASSUME NEW t \in LiveTabs(a), NEW direction
      PROVE  /\ Spares(a, MoveTab(a, t, direction), {}, {}, {a.wsOf[t]})
             /\ MoveTab(a, t, direction).order = a.order
  <2> DEFINE b == MoveTab(a, t, direction)
             w == a.wsOf[t]
             strip == MoveOne(a.tabIds[w], t, direction)
  <2>1. /\ b.order = a.order /\ b.tabIds = [a.tabIds EXCEPT ![w] = strip] /\ b.wsOf = a.wsOf
        /\ b.leaves = a.leaves /\ b.zoomed = a.zoomed /\ b.tabOf = a.tabOf
    BY <1>1 DEF MoveTab, Model
  <2> HIDE DEF strip, b
  <2>2. \A v \in WsId \ {w} : b.tabIds[v] = a.tabIds[v]
    BY <1>1, <2>1, ModelTypes
  <2>3. Spares(a, b, {}, {}, {w}) /\ b.order = a.order
    BY <2>1, <2>2 DEF Spares
  <2> QED BY <2>3 DEF b
<1>3. \A order : Spares(a, [a EXCEPT !.order = order], {}, {}, {})
  BY <1>1 DEF Model, Spares
<1>4. /\ \A w, direction : Spares(a, MoveWorkspace(a, w, direction), {}, {}, {})
      /\ \A order : Spares(a, MoveWorkspacesTo(a, order), {}, {}, {})
  BY <1>1, <1>3 DEF MoveWorkspace, MoveWorkspacesTo, Model
<1>5. \A w : SameMaps(a, FocusWorkspace(a, w))
  BY SetFocusSpares DEF FocusWorkspace
<1>6. \A t : SameMaps(a, FocusTab(a, t))
  BY <1>1 DEF FocusTab, SetFocus, SameMaps, Model
<1>7. \A p : SameMaps(a, FocusPane(a, p))
  BY <1>1 DEF FocusPane, SetFocus, SameMaps, Model
<1> QED BY <1>2, <1>4, <1>5, <1>6, <1>7

\* The tab that a moved pane leaves.
LEMMA LeaveTabSpares ==
  ASSUME NEW n \in Model, NEW s \in TabId, n.wsOf[s] \in WsId, NEW p, NEW b, b = LeaveTab(n, s, p)
  PROVE  /\ Spares(n, b, {}, {s}, IF s \in LiveTabs(b) THEN {} ELSE {n.wsOf[s]})
         /\ OrderKept(n, b, n.wsOf[s])
<1> DEFINE rest == Without(n.leaves[s], p)
           w == n.wsOf[s]
<1>1. CASE rest = <<>>
  <2>1. b = DropTab(n, s)
    BY <1>1 DEF LeaveTab
  <2>2. /\ b.wsOf = [n.wsOf EXCEPT ![s] = None]
        /\ b.leaves = [n.leaves EXCEPT ![s] = <<>>]
        /\ b.zoomed = [n.zoomed EXCEPT ![s] = None]
        /\ b.tabOf = n.tabOf
        /\ b.tabIds = [n.tabIds EXCEPT ![w] = Without(n.tabIds[w], s)]
        /\ OrderKept(n, b, w)
    BY <2>1, DropTabIs
  <2>3. /\ \A u \in TabId : b.wsOf[u] = IF u = s THEN None ELSE n.wsOf[u]
        /\ \A u \in TabId \ {s} : b.leaves[u] = n.leaves[u] /\ b.zoomed[u] = n.zoomed[u]
        /\ \A v \in WsId \ {w} : b.tabIds[v] = n.tabIds[v]
    BY <2>2, ModelTypes
  <2>4. s \notin LiveTabs(b)
    BY <2>3 DEF LiveTabs
  <2> QED BY <2>2, <2>3, <2>4 DEF Spares
<1>2. CASE rest # <<>>
  <2> HIDE DEF rest
  <2>1. b = [n EXCEPT !.leaves[s] = rest,
                      !.focused[s] = IF n.focused[s] = p THEN Head(rest) ELSE n.focused[s],
                      !.zoomed[s] = None]
    BY <1>2 DEF LeaveTab, Model, rest
  <2>2. /\ b.order = n.order /\ b.tabIds = n.tabIds /\ b.wsOf = n.wsOf /\ b.tabOf = n.tabOf
        /\ b.leaves = [n.leaves EXCEPT ![s] = rest] /\ b.zoomed = [n.zoomed EXCEPT ![s] = None]
    BY <2>1 DEF Model
  <2>3. \A u \in TabId \ {s} : b.leaves[u] = n.leaves[u] /\ b.zoomed[u] = n.zoomed[u]
    BY <2>2, ModelTypes
  <2>4. s \in LiveTabs(b)
    BY <2>2, IdTypes DEF LiveTabs
  <2> QED BY <2>2, <2>3, <2>4 DEF Spares, OrderKept
<1> QED BY <1>1, <1>2

LEMMA LeaveTabStays ==
  ASSUME NEW n \in Model, NEW s \in TabId, n.wsOf[s] \in WsId, NEW p, NEW b, b = LeaveTab(n, s, p),
         NEW u \in TabId, u # s
  PROVE  b.wsOf[u] = n.wsOf[u]
<1> DEFINE rest == Without(n.leaves[s], p)
           w == n.wsOf[s]
<1>1. CASE rest = <<>>
  <2>1. b = DropTab(n, s)
    BY <1>1 DEF LeaveTab
  <2>2. /\ b.wsOf = [n.wsOf EXCEPT ![s] = None]
        /\ b.leaves = [n.leaves EXCEPT ![s] = <<>>]
        /\ b.zoomed = [n.zoomed EXCEPT ![s] = None]
        /\ b.tabOf = n.tabOf
        /\ b.tabIds = [n.tabIds EXCEPT ![w] = Without(n.tabIds[w], s)]
        /\ OrderKept(n, b, w)
    BY <2>1, DropTabIs
  <2> QED BY <2>2, ModelTypes
<1>2. CASE rest # <<>>
  <2> HIDE DEF rest
  <2>1. b = [n EXCEPT !.leaves[s] = rest,
                      !.focused[s] = IF n.focused[s] = p THEN Head(rest) ELSE n.focused[s],
                      !.zoomed[s] = None]
    BY <1>2 DEF LeaveTab, Model, rest
  <2> QED BY <2>1 DEF Model
<1> QED BY <1>1, <1>2

\* moveToTab: the pane, the two tabs, and the workspace of the one that goes.
LEMMA MoveToTabSpares ==
  ASSUME NEW a, Ok(a), NEW p \in LivePanes(a), NEW t \in LiveTabs(a),
         NEW s, s = a.tabOf[p], NEW b, b = MoveToTab(a, p, t),
         NEW P, P = {p}, NEW T, T = {s, t}, NEW W, W = IF s \in LiveTabs(b) THEN {} ELSE {a.wsOf[s]}
  PROVE  /\ Spares(a, b, P, T, W)
         /\ OrderKept(a, b, a.wsOf[s])
<1> DEFINE longer == InsertAfter(a.leaves[t], a.focused[t], p)
           n == [a EXCEPT !.tabOf[p] = t, !.leaves[t] = longer, !.focused[t] = p, !.zoomed[t] = None]
           c == LeaveTab(n, s, p)
<1>1. /\ a \in Model /\ s \in TabId /\ p \in PaneId /\ t \in TabId /\ a.wsOf[s] \in WsId
  BY LivePaneFacts, LiveTabFacts DEF Ok
<1>2. longer \in Seq(PaneId)
  <2>1. /\ a.leaves[t] \in Distinct(PaneId) /\ a.focused[t] \in Range(a.leaves[t])
        /\ p \in PaneId
    BY <1>1, LiveTabFacts
  <2>2. a.leaves[t] \in Seq(PaneId)
    BY <2>1 DEF Distinct
  <2>3. Pos(a.leaves[t], a.focused[t]) + 1 \in 1 .. Len(a.leaves[t]) + 1
    <3>1. Pos(a.leaves[t], a.focused[t]) \in 1 .. Len(a.leaves[t]) /\ Len(a.leaves[t]) \in Nat
      BY <2>1, <2>2, PosProperties, LenProperties
    <3> QED BY <3>1
  <2> QED BY <1>1, <2>2, <2>3, InsertAtProperties DEF InsertAfter
<1>3. b = SetFocus(c, a.wsOf[t], t, p)
  BY <1>1 DEF MoveToTab, Model
<1> HIDE DEF longer
<1>4. /\ n.order = a.order /\ n.tabIds = a.tabIds /\ n.wsOf = a.wsOf
      /\ n.leaves = [a.leaves EXCEPT ![t] = longer] /\ n.zoomed = [a.zoomed EXCEPT ![t] = None]
      /\ n.tabOf = [a.tabOf EXCEPT ![p] = t]
  BY <1>1 DEF Model
<1>5. n \in Model
  <2>1. /\ [a.tabOf EXCEPT ![p] = t] \in [PaneId -> TabId \cup {None}]
        /\ [a.leaves EXCEPT ![t] = longer] \in [TabId -> Seq(PaneId)]
        /\ [a.focused EXCEPT ![t] = p] \in [TabId -> PaneId \cup {None}]
        /\ [a.zoomed EXCEPT ![t] = None] \in [TabId -> PaneId \cup {None}]
    BY <1>1, <1>2, ModelTypes
  <2> QED BY <1>1, <2>1 DEF Model
<1> HIDE DEF n
<1>6. Spares(a, n, {p}, {t}, {})
  <2>1. /\ \A q \in PaneId \ {p} : n.tabOf[q] = a.tabOf[q]
        /\ \A u \in TabId \ {t} : n.leaves[u] = a.leaves[u] /\ n.zoomed[u] = a.zoomed[u]
    BY <1>1, <1>4, ModelTypes
  <2> QED BY <1>4, <2>1 DEF Spares
<1> HIDE DEF c
<1>7. /\ Spares(n, c, {}, {s}, IF s \in LiveTabs(c) THEN {} ELSE {a.wsOf[s]})
      /\ OrderKept(n, c, a.wsOf[s])
  BY <1>1, <1>4, <1>5, LeaveTabSpares DEF c
<1>8. SameMaps(c, b)
  BY <1>3, SetFocusSpares
<1> QED BY <1>4, <1>6, <1>7, <1>8 DEF Spares, OrderKept, SameMaps, LiveTabs

\* moveToNewTab: the new tab as well, and the workspace that lists it.
LEMMA MoveToNewTabSpares ==
  ASSUME NEW a, Ok(a), NEW p \in LivePanes(a), NEW w \in LiveWs(a), a.nextT \in TabId,
         NEW s, s = a.tabOf[p], NEW b, b = MoveToNewTab(a, p, w), NEW P, p \in P,
         NEW T, s \in T, a.nextT \in T, NEW W, w \in W, s \in LiveTabs(b) \/ a.wsOf[s] \in W
  PROVE  /\ Spares(a, b, P, T, W)
         /\ OrderKept(a, b, a.wsOf[s])
         /\ b.wsOf[a.nextT] = w
<1> DEFINE t == a.nextT
           n == [a EXCEPT !.nextT = t + 1,
                          !.tabOf[p] = t,
                          !.wsOf[t] = w,
                          !.leaves[t] = <<p>>,
                          !.focused[t] = p,
                          !.tabIds[w] = Append(a.tabIds[w], t),
                          !.active[w] = t]
           c == LeaveTab(n, s, p)
<1>1. /\ a \in Model /\ s \in TabId /\ p \in PaneId /\ t \in TabId /\ t \in Nat /\ w \in WsId
      /\ a.wsOf[s] \in WsId /\ s \in LiveTabs(a) /\ s # t
  <2>1. /\ a \in Model /\ s \in TabId /\ p \in PaneId /\ t \in Nat /\ w \in WsId /\ s \in LiveTabs(a)
    BY LivePaneFacts, ModelTypes, HeadInRange DEF Ok, LiveWs
  <2>2. a.wsOf[s] \in WsId
    BY <2>1, LiveTabFacts
  <2>3. s < t
    BY <2>1 DEF Ok, Consistent, IdsBelowNext
  <2> QED BY <2>1, <2>2, <2>3
<1>2. b = SetFocus(c, w, t, p)
  BY <1>1 DEF MoveToNewTab, Model
<1> HIDE DEF t
<1>3. /\ n.order = a.order /\ n.wsOf = [a.wsOf EXCEPT ![t] = w]
      /\ n.tabIds = [a.tabIds EXCEPT ![w] = Append(a.tabIds[w], t)]
      /\ n.leaves = [a.leaves EXCEPT ![t] = <<p>>] /\ n.zoomed = a.zoomed
      /\ n.tabOf = [a.tabOf EXCEPT ![p] = t]
  BY <1>1 DEF Model
<1>4. n \in Model
  <2>1. /\ [a.tabOf EXCEPT ![p] = t] \in [PaneId -> TabId \cup {None}]
        /\ [a.wsOf EXCEPT ![t] = w] \in [TabId -> WsId \cup {None}]
        /\ [a.focused EXCEPT ![t] = p] \in [TabId -> PaneId \cup {None}]
        /\ [a.active EXCEPT ![w] = t] \in [WsId -> TabId \cup {None}]
    BY <1>1, ModelTypes
  <2>2. [a.tabIds EXCEPT ![w] = Append(a.tabIds[w], t)] \in [WsId -> Seq(TabId)]
    BY <1>1, ModelTypes
  <2>3. <<p>> \in Seq(PaneId)
    BY <1>1
  <2>4. [a.leaves EXCEPT ![t] = <<p>>] \in [TabId -> Seq(PaneId)]
    BY <1>1, <2>3, ModelTypes
  <2>5. t + 1 \in Nat
    BY <1>1
  <2> QED BY <1>1, <2>1, <2>2, <2>4, <2>5, ZenonT(60) DEF Model
<1> HIDE DEF n
<1>5. Spares(a, n, {p}, {t}, {w}) /\ n.wsOf[s] = a.wsOf[s] /\ n.wsOf[t] = w
  <2>1. /\ \A q \in PaneId \ {p} : n.tabOf[q] = a.tabOf[q]
        /\ \A u \in TabId \ {t} : n.leaves[u] = a.leaves[u] /\ n.wsOf[u] = a.wsOf[u]
        /\ \A v \in WsId \ {w} : n.tabIds[v] = a.tabIds[v]
        /\ n.wsOf[t] = w
    BY <1>1, <1>3, ModelTypes
  <2> QED BY <1>1, <1>3, <2>1 DEF Spares
<1> HIDE DEF c
<1>6. /\ Spares(n, c, {}, {s}, IF s \in LiveTabs(c) THEN {} ELSE {a.wsOf[s]})
      /\ OrderKept(n, c, a.wsOf[s])
      /\ c.wsOf[t] = w
  <2>1. /\ Spares(n, c, {}, {s}, IF s \in LiveTabs(c) THEN {} ELSE {a.wsOf[s]})
        /\ OrderKept(n, c, a.wsOf[s])
    BY <1>1, <1>4, <1>5, LeaveTabSpares DEF c
  <2>2. c.wsOf[t] = n.wsOf[t]
    BY <1>1, <1>4, <1>5, LeaveTabStays DEF c
  <2> QED BY <1>5, <2>1, <2>2
<1>7. SameMaps(c, b)
  BY <1>2, SetFocusSpares
<1> QED BY <1>3, <1>5, <1>6, <1>7 DEF Spares, OrderKept, SameMaps, LiveTabs, t

\* The commits: the pane, its tab, and the workspace that lists the tab.
LEMMA CommitSpares ==
  ASSUME NEW a, Ok(a), NEW w \in WsId, NEW t \in TabId, NEW p \in PaneId,
         NEW b, b = CommitWorkspace(a, w, t, p) \/ b = CommitTab(a, w, t, p),
         NEW P, p \in P, NEW T, t \in T, NEW W, w \in W
  PROVE  Spares(a, b, P, T, W)
<1>1. a \in Model
  BY DEF Ok
<1>2. /\ b.tabOf = [a.tabOf EXCEPT ![p] = t] /\ b.wsOf = [a.wsOf EXCEPT ![t] = w]
      /\ b.leaves = [a.leaves EXCEPT ![t] = <<p>>] /\ b.zoomed = a.zoomed
      /\ \/ b.tabIds = [a.tabIds EXCEPT ![w] = <<t>>]
         \/ b.tabIds = [a.tabIds EXCEPT ![w] = Append(a.tabIds[w], t)]
  <2>1. CASE b = CommitWorkspace(a, w, t, p)
    BY <1>1, <2>1 DEF CommitWorkspace, SetFocus, Model
  <2>2. CASE b = CommitTab(a, w, t, p)
    BY <1>1, <2>2 DEF CommitTab, SetFocus, Model
  <2> QED BY <2>1, <2>2
<1>3. /\ \A q \in PaneId \ {p} : b.tabOf[q] = a.tabOf[q]
      /\ \A u \in TabId \ {t} : b.leaves[u] = a.leaves[u] /\ b.wsOf[u] = a.wsOf[u]
      /\ \A v \in WsId \ {w} : b.tabIds[v] = a.tabIds[v]
  BY <1>1, <1>2, ModelTypes
<1> QED BY <1>2, <1>3 DEF Spares

LEMMA CommitOrder ==
  ASSUME NEW a, Ok(a), NEW w, NEW t, NEW p
  PROVE  /\ CommitWorkspace(a, w, t, p).order = Append(a.order, w)
         /\ CommitTab(a, w, t, p).order = a.order
<1>1. a \in Model
  BY DEF Ok
<1> QED BY <1>1 DEF CommitWorkspace, CommitTab, SetFocus, Model

\* splitPane: the new pane and the tab that its source is in.
LEMMA SplitPaneSpares ==
  ASSUME NEW a, Ok(a), NEW q \in LivePanes(a), NEW p \in PaneId, NEW b, b = SplitPane(a, q, p),
         NEW t, t = a.tabOf[q], NEW P, p \in P, NEW T, t \in T
  PROVE  Spares(a, b, P, T, {}) /\ b.order = a.order /\ b.tabOf[p] = t
<1> DEFINE s == InsertAfter(a.leaves[t], q, p)
<1>1. a \in Model /\ t \in TabId
  BY LivePaneFacts DEF Ok
<1>2. /\ b.order = a.order /\ b.tabIds = a.tabIds /\ b.wsOf = a.wsOf
      /\ b.leaves = [a.leaves EXCEPT ![t] = s] /\ b.zoomed = [a.zoomed EXCEPT ![t] = None]
      /\ b.tabOf = [a.tabOf EXCEPT ![p] = t]
  BY <1>1 DEF SplitPane, SetFocus, Model
<1> HIDE DEF s
<1>3. /\ \A r \in PaneId : b.tabOf[r] = IF r = p THEN t ELSE a.tabOf[r]
      /\ \A u \in TabId \ {t} : b.leaves[u] = a.leaves[u] /\ b.zoomed[u] = a.zoomed[u]
  BY <1>1, <1>2, ModelTypes
<1> QED BY <1>2, <1>3 DEF Spares
=============================================================================
