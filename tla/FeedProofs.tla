---------------------------- MODULE FeedProofs ----------------------------
(* The engine's copy follows the listers, and Feed implements Watch, for   *)
(* any keys, objects, capacity, changes and lost watches.                  *)
EXTENDS Feed, FiniteSetTheorems, SequenceTheorems, WellFoundedInduction, TLAPS

-----------------------------------------------------------------------------
(* What a queue leaves of a key.                                           *)

\* The last index of q that has key k, if there is one.
LastOf(q, k, i) == /\ i \in DOMAIN q /\ q[i].key = k
                   /\ \A j \in DOMAIN q : q[j].key = k => j <= i
NoneOf(q, k) == \A i \in DOMAIN q : q[i].key # k

\* A queue holds no event of a key, or a last one.
LEMMA LastExists ==
    ASSUME NEW S, NEW q \in Seq(S), NEW k
    PROVE  NoneOf(q, k) \/ \E i \in DOMAIN q : LastOf(q, k, i)
<1> SUFFICES ASSUME NEW h \in DOMAIN q, q[h].key = k
             PROVE  \E i \in DOMAIN q : LastOf(q, k, i)
  BY DEF NoneOf
<1> DEFINE R == {p \in Nat \X Nat : p[1] < p[2]}
           T == {n \in Nat : \E i \in DOMAIN q : q[i].key = k /\ n = Len(q) - i}
<1>1. IsWellFoundedOn(R, Nat)
  BY NatLessThanWellFounded DEF OpToRel
<1>2. T \subseteq Nat /\ T # {}
  <2>1. Len(q) - h \in Nat
    OBVIOUS
  <2> QED BY <2>1
<1>3. PICK x \in T : \A y \in T : ~(<<y, x>> \in R)
  <2> HIDE DEF R, T
  <2> QED BY <1>1, <1>2, WFMin
<1>4. PICK i \in DOMAIN q : q[i].key = k /\ x = Len(q) - i
  OBVIOUS
<1>5. ASSUME NEW j \in DOMAIN q, q[j].key = k PROVE j <= i
  <2>1. Len(q) - j \in T
    BY <1>5
  <2>2. x \in Nat /\ Len(q) - j \in Nat /\ <<Len(q) - j, x>> \in Nat \X Nat
    BY <1>2
  <2>3. ~(<<Len(q) - j, x>>[1] < <<Len(q) - j, x>>[2])
    BY <1>3, <2>1, <2>2, Zenon
  <2> QED BY <1>4, <2>2, <2>3
<1> QED BY <1>4, <1>5 DEF LastOf

\* Without an event of the key, what was known of it stays.
LEMMA NewestNone ==
    ASSUME NEW S, NEW q \in Seq(S), NEW k, NEW old, NoneOf(q, k)
    PROVE  Newest(q, k, old) = old
<1>1. {i \in 1..Len(q) : q[i].key = k} = {}
  BY DEF NoneOf
<1>2. SelectLastInSeq(q, LAMBDA d : d.key = k) = 0
  BY <1>1 DEF SelectLastInSeq
<1> QED BY <1>2 DEF Newest

\* Otherwise what its last event leaves is known.
LEMMA NewestLast ==
    ASSUME NEW S, NEW q \in Seq(S), NEW k, NEW old, NEW i, LastOf(q, k, i)
    PROVE  Newest(q, k, old) = Left(q[i])
<1> DEFINE I == {j \in 1..Len(q) : q[j].key = k}
<1>1. i \in I /\ I \subseteq Nat /\ \A j \in I : i >= j
  BY DEF LastOf
<1>2. SelectLastInSeq(q, LAMBDA d : d.key = k) = IF I # {} THEN Max(I) ELSE 0
  BY Zenon DEF SelectLastInSeq
<1>3. i # 0
  BY <1>1
<1> HIDE DEF I
<1>4. Max(I) = i
  <2>1. Max(I) \in I /\ \A j \in I : Max(I) >= j
    <3>1. \E m \in I : \A j \in I : m >= j
      BY <1>1
    <3> QED BY <3>1, Zenon DEF Max
  <2>2. \A m \in I : (\A j \in I : m >= j) => m = i
    BY <1>1
  <2> QED BY <2>1, <2>2, Zenon
<1> QED BY <1>1, <1>2, <1>3, <1>4 DEF Newest

\* An index of a concatenation is one of the first or of the second.
LEMMA ConcatIndex ==
    ASSUME NEW S, NEW q \in Seq(S), NEW r \in Seq(S), NEW s, s = q \o r
    PROVE  /\ s \in Seq(S) /\ Len(q) \in Nat /\ DOMAIN s \subseteq Int
           /\ \A i \in DOMAIN s : \/ i \in DOMAIN q /\ s[i] = q[i]
                                  \/ i - Len(q) \in DOMAIN r /\ s[i] = r[i - Len(q)]
           /\ \A i \in DOMAIN q : i \in DOMAIN s /\ s[i] = q[i]
           /\ \A i \in DOMAIN r : Len(q) + i \in DOMAIN s /\ s[Len(q) + i] = r[i]
<1>1. /\ s \in Seq(S) /\ Len(s) = Len(q) + Len(r)
      /\ \A i \in 1..Len(q) + Len(r) : s[i] = IF i <= Len(q) THEN q[i] ELSE r[i - Len(q)]
  BY ConcatProperties
<1>2. /\ Len(q) \in Nat /\ Len(r) \in Nat /\ DOMAIN q = 1..Len(q) /\ DOMAIN r = 1..Len(r)
      /\ DOMAIN s = 1..Len(s)
  BY <1>1
<1>3. ASSUME NEW i \in DOMAIN s
      PROVE  \/ i \in DOMAIN q /\ s[i] = q[i]
             \/ i - Len(q) \in DOMAIN r /\ s[i] = r[i - Len(q)]
  BY ONLY <1>1, <1>2, i \in DOMAIN s
<1>4. ASSUME NEW i \in DOMAIN q PROVE i \in DOMAIN s /\ s[i] = q[i]
  BY ONLY <1>1, <1>2, i \in DOMAIN q
<1>5. ASSUME NEW i \in DOMAIN r PROVE Len(q) + i \in DOMAIN s /\ s[Len(q) + i] = r[i]
  <2>1. Len(q) + i \in 1..Len(q) + Len(r) /\ ~(Len(q) + i <= Len(q)) /\ Len(q) + i - Len(q) = i
    BY ONLY <1>2, i \in DOMAIN r
  <2> QED BY ONLY <1>1, <1>2, <2>1
<1>6. DOMAIN s \subseteq Int
  BY <1>2
<1> QED BY <1>1, <1>2, <1>3, <1>4, <1>5, <1>6

\* An empty queue changes nothing.
LEMMA NewestEmpty == ASSUME NEW k, NEW old PROVE Newest(<< >>, k, old) = old
<1>1. << >> \in Seq({}) /\ NoneOf(<< >>, k)
  BY DEF NoneOf
<1> QED BY <1>1, NewestNone

\* Queues one after the other.
LEMMA NewestConcat ==
    ASSUME NEW S, NEW q \in Seq(S), NEW r \in Seq(S), NEW k, NEW old
    PROVE  Newest(q \o r, k, old) = Newest(r, k, Newest(q, k, old))
<1> DEFINE s == q \o r
<1>1. s \in Seq(S) /\ Len(s) = Len(q) + Len(r) /\ Len(q) \in Nat /\ Len(r) \in Nat
  OBVIOUS
<1>2. /\ \A i \in DOMAIN q : i \in DOMAIN s /\ s[i] = q[i]
      /\ \A i \in DOMAIN r : Len(q) + i \in DOMAIN s /\ s[Len(q) + i] = r[i]
      /\ \A i \in DOMAIN s : i \in DOMAIN q \/ i - Len(q) \in DOMAIN r
  OBVIOUS
<1>3. DOMAIN q = 1..Len(q) /\ DOMAIN r = 1..Len(r) /\ DOMAIN s = 1..Len(s)
  BY <1>1
<1> HIDE DEF s
<1>4. CASE NoneOf(r, k)
  <2>1. \A i \in DOMAIN s : s[i].key = k => i \in DOMAIN q
    <3> SUFFICES ASSUME NEW i \in DOMAIN s, i \notin DOMAIN q PROVE s[i].key # k
      OBVIOUS
    <3>1. i - Len(q) \in DOMAIN r /\ i \in Int
      BY <1>2, <1>3
    <3>2. s[Len(q) + (i - Len(q))] = r[i - Len(q)] /\ Len(q) + (i - Len(q)) = i
      BY <1>1, <1>2, <3>1
    <3> QED BY <1>4, <3>1, <3>2 DEF NoneOf
  <2>2. Newest(r, k, Newest(q, k, old)) = Newest(q, k, old)
    BY <1>4, NewestNone
  <2>3. CASE NoneOf(q, k)
    <3>1. NoneOf(s, k)
      BY <1>2, <2>1, <2>3 DEF NoneOf
    <3> QED BY <1>1, <2>2, <2>3, <3>1, NewestNone DEF s
  <2>4. ASSUME NEW i \in DOMAIN q, LastOf(q, k, i) PROVE Newest(s, k, old) = Newest(q, k, old)
    <3>1. LastOf(s, k, i) /\ s[i] = q[i]
      BY <1>2, <2>1, <2>4 DEF LastOf
    <3> QED BY <1>1, <2>4, <3>1, NewestLast
  <2> QED BY <2>2, <2>3, <2>4, LastExists DEF s
<1>5. ASSUME NEW i \in DOMAIN r, LastOf(r, k, i)
      PROVE  Newest(s, k, old) = Newest(r, k, Newest(q, k, old))
  <2>1. LastOf(s, k, Len(q) + i)
    <3>1. Len(q) + i \in DOMAIN s /\ s[Len(q) + i].key = k
      BY <1>2, <1>5 DEF LastOf
    <3>2. ASSUME NEW j \in DOMAIN s, s[j].key = k PROVE j <= Len(q) + i
      <4>1. CASE j \in DOMAIN q
        BY <1>1, <1>3, <4>1
      <4>2. CASE j - Len(q) \in DOMAIN r
        <5>1. s[Len(q) + (j - Len(q))] = r[j - Len(q)] /\ Len(q) + (j - Len(q)) = j
          BY <1>1, <1>2, <1>3, <4>2
        <5>2. j - Len(q) <= i
          BY <1>5, <3>2, <4>2, <5>1 DEF LastOf
        <5> QED BY <1>1, <1>3, <5>2
      <4> QED BY <1>2, <4>1, <4>2
    <3> QED BY <3>1, <3>2 DEF LastOf
  <2>2. s[Len(q) + i] = r[i]
    BY <1>2
  <2> QED BY <1>1, <1>5, <2>1, <2>2, NewestLast
<1> QED BY <1>4, <1>5, LastExists DEF s

\* One event decides for its own key alone.
LEMMA NewestSingle ==
    ASSUME NEW e, NEW k, NEW old
    PROVE  Newest(<<e>>, k, old) = IF e.key = k THEN Left(e) ELSE old
<1>1. <<e>> \in Seq({e}) /\ DOMAIN <<e>> = {1} /\ <<e>>[1] = e
  OBVIOUS
<1>2. CASE e.key = k
  <2>1. LastOf(<<e>>, k, 1)
    BY <1>1, <1>2 DEF LastOf
  <2> QED BY <1>1, <1>2, <2>1, NewestLast
<1>3. CASE e.key # k
  <2>1. NoneOf(<<e>>, k)
    BY <1>1, <1>3 DEF NoneOf
  <2> QED BY <1>1, <1>3, <2>1, NewestNone
<1> QED BY <1>2, <1>3

\* An event put at the end of the queue decides for its key.
LEMMA NewestAppend ==
    ASSUME NEW S, NEW q \in Seq(S), NEW e \in S, NEW k, NEW old
    PROVE  Newest(Append(q, e), k, old) = IF e.key = k THEN Left(e) ELSE Newest(q, k, old)
<1> DEFINE one == <<e>>
<1>1. Append(q, e) = q \o one /\ one \in Seq(S)
  OBVIOUS
<1>2. Newest(one, k, Newest(q, k, old)) = IF e.key = k THEN Left(e) ELSE Newest(q, k, old)
  BY NewestSingle
<1> HIDE DEF one
<1>3. Newest(q \o one, k, old) = Newest(one, k, Newest(q, k, old))
  BY <1>1, NewestConcat
<1> QED BY <1>1, <1>2, <1>3

\* Handling the first event does not change what is known once all are handled.
LEMMA NewestTail ==
    ASSUME NEW S, NEW q \in Seq(S), q # << >>, NEW k, NEW old
    PROVE  Newest(Tail(q), k, IF Head(q).key = k THEN Left(Head(q)) ELSE old) = Newest(q, k, old)
<1> DEFINE one == <<Head(q)>>
           rest == Tail(q)
<1>1. q = one \o rest /\ one \in Seq(S) /\ rest \in Seq(S)
  BY HeadTailProperties
<1>2. Newest(one, k, old) = IF Head(q).key = k THEN Left(Head(q)) ELSE old
  BY NewestSingle
<1> HIDE DEF one, rest
<1>3. Newest(one \o rest, k, old) = Newest(rest, k, Newest(one, k, old))
  BY <1>1, NewestConcat
<1>4. Newest(q, k, old) = Newest(rest, k, IF Head(q).key = k THEN Left(Head(q)) ELSE old)
  BY <1>1, <1>2, <1>3
<1> QED BY <1>4 DEF rest

-----------------------------------------------------------------------------
(* The queues of deltas.                                                   *)

\* Each Delete of q carries what the deltas before it, or else the cache c,
\* leave of its key.
Chain(q, c) ==
    \A i \in DOMAIN q : q[i].type = "Delete" =>
        q[i].obj = Newest(SubSeq(q, 1, i - 1), q[i].key, c[q[i].key])

\* More deltas, one to a key, whose Deletes carry what was known.
LEMMA ChainConcat ==
    ASSUME NEW S, NEW q \in Seq(S), NEW l \in Seq(S), NEW c, Chain(q, c),
           \A i, j \in DOMAIN l : l[i].key = l[j].key => i = j,
           \A i \in DOMAIN l : l[i].type = "Delete" => l[i].obj = Newest(q, l[i].key, c[l[i].key])
    PROVE  Chain(q \o l, c)
<1> DEFINE s == q \o l
<1>1. s \in Seq(S) /\ Len(q) \in Nat /\ Len(l) \in Nat /\ DOMAIN q = 1..Len(q) /\ DOMAIN l = 1..Len(l)
  OBVIOUS
<1>2. \A i \in DOMAIN s : \/ i \in DOMAIN q /\ s[i] = q[i]
                          \/ \E h \in DOMAIN l : i = Len(q) + h /\ s[i] = l[h]
  <2> SUFFICES ASSUME NEW i \in DOMAIN s, i \notin DOMAIN q
               PROVE  i - Len(q) \in DOMAIN l /\ i = Len(q) + (i - Len(q)) /\ s[i] = l[i - Len(q)]
    OBVIOUS
  <2> QED OBVIOUS
<1>3. ASSUME NEW i \in DOMAIN q
      PROVE  SubSeq(s, 1, i - 1) = SubSeq(q, 1, i - 1)
  OBVIOUS
<1>4. ASSUME NEW h \in DOMAIN l
      PROVE  SubSeq(s, 1, Len(q) + h - 1) = q \o SubSeq(l, 1, h - 1)
  <2> DEFINE n == Len(q) + h - 1
             x == SubSeq(s, 1, n)
             y == SubSeq(l, 1, h - 1)
  <2>1. n \in Nat /\ h - 1 \in Nat /\ n <= Len(s) /\ h - 1 <= Len(l) /\ h \in Nat
    BY <1>1
  <2>2. x \in Seq(S) /\ Len(x) = n /\ \A i \in 1..n : x[i] = s[i]
    <3> HIDE DEF s, n
    <3> QED BY <1>1, <2>1
  <2>3. y \in Seq(S) /\ Len(y) = h - 1 /\ \A i \in 1..h - 1 : y[i] = l[i]
    BY <1>1, <2>1
  <2> HIDE DEF x, y
  <2>4. /\ q \o y \in Seq(S) /\ Len(q \o y) = n
        /\ \A i \in 1..n : (q \o y)[i] = IF i <= Len(q) THEN q[i] ELSE y[i - Len(q)]
    <3>1. Len(q) + Len(y) = n
      BY <1>1, <2>1, <2>3
    <3> QED BY <2>3, <3>1, ConcatProperties
  <2>q. \A i \in 1..n : s[i] = IF i <= Len(q) THEN q[i] ELSE l[i - Len(q)]
    BY <1>1, <2>1
  <2>5. ASSUME NEW i \in 1..n PROVE x[i] = (q \o y)[i]
    <3>1. i > Len(q) => i - Len(q) \in 1..h - 1
      BY <1>1, <2>1
    <3>2. i \in Nat /\ Len(q) \in Nat
      BY <1>1, <2>1
    <3>3. x[i] = IF i <= Len(q) THEN q[i] ELSE l[i - Len(q)]
      BY <2>2, <2>q
    <3>4. (q \o y)[i] = IF i <= Len(q) THEN q[i] ELSE y[i - Len(q)]
      BY <2>4
    <3>5. i > Len(q) => y[i - Len(q)] = l[i - Len(q)]
      BY <2>3, <3>1
    <3> QED BY <3>2, <3>3, <3>4, <3>5
  <2>6. x = q \o y
    <3> HIDE DEF n
    <3> QED BY <2>2, <2>4, <2>5, SeqEqual
  <2> QED BY <2>6 DEF x, y
<1> HIDE DEF s
<1>5. ASSUME NEW i \in DOMAIN s, s[i].type = "Delete"
      PROVE  s[i].obj = Newest(SubSeq(s, 1, i - 1), s[i].key, c[s[i].key])
  <2>1. CASE i \in DOMAIN q /\ s[i] = q[i]
    BY <1>3, <1>5, <2>1 DEF Chain
  <2>2. ASSUME NEW h \in DOMAIN l, i = Len(q) + h, s[i] = l[h]
        PROVE  s[i].obj = Newest(SubSeq(s, 1, i - 1), s[i].key, c[s[i].key])
    <3> DEFINE k == l[h].key
               b == SubSeq(l, 1, h - 1)
    <3>1. b \in Seq(S) /\ \A j \in DOMAIN b : j \in DOMAIN l /\ j # h /\ b[j] = l[j]
      <4>1. 1 \in 1..Len(l) + 1 /\ h - 1 \in 0..Len(l)
        BY <1>1
      <4> QED BY <1>1, <4>1
    <3>2. NoneOf(b, k)
      BY <3>1 DEF NoneOf
    <3> HIDE DEF b
    <3>3. Newest(q \o b, k, c[k]) = Newest(b, k, Newest(q, k, c[k]))
      BY <3>1, NewestConcat
    <3>4. Newest(b, k, Newest(q, k, c[k])) = Newest(q, k, c[k])
      BY <3>1, <3>2, NewestNone
    <3>5. SubSeq(s, 1, i - 1) = q \o b
      <4>1. i - 1 = Len(q) + h - 1
        BY <1>1, <2>2
      <4> QED BY <1>4, <4>1 DEF b
    <3> QED BY <1>5, <2>2, <3>3, <3>4, <3>5
  <2> QED BY <1>2, <2>1, <2>2
<1>6. Chain(s, c)
  BY <1>5 DEF Chain
<1> QED BY <1>6 DEF s

\* The informer takes the first delta and puts what it leaves into the cache.
LEMMA ChainTail ==
    ASSUME NEW S, NEW q \in Seq(S), q # << >>, NEW c, NEW d, Chain(q, c),
           \A i \in DOMAIN q : d[q[i].key] = IF q[i].key = Head(q).key THEN Left(Head(q)) ELSE c[q[i].key]
    PROVE  Chain(Tail(q), d)
<1> SUFFICES ASSUME NEW i \in DOMAIN Tail(q), Tail(q)[i].type = "Delete"
             PROVE  Tail(q)[i].obj = Newest(SubSeq(Tail(q), 1, i - 1), Tail(q)[i].key, d[Tail(q)[i].key])
  BY DEF Chain
<1> DEFINE k == q[i + 1].key
           b == SubSeq(q, 1, i)
<1>1. i + 1 \in DOMAIN q /\ Tail(q)[i] = q[i + 1] /\ i + 1 - 1 = i /\ i \in 1..Len(q)
  BY HeadTailProperties
<1>2. q[i + 1].obj = Newest(b, k, c[k])
  BY <1>1 DEF Chain
<1>3. b \in Seq(S) /\ b # << >> /\ Head(b) = Head(q)
  BY <1>1
<1>4. Tail(b) = SubSeq(Tail(q), 1, i - 1)
  BY <1>1
<1> HIDE DEF b
<1>5. Newest(Tail(b), k, IF Head(b).key = k THEN Left(Head(b)) ELSE c[k]) = Newest(b, k, c[k])
  BY <1>3, NewestTail
<1>6. d[k] = IF Head(b).key = k THEN Left(Head(b)) ELSE c[k]
  BY <1>1, <1>3
<1> QED BY <1>1, <1>2, <1>4, <1>5, <1>6

-----------------------------------------------------------------------------
(* The invariant.                                                          *)

AllObjs == UNION {Objs[k] : k \in Keys}
Delta(kind) == {d \in [key : KeysOf(kind), type : {"Update", "Delete"}, obj : AllObjs,
                       tombstone : BOOLEAN] : d.obj \in Objs[d.key]}
Mapped == {map(k, o) : k \in Keys, o \in AllObjs}
EventOf(kind) == [key : KeysOf(kind), type : {"Add", "Update", "Delete"}, obj : Mapped]

FeedType ==
    /\ DOMAIN api = Keys /\ DOMAIN cache = Keys /\ DOMAIN seen = Keys
    /\ \A k \in Keys : api[k] \in Objs[k] \cup {Absent} /\ cache[k] \in Objs[k] \cup {Absent}
    /\ DOMAIN deltas = Kinds /\ DOMAIN conn = Kinds
    /\ notes = [kind \in Kinds |-> notes[kind]] /\ DOMAIN events = Kinds
    /\ handlers \subseteq Kinds /\ ctx \in BOOLEAN

\* The queue of a kind leads from the cache to what the API server has, unless
\* the watch is lost, and each Delete in it carries the object it deletes.
QueueInv(kind) ==
    /\ deltas[kind] \in Seq(Delta(kind))
    /\ Chain(deltas[kind], cache)
    /\ conn[kind] => \A k \in KeysOf(kind) : Newest(deltas[kind], k, cache[k]) = api[k]

\* The events of a kind lead from the engine's copy to the listers.
PendingInv(kind) ==
    /\ events[kind] \in Seq(EventOf(kind)) /\ notes[kind] \in Seq(EventOf(kind))
    /\ kind \notin handlers => /\ events[kind] = << >> /\ notes[kind] = << >>
                               /\ \A k \in KeysOf(kind) : seen[k] = Absent
    /\ ctx /\ kind \in handlers => \A k \in KeysOf(kind) :
                                    Newest(Pending(kind), k, seen[k]) = Lister(k, cache[k])

FeedInv == FeedType /\ \A kind \in Kinds : QueueInv(kind) /\ PendingInv(kind)

\* An order of a set is a sequence of all of its elements, each once.
LEMMA OrderedBy ==
    ASSUME NEW kind \in Kinds, NEW S \in SUBSET KeysOf(kind), NEW f \in Orders(S)
    PROVE  /\ f \in Seq(S)
           /\ \A i, j \in DOMAIN f : f[i] = f[j] => i = j
           /\ \A x \in S : \E i \in DOMAIN f : f[i] = x
<1>1. IsFiniteSet(KeysOf(kind))
  BY KeysAssumption DEF Kinds, KeysOf
<1>2. Cardinality(S) \in Nat
  BY <1>1, FS_Subset, FS_CardinalityType
<1>3. /\ f \in [1..Cardinality(S) -> S]
      /\ \A i, j \in 1..Cardinality(S) : f[i] = f[j] => i = j
      /\ \A x \in S : \E i \in 1..Cardinality(S) : f[i] = x
  BY DEF Orders, Bijection, Injection, Surjection, IsInjective
<1> QED BY <1>2, <1>3

\* The keys are split among the kinds of objects.
LEMMA KeysByKind ==
    /\ \A kind \in Kinds : \A k \in KeysOf(kind) : k \in Keys /\ KindOf(k) = kind
    /\ \A k \in Keys : KindOf(k) \in Kinds /\ k \in KeysOf(KindOf(k))
    /\ \A a, b \in Kinds : a # b => KeysOf(a) \cap KeysOf(b) = {}
BY KeysAssumption DEF Kinds, KeysOf, Keys, KindOf

\* Nothing of a kind changes: its queue, its watch, its objects and its cache.
LEMMA QueueFrame ==
    ASSUME NEW kind \in Kinds, QueueInv(kind), deltas'[kind] = deltas[kind],
           conn'[kind] => conn[kind],
           \A k \in KeysOf(kind) : cache'[k] = cache[k] /\ api'[k] = api[k]
    PROVE  QueueInv(kind)'
<1> DEFINE q == deltas[kind]
<1>1. q \in Seq(Delta(kind)) /\ \A i \in DOMAIN q : q[i].key \in KeysOf(kind)
  BY DEF QueueInv, Delta
<1>2. Chain(q, cache')
  BY <1>1 DEF QueueInv, Chain
<1> QED BY <1>1, <1>2 DEF QueueInv

\* A step that touches nothing of a kind keeps the invariant of that kind.
LEMMA PendingFrame ==
    ASSUME NEW kind \in Kinds, PendingInv(kind), events'[kind] = events[kind], notes'[kind] = notes[kind],
           kind \in handlers' <=> kind \in handlers, ctx' => ctx,
           \A k \in KeysOf(kind) : cache'[k] = cache[k] /\ seen'[k] = seen[k]
    PROVE  PendingInv(kind)'
<1>1. Pending(kind)' = Pending(kind)
  BY DEF Pending
<1> QED BY <1>1 DEF PendingInv

\* The inductive invariant holds in the initial states.
LEMMA InitFeed == Init => FeedInv
<1> SUFFICES ASSUME Init PROVE FeedInv
  OBVIOUS
<1>1. FeedType
  BY DEF Init, FeedType
<1>2. ASSUME NEW kind \in Kinds PROVE QueueInv(kind) /\ PendingInv(kind)
  <2>1. \A k \in KeysOf(kind) : k \in Keys
    BY KeysByKind
  <2> QED BY <2>1 DEF Init, QueueInv, PendingInv, Chain
<1> QED BY <1>1, <1>2 DEF FeedInv

\* The watch is lost; the informers start; the context ends.
LEMMA QuietSteps ==
    ASSUME FeedInv, Start \/ Cancel \/ \E kind \in Kinds : BreakWatch(kind)
    PROVE  FeedInv'
<1>1. /\ UNCHANGED <<api, deltas, cache, handlers, notes, events, seen>>
      /\ ctx' \in BOOLEAN /\ (ctx' => ctx) /\ DOMAIN conn' = Kinds
      /\ \A kind \in Kinds : conn'[kind] => conn[kind]
  BY DEF FeedInv, FeedType, Start, Cancel, BreakWatch, informer
<1>2. FeedType'
  BY <1>1 DEF FeedInv, FeedType
<1>3. ASSUME NEW kind \in Kinds PROVE QueueInv(kind)' /\ PendingInv(kind)'
  BY <1>1, QueueFrame, PendingFrame DEF FeedInv
<1> QED BY <1>2, <1>3 DEF FeedInv

\* A change of the cluster keeps it.
LEMMA ChangeKeeps ==
    ASSUME FeedInv, NEW k \in Keys, ChangeObject(k)
    PROVE  FeedInv'
<1> DEFINE kind == KindOf(k)
           q == deltas[kind]
<1>1. PICK o \in (Objs[k] \cup {Absent}) \ {api[k]} :
        /\ api' = [api EXCEPT ![k] = o]
        /\ deltas' = IF conn[kind]
                     THEN [deltas EXCEPT ![kind] =
                             Append(@, IF o = Absent THEN Gone(k, api[k], FALSE) ELSE Upsert(k, o))]
                     ELSE deltas
  BY DEF ChangeObject
<1>2. UNCHANGED <<conn, cache, handlers, notes, events, seen, ctx>>
  BY DEF ChangeObject
<1>k. kind \in Kinds /\ k \in KeysOf(kind)
  BY KeysByKind
<1>3. FeedType'
  BY <1>1, <1>2 DEF FeedInv, FeedType
<1>4. ASSUME NEW other \in Kinds PROVE PendingInv(other)'
  BY <1>2, PendingFrame DEF FeedInv
<1>5. ASSUME NEW other \in Kinds \ {kind} PROVE QueueInv(other)'
  <2>1. \A j \in KeysOf(other) : j # k /\ j \in Keys
    BY <1>k, KeysByKind
  <2>2. deltas'[other] = deltas[other] /\ \A j \in KeysOf(other) : api'[j] = api[j]
    BY <1>1, <2>1 DEF FeedInv, FeedType
  <2> QED BY <1>2, <2>2, QueueFrame DEF FeedInv
<1>6. QueueInv(kind)'
  <2>1. CASE ~conn[kind]
    <3>1. deltas' = deltas /\ conn' = conn /\ cache' = cache
      BY <1>1, <1>2, <2>1
    <3> QED BY <2>1, <3>1, <1>k DEF FeedInv, QueueInv
  <2>2. CASE conn[kind]
    <3> DEFINE d == IF o = Absent THEN Gone(k, api[k], FALSE) ELSE Upsert(k, o)
               l == <<d>>
    <3>t. k \in KeysOf(kind) /\ api[k] \in Objs[k] \cup {Absent} /\ Objs[k] \subseteq AllObjs
      BY <1>k DEF FeedInv, FeedType, AllObjs
    <3>1. d \in Delta(kind)
      BY <1>1, <3>t DEF Delta, Gone, Upsert
    <3>2. d.key = k /\ Left(d) = o /\ (d.type = "Delete" => d.obj = api[k])
      BY <1>1 DEF Gone, Upsert, Left
    <3> HIDE DEF d
    <3>3. q \in Seq(Delta(kind)) /\ Chain(q, cache) /\ \A j \in KeysOf(kind) : Newest(q, j, cache[j]) = api[j]
      BY <1>k, <2>2 DEF FeedInv, QueueInv
    <3>4. deltas'[kind] = Append(q, d)
      BY <1>1, <1>k, <2>2 DEF FeedInv, FeedType, d
    <3>5. Append(q, d) = q \o l /\ l \in Seq(Delta(kind)) /\ DOMAIN l = {1} /\ l[1] = d
      BY <3>1, <3>3
    <3> HIDE DEF l, q
    <3>6. Chain(q \o l, cache)
      <4>1. \A i \in DOMAIN l : l[i].type = "Delete" => l[i].obj = Newest(q, l[i].key, cache[l[i].key])
        BY <1>k, <3>2, <3>3, <3>5
      <4>2. \A i, j \in DOMAIN l : l[i].key = l[j].key => i = j
        BY <3>5
      <4> QED BY <3>3, <3>5, <4>1, <4>2, ChainConcat
    <3>7. ASSUME NEW j \in KeysOf(kind) PROVE Newest(Append(q, d), j, cache[j]) = api'[j]
      <4>1. Newest(Append(q, d), j, cache[j]) = IF d.key = j THEN Left(d) ELSE Newest(q, j, cache[j])
        BY <3>1, <3>3, NewestAppend
      <4>2. api'[j] = IF k = j THEN o ELSE api[j]
        BY <1>1, <1>k, KeysByKind DEF FeedInv, FeedType
      <4> QED BY <3>2, <3>3, <4>1, <4>2
    <3>8. Append(q, d) \in Seq(Delta(kind))
      BY <3>1, <3>3
    <3> QED BY <1>2, <3>4, <3>5, <3>6, <3>7, <3>8 DEF QueueInv
  <2> QED BY <2>1, <2>2
<1> QED BY <1>3, <1>4, <1>5, <1>6 DEF FeedInv

\* A list has a delta for each object that is there or that was known, so it
\* makes up for what the lost watch missed.
LEMMA RelistKeeps ==
    ASSUME FeedInv, NEW kind \in Kinds, Relist(kind)
    PROVE  FeedInv'
<1> DEFINE q == deltas[kind]
           found == {k \in KeysOf(kind) : api[k] # Absent}
           lost == {k \in KeysOf(kind) \ found : Known(k) # Absent}
           list(f, l) == [i \in DOMAIN f |-> Upsert(f[i], api[f[i]])]
                         \o [i \in DOMAIN l |-> Gone(l[i], Known(l[i]), TRUE)]
<1>1. PICK f \in Orders(found), l \in Orders(lost) : deltas' = [deltas EXCEPT ![kind] = @ \o list(f, l)]
  BY DEF Relist
<1>2. UNCHANGED <<api, cache, handlers, notes, events, seen, ctx>> /\ conn' = [conn EXCEPT ![kind] = TRUE]
  BY DEF Relist
<1>3. FeedType'
  BY <1>1, <1>2 DEF FeedInv, FeedType
<1>4. ASSUME NEW other \in Kinds PROVE PendingInv(other)'
  BY <1>2, PendingFrame DEF FeedInv
<1>5. ASSUME NEW other \in Kinds \ {kind} PROVE QueueInv(other)'
  BY <1>1, <1>2, QueueFrame DEF FeedInv, FeedType
<1>6. QueueInv(kind)'
  <2>q. q \in Seq(Delta(kind)) /\ Chain(q, cache) /\ deltas'[kind] = q \o list(f, l)
    BY <1>1 DEF FeedInv, FeedType, QueueInv
  <2>k. \A k \in KeysOf(kind) : Known(k) = Newest(q, k, cache[k])
    BY KeysByKind DEF Known
  <2>o. \A k \in KeysOf(kind) : /\ api[k] \in Objs[k] \cup {Absent}
                                /\ Known(k) \in Objs[k] \cup {Absent}
                                /\ Objs[k] \subseteq AllObjs
    <3> SUFFICES ASSUME NEW k \in KeysOf(kind)
                 PROVE  /\ api[k] \in Objs[k] \cup {Absent}
                        /\ Newest(q, k, cache[k]) \in Objs[k] \cup {Absent}
                        /\ Objs[k] \subseteq AllObjs
      BY <2>k
    <3>1. k \in Keys
      BY KeysByKind
    <3>2. api[k] \in Objs[k] \cup {Absent} /\ cache[k] \in Objs[k] \cup {Absent} /\ Objs[k] \subseteq AllObjs
      BY <3>1 DEF FeedInv, FeedType, AllObjs
    <3>3. CASE NoneOf(q, k)
      BY <2>q, <3>2, <3>3, NewestNone
    <3>4. ASSUME NEW i \in DOMAIN q, LastOf(q, k, i) PROVE Newest(q, k, cache[k]) \in Objs[k] \cup {Absent}
      <4>1. Newest(q, k, cache[k]) = Left(q[i])
        BY <2>q, <3>4, NewestLast
      <4>2. q[i].obj \in Objs[k]
        BY <2>q, <3>4 DEF LastOf, Delta
      <4> QED BY <4>1, <4>2 DEF Left
    <3> QED BY <2>q, <3>2, <3>3, <3>4, LastExists
  <2> DEFINE s == list(f, l)
             u == [i \in DOMAIN f |-> Upsert(f[i], api[f[i]])]
             g == [i \in DOMAIN l |-> Gone(l[i], Known(l[i]), TRUE)]
  <2>f. /\ f \in Seq(found) /\ \A i, j \in DOMAIN f : f[i] = f[j] => i = j
        /\ \A k \in found : \E i \in DOMAIN f : f[i] = k
    <3>1. found \in SUBSET KeysOf(kind)
      OBVIOUS
    <3> HIDE DEF found, list
    <3> QED BY <3>1, OrderedBy
  <2>l. /\ l \in Seq(lost) /\ \A i, j \in DOMAIN l : l[i] = l[j] => i = j
        /\ \A k \in lost : \E i \in DOMAIN l : l[i] = k
    <3>1. lost \in SUBSET KeysOf(kind)
      OBVIOUS
    <3> HIDE DEF found, lost, list
    <3> QED BY <3>1, OrderedBy
  <2>u. /\ u \in Seq(Delta(kind)) /\ DOMAIN u = DOMAIN f
        /\ \A i \in DOMAIN f : u[i].key = f[i] /\ u[i].type = "Update" /\ Left(u[i]) = api[f[i]]
    <3>1. ASSUME NEW k \in found PROVE Upsert(k, api[k]) \in Delta(kind) /\ Left(Upsert(k, api[k])) = api[k]
      BY <2>o DEF Delta, Upsert, Left
    <3>2. \A i \in DOMAIN f : f[i] \in found
      BY <2>f
    <3>3. Len(f) \in Nat /\ DOMAIN f = 1..Len(f)
      BY <2>f
    <3> HIDE DEF found
    <3>4. u \in [1..Len(f) -> Delta(kind)]
      BY <3>1, <3>2, <3>3
    <3>5. \A i \in DOMAIN f : u[i] = Upsert(f[i], api[f[i]])
      OBVIOUS
    <3> HIDE DEF u
    <3>6. u \in Seq(Delta(kind)) /\ DOMAIN u = DOMAIN f
      BY <3>3, <3>4
    <3> QED BY <3>1, <3>2, <3>5, <3>6 DEF Upsert
  <2>g. /\ g \in Seq(Delta(kind)) /\ DOMAIN g = DOMAIN l
        /\ \A i \in DOMAIN l : g[i].key = l[i] /\ g[i].type = "Delete" /\ g[i].obj = Known(l[i])
    <3>1. ASSUME NEW k \in lost PROVE Gone(k, Known(k), TRUE) \in Delta(kind)
      BY <2>o DEF Delta, Gone
    <3>2. \A i \in DOMAIN l : l[i] \in lost
      BY <2>l
    <3>3. Len(l) \in Nat /\ DOMAIN l = 1..Len(l)
      BY <2>l
    <3> HIDE DEF lost
    <3>4. g \in [1..Len(l) -> Delta(kind)]
      BY <3>1, <3>2, <3>3
    <3>5. \A i \in DOMAIN l : g[i] = Gone(l[i], Known(l[i]), TRUE)
      OBVIOUS
    <3> HIDE DEF g
    <3>6. g \in Seq(Delta(kind)) /\ DOMAIN g = DOMAIN l
      BY <3>3, <3>4
    <3> QED BY <3>5, <3>6 DEF Gone
  <2>s. s = u \o g
    OBVIOUS
  <2>d. /\ \A i \in DOMAIN f : f[i] \in KeysOf(kind) /\ api[f[i]] # Absent
        /\ \A i \in DOMAIN l : l[i] \in KeysOf(kind) /\ api[l[i]] = Absent
    BY <2>f, <2>l
  <2>n. \A k \in KeysOf(kind) : \/ \E i \in DOMAIN f : f[i] = k
                                \/ \E i \in DOMAIN l : l[i] = k
                                \/ api[k] = Absent /\ Known(k) = Absent
    BY <2>f, <2>l
  <2> HIDE DEF s, u, g, found, lost
  <2>1. /\ s \in Seq(Delta(kind)) /\ Len(u) \in Nat
        /\ \A i \in DOMAIN s : \/ i \in DOMAIN f /\ s[i] = u[i]
                               \/ i - Len(u) \in DOMAIN l /\ s[i] = g[i - Len(u)]
        /\ \A i \in DOMAIN f : i \in DOMAIN s /\ s[i] = u[i]
        /\ \A i \in DOMAIN l : Len(u) + i \in DOMAIN s /\ s[Len(u) + i] = g[i]
        /\ DOMAIN s \subseteq Int
    <3>1. u \in Seq(Delta(kind)) /\ g \in Seq(Delta(kind)) /\ DOMAIN u = DOMAIN f /\ DOMAIN g = DOMAIN l
      BY <2>u, <2>g
    <3> QED BY <2>s, <3>1, ConcatIndex
  <2>2. \A i, j \in DOMAIN s : s[i].key = s[j].key => i = j
    <3> SUFFICES ASSUME NEW i \in DOMAIN s, NEW j \in DOMAIN s, s[i].key = s[j].key PROVE i = j
      OBVIOUS
    <3>1. CASE i \in DOMAIN f /\ s[i] = u[i] /\ j \in DOMAIN f /\ s[j] = u[j]
      BY <2>f, <2>u, <3>1
    <3>2. CASE i - Len(u) \in DOMAIN l /\ s[i] = g[i - Len(u)] /\ j - Len(u) \in DOMAIN l /\ s[j] = g[j - Len(u)]
      <4>1. i - Len(u) = j - Len(u)
        BY <2>l, <2>g, <3>2
      <4> QED BY <2>1, <4>1
    <3>3. CASE i \in DOMAIN f /\ s[i] = u[i] /\ j - Len(u) \in DOMAIN l /\ s[j] = g[j - Len(u)]
      BY <2>u, <2>g, <2>d, <3>3
    <3>4. CASE i - Len(u) \in DOMAIN l /\ s[i] = g[i - Len(u)] /\ j \in DOMAIN f /\ s[j] = u[j]
      BY <2>u, <2>g, <2>d, <3>4
    <3> QED BY <2>1, <3>1, <3>2, <3>3, <3>4
  <2>3. \A i \in DOMAIN s : s[i].type = "Delete" => s[i].obj = Newest(q, s[i].key, cache[s[i].key])
    BY <2>1, <2>u, <2>g, <2>d, <2>k
  <2>4. Chain(q \o s, cache) /\ q \o s \in Seq(Delta(kind))
    BY <2>q, <2>1, <2>2, <2>3, ChainConcat
  <2>5. ASSUME NEW k \in KeysOf(kind) PROVE Newest(q \o s, k, cache[k]) = api[k]
    <3>1. Newest(q \o s, k, cache[k]) = Newest(s, k, Known(k))
      <4>1. Newest(q \o s, k, cache[k]) = Newest(s, k, Newest(q, k, cache[k]))
        BY <2>q, <2>1, NewestConcat
      <4> QED BY <2>k, <4>1
    <3>2. \A i \in DOMAIN s : s[i].key = k => LastOf(s, k, i)
      <4>1. \A i \in DOMAIN s : i <= i
        BY <2>1
      <4> QED BY <2>2, <4>1 DEF LastOf
    <3>3. \A i \in DOMAIN s : s[i].key = k => Newest(s, k, Known(k)) = Left(s[i])
      BY <2>1, <3>2, NewestLast
    <3>4. ASSUME NEW i \in DOMAIN f, f[i] = k PROVE Newest(s, k, Known(k)) = api[k]
      <4>1. s[i] = u[i] /\ i \in DOMAIN s /\ u[i].key = k /\ Left(u[i]) = api[k]
        BY <2>1, <2>u, <3>4
      <4> QED BY <3>3, <4>1
    <3>5. ASSUME NEW i \in DOMAIN l, l[i] = k PROVE Newest(s, k, Known(k)) = api[k]
      <4>1. s[Len(u) + i] = g[i] /\ Len(u) + i \in DOMAIN s /\ g[i].key = k /\ Left(g[i]) = Absent
        BY <2>1, <2>g, <3>5 DEF Left
      <4> QED BY <2>d, <3>3, <3>5, <4>1
    <3>6. ASSUME ~\E i \in DOMAIN f : f[i] = k, ~\E i \in DOMAIN l : l[i] = k
          PROVE  Newest(s, k, Known(k)) = api[k]
      <4>1. NoneOf(s, k)
        BY <2>1, <2>u, <2>g, <3>6 DEF NoneOf
      <4> QED BY <2>1, <2>n, <3>6, <4>1, NewestNone
    <3> QED BY <3>1, <3>4, <3>5, <3>6
  <2> QED BY <1>2, <2>q, <2>4, <2>5 DEF QueueInv, s
<1> QED BY <1>3, <1>4, <1>5, <1>6 DEF FeedInv

-----------------------------------------------------------------------------
(* The handlers and the channels.                                          *)

\* What the call for a change of k from o to n sends: nothing, and then the
\* lister does not change, or one event that leaves what the lister has.
LEMMA NotifyTells ==
    ASSUME NEW kind \in Kinds, NEW k \in KeysOf(kind), NEW o \in Objs[k] \cup {Absent},
           NEW n \in Objs[k] \cup {Absent}, o # Absent \/ n # Absent, NEW tombstone
    PROVE  \/ Notify(k, o, n, tombstone) = << >> /\ Lister(k, n) = Lister(k, o)
           \/ \E e \in EventOf(kind) : /\ Notify(k, o, n, tombstone) = <<e>>
                                       /\ e.key = k /\ Left(e) = Lister(k, n)
                                       /\ e \in W!Notices(k, Lister(k, o), Lister(k, n))
<1> DEFINE ev(t, x) == [key |-> k, type |-> t, obj |-> map(k, x)]
<1>1. k \in Keys /\ \A x \in Objs[k] : x \in AllObjs
  BY KeysByKind DEF AllObjs
<1>2. /\ \A x \in Objs[k] : map(k, x) \in Mapped /\ map(k, x) # Absent /\ x # Absent
      /\ \A x \in Objs[k], t \in {"Add", "Update", "Delete"} : ev(t, x) \in EventOf(kind)
  BY <1>1, AbsentAssumption DEF Mapped, EventOf
<1>3. /\ Lister(k, Absent) = Absent
      /\ \A x \in Objs[k] : Lister(k, x) = IF Managed(k, x) THEN map(k, x) ELSE Absent
  BY <1>2 DEF Lister, Managed
<1>m. \A x \in Objs[k] : ~Managed(k, x) => k \in Services
  BY DEF Managed
<1>l. \A x \in Objs[k] : /\ Left(ev("Add", x)) = map(k, x) /\ Left(ev("Update", x)) = map(k, x)
                         /\ Left(ev("Delete", x)) = Absent
  BY DEF Left
<1>4. CASE n = Absent
  <2>1. o \in Objs[k] /\ Notify(k, o, n, tombstone) = IF Managed(k, o) THEN <<ev("Delete", o)>> ELSE << >>
    BY <1>4 DEF Notify, DeleteFunc, Event
  <2>2. CASE Managed(k, o)
    <3>1. ev("Delete", o) \in W!Notices(k, Lister(k, o), Lister(k, n))
      BY <1>2, <1>3, <1>4, <2>1, <2>2 DEF W!Notices
    <3>2. ev("Delete", o) \in EventOf(kind) /\ ev("Delete", o).key = k /\ Left(ev("Delete", o)) = Lister(k, n)
      BY <1>2, <1>3, <1>4, <1>l, <2>1
    <3> HIDE DEF ev
    <3> QED BY <2>1, <2>2, <3>1, <3>2
  <2>3. CASE ~Managed(k, o)
    BY <1>3, <1>4, <2>1, <2>3
  <2> QED BY <2>2, <2>3
<1>5. CASE n \in Objs[k] /\ o = Absent
  <2>1. Notify(k, o, n, tombstone) = IF Managed(k, n) THEN <<ev("Add", n)>> ELSE << >>
    BY <1>2, <1>5 DEF Notify, AddFunc, Event
  <2>2. CASE Managed(k, n)
    <3>1. ev("Add", n) \in W!Notices(k, Lister(k, o), Lister(k, n))
      BY <1>2, <1>3, <1>5, <2>2 DEF W!Notices
    <3>2. ev("Add", n) \in EventOf(kind) /\ ev("Add", n).key = k /\ Left(ev("Add", n)) = Lister(k, n)
      BY <1>2, <1>3, <1>5, <1>l, <2>2
    <3> HIDE DEF ev
    <3> QED BY <2>1, <2>2, <3>1, <3>2
  <2>3. CASE ~Managed(k, n)
    BY <1>3, <1>5, <2>1, <2>3
  <2> QED BY <2>2, <2>3
<1>6. CASE n \in Objs[k] /\ o \in Objs[k]
  <2>1. Notify(k, o, n, tombstone) = IF Managed(k, o) /\ ~Managed(k, n) THEN <<ev("Delete", o)>>
                                     ELSE IF Managed(k, n) THEN <<ev("Update", n)>> ELSE << >>
    BY <1>2, <1>6 DEF Notify, UpdateFunc, Event
  <2>2. CASE Managed(k, o) /\ ~Managed(k, n)
    <3>1. ev("Delete", o) \in W!Notices(k, Lister(k, o), Lister(k, n))
      BY <1>2, <1>3, <1>6, <2>2 DEF W!Notices
    <3>2. ev("Delete", o) \in EventOf(kind) /\ ev("Delete", o).key = k /\ Left(ev("Delete", o)) = Lister(k, n)
      BY <1>2, <1>3, <1>6, <1>l, <2>2
    <3> HIDE DEF ev
    <3> QED BY <2>1, <2>2, <3>1, <3>2
  <2>3. CASE Managed(k, n)
    <3>1. ev("Update", n) \in W!Notices(k, Lister(k, o), Lister(k, n))
      BY <1>2, <1>3, <1>6, <1>m, <2>3 DEF W!Notices
    <3>2. ev("Update", n) \in EventOf(kind) /\ ev("Update", n).key = k /\ Left(ev("Update", n)) = Lister(k, n)
      BY <1>2, <1>3, <1>6, <1>l, <2>3
    <3> HIDE DEF ev
    <3> QED BY <2>1, <2>3, <3>1, <3>2
  <2>4. CASE ~Managed(k, o) /\ ~Managed(k, n)
    BY <1>3, <1>6, <2>1, <2>4
  <2> QED BY <2>2, <2>3, <2>4
<1> QED BY <1>4, <1>5, <1>6

\* What the handler of a delta does to the cache and the notes.
LEMMA HandleTells ==
    ASSUME FeedInv, NEW kind \in Kinds, HandleDeltas(kind)
    PROVE  \E k \in KeysOf(kind) : \E n \in Objs[k] \cup {Absent} :
             /\ k = Head(deltas[kind]).key /\ n = Left(Head(deltas[kind]))
             /\ cache' = [cache EXCEPT ![k] = n]
             /\ \/ notes' = notes /\ (kind \in handlers => Lister(k, n) = Lister(k, cache[k]))
                \/ /\ kind \in handlers
                   /\ \E e \in EventOf(kind) :
                        /\ notes' = [notes EXCEPT ![kind] = Append(@, e)]
                        /\ e.key = k /\ Left(e) = Lister(k, n)
                        /\ e \in W!Notices(k, Lister(k, cache[k]), Lister(k, n))
<1> DEFINE q == deltas[kind]
           d == Head(q)
           k == d.key
           n == Left(d)
           old == IF d.type = "Delete" THEN d.obj ELSE cache[k]
           ns == Notify(k, old, n, d.tombstone)
<1>1. q \in Seq(Delta(kind)) /\ q # << >> /\ Chain(q, cache)
  BY DEF FeedInv, QueueInv, HandleDeltas
<1>2. /\ cache' = [cache EXCEPT ![k] = n]
      /\ notes' = IF kind \in handlers THEN [notes EXCEPT ![kind] = @ \o ns] ELSE notes
  BY DEF HandleDeltas
<1>3. d \in Delta(kind) /\ 1 \in DOMAIN q /\ q[1] = d /\ SubSeq(q, 1, 1 - 1) = << >>
  BY <1>1
<1>4. d.type = "Delete" => d.obj = cache[k]
  <2>1. d.type = "Delete" => d.obj = Newest(SubSeq(q, 1, 1 - 1), k, cache[k])
    BY <1>1, <1>3, Zenon DEF Chain
  <2> QED BY <1>3, <2>1, NewestEmpty
<1>5. old = cache[k]
  BY <1>4
<1>6. /\ k \in KeysOf(kind) /\ d.obj \in Objs[k] /\ n \in Objs[k] \cup {Absent}
      /\ d.type \in {"Update", "Delete"}
  BY <1>3 DEF Delta, Left
<1>7. cache[k] \in Objs[k] \cup {Absent}
  BY <1>6, KeysByKind DEF FeedInv, FeedType
<1>8. old # Absent \/ n # Absent
  <2>1. d.obj # Absent
    BY <1>6, KeysByKind, AbsentAssumption
  <2> QED BY <1>6, <2>1 DEF Left
<1> DEFINE t == d.tombstone
<1> HIDE DEF q, d, k, n, old, t
<1>9. \/ ns = << >> /\ Lister(k, n) = Lister(k, cache[k])
      \/ \E e \in EventOf(kind) : /\ ns = <<e>> /\ e.key = k /\ Left(e) = Lister(k, n)
                                  /\ e \in W!Notices(k, Lister(k, cache[k]), Lister(k, n))
  BY <1>5, <1>6, <1>7, <1>8, NotifyTells DEF t
<1> HIDE DEF ns
<1>10. notes[kind] \in Seq(EventOf(kind)) /\ notes = [x \in Kinds |-> notes[x]]
  BY DEF FeedInv, FeedType, PendingInv
<1>11. CASE kind \notin handlers
  BY <1>2, <1>6, <1>11 DEF k, n, d, q
<1>12. CASE kind \in handlers /\ ns = << >> /\ Lister(k, n) = Lister(k, cache[k])
  <2>1. notes[kind] \o ns = notes[kind]
    BY <1>10, <1>12
  <2>2. notes' = [notes EXCEPT ![kind] = notes[kind]]
    BY <1>2, <1>12, <2>1
  <2>3. notes' = notes
    BY <1>10, <2>2
  <2> QED BY <1>2, <1>6, <1>12, <2>3 DEF k, n, d, q
<1>13. ASSUME kind \in handlers, NEW e \in EventOf(kind), ns = <<e>>, e.key = k, Left(e) = Lister(k, n),
              e \in W!Notices(k, Lister(k, cache[k]), Lister(k, n))
       PROVE  notes' = [notes EXCEPT ![kind] = Append(@, e)]
  <2> DEFINE b == notes[kind]
  <2>1. b \in Seq(EventOf(kind))
    BY <1>10
  <2> HIDE DEF b
  <2>2. b \o <<e>> = Append(b, e)
    BY <2>1
  <2> QED BY <1>2, <1>13, <2>2, Zenon DEF b
<1> QED BY <1>2, <1>6, <1>9, <1>11, <1>12, <1>13 DEF k, n, d, q

\* What the engine will make of the events is what the lister has after the
\* delta; the queue still leads from the cache to the API server.
LEMMA HandleKeeps ==
    ASSUME FeedInv, NEW kind \in Kinds, HandleDeltas(kind)
    PROVE  FeedInv'
<1> DEFINE q == deltas[kind]
<1>0. PICK k \in KeysOf(kind) : \E n \in Objs[k] \cup {Absent} :
        /\ k = Head(q).key /\ n = Left(Head(q))
        /\ cache' = [cache EXCEPT ![k] = n]
        /\ \/ notes' = notes /\ (kind \in handlers => Lister(k, n) = Lister(k, cache[k]))
           \/ /\ kind \in handlers
              /\ \E e \in EventOf(kind) : /\ notes' = [notes EXCEPT ![kind] = Append(@, e)]
                                          /\ e.key = k /\ Left(e) = Lister(k, n)
  BY HandleTells
<1>1. PICK n \in Objs[k] \cup {Absent} :
        /\ k = Head(q).key /\ n = Left(Head(q))
        /\ cache' = [cache EXCEPT ![k] = n]
        /\ \/ notes' = notes /\ (kind \in handlers => Lister(k, n) = Lister(k, cache[k]))
           \/ /\ kind \in handlers
              /\ \E e \in EventOf(kind) : /\ notes' = [notes EXCEPT ![kind] = Append(@, e)]
                                          /\ e.key = k /\ Left(e) = Lister(k, n)
  BY <1>0
<1>2. /\ deltas' = [deltas EXCEPT ![kind] = Tail(@)] /\ q # << >>
      /\ UNCHANGED <<api, conn, handlers, events, seen, ctx>>
  BY DEF HandleDeltas
<1>3. k \in Keys /\ DOMAIN cache = Keys /\ DOMAIN notes = Kinds /\ DOMAIN deltas = Kinds
  BY KeysByKind DEF FeedInv, FeedType
<1>4. \A j \in Keys : cache'[j] = IF j = k THEN n ELSE cache[j]
  BY <1>1, <1>3
<1>5. FeedType'
  BY <1>1, <1>2, <1>3, <1>4 DEF FeedInv, FeedType
<1>6. ASSUME NEW other \in Kinds \ {kind} PROVE QueueInv(other)' /\ PendingInv(other)'
  <2>1. \A j \in KeysOf(other) : j # k /\ j \in Keys
    BY KeysByKind
  <2>2. \A j \in KeysOf(other) : cache'[j] = cache[j] /\ api'[j] = api[j] /\ seen'[j] = seen[j]
    BY <1>2, <1>4, <2>1
  <2>3. deltas'[other] = deltas[other] /\ notes'[other] = notes[other]
    BY <1>1, <1>2, <1>3
  <2> QED BY <1>2, <2>2, <2>3, QueueFrame, PendingFrame DEF FeedInv
<1>7. QueueInv(kind)'
  <2>1. q \in Seq(Delta(kind)) /\ Chain(q, cache) /\ deltas'[kind] = Tail(q)
    BY <1>2, <1>3 DEF FeedInv, QueueInv
  <2>2. \A i \in DOMAIN q : q[i].key \in Keys
    BY <2>1, KeysByKind DEF Delta
  <2>3. \A i \in DOMAIN q : cache'[q[i].key] = IF q[i].key = Head(q).key THEN Left(Head(q)) ELSE cache[q[i].key]
    BY <1>1, <1>4, <2>2
  <2>4. Tail(q) \in Seq(Delta(kind))
    BY <1>2, <2>1
  <2>5. Chain(Tail(q), cache')
    <3> HIDE DEF q
    <3> QED BY <1>2, <2>1, <2>3, ChainTail
  <2>6. ASSUME conn[kind], NEW j \in KeysOf(kind) PROVE Newest(Tail(q), j, cache'[j]) = api[j]
    <3>1. cache'[j] = IF Head(q).key = j THEN Left(Head(q)) ELSE cache[j]
      BY <1>1, <1>4, KeysByKind
    <3>2. Newest(q, j, cache[j]) = api[j]
      BY <2>6 DEF FeedInv, QueueInv
    <3> HIDE DEF q
    <3>3. Newest(Tail(q), j, IF Head(q).key = j THEN Left(Head(q)) ELSE cache[j]) = Newest(q, j, cache[j])
      BY <1>2, <2>1, NewestTail
    <3> QED BY <3>1, <3>2, <3>3
  <2> HIDE DEF q
  <2> QED BY <1>2, <2>1, <2>4, <2>5, <2>6 DEF QueueInv
<1>8. PendingInv(kind)'
  <2>1. /\ events[kind] \in Seq(EventOf(kind)) /\ notes[kind] \in Seq(EventOf(kind)) /\ PendingInv(kind)
        /\ Pending(kind) \in Seq(EventOf(kind))
    BY DEF FeedInv, PendingInv, Pending
  <2>2. CASE notes' = notes /\ (kind \in handlers => Lister(k, n) = Lister(k, cache[k]))
    <3>1. kind \in handlers => \A j \in KeysOf(kind) : Lister(j, cache'[j]) = Lister(j, cache[j])
      BY <1>4, <2>2, KeysByKind
    <3>2. Pending(kind)' = Pending(kind)
      BY <1>2, <2>2 DEF Pending
    <3> QED BY <1>2, <2>1, <2>2, <3>1, <3>2 DEF PendingInv
  <2>3. ASSUME kind \in handlers, NEW e \in EventOf(kind), notes' = [notes EXCEPT ![kind] = Append(@, e)],
               e.key = k, Left(e) = Lister(k, n)
        PROVE  PendingInv(kind)'
    <3>1. notes'[kind] = Append(notes[kind], e) /\ notes'[kind] \in Seq(EventOf(kind))
      BY <1>3, <2>1, <2>3
    <3>2. Pending(kind)' = Append(Pending(kind), e)
      <4> DEFINE a == events[kind]
                 b == notes[kind]
      <4>1. a \in Seq(EventOf(kind)) /\ b \in Seq(EventOf(kind))
        BY <2>1
      <4> HIDE DEF a, b
      <4>2. a \o Append(b, e) = Append(a \o b, e)
        BY <4>1, <2>3
      <4> QED BY <1>2, <3>1, <4>2 DEF Pending, a, b
    <3>3. ASSUME ctx, NEW j \in KeysOf(kind)
          PROVE  Newest(Append(Pending(kind), e), j, seen[j]) = Lister(j, cache'[j])
      <4>1. Newest(Append(Pending(kind), e), j, seen[j]) = IF e.key = j THEN Left(e) ELSE Newest(Pending(kind), j, seen[j])
        BY <2>1, NewestAppend
      <4>2. Newest(Pending(kind), j, seen[j]) = Lister(j, cache[j])
        BY <2>1, <2>3, <3>3 DEF PendingInv
      <4>3. cache'[j] = IF j = k THEN n ELSE cache[j]
        BY <1>4, KeysByKind
      <4> QED BY <2>3, <4>1, <4>2, <4>3
    <3> QED BY <1>2, <2>1, <2>3, <3>1, <3>2, <3>3 DEF PendingInv
  <2> QED BY <1>1, <2>2, <2>3
<1> QED BY <1>5, <1>6, <1>7, <1>8 DEF FeedInv

\* The replay announces each managed object of the cache, once, as an Add.
LEMMA RegisterTells ==
    ASSUME FeedInv, NEW kind \in Kinds, Register(kind)
    PROVE  \E l \in Seq(EventOf(kind)) :
             /\ notes' = [notes EXCEPT ![kind] = l]
             /\ \A i \in DOMAIN l : /\ l[i].key \in KeysOf(kind)
                                    /\ Left(l[i]) = Lister(l[i].key, cache[l[i].key])
                                    /\ l[i] \in W!Notices(l[i].key, Absent, Lister(l[i].key, cache[l[i].key]))
             /\ \A i, j \in DOMAIN l : l[i].key = l[j].key => i = j
             /\ \A k \in KeysOf(kind) : Lister(k, cache[k]) # Absent => \E i \in DOMAIN l : l[i].key = k
<1> DEFINE S == {k \in KeysOf(kind) : cache[k] # Absent /\ AddFunc(k, cache[k]) # << >>}
           ev(k) == [key |-> k, type |-> "Add", obj |-> map(k, cache[k])]
           list(c) == [i \in DOMAIN c |-> AddFunc(c[i], cache[c[i]])[1]]
<1>1. PICK c \in Orders(S) : notes' = [notes EXCEPT ![kind] = list(c)]
  BY DEF Register
<1>2. \A k \in KeysOf(kind) : /\ k \in Keys /\ cache[k] \in Objs[k] \cup {Absent}
                              /\ cache[k] # Absent => /\ cache[k] \in AllObjs
                                                      /\ map(k, cache[k]) # Absent
  BY KeysByKind, AbsentAssumption DEF FeedInv, FeedType, AllObjs
<1>3. \A k \in KeysOf(kind) : AddFunc(k, cache[k]) = IF Managed(k, cache[k]) THEN <<ev(k)>> ELSE << >>
  BY DEF AddFunc, Event
<1>4. \A k \in KeysOf(kind) : k \in S <=> cache[k] # Absent /\ Managed(k, cache[k])
  <2>1. \A k \in KeysOf(kind) : <<ev(k)>> # << >>
    OBVIOUS
  <2>2. \A k \in KeysOf(kind) : AddFunc(k, cache[k]) # << >> <=> Managed(k, cache[k])
    <3> HIDE DEF ev
    <3> QED BY <1>3, <2>1, Zenon
  <2> QED BY <2>2
<1>5. \A k \in KeysOf(kind) : Lister(k, cache[k]) = IF k \in S THEN map(k, cache[k]) ELSE Absent
  BY <1>2, <1>4 DEF Lister, Managed
<1>6. ASSUME NEW k \in S
      PROVE  /\ k \in KeysOf(kind) /\ AddFunc(k, cache[k])[1] = ev(k) /\ ev(k) \in EventOf(kind)
             /\ ev(k).key = k /\ Left(ev(k)) = Lister(k, cache[k])
             /\ ev(k) \in W!Notices(k, Absent, Lister(k, cache[k]))
  <2>1. k \in KeysOf(kind) /\ Managed(k, cache[k]) /\ cache[k] # Absent
    BY <1>4
  <2>2. AddFunc(k, cache[k])[1] = ev(k)
    <3>1. AddFunc(k, cache[k]) = <<ev(k)>>
      BY <1>3, <2>1, Zenon
    <3> HIDE DEF ev
    <3> QED BY <3>1
  <2>3. ev(k) \in EventOf(kind)
    BY <1>2, <2>1 DEF EventOf, Mapped
  <2>4. Left(ev(k)) = Lister(k, cache[k])
    BY <1>5, <2>1 DEF Left
  <2>5. Lister(k, cache[k]) = map(k, cache[k]) /\ map(k, cache[k]) # Absent
    BY <1>2, <1>5, <2>1
  <2>6. ev(k) \in W!Notices(k, Absent, Lister(k, cache[k]))
    BY <2>5 DEF W!Notices
  <2> QED BY <2>1, <2>2, <2>3, <2>4, <2>6
<1>7. /\ c \in Seq(S) /\ \A i, j \in DOMAIN c : c[i] = c[j] => i = j
      /\ \A k \in S : \E i \in DOMAIN c : c[i] = k
  <2>1. S \in SUBSET KeysOf(kind)
    OBVIOUS
  <2> HIDE DEF S
  <2> QED BY <2>1, OrderedBy
<1> HIDE DEF S
<1> DEFINE l == list(c)
<1>8. Len(c) \in Nat /\ DOMAIN c = 1..Len(c) /\ \A i \in DOMAIN c : c[i] \in S
  BY <1>7
<1>9. DOMAIN l = DOMAIN c /\ \A i \in DOMAIN c : l[i] = ev(c[i])
  BY <1>6, <1>8
<1>10. l \in Seq(EventOf(kind))
  <2>1. \A i \in DOMAIN c : AddFunc(c[i], cache[c[i]])[1] \in EventOf(kind)
    BY <1>6, <1>8
  <2>2. l \in [1..Len(c) -> EventOf(kind)]
    BY <1>8, <2>1
  <2> HIDE DEF l
  <2> QED BY <1>8, <2>2
<1>11. notes' = [notes EXCEPT ![kind] = l]
  BY <1>1
<1> HIDE DEF l, list, ev
<1>12. \A i \in DOMAIN l : /\ l[i].key = c[i] /\ c[i] \in S /\ c[i] \in KeysOf(kind)
                           /\ Left(l[i]) = Lister(c[i], cache[c[i]])
                           /\ l[i] \in W!Notices(c[i], Absent, Lister(c[i], cache[c[i]]))
  BY <1>6, <1>8, <1>9
<1>13. \A i, j \in DOMAIN l : l[i].key = l[j].key => i = j
  BY <1>7, <1>9, <1>12
<1>14. \A k \in KeysOf(kind) : Lister(k, cache[k]) # Absent => \E i \in DOMAIN l : l[i].key = k
  BY <1>5, <1>7, <1>9, <1>12
<1>15. \A i \in DOMAIN l : /\ l[i].key \in KeysOf(kind)
                           /\ Left(l[i]) = Lister(l[i].key, cache[l[i].key])
                           /\ l[i] \in W!Notices(l[i].key, Absent, Lister(l[i].key, cache[l[i].key]))
  BY <1>12
<1> QED BY <1>10, <1>11, <1>13, <1>14, <1>15, Zenon

\* So does registering a handler, which replays the cache,
LEMMA RegisterKeeps ==
    ASSUME FeedInv, NEW kind \in Kinds, Register(kind)
    PROVE  FeedInv'
<1>1. PICK l \in Seq(EventOf(kind)) :
        /\ notes' = [notes EXCEPT ![kind] = l]
        /\ \A i \in DOMAIN l : /\ l[i].key \in KeysOf(kind)
                               /\ Left(l[i]) = Lister(l[i].key, cache[l[i].key])
                               /\ l[i] \in W!Notices(l[i].key, Absent, Lister(l[i].key, cache[l[i].key]))
        /\ \A i, j \in DOMAIN l : l[i].key = l[j].key => i = j
        /\ \A k \in KeysOf(kind) : Lister(k, cache[k]) # Absent => \E i \in DOMAIN l : l[i].key = k
  BY RegisterTells, Zenon
<1>2. /\ UNCHANGED <<api, conn, deltas, cache, events, seen, ctx>>
      /\ kind \notin handlers /\ handlers' = handlers \cup {kind}
  BY DEF Register, informer
<1>3. FeedType'
  BY <1>1, <1>2 DEF FeedInv, FeedType
<1>4. ASSUME NEW other \in Kinds PROVE QueueInv(other)'
  BY <1>2, QueueFrame DEF FeedInv
<1>5. ASSUME NEW other \in Kinds \ {kind} PROVE PendingInv(other)'
  <2>1. notes'[other] = notes[other] /\ (other \in handlers' <=> other \in handlers)
    BY <1>1, <1>2 DEF FeedInv, FeedType
  <2> QED BY <1>2, <2>1, PendingFrame DEF FeedInv
<1>6. PendingInv(kind)'
  <2>1. events[kind] = << >> /\ notes'[kind] = l /\ \A k \in KeysOf(kind) : seen[k] = Absent
    BY <1>1, <1>2 DEF FeedInv, FeedType, PendingInv
  <2>2. Pending(kind)' = l
    BY <1>2, <2>1 DEF Pending
  <2>3. ASSUME NEW k \in KeysOf(kind) PROVE Newest(l, k, Absent) = Lister(k, cache[k])
    <3>1. ASSUME NEW i \in DOMAIN l, l[i].key = k PROVE Newest(l, k, Absent) = Lister(k, cache[k])
      <4>1. i \in Nat /\ i <= i
        OBVIOUS
      <4>2. LastOf(l, k, i)
        BY <1>1, <3>1, <4>1 DEF LastOf
      <4>3. Newest(l, k, Absent) = Left(l[i])
        BY <4>2, NewestLast
      <4> QED BY <1>1, <3>1, <4>3
    <3>2. ASSUME ~\E i \in DOMAIN l : l[i].key = k PROVE Newest(l, k, Absent) = Lister(k, cache[k])
      <4>1. NoneOf(l, k) /\ Lister(k, cache[k]) = Absent
        BY <1>1, <3>2 DEF NoneOf
      <4> QED BY <4>1, NewestNone
    <3> QED BY <3>1, <3>2
  <2> QED BY <1>2, <2>1, <2>2, <2>3 DEF PendingInv
<1> QED BY <1>3, <1>4, <1>5, <1>6 DEF FeedInv

\* A notice that gets into the channel stays in its place among the events; one
\* is dropped only after the end of the context.
LEMMA SendMoves ==
    ASSUME FeedInv, NEW kind \in Kinds, Send(kind)
    PROVE  \/ Pending(kind)' = Pending(kind)
           \/ /\ ~ctx /\ events' = events
              /\ notes' = [notes EXCEPT ![kind] = Tail(@)] /\ notes[kind] # << >>
<1> DEFINE a == events[kind]
           b == notes[kind]
<1>1. a \in Seq(EventOf(kind)) /\ b \in Seq(EventOf(kind)) /\ b # << >>
  BY DEF FeedInv, PendingInv, Send
<1>2. CASE events' = [events EXCEPT ![kind] = Append(@, Head(notes[kind]))]
  <2>1. events'[kind] = Append(a, Head(b)) /\ notes'[kind] = Tail(b)
    BY <1>2 DEF FeedInv, FeedType, Send
  <2> HIDE DEF a, b
  <2>2. Append(a, Head(b)) \o Tail(b) = a \o b
    BY <1>1
  <2> QED BY <2>1, <2>2 DEF Pending, a, b
<1>3. CASE ~ctx /\ UNCHANGED events
  BY <1>1, <1>3 DEF Send
<1> QED BY <1>2, <1>3 DEF Send

\* sending a notification to the channel,
LEMMA SendKeeps ==
    ASSUME FeedInv, NEW kind \in Kinds, Send(kind)
    PROVE  FeedInv'
<1> DEFINE a == events[kind]
           b == notes[kind]
<1>1. /\ UNCHANGED <<api, conn, deltas, cache, handlers, seen, ctx>>
      /\ notes' = [notes EXCEPT ![kind] = Tail(@)]
      /\ events' = events \/ events' = [events EXCEPT ![kind] = Append(@, Head(notes[kind]))]
  BY DEF Send, informer
<1>2. FeedType'
  BY <1>1 DEF FeedInv, FeedType
<1>3. ASSUME NEW other \in Kinds PROVE QueueInv(other)'
  BY <1>1, QueueFrame DEF FeedInv
<1>4. ASSUME NEW other \in Kinds \ {kind} PROVE PendingInv(other)'
  BY <1>1, PendingFrame DEF FeedInv, FeedType
<1>5. PendingInv(kind)'
  <2>1. a \in Seq(EventOf(kind)) /\ b \in Seq(EventOf(kind)) /\ b # << >> /\ kind \in handlers
    BY DEF FeedInv, PendingInv, Send
  <2>2. notes'[kind] = Tail(b) /\ (events'[kind] = a \/ events'[kind] = Append(a, Head(b)))
    BY <1>1 DEF FeedInv, FeedType
  <2>3. Tail(b) \in Seq(EventOf(kind)) /\ Append(a, Head(b)) \in Seq(EventOf(kind))
    <3> HIDE DEF a, b
    <3> QED BY <2>1
  <2> HIDE DEF a, b
  <2>4. Pending(kind)' = Pending(kind) \/ ~ctx
    BY SendMoves
  <2>5. PendingInv(kind)
    BY DEF FeedInv
  <2> QED BY <1>1, <2>1, <2>2, <2>3, <2>4, <2>5 DEF PendingInv
<1> QED BY <1>2, <1>3, <1>4, <1>5 DEF FeedInv

\* The engine takes the first of the events on their way.
LEMMA ProcessTakes ==
    ASSUME FeedInv, NEW kind \in Kinds, processEvents(kind)
    PROVE  /\ Pending(kind) \in Seq(EventOf(kind)) /\ Pending(kind) # << >>
           /\ Pending(kind)' = Tail(Pending(kind)) /\ Head(Pending(kind)) = Head(events[kind])
           /\ events[kind] \in Seq(EventOf(kind)) /\ events[kind] # << >> /\ kind \in handlers
<1> DEFINE a == events[kind]
           b == notes[kind]
<1>1. a \in Seq(EventOf(kind)) /\ b \in Seq(EventOf(kind)) /\ a # << >> /\ kind \in handlers
  BY DEF FeedInv, PendingInv, processEvents
<1>2. events'[kind] = Tail(a) /\ notes'[kind] = b
  BY DEF FeedInv, FeedType, processEvents
<1> HIDE DEF a, b
<1>3. /\ a \o b \in Seq(EventOf(kind)) /\ a \o b # << >> /\ Tail(a) \o b = Tail(a \o b)
      /\ Head(a \o b) = Head(a)
  BY <1>1
<1> QED BY <1>1, <1>2, <1>3 DEF Pending, a, b

\* and handling an event.
LEMMA ProcessKeeps ==
    ASSUME FeedInv, NEW kind \in Kinds, processEvents(kind)
    PROVE  FeedInv'
<1> DEFINE p == Pending(kind)
           e == Head(events[kind])
<1>1. /\ UNCHANGED <<api, conn, deltas, cache, handlers, notes, ctx>> /\ ctx
      /\ events' = [events EXCEPT ![kind] = Tail(@)]
      /\ seen' = [seen EXCEPT ![e.key] = Left(e)]
  BY DEF processEvents, informer
<1>2. /\ p \in Seq(EventOf(kind)) /\ p # << >> /\ Pending(kind)' = Tail(p) /\ Head(p) = e
      /\ events[kind] \in Seq(EventOf(kind)) /\ events[kind] # << >> /\ kind \in handlers
  BY ProcessTakes
<1>3. e \in EventOf(kind) /\ e.key \in KeysOf(kind) /\ e.key \in Keys
  <2>1. e \in EventOf(kind)
    BY <1>2
  <2> QED BY <2>1, KeysByKind DEF EventOf
<1> HIDE DEF p, e
<1>4. FeedType'
  BY <1>1 DEF FeedInv, FeedType
<1>5. ASSUME NEW other \in Kinds PROVE QueueInv(other)'
  BY <1>1, QueueFrame DEF FeedInv
<1>6. \A k \in Keys : seen'[k] = IF e.key = k THEN Left(e) ELSE seen[k]
  BY <1>1 DEF FeedInv, FeedType
<1>7. ASSUME NEW other \in Kinds \ {kind} PROVE PendingInv(other)'
  <2>1. \A k \in KeysOf(other) : seen'[k] = seen[k]
    BY <1>3, <1>6, KeysByKind
  <2> QED BY <1>1, <2>1, PendingFrame DEF FeedInv, FeedType
<1>8. PendingInv(kind)'
  <2>1. PendingInv(kind)
    BY DEF FeedInv
  <2>2. events'[kind] = Tail(events[kind]) /\ events'[kind] \in Seq(EventOf(kind))
    <3>1. events'[kind] = Tail(events[kind])
      BY <1>1 DEF FeedInv, FeedType
    <3> QED BY <1>2, <3>1
  <2>3. ASSUME NEW k \in KeysOf(kind) PROVE Newest(Tail(p), k, seen'[k]) = Lister(k, cache[k])
    <3>1. seen'[k] = IF Head(p).key = k THEN Left(Head(p)) ELSE seen[k]
      BY <1>2, <1>6, KeysByKind
    <3>2. Newest(Tail(p), k, IF Head(p).key = k THEN Left(Head(p)) ELSE seen[k]) = Newest(p, k, seen[k])
      BY <1>2, NewestTail
    <3>3. Newest(p, k, seen[k]) = Lister(k, cache[k])
      BY <1>1, <1>2, <2>1 DEF PendingInv, p
    <3> QED BY <3>1, <3>2, <3>3
  <2>4. notes'[kind] \in Seq(EventOf(kind)) /\ kind \in handlers'
    BY <1>1, <1>2, <2>1 DEF PendingInv
  <2>5. \A k \in KeysOf(kind) : Newest(Pending(kind)', k, seen'[k]) = Lister(k, cache'[k])
    BY <1>1, <1>2, <2>3
  <2> QED BY <2>2, <2>4, <2>5 DEF PendingInv
<1> QED BY <1>4, <1>5, <1>7, <1>8 DEF FeedInv

\* Every step keeps the invariant.
LEMMA NextFeed == FeedInv /\ [Next]_vars => FeedInv'
<1> SUFFICES ASSUME FeedInv, [Next]_vars PROVE FeedInv'
  OBVIOUS
<1>1. CASE \E k \in Keys : ChangeObject(k)
  BY <1>1, ChangeKeeps
<1>2. CASE Start \/ Cancel \/ \E kind \in Kinds : BreakWatch(kind)
  BY <1>2, QuietSteps
<1>3. CASE \E kind \in Kinds : Relist(kind)
  BY <1>3, RelistKeeps
<1>4. CASE \E kind \in Kinds : HandleDeltas(kind)
  BY <1>4, HandleKeeps
<1>5. CASE \E kind \in Kinds : Send(kind)
  BY <1>5, SendKeeps
<1>6. CASE \E kind \in Kinds : processEvents(kind)
  BY <1>6, ProcessKeeps
<1>7. CASE Watches
  <2>1. \E kind \in Kinds : Register(kind)
    BY <1>7 DEF Watches, WatchServices, WatchPods, WatchNodes, Kinds
  <2> QED BY <2>1, RegisterKeeps
<1>8. CASE UNCHANGED vars
  <2>1. UNCHANGED <<api, conn, deltas, cache, handlers, notes, events, seen, ctx>>
    BY <1>8 DEF vars, informer
  <2>2. FeedType'
    BY <2>1 DEF FeedInv, FeedType
  <2>3. ASSUME NEW kind \in Kinds PROVE QueueInv(kind)' /\ PendingInv(kind)'
    BY <2>1, QueueFrame, PendingFrame DEF FeedInv
  <2> QED BY <2>2, <2>3 DEF FeedInv
<1> QED BY <1>1, <1>2, <1>3, <1>4, <1>5, <1>6, <1>7, <1>8 DEF Next

\* The queues lead from the caches to the API server and the events from the
\* engine's copy to the listers, and each Delete carries what it deletes.
THEOREM FeedSafe == Spec => []FeedInv
BY InitFeed, NextFeed, PTL DEF Spec

\* The engine's copy of services, pods and nodes is behind the listers only by
\* the events on their way: for any number of changes and lost watches, any
\* capacity, and handlers that are registered at any time after the informers
\* start (the watch handlers of client.go, Controller.Start).
THEOREM FollowsSafe == Spec => []ReplicaFollows
<1>1. FeedInv => ReplicaFollows
  BY DEF FeedInv, FeedType, PendingInv, ReplicaFollows
<1> QED BY <1>1, FeedSafe, PTL

-----------------------------------------------------------------------------
(* Feed implements Watch.                                                  *)

\* What the lister gives once the handler of the kind is registered.
ViewOf(k) == IF KindOf(k) \in handlers THEN Lister(k, cache[k]) ELSE Absent

\* A step that adds l to the events of a kind, and announces in it every change
\* of the view, is a step Announce.
LEMMA Announces ==
    ASSUME FeedInv, NEW kind \in Kinds, NEW l \in Seq(EventOf(kind)),
           Pending(kind)' = Pending(kind) \o l,
           \A other \in Kinds \ {kind} : Pending(other)' = Pending(other),
           UNCHANGED <<seen, ctx>>,
           \A i \in DOMAIN l : /\ l[i].key \in KeysOf(kind)
                               /\ l[i] \in W!Notices(l[i].key, ViewOf(l[i].key), ViewOf(l[i].key)'),
           \A i, j \in DOMAIN l : l[i].key = l[j].key => i = j,
           \A k \in Keys : ViewOf(k)' # ViewOf(k) => \E i \in DOMAIN l : l[i].key = k
    PROVE  W!Announce(kind)
<1> DEFINE p == Pending(kind)
           new == SubSeq(p \o l, Len(p) + 1, Len(p \o l))
<1>1. p \in Seq(EventOf(kind))
  BY DEF FeedInv, PendingInv, Pending
<1> HIDE DEF p
<1>2. new = l
  <2> DEFINE s == p \o l
  <2>1. /\ s \in Seq(EventOf(kind)) /\ Len(s) = Len(p) + Len(l) /\ Len(p) \in Nat /\ Len(l) \in Nat
        /\ \A i \in 1..Len(l) : s[Len(p) + i] = l[i]
    BY <1>1
  <2> HIDE DEF s
  <2>2. new \in Seq(EventOf(kind)) /\ Len(new) = Len(l) /\ \A i \in 1..Len(l) : new[i] = l[i]
    BY <2>1 DEF s
  <2> HIDE DEF new
  <2> QED BY <2>2, SeqEqual
<1> DEFINE view == [k \in Keys |-> IF KindOf(k) \in handlers THEN Lister(k, cache[k]) ELSE Absent]
           stream == [c \in Kinds |-> Pending(c)]
           ch == [k \in Keys |-> KindOf(k)]
<1>3. stream[kind] = p /\ stream'[kind] = p \o l
  BY DEF p
<1>4. SubSeq(stream'[kind], Len(stream[kind]) + 1, Len(stream'[kind])) = l
  BY <1>2, <1>3
<1>5. stream' = [stream EXCEPT ![kind] = @ \o l]
  BY DEF p
<1>6. \A k \in KeysOf(kind) : k \in Keys /\ ch[k] = kind
  BY KeysByKind
<1>7. \A k \in Keys : view[k] = ViewOf(k) /\ view'[k] = ViewOf(k)'
  BY DEF ViewOf
<1>8. view' = [k \in Keys |-> view'[k]]
  OBVIOUS
<1>9. \A i \in DOMAIN l : /\ l[i].key \in Keys /\ ch[l[i].key] = kind
                          /\ l[i] \in W!Notices(l[i].key, view[l[i].key], view'[l[i].key])
                          /\ \A j \in DOMAIN l : l[j].key = l[i].key => i = j
  <2> HIDE DEF view, ch
  <2> QED BY <1>6, <1>7
<1>10. \A k \in Keys : view'[k] # view[k] => \E i \in DOMAIN l : l[i].key = k
  <2> HIDE DEF view
  <2> QED BY <1>7
<1> DEFINE n == SubSeq(stream'[kind], Len(stream[kind]) + 1, Len(stream'[kind]))
<1> HIDE DEF view, stream, ch
<1>11. n = l
  BY <1>4
<1> HIDE DEF n
<1>12. /\ stream' = [stream EXCEPT ![kind] = @ \o n]
       /\ \A i \in DOMAIN n : /\ n[i].key \in Keys /\ ch[n[i].key] = kind
                              /\ n[i] \in W!Notices(n[i].key, view[n[i].key], view'[n[i].key])
                              /\ \A j \in DOMAIN n : n[j].key = n[i].key => i = j
       /\ \A k \in Keys : view'[k] # view[k] => \E i \in DOMAIN n : n[i].key = k
  BY <1>5, <1>9, <1>10, <1>11
<1>13. UNCHANGED <<seen, ctx>>
  OBVIOUS
<1> QED BY <1>8, <1>12, <1>13, Zenon DEF W!Announce, view, stream, ch, n

\* Nothing that Watch sees changes.
LEMMA Stutters ==
    ASSUME \A k \in Keys : ViewOf(k)' = ViewOf(k), \A c \in Kinds : Pending(c)' = Pending(c),
           UNCHANGED <<seen, ctx>>
    PROVE  UNCHANGED W!vars
<1>1. [k \in Keys |-> IF KindOf(k) \in handlers THEN Lister(k, cache[k]) ELSE Absent]'
        = [k \in Keys |-> IF KindOf(k) \in handlers THEN Lister(k, cache[k]) ELSE Absent]
  BY DEF ViewOf
<1>2. [kind \in Kinds |-> Pending(kind)]' = [kind \in Kinds |-> Pending(kind)]
  OBVIOUS
<1>3. seen' = seen /\ ctx' = ctx
  OBVIOUS
<1> QED BY <1>1, <1>2, <1>3, Zenon DEF W!vars

\* A step that leaves the feed alone is a stutter of the abstract watch.
LEMMA QuietStutters ==
    ASSUME UNCHANGED <<cache, handlers, notes, events, seen, ctx>>
    PROVE  UNCHANGED W!vars
<1>1. (\A k \in Keys : ViewOf(k)' = ViewOf(k)) /\ \A c \in Kinds : Pending(c)' = Pending(c)
  BY DEF ViewOf, Pending
<1> QED BY <1>1, Stutters

\* An informer's notification is announced or dropped.
LEMMA HandleRefines ==
    ASSUME FeedInv, NEW kind \in Kinds, HandleDeltas(kind)
    PROVE  W!Announce(kind) \/ UNCHANGED W!vars
<1>0. PICK k \in KeysOf(kind) : \E n \in Objs[k] \cup {Absent} :
        /\ k = Head(deltas[kind]).key /\ n = Left(Head(deltas[kind]))
        /\ cache' = [cache EXCEPT ![k] = n]
        /\ \/ notes' = notes /\ (kind \in handlers => Lister(k, n) = Lister(k, cache[k]))
           \/ /\ kind \in handlers
              /\ \E e \in EventOf(kind) :
                   /\ notes' = [notes EXCEPT ![kind] = Append(@, e)]
                   /\ e.key = k /\ Left(e) = Lister(k, n)
                   /\ e \in W!Notices(k, Lister(k, cache[k]), Lister(k, n))
  BY HandleTells, Zenon
<1>1. PICK n \in Objs[k] \cup {Absent} :
        /\ k = Head(deltas[kind]).key /\ n = Left(Head(deltas[kind]))
        /\ cache' = [cache EXCEPT ![k] = n]
        /\ \/ notes' = notes /\ (kind \in handlers => Lister(k, n) = Lister(k, cache[k]))
           \/ /\ kind \in handlers
              /\ \E e \in EventOf(kind) :
                   /\ notes' = [notes EXCEPT ![kind] = Append(@, e)]
                   /\ e.key = k /\ Left(e) = Lister(k, n)
                   /\ e \in W!Notices(k, Lister(k, cache[k]), Lister(k, n))
  BY <1>0, Zenon
<1>2. UNCHANGED <<handlers, events, seen, ctx>>
  BY DEF HandleDeltas
<1>3. k \in Keys /\ KindOf(k) = kind /\ \A j \in Keys : cache'[j] = IF j = k THEN n ELSE cache[j]
  BY <1>1, KeysByKind DEF FeedInv, FeedType
<1>4. \A j \in Keys \ {k} : ViewOf(j)' = ViewOf(j)
  BY <1>2, <1>3 DEF ViewOf
<1>5. kind \in handlers => ViewOf(k) = Lister(k, cache[k]) /\ ViewOf(k)' = Lister(k, n)
  BY <1>2, <1>3 DEF ViewOf
<1>6. kind \notin handlers => ViewOf(k)' = ViewOf(k)
  BY <1>2, <1>3 DEF ViewOf
<1>7. CASE notes' = notes /\ (kind \in handlers => Lister(k, n) = Lister(k, cache[k]))
  <2>1. \A j \in Keys : ViewOf(j)' = ViewOf(j)
    BY <1>4, <1>5, <1>6, <1>7
  <2>2. \A c \in Kinds : Pending(c)' = Pending(c)
    BY <1>2, <1>7 DEF Pending
  <2> QED BY <1>2, <2>1, <2>2, Stutters
<1>8. ASSUME kind \in handlers, NEW e \in EventOf(kind), notes' = [notes EXCEPT ![kind] = Append(@, e)],
             e.key = k, e \in W!Notices(k, Lister(k, cache[k]), Lister(k, n))
      PROVE  W!Announce(kind)
  <2> DEFINE l == <<e>>
             a == events[kind]
             b == notes[kind]
  <2>1. /\ a \in Seq(EventOf(kind)) /\ b \in Seq(EventOf(kind)) /\ notes'[kind] = Append(b, e)
        /\ \A other \in Kinds \ {kind} : notes'[other] = notes[other]
    BY <1>8 DEF FeedInv, FeedType, PendingInv
  <2>2. l \in Seq(EventOf(kind)) /\ DOMAIN l = {1} /\ l[1] = e
    OBVIOUS
  <2>3. Pending(kind)' = Pending(kind) \o l
    <3> HIDE DEF a, b
    <3>1. a \o Append(b, e) = (a \o b) \o l
      BY <2>1
    <3> QED BY <1>2, <2>1, <3>1 DEF Pending, a, b
  <2>4. \A other \in Kinds \ {kind} : Pending(other)' = Pending(other)
    BY <1>2, <2>1 DEF Pending
  <2> HIDE DEF l
  <2>5. \A i \in DOMAIN l : /\ l[i].key \in KeysOf(kind)
                            /\ l[i] \in W!Notices(l[i].key, ViewOf(l[i].key), ViewOf(l[i].key)')
    BY <1>5, <1>8, <2>2
  <2>6. \A i, j \in DOMAIN l : l[i].key = l[j].key => i = j
    BY <2>2
  <2>7. \A j \in Keys : ViewOf(j)' # ViewOf(j) => \E i \in DOMAIN l : l[i].key = j
    BY <1>4, <1>8, <2>2
  <2> QED BY <1>2, <2>2, <2>3, <2>4, <2>5, <2>6, <2>7, Announces
<1> QED BY <1>1, <1>7, <1>8

\* The replay at registration announces what the cache holds.
LEMMA RegisterRefines ==
    ASSUME FeedInv, NEW kind \in Kinds, Register(kind)
    PROVE  W!Announce(kind)
<1>1. PICK l \in Seq(EventOf(kind)) :
        /\ notes' = [notes EXCEPT ![kind] = l]
        /\ \A i \in DOMAIN l : /\ l[i].key \in KeysOf(kind)
                               /\ Left(l[i]) = Lister(l[i].key, cache[l[i].key])
                               /\ l[i] \in W!Notices(l[i].key, Absent, Lister(l[i].key, cache[l[i].key]))
        /\ \A i, j \in DOMAIN l : l[i].key = l[j].key => i = j
        /\ \A k \in KeysOf(kind) : Lister(k, cache[k]) # Absent => \E i \in DOMAIN l : l[i].key = k
  BY RegisterTells, Zenon
<1>2. /\ UNCHANGED <<cache, events, seen, ctx>>
      /\ kind \notin handlers /\ handlers' = handlers \cup {kind}
  BY DEF Register, informer
<1>3. events[kind] = << >> /\ notes[kind] = << >> /\ notes'[kind] = l
  BY <1>1, <1>2 DEF FeedInv, FeedType, PendingInv
<1>4. Pending(kind)' = Pending(kind) \o l
  BY <1>2, <1>3 DEF Pending
<1>5. \A other \in Kinds \ {kind} : Pending(other)' = Pending(other)
  BY <1>1, <1>2 DEF Pending, FeedInv, FeedType
<1>6. \A k \in KeysOf(kind) : k \in Keys /\ ViewOf(k) = Absent /\ ViewOf(k)' = Lister(k, cache[k])
  BY <1>2, KeysByKind DEF ViewOf
<1>7. \A k \in Keys : k \notin KeysOf(kind) => ViewOf(k)' = ViewOf(k)
  BY <1>2, KeysByKind DEF ViewOf
<1>8. \A i \in DOMAIN l : /\ l[i].key \in KeysOf(kind)
                          /\ l[i] \in W!Notices(l[i].key, ViewOf(l[i].key), ViewOf(l[i].key)')
  BY <1>1, <1>6
<1>9. \A k \in Keys : ViewOf(k)' # ViewOf(k) => \E i \in DOMAIN l : l[i].key = k
  BY <1>1, <1>6, <1>7
<1> QED BY <1>1, <1>2, <1>4, <1>5, <1>8, <1>9, Announces

\* The send to the channel moves a notification along, or loses it when the watch ended.
LEMMA SendRefines ==
    ASSUME FeedInv, NEW kind \in Kinds, Send(kind)
    PROVE  W!Lose(kind) \/ UNCHANGED W!vars
<1>1. /\ UNCHANGED <<cache, handlers, seen, ctx>> /\ notes' = [notes EXCEPT ![kind] = Tail(@)]
      /\ events' = events \/ events' = [events EXCEPT ![kind] = Append(@, Head(notes[kind]))]
  BY DEF Send, informer
<1>2. \A other \in Kinds \ {kind} : Pending(other)' = Pending(other)
  BY <1>1 DEF Pending, FeedInv, FeedType
<1>3. \A k \in Keys : ViewOf(k)' = ViewOf(k)
  BY <1>1 DEF ViewOf
<1>4. CASE Pending(kind)' = Pending(kind)
  BY <1>1, <1>2, <1>3, <1>4, Stutters
<1>5. CASE ~ctx /\ events' = events /\ notes[kind] # << >>
  <2> DEFINE a == events[kind]
             b == notes[kind]
             s == a \o b
             i == Len(a) + 1
  <2>1. a \in Seq(EventOf(kind)) /\ b \in Seq(EventOf(kind)) /\ b # << >>
    BY <1>5 DEF FeedInv, PendingInv
  <2>2. Pending(kind) = s /\ Pending(kind)' = a \o Tail(b)
    BY <1>1, <1>5 DEF Pending, FeedInv, FeedType
  <2> HIDE DEF a, b
  <2>3. i \in DOMAIN s /\ s # << >> /\ a \o Tail(b) = SubSeq(s, 1, i - 1) \o SubSeq(s, i + 1, Len(s))
    <3>1. /\ s \in Seq(EventOf(kind)) /\ Len(s) = Len(a) + Len(b) /\ Len(a) \in Nat /\ Len(b) \in Nat
          /\ Len(b) >= 1 /\ \A j \in 1..Len(a) : s[j] = a[j]
          /\ \A j \in 1..Len(b) : s[Len(a) + j] = b[j]
      BY <2>1
    <3> DEFINE x == SubSeq(s, 1, i - 1)
               y == SubSeq(s, i + 1, Len(s))
    <3>2. i - 1 = Len(a) /\ i + 1 \in Nat /\ i \in DOMAIN s /\ s # << >>
      BY <3>1
    <3> HIDE DEF s
    <3>3. x = a
      <4>1. x \in Seq(EventOf(kind)) /\ Len(x) = Len(a) /\ \A j \in 1..Len(a) : x[j] = a[j]
        BY <3>1, <3>2
      <4> HIDE DEF x
      <4> QED BY <2>1, <4>1, SeqEqual
    <3>4. y = Tail(b)
      <4>1. /\ Tail(b) \in Seq(EventOf(kind)) /\ Len(Tail(b)) = Len(b) - 1
            /\ \A j \in 1..Len(b) - 1 : Tail(b)[j] = b[j + 1]
        BY <2>1
      <4>2. /\ y \in Seq(EventOf(kind)) /\ Len(y) = Len(b) - 1
            /\ \A j \in 1..Len(b) - 1 : y[j] = s[Len(a) + (j + 1)]
        <5> DEFINE m == i + 1
                   h == Len(s)
        <5>1. m \in 1..h + 1 /\ h \in m - 1..h /\ h - m + 1 = Len(b) - 1
          BY <3>1, <3>2
        <5>2. \A j \in 1..Len(b) - 1 : m + j - 1 = Len(a) + (j + 1)
          BY <3>1, <3>2
        <5>3. /\ SubSeq(s, m, h) \in Seq(EventOf(kind)) /\ Len(SubSeq(s, m, h)) = h - m + 1
              /\ \A j \in 1..h - m + 1 : SubSeq(s, m, h)[j] = s[m + j - 1]
          <6> HIDE DEF m, h
          <6> QED BY <3>1, <5>1, SubSeqProperties DEF h
        <5> HIDE DEF m, h
        <5> QED BY <5>1, <5>2, <5>3 DEF m, h
      <4>3. \A j \in 1..Len(b) - 1 : y[j] = Tail(b)[j]
        <5> SUFFICES ASSUME NEW j \in 1..Len(b) - 1 PROVE s[Len(a) + (j + 1)] = b[j + 1]
          BY <4>1, <4>2
        <5>1. j + 1 \in 1..Len(b)
          BY <3>1
        <5> QED BY <3>1, <5>1
      <4> DEFINE z == Tail(b)
      <4> HIDE DEF y, z
      <4> QED BY <4>1, <4>2, <4>3, SeqEqual DEF z
    <3> QED BY <3>2, <3>3, <3>4
  <2> DEFINE stream == [c \in Kinds |-> Pending(c)]
  <2>4. /\ stream[kind] = s /\ stream'[kind] = a \o Tail(b)
        /\ stream' = [stream EXCEPT ![kind] = a \o Tail(b)]
    BY <1>2, <2>2
  <2> HIDE DEF stream, s, i
  <2>5. /\ stream[kind] # << >> /\ ~ctx
        /\ \E j \in DOMAIN stream[kind] :
             stream' = [stream EXCEPT ![kind] = SubSeq(@, 1, j - 1) \o SubSeq(@, j + 1, Len(@))]
    BY <1>5, <2>3, <2>4
  <2>6. [k \in Keys |-> IF KindOf(k) \in handlers THEN Lister(k, cache[k]) ELSE Absent]'
          = [k \in Keys |-> IF KindOf(k) \in handlers THEN Lister(k, cache[k]) ELSE Absent]
    BY <1>1
  <2>7. seen' = seen /\ ctx' = ctx
    BY <1>1
  <2>8. W!Lose(kind)
    BY <2>5, <2>6, <2>7, Zenon DEF W!Lose, stream
  <2> QED BY <2>8
<1> QED BY <1>4, <1>5, SendMoves

\* The handler's event is the abstract watch's delivery.
LEMMA ProcessRefines ==
    ASSUME FeedInv, NEW kind \in Kinds, processEvents(kind)
    PROVE  W!Handle(kind)
<1> DEFINE p == Pending(kind)
           e == Head(events[kind])
           stream == [c \in Kinds |-> Pending(c)]
<1>1. /\ UNCHANGED <<cache, handlers, notes, ctx>> /\ ctx
      /\ events' = [events EXCEPT ![kind] = Tail(@)]
      /\ seen' = [seen EXCEPT ![e.key] = Left(e)]
  BY DEF processEvents, informer
<1>2. p # << >> /\ Pending(kind)' = Tail(p) /\ Head(p) = e
  BY ProcessTakes
<1>3. \A other \in Kinds \ {kind} : Pending(other)' = Pending(other)
  BY <1>1 DEF Pending, FeedInv, FeedType
<1> HIDE DEF p, e
<1>4. stream[kind] = p /\ stream' = [stream EXCEPT ![kind] = Tail(p)]
  BY <1>2, <1>3 DEF p
<1> HIDE DEF stream
<1>5. /\ stream[kind] # << >> /\ stream' = [stream EXCEPT ![kind] = Tail(@)]
      /\ seen' = [seen EXCEPT ![Head(stream[kind]).key] =
                    IF Head(stream[kind]).type = "Delete" THEN Absent ELSE Head(stream[kind]).obj]
  BY <1>1, <1>2, <1>4 DEF Left
<1>6. [k \in Keys |-> IF KindOf(k) \in handlers THEN Lister(k, cache[k]) ELSE Absent]'
        = [k \in Keys |-> IF KindOf(k) \in handlers THEN Lister(k, cache[k]) ELSE Absent]
  BY <1>1
<1>7. ctx /\ ctx' = ctx
  BY <1>1
<1> QED BY <1>5, <1>6, <1>7, Zenon DEF W!Handle, stream

\* The end of the context ends the watch.
LEMMA CancelRefines == ASSUME Cancel PROVE W!End
<1>1. UNCHANGED <<cache, handlers, notes, events, seen>> /\ ctx /\ ctx' = FALSE
  BY DEF Cancel, informer
<1>2. [k \in Keys |-> IF KindOf(k) \in handlers THEN Lister(k, cache[k]) ELSE Absent]'
        = [k \in Keys |-> IF KindOf(k) \in handlers THEN Lister(k, cache[k]) ELSE Absent]
  BY <1>1
<1>3. [kind \in Kinds |-> Pending(kind)]' = [kind \in Kinds |-> Pending(kind)]
  BY <1>1 DEF Pending
<1>4. seen' = seen
  BY <1>1
<1> QED BY <1>1, <1>2, <1>3, <1>4, Zenon DEF W!End

\* Initial states map to initial states.
LEMMA InitRefines == Init => W!Init
<1> SUFFICES ASSUME Init PROVE W!Init
  OBVIOUS
<1>1. /\ [k \in Keys |-> IF KindOf(k) \in handlers THEN Lister(k, cache[k]) ELSE Absent]
           = [k \in Keys |-> Absent]
      /\ seen = [k \in Keys |-> Absent] /\ ctx = TRUE
  BY DEF Init
<1>2. [kind \in Kinds |-> Pending(kind)] = [c \in Kinds |-> << >>]
  BY DEF Init, Pending
<1> QED BY <1>1, <1>2, Zenon DEF W!Init

\* Every step maps to a step of the abstract watch or to a stutter.
LEMMA StepRefines == FeedInv /\ [Next]_vars => [W!Next]_(W!vars)
<1> SUFFICES ASSUME FeedInv, [Next]_vars PROVE W!Next \/ UNCHANGED W!vars
  BY Zenon
<1>1. CASE \/ \E k \in Keys : ChangeObject(k)
           \/ \E kind \in Kinds : BreakWatch(kind) \/ Relist(kind)
           \/ Start \/ UNCHANGED vars
  <2>1. UNCHANGED <<cache, handlers, notes, events, seen, ctx>>
    BY <1>1 DEF ChangeObject, BreakWatch, Relist, Start, vars, informer
  <2> QED BY <2>1, QuietStutters
<1>2. ASSUME NEW kind \in Kinds, HandleDeltas(kind) PROVE W!Next \/ UNCHANGED W!vars
  BY <1>2, HandleRefines, Zenon DEF W!Next
<1>3. ASSUME NEW kind \in Kinds, Send(kind) PROVE W!Next \/ UNCHANGED W!vars
  BY <1>3, SendRefines, Zenon DEF W!Next
<1>4. ASSUME NEW kind \in Kinds, processEvents(kind) PROVE W!Next
  BY <1>4, ProcessRefines, Zenon DEF W!Next
<1>5. CASE Watches
  <2>1. \E kind \in Kinds : Register(kind)
    BY <1>5 DEF Watches, WatchServices, WatchPods, WatchNodes, Kinds
  <2> QED BY <2>1, RegisterRefines, Zenon DEF W!Next
<1>6. CASE Cancel
  BY <1>6, CancelRefines, Zenon DEF W!Next
<1> QED BY <1>1, <1>2, <1>3, <1>4, <1>5, <1>6, Zenon DEF Next

\* The informers, the handlers and the channels keep what the engine's model
\* assumes of the adapter: the lister of a registered kind changes only together
\* with its notice, notices stay in the order of the changes, none is lost before
\* the end of the context, and a Delete carries what was announced last.
THEOREM WatchImplemented == Spec => WatchRefined
BY InitRefines, StepRefines, FeedSafe, PTL DEF Spec, WatchRefined, W!Spec
=============================================================================
