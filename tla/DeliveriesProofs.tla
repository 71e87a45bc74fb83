--------------------------- MODULE DeliveriesProofs ---------------------------
(***************************************************************************)
(* Proofs about Deliveries, for every number of processes, events, tries,   *)
(* failures and every capacity: the list and the index of a MemoryDeduper   *)
(* implement the window of the last Capacity distinct events.               *)
(***************************************************************************)
EXTENDS Deliveries, FiniteSetTheorems, SequenceTheorems, TLAPS

\* An injective list has as many ids behind its k-th as positions.
LEMMA BehindSize ==
  ASSUME NEW s \in Seq(Ids), Injective(s), NEW k \in 0 .. Len(s)
  PROVE  IsFiniteSet(Behind(s, k)) /\ Cardinality(Behind(s, k)) = Len(s) - k
<1> DEFINE P == (k + 1) .. Len(s)
           f == [j \in P |-> s[j]]
<1>1. IsFiniteSet(P) /\ Cardinality(P) = Len(s) - k
  <2>1. k + 1 \in Int /\ Len(s) \in Int /\ Len(s) \in Nat /\ k \in Nat
    OBVIOUS
  <2>2. \A a, b \in Int : /\ IsFiniteSet(a .. b)
                         /\ Cardinality(a .. b) = IF a > b THEN 0 ELSE b - a + 1
    BY FS_Interval
  <2>3. /\ Cardinality(P) = IF k + 1 > Len(s) THEN 0 ELSE Len(s) - (k + 1) + 1
        /\ IsFiniteSet(P)
    BY <2>1, <2>2, Zenon
  <2> HIDE DEF P
  <2> QED
    BY <2>1, <2>3
<1>2. f \in Injection(P, Behind(s, k))
  BY DEF Injection, IsInjective, Behind, Injective
<1>3. f \in Surjection(P, Behind(s, k))
  BY <1>2 DEF Surjection, Injection, Behind
<1>4. ExistsBijection(P, Behind(s, k))
  BY <1>2, <1>3 DEF ExistsBijection, Bijection
<1> QED
  BY <1>1, <1>4, FS_Bijection

\* Moving the element at p to the back keeps the elements, once each, and puts the
\* ids that were behind p before it.
LEMMA MoveToBackKeeps ==
  ASSUME NEW s \in Seq(Ids), Injective(s), NEW i \in Elements(s)
  PROVE  LET p == Position(s, i)
             t == MoveToBack(s, i) IN
           /\ p \in 1 .. Len(s) /\ s[p] = i
           /\ t \in Seq(Ids) /\ Len(t) = Len(s)
           /\ \A k \in 1 .. Len(s) : t[k] = IF k < p THEN s[k]
                                            ELSE IF k < Len(s) THEN s[k + 1]
                                            ELSE i
<1> DEFINE p == Position(s, i)
           t == MoveToBack(s, i)
<1>1. p \in 1 .. Len(s) /\ s[p] = i
  BY DEF Elements, Position
<1>2. \A k \in 1 .. Len(s) : s[k] \in Ids
  OBVIOUS
<1>3. t \in [1 .. Len(s) -> Ids]
  BY <1>1, <1>2 DEF MoveToBack
<1>4. t \in Seq(Ids) /\ Len(t) = Len(s)
  BY <1>3
<1> QED
  BY <1>1, <1>4 DEF MoveToBack

\* A hit leaves a well-formed deduper.
LEMMA HitWellFormed ==
  ASSUME NEW d, WellFormed(d), NEW i \in d.index
  PROVE  /\ WellFormed(AfterSeeing(d, i))
         /\ AfterSeeing(d, i).index = d.index
         /\ AfterSeeing(d, i).order = MoveToBack(d.order, i)
<1> DEFINE s == d.order
           p == Position(s, i)
           t == MoveToBack(s, i)
<1>1. /\ s \in Seq(Ids) /\ Injective(s) /\ Len(s) \in Nat /\ Len(s) <= Capacity
      /\ d.index = Elements(s) /\ d.index \subseteq Ids
  BY DEF WellFormed, Dedupers
<1>2. /\ p \in 1 .. Len(s) /\ s[p] = i
      /\ t \in Seq(Ids) /\ Len(t) = Len(s)
      /\ \A k \in 1 .. Len(s) : t[k] = IF k < p THEN s[k]
                                       ELSE IF k < Len(s) THEN s[k + 1] ELSE i
  BY <1>1, MoveToBackKeeps
<1>3. AfterSeeing(d, i) = [order |-> t, index |-> d.index]
  BY DEF AfterSeeing, Remembers, WellFormed, Dedupers
<1> HIDE DEF p, t
<1>4. Injective(t)
  <2> DEFINE from(k) == IF k < p THEN k ELSE IF k < Len(s) THEN k + 1 ELSE p
  <2>1. \A k \in 1 .. Len(s) : from(k) \in 1 .. Len(s) /\ t[k] = s[from(k)]
    BY <1>1, <1>2
  <2>2. \A j, k \in 1 .. Len(s) : from(j) = from(k) => j = k
    BY <1>1, <1>2
  <2> HIDE DEF from
  <2>3. \A j, k \in 1 .. Len(s) : s[from(j)] = s[from(k)] => from(j) = from(k)
    BY <1>1, <2>1 DEF Injective
  <2> QED
    BY <1>2, <2>1, <2>2, <2>3 DEF Injective
<1>5. Elements(t) = Elements(s)
  <2>1. ASSUME NEW x \in Elements(t) PROVE x \in Elements(s)
    <3>1. PICK k \in 1 .. Len(s) : x = t[k]
      BY <1>2 DEF Elements
    <3>2. CASE k < p
      BY <3>1, <3>2, <1>2 DEF Elements
    <3>3. CASE k >= p /\ k < Len(s)
      <4>1. x = s[k + 1] /\ k + 1 \in 1 .. Len(s)
        BY <3>1, <3>3, <1>1, <1>2
      <4> QED
        BY <4>1 DEF Elements
    <3>4. CASE k = Len(s)
      <4>1. x = s[p]
        BY <3>1, <3>4, <1>1, <1>2
      <4> QED
        BY <4>1, <1>2 DEF Elements
    <3> QED
      BY <3>1, <3>2, <3>3, <3>4, <1>1, <1>2
  <2>2. ASSUME NEW x \in Elements(s) PROVE x \in Elements(t)
    <3>1. PICK k \in 1 .. Len(s) : x = s[k]
      BY DEF Elements
    <3>2. CASE k < p
      BY <3>1, <3>2, <1>2 DEF Elements
    <3>3. CASE k = p
      <4>1. t[Len(s)] = i
        BY <1>1, <1>2
      <4> QED
        BY <3>1, <3>3, <4>1, <1>1, <1>2 DEF Elements
    <3>4. CASE k > p
      <4>1. k - 1 \in 1 .. Len(s) /\ t[k - 1] = s[k]
        BY <3>1, <3>4, <1>1, <1>2
      <4> QED
        BY <3>1, <4>1, <1>2 DEF Elements
    <3> QED
      BY <3>2, <3>3, <3>4, <1>2, <1>1
  <2> QED
    BY <2>1, <2>2
<1> QED
  BY <1>1, <1>2, <1>3, <1>4, <1>5 DEF WellFormed, Dedupers, t

\* What is behind the k-th after a hit.
LEMMA HitBehind ==
  ASSUME NEW s \in Seq(Ids), Injective(s), NEW i \in Elements(s),
         NEW k \in 1 .. Len(s)
  PROVE  Behind(MoveToBack(s, i), k) =
           IF k = Len(s) THEN {}
           ELSE IF k < Position(s, i) THEN Behind(s, k) \union {i}
           ELSE Behind(s, k + 1) \union {i}
<1> DEFINE p == Position(s, i)
           t == MoveToBack(s, i)
<1>1. /\ p \in 1 .. Len(s) /\ s[p] = i
      /\ t \in Seq(Ids) /\ Len(t) = Len(s)
      /\ \A j \in 1 .. Len(s) : t[j] = IF j < p THEN s[j]
                                       ELSE IF j < Len(s) THEN s[j + 1] ELSE i
  BY MoveToBackKeeps
<1> HIDE DEF p, t
<1>2. ASSUME k = Len(s) PROVE Behind(t, k) = {}
  BY <1>1, <1>2 DEF Behind
<1>3. ASSUME k < Len(s)
      PROVE  Behind(t, k) = IF k < p THEN Behind(s, k) \union {i}
                            ELSE Behind(s, k + 1) \union {i}
  <2> DEFINE from == IF k < p THEN k + 1 ELSE k + 2
             Old == {s[j] : j \in from .. Len(s)}
  <2>1. t[Len(s)] = i /\ Len(s) \in (k + 1) .. Len(s)
    BY <1>1, <1>3
  <2>2. ASSUME NEW j \in (k + 1) .. Len(s) PROVE t[j] \in Old \union {i}
    <3>1. CASE j < p
      BY <3>1, <1>1
    <3>2. CASE j >= p /\ j < Len(s)
      <4>1. t[j] = s[j + 1] /\ j + 1 \in from .. Len(s)
        BY <3>2, <1>1
      <4> QED
        BY <4>1
    <3>3. CASE j = Len(s)
      BY <3>3, <2>1
    <3> QED
      BY <3>1, <3>2, <3>3, <1>1
  <2>3. ASSUME NEW j \in from .. Len(s), s[j] # i
        PROVE  \E m \in (k + 1) .. Len(s) : t[m] = s[j]
    <3>1. CASE j < p
      <4>1. j \in (k + 1) .. Len(s) /\ t[j] = s[j]
        BY <3>1, <1>1
      <4> QED
        BY <4>1
    <3>2. CASE j > p
      <4>1. j - 1 \in (k + 1) .. Len(s) /\ j - 1 \in 1 .. Len(s)
        BY <3>2, <1>1
      <4>2. ~(j - 1 < p) /\ j - 1 < Len(s) /\ (j - 1) + 1 = j
        BY <3>2, <1>1
      <4>3. t[j - 1] = s[j]
        BY <4>1, <4>2, <1>1
      <4> QED
        BY <4>1, <4>3
    <3> QED
      BY <3>1, <3>2, <2>3, <1>1
  <2>4. Behind(t, k) = Old \union {i}
    <3> HIDE DEF from
    <3>1. Behind(t, k) = {t[j] : j \in (k + 1) .. Len(s)}
      BY <1>1 DEF Behind
    <3> QED
      BY <3>1, <2>1, <2>2, <2>3
  <2>5. Old = IF k < p THEN Behind(s, k) ELSE Behind(s, k + 1)
    BY DEF Behind
  <2> QED
    BY <2>4, <2>5
<1>4. k = Len(s) \/ k < Len(s)
  OBVIOUS
<1> QED
  BY <1>2, <1>3, <1>4 DEF p, t

\* A miss leaves a well-formed deduper: the new id at the back, the oldest one gone
\* if there was no room.
LEMMA MissWellFormed ==
  ASSUME NEW d, WellFormed(d), NEW i \in Ids \ d.index
  PROVE  LET kept == IF Full(d) THEN Tail(d.order) ELSE d.order IN
           /\ WellFormed(AfterSeeing(d, i))
           /\ AfterSeeing(d, i).order = Append(kept, i)
           /\ AfterSeeing(d, i).index =
                IF Full(d) THEN (d.index \ {d.order[1]}) \union {i}
                           ELSE d.index \union {i}
           /\ Full(d) => d.order # << >> /\ Len(d.order) = Capacity
<1> DEFINE s == d.order
           kept == IF Full(d) THEN Tail(s) ELSE s
           u == Append(kept, i)
           gone == IF Full(d) THEN {s[1]} ELSE {}
<1>1. /\ s \in Seq(Ids) /\ Injective(s) /\ Len(s) \in Nat /\ Len(s) <= Capacity
      /\ d.index = Elements(s) /\ d.index \subseteq Ids /\ Capacity \in Nat \ {0}
      /\ d = [order |-> s, index |-> d.index]
  BY DeduperAssumption DEF WellFormed, Dedupers
<1>2. Full(d) => Len(s) = Capacity /\ s # << >>
  BY <1>1 DEF Full
<1>3. /\ kept \in Seq(Ids) /\ Len(kept) < Capacity
      /\ Injective(kept) /\ Elements(kept) = d.index \ gone
  <2>1. CASE ~Full(d)
    BY <2>1, <1>1 DEF Full
  <2>2. CASE Full(d)
    <3>1. /\ Tail(s) \in Seq(Ids) /\ Len(Tail(s)) = Len(s) - 1
          /\ \A k \in 1 .. Len(s) - 1 : Tail(s)[k] = s[k + 1]
      BY <2>2, <1>1, <1>2
    <3>2. Injective(Tail(s))
      BY <3>1, <1>1 DEF Injective
    <3>3. Elements(Tail(s)) = Elements(s) \ {s[1]}
      <4>1. ASSUME NEW x \in Elements(Tail(s)) PROVE x \in Elements(s) \ {s[1]}
        <5>1. PICK k \in 1 .. Len(s) - 1 : x = s[k + 1]
          BY <3>1 DEF Elements
        <5>2. k + 1 \in 1 .. Len(s) /\ 1 \in 1 .. Len(s) /\ k + 1 # 1
          BY <1>1
        <5> QED
          BY <5>1, <5>2, <1>1 DEF Elements, Injective
      <4>2. ASSUME NEW x \in Elements(s) \ {s[1]} PROVE x \in Elements(Tail(s))
        <5>1. PICK k \in 1 .. Len(s) : x = s[k] /\ k # 1
          BY DEF Elements
        <5>2. k - 1 \in 1 .. Len(s) - 1 /\ Tail(s)[k - 1] = s[k]
          BY <3>1, <5>1, <1>1
        <5> QED
          BY <3>1, <5>1, <5>2 DEF Elements
      <4> QED
        BY <4>1, <4>2
    <3> QED
      BY <2>2, <3>1, <3>2, <3>3, <1>1, <1>2
  <2> QED
    BY <2>1, <2>2
<1>4. AfterSeeing(d, i) = [order |-> u, index |-> (d.index \ gone) \union {i}]
  <2>1. AfterSeeing(d, i) = PushBack(IF Full(d) THEN Evict(d) ELSE d, i)
    BY DEF AfterSeeing, Remembers
  <2>2. CASE Full(d)
    <3>1. Head(s) = s[1]
      BY <2>2, <1>1, <1>2
    <3>2. Evict(d) = [order |-> kept, index |-> d.index \ gone]
      BY <3>1, <2>2 DEF Evict
    <3> QED
      BY <2>1, <2>2, <3>2 DEF PushBack
  <2>3. CASE ~Full(d)
    <3>1. d.index \ gone = d.index /\ kept = s
      BY <2>3
    <3> QED
      BY <2>1, <2>3, <3>1 DEF PushBack
  <2> QED
    BY <2>2, <2>3
<1> HIDE DEF kept
<1>5. /\ u \in Seq(Ids) /\ Len(u) = Len(kept) + 1 /\ Len(kept) \in Nat
      /\ \A k \in 1 .. Len(kept) : u[k] = kept[k]
      /\ u[Len(kept) + 1] = i
  BY <1>3
<1>6. i \notin Elements(kept)
  BY <1>3
<1> HIDE DEF u
<1>7. Injective(u)
  BY <1>3, <1>5, <1>6 DEF Injective, Elements
<1>8. Elements(u) = Elements(kept) \union {i}
  BY <1>5 DEF Elements
<1> QED
  BY <1>1, <1>2, <1>3, <1>4, <1>5, <1>7, <1>8 DEF WellFormed, Dedupers, u, kept

\* What is behind the k-th after a miss.
LEMMA MissBehind ==
  ASSUME NEW s \in Seq(Ids), NEW i \in Ids
  PROVE  /\ Behind(Append(s, i), Len(s) + 1) = {}
         /\ \A k \in 1 .. Len(s) : Behind(Append(s, i), k) = Behind(s, k) \union {i}
         /\ s # << >> =>
              \A k \in 1 .. Len(s) - 1 : Behind(Tail(s), k) = Behind(s, k + 1)
<1>1. /\ Len(Append(s, i)) = Len(s) + 1 /\ Len(s) \in Nat
      /\ \A j \in 1 .. Len(s) : Append(s, i)[j] = s[j]
      /\ Append(s, i)[Len(s) + 1] = i
  OBVIOUS
<1>2. Behind(Append(s, i), Len(s) + 1) = {}
  BY <1>1 DEF Behind
<1>3. ASSUME NEW k \in 1 .. Len(s)
      PROVE  Behind(Append(s, i), k) = Behind(s, k) \union {i}
  BY <1>1 DEF Behind
<1>4. ASSUME s # << >>, NEW k \in 1 .. Len(s) - 1
      PROVE  Behind(Tail(s), k) = Behind(s, k + 1)
  <2>1. /\ Len(Tail(s)) = Len(s) - 1
        /\ \A j \in 1 .. Len(s) - 1 : Tail(s)[j] = s[j + 1]
    BY <1>1, <1>4
  <2>2. ASSUME NEW x \in Behind(Tail(s), k) PROVE x \in Behind(s, k + 1)
    <3>1. PICK j \in (k + 1) .. Len(s) - 1 : x = s[j + 1]
      BY <2>1, <1>1 DEF Behind
    <3> QED
      BY <3>1, <1>1 DEF Behind
  <2>3. ASSUME NEW x \in Behind(s, k + 1) PROVE x \in Behind(Tail(s), k)
    <3>1. PICK j \in (k + 2) .. Len(s) : x = s[j]
      BY <1>1 DEF Behind
    <3>2. j - 1 \in (k + 1) .. Len(s) - 1 /\ Tail(s)[j - 1] = s[j]
      BY <3>1, <2>1, <1>1
    <3> QED
      BY <3>1, <3>2, <2>1 DEF Behind
  <2> QED
    BY <2>2, <2>3
<1> QED
  BY <1>2, <1>3, <1>4

-----------------------------------------------------------------------------
\* The instance has a Cardinality of its own, the same.
LEMMA SameCardinality == \A S : Window!Cardinality(S) = Cardinality(S)
  BY DEF Window!Cardinality, Cardinality

\* What is remembered is what is in the window.
LEMMA RememberedIsInWindow ==
  ASSUME DeduperInv, NEW r \in Replicas, NEW i \in Ids
  PROVE  Remembers(dedupe[r], i) <=> Window!InWindow(r, i)
<1>1. /\ WellFormed(dedupe[r]) /\ dedupe[r].order \in Seq(Ids)
      /\ dedupe[r].index = Elements(dedupe[r].order)
      /\ Injective(dedupe[r].order) /\ Len(dedupe[r].order) <= Capacity
  BY DEF DeduperInv, DedupersWellFormed, WellFormed, Dedupers
<1>2. ASSUME i \in dedupe[r].index PROVE Window!InWindow(r, i)
  <2>1. PICK k \in 1 .. Len(dedupe[r].order) : i = dedupe[r].order[k]
    BY <1>1, <1>2 DEF Elements
  <2>2. since[r][i] = Behind(dedupe[r].order, k)
    BY <2>1 DEF DeduperInv, ListIsSince
  <2>3. Cardinality(since[r][i]) = Len(dedupe[r].order) - k
    BY <1>1, <2>1, <2>2, BehindSize
  <2>4. i \in presented[r]
    BY <1>2 DEF DeduperInv, GoneIsOutside
  <2> QED
    BY <1>1, <2>1, <2>3, <2>4, DeduperAssumption, SameCardinality
    DEF Window!InWindow
<1>3. ASSUME i \notin dedupe[r].index PROVE ~Window!InWindow(r, i)
  <2>1. CASE i \in presented[r]
    <3>1. Cardinality(since[r][i]) >= Capacity
      BY <1>3, <2>1 DEF DeduperInv, GoneIsOutside
    <3>2. IsFiniteSet(since[r][i])
      BY DeduperAssumption, FS_Subset DEF DeduperInv, TypeOK
    <3> QED
      <4>1. Cardinality(since[r][i]) \in Nat
        BY <3>2, FS_CardinalityType
      <4> QED
        BY <3>1, <4>1, DeduperAssumption, SameCardinality DEF Window!InWindow
  <2>2. CASE i \notin presented[r]
    BY <2>2 DEF Window!InWindow
  <2> QED
    BY <2>1, <2>2
<1> QED
  BY <1>2, <1>3 DEF Remembers

\* An id that is presented leaves the deduper and its history as they should be.
LEMMA SeeingStep ==
  ASSUME DeduperInv, NEW r \in Replicas, NEW i \in Ids,
         NEW d, d = AfterSeeing(dedupe[r], i)
  PROVE  /\ WellFormed(d)
         /\ \A k \in 1 .. Len(d.order) :
              Behind(d.order, k) = IF d.order[k] = i THEN {}
                                   ELSE since[r][d.order[k]] \union {i}
         /\ i \in d.index /\ d.index \subseteq dedupe[r].index \union {i}
         /\ \A j \in dedupe[r].index \ d.index :
              Cardinality(since[r][j] \union {i}) >= Capacity
<1> DEFINE o == dedupe[r]
           s == o.order
<1>1. /\ WellFormed(o) /\ s \in Seq(Ids) /\ o.index = Elements(s) /\ Injective(s)
      /\ \A k \in 1 .. Len(s) : since[r][s[k]] = Behind(s, k)
      /\ Len(s) \in Nat
  BY DEF DeduperInv, DedupersWellFormed, WellFormed, Dedupers, ListIsSince
<1>2. CASE i \in o.index
  <2> DEFINE p == Position(s, i)
             t == MoveToBack(s, i)
  <2>1. WellFormed(d) /\ d.index = o.index /\ d.order = t
    BY <1>1, <1>2, HitWellFormed
  <2>2. /\ p \in 1 .. Len(s) /\ s[p] = i /\ t \in Seq(Ids) /\ Len(t) = Len(s)
        /\ \A k \in 1 .. Len(s) : t[k] = IF k < p THEN s[k]
                                         ELSE IF k < Len(s) THEN s[k + 1] ELSE i
    BY <1>1, <1>2, MoveToBackKeeps
  <2>3. \A k \in 1 .. Len(s) :
          Behind(t, k) = IF k = Len(s) THEN {}
                         ELSE IF k < p THEN Behind(s, k) \union {i}
                         ELSE Behind(s, k + 1) \union {i}
    <3>1. i \in Elements(s)
      BY <1>1, <1>2
    <3> HIDE DEF s, o
    <3> SUFFICES ASSUME NEW k \in 1 .. Len(s)
                 PROVE  Behind(MoveToBack(s, i), k) =
                          IF k = Len(s) THEN {}
                          ELSE IF k < Position(s, i) THEN Behind(s, k) \union {i}
                          ELSE Behind(s, k + 1) \union {i}
      OBVIOUS
    <3> QED
      BY <1>1, <3>1, HitBehind
  <2> HIDE DEF p, t
  <2>4. ASSUME NEW k \in 1 .. Len(t)
        PROVE  Behind(t, k) = IF t[k] = i THEN {}
                              ELSE since[r][t[k]] \union {i}
    <3>1. CASE k = Len(s)
      <4>1. ~(k < p) /\ k \in 1 .. Len(s)
        BY <3>1, <2>2, <1>1
      <4>2. t[k] = i /\ Behind(t, k) = {}
        BY <3>1, <4>1, <2>2, <2>3
      <4> QED
        BY <4>2
    <3>2. CASE k < Len(s) /\ k < p
      <4>1. s[k] # i
        BY <3>2, <2>2, <1>1 DEF Injective
      <4> QED
        BY <3>2, <4>1, <2>2, <2>3, <1>1
    <3>3. CASE k < Len(s) /\ ~(k < p)
      <4>1. k + 1 \in 1 .. Len(s) /\ k + 1 # p
        BY <3>3, <2>2, <1>1
      <4>2. s[k + 1] # i
        BY <4>1, <2>2, <1>1 DEF Injective
      <4>3. t[k] = s[k + 1] /\ Behind(t, k) = Behind(s, k + 1) \union {i}
        BY <3>3, <2>2, <2>3
      <4> QED
        BY <4>1, <4>2, <4>3, <1>1
    <3> QED
      BY <3>1, <3>2, <3>3, <2>2, <1>1
  <2> QED
    BY <2>1, <2>4, <1>2
<1>3. CASE i \notin o.index
  <2> DEFINE kept == IF Full(o) THEN Tail(s) ELSE s
             u == Append(kept, i)
  <2>1. /\ WellFormed(d) /\ d.order = u
        /\ d.index = IF Full(o) THEN (o.index \ {s[1]}) \union {i}
                     ELSE o.index \union {i}
        /\ Full(o) => s # << >> /\ Len(s) = Capacity
    BY <1>1, <1>3, MissWellFormed
  <2>2. /\ kept \in Seq(Ids)
        /\ \A k \in 1 .. Len(kept) :
             kept[k] # i /\ Behind(kept, k) = since[r][kept[k]]
    <3>1. CASE ~Full(o)
      BY <3>1, <1>1, <1>3 DEF Elements
    <3>2. CASE Full(o)
      <4>1. /\ kept \in Seq(Ids) /\ Len(kept) = Len(s) - 1
            /\ \A k \in 1 .. Len(s) - 1 : kept[k] = s[k + 1]
        BY <3>2, <2>1, <1>1
      <4>2. \A k \in 1 .. Len(s) - 1 : Behind(kept, k) = Behind(s, k + 1)
        BY <3>2, <2>1, <1>1, MissBehind
      <4>3. \A k \in 1 .. Len(s) - 1 : k + 1 \in 1 .. Len(s)
        BY <1>1
      <4> HIDE DEF kept
      <4> QED
        BY <4>1, <4>2, <4>3, <1>1, <1>3 DEF Elements
    <3> QED
      BY <3>1, <3>2
  <2>3. /\ Len(u) = Len(kept) + 1 /\ Len(kept) \in Nat
        /\ \A k \in 1 .. Len(kept) : u[k] = kept[k]
        /\ u[Len(kept) + 1] = i
        /\ Behind(u, Len(kept) + 1) = {}
        /\ \A k \in 1 .. Len(kept) : Behind(u, k) = Behind(kept, k) \union {i}
    <3> HIDE DEF kept
    <3>1. kept \in Seq(Ids) /\ Len(kept) \in Nat
      BY <2>2
    <3>2. /\ Behind(Append(kept, i), Len(kept) + 1) = {}
          /\ \A k \in 1 .. Len(kept) :
               Behind(Append(kept, i), k) = Behind(kept, k) \union {i}
      BY <3>1, MissBehind
    <3> QED
      BY <3>1, <3>2
  <2>4. \A k \in 1 .. Len(u) :
          Behind(u, k) = IF u[k] = i THEN {} ELSE since[r][u[k]] \union {i}
    <3> HIDE DEF kept, u
    <3> QED
      BY <2>2, <2>3
  <2>5. ASSUME NEW j \in o.index \ d.index
        PROVE  Cardinality(since[r][j] \union {i}) >= Capacity
    <3>1. Full(o) /\ j = s[1] /\ 1 \in 1 .. Len(s)
      BY <2>1, <2>5, <1>1, DeduperAssumption
    <3>2. since[r][j] = Behind(s, 1)
      BY <3>1, <1>1
    <3>3. IsFiniteSet(Behind(s, 1)) /\ Cardinality(Behind(s, 1)) = Len(s) - 1
      BY <3>1, <1>1, BehindSize
    <3>4. i \notin Behind(s, 1)
      BY <1>1, <1>3 DEF Behind, Elements
    <3>5. Cardinality(Behind(s, 1) \union {i}) = Cardinality(Behind(s, 1)) + 1
      BY <3>3, <3>4, FS_AddElement
    <3> QED
      BY <3>1, <3>2, <3>3, <3>5, <2>1, <1>1, DeduperAssumption
  <2> QED
    BY <2>1, <2>4, <2>5
<1> QED
  BY <1>2, <1>3

\* What a delivery consists of.
LEMMA DeliveryFields ==
  \A d \in Deliveries :
    d[1] \in Replicas /\ d[2] \in Ids /\ d[3] \in 1 .. MaxTries
      /\ d = <<d[1], d[2], d[3]>>
BY DEF Deliveries

\* A delivery that has just been made.
LEMMA NewDelivery ==
  ASSUME TypeOK, NEW r \in Replicas, NEW i \in Ids, tries[i] < Limit(i)
  PROVE  tries[i] + 1 \in 1 .. MaxTries /\ <<r, i, tries[i] + 1>> \in Deliveries
<1>1. tries[i] \in Nat /\ MaxTries \in Nat \ {0}
  BY DeliveriesAssumption DEF TypeOK
<1>2. tries[i] + 1 \in 1 .. MaxTries
  BY <1>1 DEF Limit
<1> QED
  BY <1>2 DEF Deliveries

\* What Moves changes.
LEMMA MovesStage ==
  ASSUME TypeOK, NEW d \in Deliveries, NEW to \in Stages, Moves(d, to)
  PROVE  /\ stage' \in [Deliveries -> Stages]
         /\ stage'[d] = to
         /\ \A e \in Deliveries : e # d => stage'[e] = stage[e]
BY DEF TypeOK, Moves

\* Initially every deduper is empty.
LEMMA InitDeduper == Init => DeduperInv
<1> SUFFICES ASSUME Init PROVE DeduperInv
  OBVIOUS
<1>1. WellFormed(NewDeduper)
  BY DeduperAssumption DEF WellFormed, NewDeduper, Dedupers, Elements, Injective
<1>2. /\ \A r \in Replicas : dedupe[r] = NewDeduper /\ presented[r] = {}
      /\ NewDeduper.order = << >> /\ NewDeduper.index = {}
  BY DEF Init, NewDeduper
<1>3. TypeOK
  BY <1>1, DeliveriesAssumption DEF Init, TypeOK, WellFormed, Phases, Stages
<1> QED
  BY <1>1, <1>2, <1>3 DEF DeduperInv, DedupersWellFormed, ListIsSince, GoneIsOutside

\* Every step keeps every variable well-typed, given well-formed dedupers.
LEMMA TypeStep == DeduperInv /\ [Next]_vars => TypeOK'
<1> SUFFICES ASSUME DeduperInv, [Next]_vars PROVE TypeOK'
  OBVIOUS
<1> USE DeliveriesAssumption
<1>0. TypeOK
  BY DEF DeduperInv
<1>1. ASSUME NEW r \in Replicas, NEW i \in Ids, Receive(r, i) PROVE TypeOK'
  <2>1. AfterSeeing(dedupe[r], i) \in Dedupers
    BY <1>1, SeeingStep DEF WellFormed
  <2>2. /\ dedupe' \in [Replicas -> Dedupers]
        /\ forgotten' \in [Replicas -> SUBSET Ids]
    BY <2>1, <1>0, <1>1 DEF Receive, TypeOK, Evicted, Dedupers
  <2>3. /\ presented' \in [Replicas -> SUBSET Ids]
        /\ since' \in [Replicas -> [Ids -> SUBSET Ids]]
    BY <1>0, <1>1 DEF Receive, TypeOK, Window!Note
  <2>4. tries' \in [Ids -> 0 .. MaxTries]
    <3>1. tries[i] + 1 \in 0 .. MaxTries
      BY <1>0, <1>1, NewDelivery DEF Receive
    <3> QED
      BY <3>1, <1>0, <1>1 DEF Receive, TypeOK
  <2>5. stage' \in [Deliveries -> Stages]
    <3>1. <<r, i, tries[i] + 1>> \in Deliveries /\ "started" \in Stages
      BY <1>0, <1>1, NewDelivery DEF Receive, Stages
    <3> QED
      BY <3>1, <1>0, <1>1, MovesStage DEF Receive, TypeOK
  <2> QED
    BY <2>2, <2>3, <2>4, <2>5, <1>0, <1>1 DEF Receive, TypeOK, phaseVars
<1>2. ASSUME NEW d \in Deliveries, Ignore(d) PROVE TypeOK'
  <2>1. stage' \in [Deliveries -> Stages]
    BY <1>0, <1>2, MovesStage DEF Ignore, Stages
  <2> QED
    BY <2>1, <1>0, <1>2 DEF Ignore, TypeOK, phaseVars, windowVars
<1>3. ASSUME NEW d \in Deliveries, ReadParent(d) PROVE TypeOK'
  <2>1. stage' \in [Deliveries -> Stages]
    BY <1>0, <1>3, MovesStage DEF ReadParent, Stages
  <2> QED
    BY <2>1, <1>0, <1>3 DEF ReadParent, TypeOK, phaseVars, windowVars
<1>4. ASSUME NEW d \in Deliveries, PatchLands(d)
      PROVE  parent' \in Phases /\ setters' \subseteq Deliveries
  BY <1>0, <1>4 DEF PatchLands, TypeOK, PhaseOf, Phases, phaseVars
<1>5. ASSUME NEW d \in Deliveries, PatchParent(d) PROVE TypeOK'
  <2>1. stage' \in [Deliveries -> Stages]
    BY <1>0, <1>5, MovesStage DEF PatchParent, Stages
  <2>2. parent' \in Phases /\ setters' \subseteq Deliveries
    BY <1>4, <1>5 DEF PatchParent
  <2> QED
    BY <2>1, <2>2, <1>0, <1>5 DEF PatchParent, TypeOK, windowVars
<1>6. ASSUME NEW d \in Deliveries, RecordEvent(d) PROVE TypeOK'
  <2>1. stage' \in [Deliveries -> Stages]
    BY <1>0, <1>6, MovesStage DEF RecordEvent, Stages
  <2> QED
    BY <2>1, <1>0, <1>6 DEF RecordEvent, TypeOK, phaseVars, windowVars
<1>7. ASSUME NEW d \in Deliveries, HandlerFails(d) PROVE TypeOK'
  <2>1. stage' \in [Deliveries -> Stages]
    BY <1>0, <1>7, MovesStage DEF HandlerFails, Stages
  <2>2. /\ parent' \in Phases /\ setters' \subseteq Deliveries
        /\ unreported' \subseteq Deliveries
    <3>1. CASE UNCHANGED <<phaseVars, unreported>>
      BY <3>1, <1>0 DEF TypeOK, phaseVars
    <3>2. CASE PatchLands(d) /\ unreported' = unreported \union {d}
      BY <3>2, <1>0, <1>4 DEF TypeOK
    <3> QED
      BY <3>1, <3>2, <1>7 DEF HandlerFails
  <2>3. faults' \in 0 .. MaxFaults
    BY <1>0, <1>7 DEF HandlerFails, TypeOK
  <2> QED
    BY <2>1, <2>2, <2>3, <1>0, <1>7 DEF HandlerFails, TypeOK, windowVars
<1>8. ASSUME NEW r \in Replicas, Restart(r) PROVE TypeOK'
  <2>1. NewDeduper \in Dedupers
    BY DEF NewDeduper, Dedupers
  <2>2. /\ dedupe' \in [Replicas -> Dedupers]
        /\ forgotten' \in [Replicas -> SUBSET Ids]
        /\ seen' \in [Replicas -> Phases]
    BY <2>1, <1>0, <1>8 DEF Restart, TypeOK
  <2>3. /\ presented' \in [Replicas -> SUBSET Ids]
        /\ since' \in [Replicas -> [Ids -> SUBSET Ids]]
    BY <1>0, <1>8 DEF Restart, TypeOK, Window!Forget, Window!NothingSince
  <2>4. stage' \in [Deliveries -> Stages]
    BY <1>0, <1>8 DEF Restart, TypeOK, Stages
  <2>5. unreported' \subseteq Deliveries
    BY <1>0, <1>8 DEF Restart, TypeOK, Reporting
  <2>6. faults' \in 0 .. MaxFaults
    BY <1>0, <1>8 DEF Restart, TypeOK
  <2> QED
    BY <2>2, <2>3, <2>4, <2>5, <2>6, <1>0, <1>8 DEF Restart, TypeOK, phaseVars
<1>9. ASSUME NEW r \in Replicas, Sync(r) PROVE TypeOK'
  BY <1>0, <1>9 DEF Sync, TypeOK, phaseVars, windowVars
<1>10. CASE UNCHANGED vars
  BY <1>0, <1>10 DEF TypeOK, vars, phaseVars, windowVars
<1> QED
  BY <1>1, <1>2, <1>3, <1>5, <1>6, <1>7, <1>8, <1>9, <1>10 DEF Next

\* Every step keeps the invariant.
LEMMA DeduperStep == DeduperInv /\ [Next]_vars => DeduperInv'
<1> SUFFICES ASSUME DeduperInv, [Next]_vars PROVE DeduperInv'
  OBVIOUS
<1>0. TypeOK /\ TypeOK'
  BY TypeStep DEF DeduperInv
<1>1. ASSUME NEW r \in Replicas, NEW i \in Ids, Receive(r, i) PROVE DeduperInv'
  <2> DEFINE d == AfterSeeing(dedupe[r], i)
  <2>1. /\ dedupe'[r] = d
        /\ presented'[r] = presented[r] \union {i}
        /\ since'[r] = [j \in Ids |-> IF j = i THEN {} ELSE since[r][j] \union {i}]
        /\ \A q \in Replicas \ {r} : /\ dedupe'[q] = dedupe[q]
                                     /\ presented'[q] = presented[q]
                                     /\ since'[q] = since[q]
    BY <1>0, <1>1 DEF Receive, TypeOK, Window!Note
  <2>2. /\ WellFormed(d)
        /\ \A k \in 1 .. Len(d.order) :
             Behind(d.order, k) = IF d.order[k] = i THEN {}
                                  ELSE since[r][d.order[k]] \union {i}
        /\ i \in d.index /\ d.index \subseteq dedupe[r].index \union {i}
        /\ \A j \in dedupe[r].index \ d.index :
             Cardinality(since[r][j] \union {i}) >= Capacity
    BY SeeingStep
  <2>3. \A k \in 1 .. Len(d.order) : d.order[k] \in Ids
    BY <2>2 DEF WellFormed, Dedupers
  <2> HIDE DEF d
  <2>4. DedupersWellFormed'
    BY <2>1, <2>2 DEF DeduperInv, DedupersWellFormed
  <2>5. ListIsSince'
    <3> SUFFICES ASSUME NEW q \in Replicas, NEW k \in 1 .. Len(dedupe'[q].order)
                 PROVE  since'[q][dedupe'[q].order[k]] = Behind(dedupe'[q].order, k)
      BY DEF ListIsSince
    <3>1. CASE q = r
      <4>1. since'[r][d.order[k]] = IF d.order[k] = i THEN {}
                                    ELSE since[r][d.order[k]] \union {i}
        BY <3>1, <2>1, <2>3
      <4> QED
        BY <3>1, <4>1, <2>1, <2>2
    <3>2. CASE q # r
      BY <3>2, <2>1 DEF DeduperInv, ListIsSince
    <3> QED
      BY <3>1, <3>2
  <2>6. GoneIsOutside'
    <3>1. ASSUME NEW j \in presented'[r] \ d.index
          PROVE  Cardinality(since'[r][j]) >= Capacity
      <4>1. j # i /\ j \in presented[r] /\ j \in Ids
        BY <2>1, <2>2, <3>1, <1>0 DEF TypeOK
      <4>2. since'[r][j] = since[r][j] \union {i}
        BY <2>1, <4>1
      <4>3. CASE j \in dedupe[r].index
        BY <2>2, <3>1, <4>2, <4>3
      <4>4. CASE j \notin dedupe[r].index
        <5>1. Cardinality(since[r][j]) >= Capacity
          BY <4>1, <4>4 DEF DeduperInv, GoneIsOutside
        <5>2. IsFiniteSet(since[r][j])
          BY <4>1, <1>0, DeduperAssumption, FS_Subset DEF TypeOK
        <5>3. Cardinality(since[r][j] \union {i}) >= Cardinality(since[r][j])
          <6>1. Cardinality(since[r][j]) \in Nat
            BY <5>2, FS_CardinalityType
          <6>2. Cardinality(since[r][j] \union {i}) =
                  IF i \in since[r][j] THEN Cardinality(since[r][j])
                                       ELSE Cardinality(since[r][j]) + 1
            BY <5>2, FS_AddElement
          <6> QED
            BY <6>1, <6>2
        <5>4. Cardinality(since[r][j] \union {i}) \in Nat
              /\ Cardinality(since[r][j]) \in Nat
          BY <5>2, FS_AddElement, FS_CardinalityType
        <5> QED
          BY <4>2, <5>1, <5>3, <5>4, DeduperAssumption
      <4> QED
        BY <4>3, <4>4
    <3>2. d.index \subseteq presented'[r]
      BY <2>1, <2>2 DEF DeduperInv, GoneIsOutside
    <3> QED
      BY <2>1, <3>1, <3>2 DEF DeduperInv, GoneIsOutside
  <2> QED
    BY <1>0, <2>4, <2>5, <2>6 DEF DeduperInv
<1>2. ASSUME NEW r \in Replicas, Restart(r) PROVE DeduperInv'
  <2>1. WellFormed(NewDeduper)
    BY DeduperAssumption DEF WellFormed, NewDeduper, Dedupers, Elements, Injective
  <2>2. /\ dedupe'[r] = NewDeduper /\ presented'[r] = {}
        /\ NewDeduper.order = << >> /\ NewDeduper.index = {}
        /\ \A q \in Replicas \ {r} : /\ dedupe'[q] = dedupe[q]
                                     /\ presented'[q] = presented[q]
                                     /\ since'[q] = since[q]
    BY <1>0, <1>2 DEF Restart, TypeOK, Window!Forget, NewDeduper
  <2> QED
    BY <1>0, <2>1, <2>2
    DEF DeduperInv, DedupersWellFormed, ListIsSince, GoneIsOutside
<1>3. CASE UNCHANGED <<dedupe, windowVars>>
  BY <1>0, <1>3
  DEF DeduperInv, DedupersWellFormed, ListIsSince, GoneIsOutside, windowVars
<1>4. \/ \E r \in Replicas, i \in Ids : Receive(r, i)
      \/ \E r \in Replicas : Restart(r)
      \/ UNCHANGED <<dedupe, windowVars>>
  BY DEF Next, Sync, Ignore, ReadParent, PatchParent, RecordEvent, HandlerFails, vars
<1> QED
  BY <1>1, <1>2, <1>3, <1>4

\* In every reachable state the list, the index and the history of presentations of
\* every MemoryDeduper agree, within its capacity.
THEOREM DeduperInvariant == Spec => []DeduperInv
<1> QED
  BY InitDeduper, DeduperStep, PTL DEF Spec

\* A process takes exactly the events of its window for duplicates, and hands all
\* others to the handler: SeenOrRecord implements EventWindow.
THEOREM WindowImplemented == Spec => ImplementsWindow
<1>1. Init => Window!Init
  <2> SUFFICES ASSUME Init PROVE Window!Init
    OBVIOUS
  <2>1. Serving = {}
    BY DEF Init, Serving
  <2> QED
    BY <2>1 DEF Init, Window!Init, Window!NothingSince
<1>2. DeduperInv /\ [Next]_vars => [Window!Next]_(Window!windowVars)
  <2> SUFFICES ASSUME DeduperInv, [Next]_vars
               PROVE  Window!Next \/ UNCHANGED Window!windowVars
    OBVIOUS
  <2>0. TypeOK
    BY DEF DeduperInv
  <2>1. ASSUME NEW r \in Replicas, NEW i \in Ids, Receive(r, i)
        PROVE  \E n \in 1 .. MaxTries : Window!Present(r, i, n)
    <3> DEFINE n == tries[i] + 1
               d == <<r, i, n>>
    <3>1. n \in 1 .. MaxTries /\ d \in Deliveries /\ "started" \in Stages
      BY <2>0, <2>1, NewDelivery DEF Receive, Stages
    <3> HIDE DEF n
    <3>2. Window!Note(r, i)
      BY <2>1 DEF Receive
    <3>3. CASE Window!InWindow(r, i)
      <4>1. UNCHANGED stage
        BY <2>1, <3>3, RememberedIsInWindow DEF Receive, Drops
      <4>2. Serving' = Serving
        BY <4>1 DEF Serving
      <4> QED
        BY <3>1, <3>2, <3>3, <4>2 DEF Window!Present
    <3>4. CASE ~Window!InWindow(r, i)
      <4>1. Moves(d, "started")
        BY <2>1, <3>4, RememberedIsInWindow DEF Receive, Drops, n
      <4> HIDE DEF d
      <4>2. stage'[d] = "started" /\ \A e \in Deliveries : e # d => stage'[e] = stage[e]
        BY <4>1, <3>1, <2>0, MovesStage
      <4>3. Serving' = Serving \union {d}
        BY <4>2, <3>1 DEF Serving
      <4> QED
        BY <3>1, <3>2, <3>4, <4>3 DEF Window!Present, d
    <3> QED
      BY <3>3, <3>4
  <2>2. ASSUME NEW d \in Deliveries, stage[d] # "none", Moves(d, "none"),
               UNCHANGED windowVars
        PROVE  d \in Serving /\ Window!Finish(d)
    <3>1. stage'[d] = "none" /\ \A e \in Deliveries : e # d => stage'[e] = stage[e]
      BY <2>0, <2>2, MovesStage DEF Stages
    <3>2. Serving' = Serving \ {d}
      BY <3>1 DEF Serving
    <3> QED
      BY <2>2, <3>2 DEF Serving, Window!Finish, windowVars
  <2>3. ASSUME NEW d \in Deliveries, NEW to \in Stages \ {"none"}, stage[d] # "none",
               Moves(d, to), UNCHANGED windowVars
        PROVE  UNCHANGED Window!windowVars
    <3>1. stage'[d] # "none" /\ \A e \in Deliveries : e # d => stage'[e] = stage[e]
      BY <2>0, <2>3, MovesStage
    <3>2. Serving' = Serving
      BY <2>3, <3>1 DEF Serving
    <3> QED
      BY <2>3, <3>2 DEF windowVars, Window!windowVars
  <2>4. ASSUME NEW d \in Deliveries,
               Ignore(d) \/ RecordEvent(d) \/ HandlerFails(d)
        PROVE  d \in Serving /\ Window!Finish(d)
    BY <2>2, <2>4 DEF Ignore, RecordEvent, HandlerFails
  <2>5. ASSUME NEW d \in Deliveries, ReadParent(d)
        PROVE  UNCHANGED Window!windowVars
    BY <2>3, <2>5 DEF ReadParent, Stages
  <2>6. ASSUME NEW d \in Deliveries, PatchParent(d)
        PROVE  UNCHANGED Window!windowVars \/ (d \in Serving /\ Window!Finish(d))
    <3>1. CASE stage[d] = "news"
      BY <2>3, <2>6, <3>1 DEF PatchParent, Stages
    <3>2. CASE stage[d] = "known"
      BY <2>2, <2>6, <3>2 DEF PatchParent
    <3> QED
      BY <2>6, <3>1, <3>2 DEF PatchParent
  <2>7. ASSUME NEW r \in Replicas, Restart(r) PROVE Window!Restart(r)
    <3>1. Serving' = {d \in Serving : d[1] # r}
      BY <2>7 DEF Restart, Serving
    <3> QED
      BY <2>7, <3>1 DEF Restart, Window!Restart
  <2>8. ASSUME NEW r \in Replicas, Sync(r) PROVE UNCHANGED Window!windowVars
    BY <2>8 DEF Sync, windowVars, Window!windowVars, Serving
  <2>9. CASE UNCHANGED vars
    BY <2>9 DEF vars, windowVars, Window!windowVars, Serving
  <2> QED
    BY <2>1, <2>4, <2>5, <2>6, <2>7, <2>8, <2>9 DEF Next, Window!Next
<1> QED
  BY <1>1, <1>2, DeduperInvariant, PTL DEF Spec, ImplementsWindow, Window!Spec

-----------------------------------------------------------------------------
\* The deliveries that were reported or are being handled: those of an id that its
\* process has not forgotten are one, and its index has the id, so that no other is
\* handed to a handler.
Taken == timeline \union Serving

HandledOnce ==
  \A d \in Taken : d[2] \notin forgotten[d[1]] =>
    /\ d[2] \in dedupe[d[1]].index
    /\ \A e \in Taken : e[1] = d[1] /\ e[2] = d[2] => e = d

\* A step that takes no new delivery and forgets nothing of a deduper.
LEMMA NothingTaken ==
  ASSUME HandledOnce, Taken' \subseteq Taken, UNCHANGED <<dedupe, forgotten>>
  PROVE  HandledOnce'
BY DEF HandledOnce

\* Every step keeps it.
LEMMA HandledOnceStep ==
  DeduperInv /\ HandledOnce /\ [Next]_vars => HandledOnce'
<1> SUFFICES ASSUME DeduperInv, HandledOnce, [Next]_vars PROVE HandledOnce'
  OBVIOUS
<1>0. TypeOK /\ Taken \subseteq Deliveries
  BY DEF DeduperInv, TypeOK, Taken, Serving
<1>1. ASSUME NEW r \in Replicas, NEW i \in Ids, Receive(r, i) PROVE HandledOnce'
  <2> DEFINE after == AfterSeeing(dedupe[r], i)
             new == <<r, i, tries[i] + 1>>
  <2>1. i \in after.index
    BY SeeingStep
  <2>2. /\ dedupe'[r] = after
        /\ forgotten'[r] = forgotten[r] \union (dedupe[r].index \ after.index)
        /\ \A q \in Replicas \ {r} : /\ dedupe'[q] = dedupe[q]
                                     /\ forgotten'[q] = forgotten[q]
    BY <1>0, <1>1 DEF Receive, TypeOK, Evicted
  <2>3. new \in Deliveries /\ new[1] = r /\ new[2] = i
    BY <1>0, <1>1, NewDelivery DEF Receive
  <2>4. /\ i \in dedupe[r].index => Taken' = Taken
        /\ i \notin dedupe[r].index => Taken' \subseteq Taken \union {new}
    <3>1. timeline' = timeline
      BY <1>1 DEF Receive
    <3>2. CASE i \in dedupe[r].index
      BY <3>1, <3>2, <1>1 DEF Receive, Drops, Remembers, Taken, Serving
    <3>3. CASE i \notin dedupe[r].index
      <4>1. Moves(new, "started") /\ "started" \in Stages
        BY <3>3, <1>1 DEF Receive, Drops, Remembers, Stages
      <4> HIDE DEF new
      <4>2. \A e \in Deliveries : e # new => stage'[e] = stage[e]
        BY <4>1, <2>3, <1>0, MovesStage
      <4>3. Serving' \subseteq Serving \union {new}
        BY <4>2 DEF Serving
      <4> QED
        BY <3>1, <3>3, <4>3 DEF Taken
    <3> QED
      BY <3>2, <3>3
  <2> HIDE DEF after, new
  <2>5. ASSUME NEW q \in Replicas, NEW j \in Ids, j \notin forgotten'[q]
        PROVE  /\ j \notin forgotten[q]
               /\ j \in dedupe[q].index => j \in dedupe'[q].index
    BY <2>2, <2>5
  <2>6. ASSUME i \notin dedupe[r].index, NEW e \in Taken, e[1] = r, e[2] = i
        PROVE  i \in forgotten'[r]
    BY <2>2, <2>6 DEF HandledOnce
  <2> SUFFICES ASSUME NEW d \in Taken', d[2] \notin forgotten'[d[1]]
               PROVE  /\ d[2] \in dedupe'[d[1]].index
                      /\ \A e \in Taken' : e[1] = d[1] /\ e[2] = d[2] => e = d
    BY DEF HandledOnce
  <2>7. d[1] \in Replicas /\ d[2] \in Ids
    BY <1>0, <2>3, <2>4, DeliveryFields
  <2>8. CASE d \in Taken /\ (d[1] # r \/ d[2] # i \/ i \in dedupe[r].index)
    <3>1. /\ d[2] \notin forgotten[d[1]]
          /\ d[2] \in dedupe[d[1]].index => d[2] \in dedupe'[d[1]].index
      BY <2>5, <2>7
    <3>2. /\ d[2] \in dedupe[d[1]].index
          /\ \A e \in Taken : e[1] = d[1] /\ e[2] = d[2] => e = d
      BY <2>8, <3>1 DEF HandledOnce
    <3> QED
      BY <2>3, <2>4, <2>8, <3>1, <3>2
  <2>9. CASE d[1] = r /\ d[2] = i /\ i \notin dedupe[r].index
    <3>1. \A e \in Taken : ~(e[1] = r /\ e[2] = i)
      BY <2>6, <2>9
    <3>2. \A e \in Taken' : e[1] = r /\ e[2] = i => e = new
      BY <2>4, <2>9, <3>1
    <3> QED
      BY <2>1, <2>2, <2>9, <3>2
  <2>10. CASE d \notin Taken
    <3>1. d = new /\ i \notin dedupe[r].index
      BY <2>4, <2>10
    <3> QED
      BY <2>3, <2>9, <3>1
  <2> QED
    BY <2>8, <2>9, <2>10
<1>2. ASSUME NEW r \in Replicas, Restart(r) PROVE HandledOnce'
  <2>1. /\ forgotten'[r] = Ids /\ Taken' \subseteq Taken
        /\ \A q \in Replicas \ {r} : /\ dedupe'[q] = dedupe[q]
                                     /\ forgotten'[q] = forgotten[q]
    BY <1>0, <1>2 DEF Restart, TypeOK, Taken, Serving
  <2>2. \A d \in Taken' : d[1] \in Replicas /\ d[2] \in Ids
    BY <1>0, <2>1, DeliveryFields
  <2> QED
    BY <2>1, <2>2 DEF HandledOnce
<1>3. ASSUME NEW d \in Deliveries, NEW to \in Stages, Moves(d, to),
             stage[d] # "none", timeline' \subseteq timeline \union {d},
             UNCHANGED <<dedupe, forgotten>>
      PROVE  HandledOnce'
  <2>1. \A e \in Deliveries : e # d => stage'[e] = stage[e]
    BY <1>0, <1>3, MovesStage
  <2>2. Taken' \subseteq Taken
    BY <1>3, <2>1 DEF Taken, Serving
  <2> QED
    BY <1>3, <2>2, NothingTaken
<1>4. ASSUME NEW d \in Deliveries,
             \/ Ignore(d) \/ ReadParent(d) \/ PatchParent(d) \/ RecordEvent(d)
             \/ HandlerFails(d)
      PROVE  HandledOnce'
  <2>1. stage[d] # "none" /\ UNCHANGED <<dedupe, forgotten>>
    BY <1>4 DEF Ignore, ReadParent, PatchParent, RecordEvent, HandlerFails
  <2>2. timeline' \subseteq timeline \union {d}
    BY <1>4 DEF Ignore, ReadParent, PatchParent, RecordEvent, HandlerFails
  <2>3. \E to \in Stages : Moves(d, to)
    BY <1>4
    DEF Ignore, ReadParent, PatchParent, RecordEvent, HandlerFails, Stages
  <2> QED
    BY <1>3, <2>1, <2>2, <2>3
<1>5. CASE UNCHANGED <<timeline, stage, dedupe, forgotten>>
  BY <1>5, NothingTaken DEF Taken, Serving
<1>6. ASSUME NEW r \in Replicas, Sync(r)
      PROVE  UNCHANGED <<timeline, stage, dedupe, forgotten>>
  BY <1>6 DEF Sync
<1>7. CASE UNCHANGED vars
  BY <1>5, <1>7 DEF vars
<1> QED
  BY <1>1, <1>2, <1>4, <1>5, <1>6, <1>7 DEF Next

\* One webhook process records at most one timeline Event about a Stripe event that
\* it has not evicted and that it did not forget in a restart, also when the event is
\* delivered again while it is being handled.
THEOREM EventsAreReportedOnce == Spec => []OneEventPerProcess
<1>1. Init => HandledOnce
  BY DEF Init, HandledOnce, Taken, Serving
<1>2. HandledOnce => OneEventPerProcess
  BY DEF HandledOnce, OneEventPerProcess, Taken
<1> QED
  BY <1>1, <1>2, HandledOnceStep, DeduperInvariant, PTL DEF Spec

-----------------------------------------------------------------------------
\* Deliveries are numbered: a delivery under way is one of those made.
DeliveriesWereMade == \A d \in Serving : d[3] <= tries[d[2]]

ReportInv == DeliveriesWereMade /\ PhaseIsOnTimeline

\* Every step keeps it: Receive starts a delivery that is not under way, so that no
\* handler is cut off between patch and Event.
LEMMA ReportStep == DeduperInv /\ ReportInv /\ [Next]_vars => ReportInv'
<1> SUFFICES ASSUME DeduperInv, ReportInv, [Next]_vars PROVE ReportInv'
  OBVIOUS
<1>0. TypeOK /\ \A i \in Ids : tries[i] \in Nat
  BY DEF DeduperInv, TypeOK
<1> DEFINE Known == timeline \union Reporting \union unreported
<1>1. ASSUME UNCHANGED phaseVars, Known \subseteq Known' PROVE PhaseIsOnTimeline'
  BY <1>1 DEF ReportInv, PhaseIsOnTimeline, phaseVars
<1>2. ASSUME NEW d \in Deliveries, setters' = {d}, parent' = PhaseOf(d[2]),
             d \in Reporting' \union unreported'
      PROVE  PhaseIsOnTimeline'
  BY <1>2 DEF PhaseIsOnTimeline
<1>3. ASSUME NEW r \in Replicas, NEW i \in Ids, Receive(r, i) PROVE ReportInv'
  <2> DEFINE n == tries[i] + 1
             new == <<r, i, n>>
  <2>1. /\ new \in Deliveries /\ "started" \in Stages
        /\ tries'[i] = n /\ \A j \in Ids : j # i => tries'[j] = tries[j]
        /\ new[2] = i /\ new[3] = n
    BY <1>0, <1>3, NewDelivery DEF Receive, Stages, TypeOK
  <2>2. stage[new] = "none"
    <3>1. ~(new[3] <= tries[new[2]])
      BY <2>1, <1>0
    <3> HIDE DEF new
    <3> QED
      BY <2>1, <3>1 DEF ReportInv, DeliveriesWereMade, Serving
  <2> HIDE DEF new, n
  <2>3. \A e \in Deliveries : e # new => stage'[e] = stage[e]
    <3>1. CASE UNCHANGED stage
      BY <3>1
    <3>2. CASE Moves(new, "started")
      BY <3>2, <2>1, <1>0, MovesStage
    <3> QED
      BY <3>1, <3>2, <1>3 DEF Receive, new, n
  <2>4. DeliveriesWereMade'
    <3> SUFFICES ASSUME NEW e \in Serving' PROVE e[3] <= tries'[e[2]]
      BY DEF DeliveriesWereMade
    <3>1. e \in Deliveries /\ e[2] \in Ids /\ e[3] \in Nat
      BY DeliveryFields DEF Serving
    <3>2. CASE e = new
      BY <3>2, <2>1, <1>0 DEF n
    <3>3. CASE e # new
      <4>1. e[3] <= tries[e[2]]
        BY <2>3, <3>1, <3>3 DEF Serving, ReportInv, DeliveriesWereMade
      <4> QED
        BY <4>1, <3>1, <2>1, <1>0 DEF n
    <3> QED
      BY <3>2, <3>3
  <2>5. Known \subseteq Known' /\ UNCHANGED phaseVars
    BY <2>2, <2>3, <1>3 DEF Receive, Reporting
  <2> QED
    BY <1>1, <2>4, <2>5 DEF ReportInv
<1>4. ASSUME NEW d \in Deliveries, NEW to \in Stages, Moves(d, to), d \in Serving,
             UNCHANGED tries
      PROVE  /\ DeliveriesWereMade'
             /\ stage'[d] = to
             /\ \A e \in Deliveries : e # d => stage'[e] = stage[e]
  <2>1. stage'[d] = to /\ \A e \in Deliveries : e # d => stage'[e] = stage[e]
    BY <1>0, <1>4, MovesStage
  <2>2. Serving' \subseteq Serving
    BY <1>4, <2>1 DEF Serving
  <2> QED
    BY <1>4, <2>1, <2>2 DEF ReportInv, DeliveriesWereMade
<1>5. ASSUME NEW d \in Deliveries, Ignore(d) \/ ReadParent(d) PROVE ReportInv'
  <2>1. /\ d \in Serving /\ stage[d] # "patched"
        /\ UNCHANGED <<tries, timeline, unreported, phaseVars>>
    BY <1>5 DEF Ignore, ReadParent, Serving
  <2>2. PICK to \in Stages : Moves(d, to)
    BY <1>5 DEF Ignore, ReadParent, Stages
  <2>3. DeliveriesWereMade' /\ \A e \in Deliveries : e # d => stage'[e] = stage[e]
    BY <1>4, <2>1, <2>2
  <2>4. Known \subseteq Known'
    BY <2>1, <2>3 DEF Reporting
  <2> QED
    BY <1>1, <2>1, <2>3, <2>4 DEF ReportInv
<1>6. ASSUME NEW d \in Deliveries, PatchParent(d) PROVE ReportInv'
  <2>1. d \in Serving /\ UNCHANGED <<tries, timeline, unreported>>
    BY <1>6 DEF PatchParent, Serving
  <2>2. CASE stage[d] = "news"
    <3>1. DeliveriesWereMade' /\ stage'[d] = "patched"
      BY <1>4, <1>6, <2>1, <2>2 DEF PatchParent, Stages
    <3>2. setters' = {d} /\ parent' = PhaseOf(d[2])
      BY <1>6, <2>2 DEF PatchParent, PatchLands, WritesPhase
    <3> QED
      BY <1>2, <3>1, <3>2 DEF Reporting, ReportInv
  <2>3. CASE stage[d] = "known"
    <3>1. DeliveriesWereMade' /\ \A e \in Deliveries : e # d => stage'[e] = stage[e]
      BY <1>4, <1>6, <2>1, <2>3 DEF PatchParent, Stages
    <3>2. Known \subseteq Known'
      BY <2>1, <2>3, <3>1 DEF Reporting
    <3>3. UNCHANGED phaseVars
      BY <1>6, <2>3 DEF PatchParent, PatchLands, WritesPhase
    <3> QED
      BY <1>1, <3>1, <3>2, <3>3 DEF ReportInv
  <2> QED
    BY <1>6, <2>2, <2>3 DEF PatchParent
<1>7. ASSUME NEW d \in Deliveries, RecordEvent(d) PROVE ReportInv'
  <2>1. /\ d \in Serving /\ UNCHANGED <<tries, unreported, phaseVars>>
        /\ timeline' = timeline \union {d}
    BY <1>7 DEF RecordEvent, Serving
  <2>2. DeliveriesWereMade' /\ \A e \in Deliveries : e # d => stage'[e] = stage[e]
    BY <1>4, <1>7, <2>1 DEF RecordEvent, Stages
  <2>3. Known \subseteq Known'
    BY <2>1, <2>2 DEF Reporting
  <2> QED
    BY <1>1, <2>1, <2>2, <2>3 DEF ReportInv
<1>8. ASSUME NEW d \in Deliveries, HandlerFails(d) PROVE ReportInv'
  <2>1. d \in Serving /\ stage[d] # "patched" /\ UNCHANGED <<tries, timeline>>
    BY <1>8 DEF HandlerFails, Serving
  <2>2. DeliveriesWereMade' /\ \A e \in Deliveries : e # d => stage'[e] = stage[e]
    BY <1>4, <1>8, <2>1 DEF HandlerFails, Stages
  <2>3. Reporting \subseteq Reporting'
    BY <2>1, <2>2 DEF Reporting
  <2>4. CASE UNCHANGED <<phaseVars, unreported>>
    BY <1>1, <2>1, <2>2, <2>3, <2>4 DEF ReportInv
  <2>5. CASE /\ stage[d] = "news" /\ PatchLands(d)
             /\ unreported' = unreported \union {d}
    <3>1. setters' = {d} /\ parent' = PhaseOf(d[2]) /\ d \in unreported'
      BY <2>5 DEF PatchLands, WritesPhase
    <3> QED
      BY <1>2, <2>2, <3>1 DEF ReportInv
  <2> QED
    BY <1>8, <2>4, <2>5 DEF HandlerFails
<1>9. ASSUME NEW r \in Replicas, Restart(r) PROVE ReportInv'
  <2>1. /\ Serving' \subseteq Serving /\ UNCHANGED <<tries, timeline, phaseVars>>
        /\ \A d \in Deliveries : d[1] # r => stage'[d] = stage[d]
        /\ unreported' = unreported \union {d \in Reporting : d[1] = r}
    BY <1>9 DEF Restart, Serving
  <2>2. Known \subseteq Known'
    BY <2>1 DEF Reporting
  <2>3. DeliveriesWereMade'
    BY <2>1 DEF ReportInv, DeliveriesWereMade
  <2> QED
    BY <1>1, <2>1, <2>2, <2>3 DEF ReportInv
<1>10. ASSUME UNCHANGED <<tries, stage, phaseVars, timeline, unreported>>
       PROVE  ReportInv'
  <2>1. UNCHANGED <<Serving, Reporting>>
    BY <1>10 DEF Serving, Reporting
  <2> QED
    BY <1>1, <1>10, <2>1 DEF ReportInv, DeliveriesWereMade
<1>11. ASSUME NEW r \in Replicas, Sync(r) PROVE ReportInv'
  BY <1>10, <1>11 DEF Sync
<1>12. CASE UNCHANGED vars
  BY <1>10, <1>12 DEF vars
<1> QED
  BY <1>3, <1>5, <1>6, <1>7, <1>8, <1>9, <1>11, <1>12 DEF Next

\* The delivery that wrote the phase of the PaymentMethod records it on the timeline,
\* whatever the order of deliveries and however stale the caches, unless its patch
\* reported an error or its process died between the patch and the Event.
THEOREM PhasesAreReported == Spec => []PhaseIsOnTimeline
<1>1. Init => ReportInv
  BY DEF Init, ReportInv, DeliveriesWereMade, PhaseIsOnTimeline, Serving
<1>2. ReportInv => PhaseIsOnTimeline
  BY DEF ReportInv
<1> QED
  BY <1>1, <1>2, ReportStep, DeduperInvariant, PTL DEF Spec

=============================================================================
