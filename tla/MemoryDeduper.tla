---------------------------- MODULE MemoryDeduper ----------------------------
(***************************************************************************)
(* The MemoryDeduper of a webhook process: a list of event ids, the least   *)
(* recently seen first, and an index of the ids that are on the list.  Its  *)
(* mutex makes SeenOrRecord one step.                                       *)
(***************************************************************************)
EXTENDS Naturals, Sequences, FiniteSets

CONSTANTS Ids,      \* event ids
          Capacity  \* positive: NewMemoryDeduper replaces any other

ASSUME DeduperAssumption ==
  /\ IsFiniteSet(Ids)
  /\ Capacity \in Nat \ {0}

Dedupers == [order : Seq(Ids), index : SUBSET Ids]

\* NewMemoryDeduper
NewDeduper == [order |-> << >>, index |-> {}]

Elements(s) == {s[k] : k \in 1 .. Len(s)}

\* The ids that were seen after the k-th on the list.
Behind(s, k) == {s[j] : j \in (k + 1) .. Len(s)}

Position(s, i) == CHOOSE k \in 1 .. Len(s) : s[k] = i

\* Mutant: an id that is seen again stays where it is in the list.
MoveNowhere(s, i) == s

\* list.MoveToBack, of the element of i.
MoveToBack(s, i) ==
  LET p == Position(s, i) IN
    [k \in 1 .. Len(s) |-> IF k < p THEN s[k]
                           ELSE IF k < Len(s) THEN s[k + 1] ELSE i]

Full(d) == Len(d.order) >= Capacity

\* Mutant: the evicted id stays in the index.
EvictOrderOnly(d) == [d EXCEPT !.order = Tail(d.order)]

\* The oldest id goes, from the list and from the index.
Evict(d) ==
  [order |-> Tail(d.order), index |-> d.index \ {Head(d.order)}]

\* list.PushBack, and the index entry of i.
PushBack(d, i) ==
  [order |-> Append(d.order, i), index |-> d.index \union {i}]

\* SeenOrRecord: its answer, and the deduper after it.
Remembers(d, i) == i \in d.index

AfterSeeing(d, i) ==
  IF Remembers(d, i) THEN [d EXCEPT !.order = MoveToBack(d.order, i)]
  ELSE PushBack(IF Full(d) THEN Evict(d) ELSE d, i)

\* The index says exactly what is on the list, once each, and there is room.
Injective(s) == \A j, k \in 1 .. Len(s) : s[j] = s[k] => j = k

WellFormed(d) ==
  /\ d \in Dedupers
  /\ d.index = Elements(d.order)
  /\ Injective(d.order)
  /\ Len(d.order) <= Capacity
=============================================================================
