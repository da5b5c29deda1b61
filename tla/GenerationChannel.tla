-------------------------- MODULE GenerationChannel --------------------------
(***************************************************************************)
(* What a double-buffered wavefront queue promises its producer and its    *)
(* consumer, with no buffers, indices or storage in sight: a bounded       *)
(* sequence the producer builds, and at most one published generation      *)
(* that the consumer holds, unchanged, until it releases it.               *)
(* WavefrontQueues implements this specification.                          *)
(***************************************************************************)
EXTENDS Naturals, Sequences, FiniteSets

CONSTANTS Handle, Slot, Capacity, MaxBatch

VARIABLES
  exists,      \* the handles that name a constructed channel
  capacity,    \* per handle: how many entries one generation may hold
  building,    \* per handle: the generation under construction
  published    \* per handle: the set of generations the consumer holds, at most one

vars == <<exists, capacity, building, published>>

Batch == UNION {[1..n -> Slot] : n \in 0..MaxBatch}

\* The position that the k-th surviving lane had before the compaction.
Survivor(kept, k) ==
  CHOOSE i \in kept : Cardinality({j \in kept : j < i}) = k - 1

\* The lanes of entries marked as kept, in the order they were in.
Surviving(entries, kept) ==
  [k \in 1..Cardinality(kept) |-> entries[Survivor(kept, k)]]

Ascending(s) == \A i, j \in DOMAIN s : i < j => s[i] <= s[j]

\* Occurrences of one slot in a sequence.
Occurrences(s, slot) == Cardinality({i \in DOMAIN s : s[i] = slot})

SameEntries(s, t) == \A slot \in Slot : Occurrences(s, slot) = Occurrences(t, slot)

Init ==
  /\ exists = {}
  /\ capacity = [h \in Handle |-> 0]
  /\ building = [h \in Handle |-> <<>>]
  /\ published = [h \in Handle |-> {}]

Create(h) ==
  /\ h \notin exists
  /\ exists' = exists \cup {h}
  /\ capacity' = [capacity EXCEPT ![h] = Capacity]
  /\ building' = [building EXCEPT ![h] = <<>>]
  /\ published' = [published EXCEPT ![h] = {}]

\* All of the batch is accepted, or none of it.
Accept(h, batch) ==
  /\ h \in exists
  /\ Len(building[h]) + Len(batch) <= capacity[h]
  /\ building' = [building EXCEPT ![h] = @ \o batch]
  /\ UNCHANGED <<exists, capacity, published>>

\* Terminated lanes disappear; the others keep their order, or are put in
\* the ascending order of their slots.
Compact(h) ==
  /\ h \in exists
  /\ \E kept \in SUBSET DOMAIN building[h] :
       LET left == Surviving(building[h], kept)
       IN  \/ building' = [building EXCEPT ![h] = left]
           \/ /\ building'[h] \in [DOMAIN left -> Slot]
              /\ Ascending(building'[h])
              /\ SameEntries(building'[h], left)
              /\ building' = [building EXCEPT ![h] = building'[h]]
  /\ UNCHANGED <<exists, capacity, published>>

Publish(h) ==
  /\ h \in exists
  /\ published[h] = {}
  /\ published' = [published EXCEPT ![h] = {building[h]}]
  /\ building' = [building EXCEPT ![h] = <<>>]
  /\ UNCHANGED <<exists, capacity>>

Release(h) ==
  /\ h \in exists
  /\ published[h] # {}
  /\ published' = [published EXCEPT ![h] = {}]
  /\ UNCHANGED <<exists, capacity, building>>

\* A moved channel keeps both generations; what is left behind holds nothing.
Move(from, to) ==
  /\ from \in exists /\ to \notin exists
  /\ exists' = exists \cup {to}
  /\ capacity' = [capacity EXCEPT ![to] = capacity[from], ![from] = 0]
  /\ building' = [building EXCEPT ![to] = building[from], ![from] = <<>>]
  /\ published' = [published EXCEPT ![to] = published[from], ![from] = {}]

Destroy(h) ==
  /\ h \in exists
  /\ exists' = exists \ {h}
  /\ capacity' = [capacity EXCEPT ![h] = 0]
  /\ building' = [building EXCEPT ![h] = <<>>]
  /\ published' = [published EXCEPT ![h] = {}]

Next ==
  \E h \in Handle :
    \/ Create(h)
    \/ \E batch \in Batch : Accept(h, batch)
    \/ Compact(h)
    \/ Publish(h)
    \/ Release(h)
    \/ \E to \in Handle : Move(h, to)
    \/ Destroy(h)

Spec == Init /\ [][Next]_vars
=============================================================================
