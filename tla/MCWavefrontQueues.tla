-------------------------- MODULE MCWavefrontQueues --------------------------
(* Model values for WavefrontQueues.  Capacity 2 is the smallest capacity at
   which a compaction moves an entry and a sort exchanges two; three slots
   tell a stale cell from the two entries in use. *)
EXTENDS WavefrontQueues

CONSTANTS h1, h2

MCSlot == {0, 1, 2}

(* Bound: one constructed object and, after a move, the empty one it left.
   Two full objects share no field, so their product shows nothing more. *)
OneObject == Cardinality({h \in Handle : Len(storage[h][0]) > 0}) <= 1
=============================================================================
