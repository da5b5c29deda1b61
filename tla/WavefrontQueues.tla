--------------------------- MODULE WavefrontQueues ---------------------------
(***************************************************************************)
(* BoundedWavefrontQueueT and DoubleBufferedWavefrontQueueT                 *)
(* (Renderer/Source/WavefrontQueues.cpp): two fixed-capacity arrays of path *)
(* slots whose read and write roles alternate.  One producer thread pushes, *)
(* compacts and publishes; one consumer walks a span over the published     *)
(* buffer entry by entry while the producer keeps working on the other one. *)
(*                                                                         *)
(* Compaction is stepped lane by lane, as the in-place loop of the code     *)
(* runs, so that the consumer's reads fall between its writes.  A call the  *)
(* code rejects (a full buffer, a publish over an unreleased generation)    *)
(* leaves every field alone and is a stuttering step here.                  *)
(***************************************************************************)
EXTENDS Naturals, Sequences, FiniteSets

CONSTANTS
  Handle,        \* the objects a queue may be moved between
  Slot,          \* path slots (std::uint32_t values)
  Capacity,      \* entries per buffer
  MaxBatch,      \* bound on the length of a pushed batch
  NoCall,        \* no compaction is in progress
  NoView         \* the consumer holds no span

ASSUME QueueAssumption ==
  /\ Slot \subseteq Nat /\ 0 \in Slot
  /\ Capacity \in Nat /\ MaxBatch \in Nat \ {0}

VARIABLES
  exists,               \* the constructed objects
  storage,              \* storage_ of each of the two queues of an object
  active_size,          \* active_size_ of each of the two queues
  read_index,           \* read_index_
  read_buffer_pending,  \* read_buffer_pending_
  call,                 \* the locals of a running compact_terminated
  view,                 \* the consumer's span, and what it has read through it
  generation            \* history: the unreleased generations, as they were published

buffers == <<exists, storage, active_size, read_index, read_buffer_pending>>
vars == <<exists, storage, active_size, read_index, read_buffer_pending,
          call, view, generation>>

Buffer == {0, 1}
LaneState == {"active", "terminated"}
CompactionOrder == {"stable_input", "deterministic_path_slot"}
Batch == UNION {[1..n -> Slot] : n \in 0..MaxBatch}

EmptyStorage == [b \in Buffer |-> <<>>]
FreshStorage == [b \in Buffer |-> [i \in 1..Capacity |-> 0]]
NoEntries == [b \in Buffer |-> 0]

write_index(h) == 1 - read_index[h]

\* The active prefix of one buffer: what a span over the queue shows.
Entries(h, b) == [i \in 1..active_size[h][b] |-> storage[h][b][i]]

remaining_capacity(h, b) == Len(storage[h][b]) - active_size[h][b]

ProducerIdle == call = NoCall

\* No compaction of h is running and no span points into h.
Unobserved(h) == ProducerIdle /\ (view # NoView => view.handle # h)

Init ==
  /\ exists = {}
  /\ storage = [h \in Handle |-> EmptyStorage]
  /\ active_size = [h \in Handle |-> NoEntries]
  /\ read_index = [h \in Handle |-> 0]
  /\ read_buffer_pending = [h \in Handle |-> FALSE]
  /\ call = NoCall
  /\ view = NoView
  /\ generation = [h \in Handle |-> {}]

------------------------------------------------------
\* The producer.

create(h) ==
  /\ ProducerIdle /\ h \notin exists
  /\ exists' = exists \cup {h}
  /\ storage' = [storage EXCEPT ![h] = FreshStorage]
  /\ active_size' = [active_size EXCEPT ![h] = NoEntries]
  /\ read_index' = [read_index EXCEPT ![h] = 0]
  /\ read_buffer_pending' = [read_buffer_pending EXCEPT ![h] = FALSE]
  /\ generation' = [generation EXCEPT ![h] = {}]
  /\ UNCHANGED <<call, view>>

push_write(h, slot) ==
  LET b == write_index(h)
      n == active_size[h][b]
  IN  /\ ProducerIdle /\ h \in exists
      /\ n # Len(storage[h][b])
      /\ storage' = [storage EXCEPT ![h][b][n + 1] = slot]
      /\ active_size' = [active_size EXCEPT ![h][b] = n + 1]
      /\ UNCHANGED <<exists, read_index, read_buffer_pending, call, view, generation>>

\* The cells behind the active prefix that a batch overwrites.
AppendedEarly(cells, n, slots) ==  \* Mutant: starts on the last active entry.
  [i \in DOMAIN cells |-> IF n <= i /\ i < n + Len(slots) THEN slots[i - n + 1] ELSE cells[i]]
Appended(cells, n, slots) ==
  [i \in DOMAIN cells |-> IF n < i /\ i <= n + Len(slots) THEN slots[i - n] ELSE cells[i]]

push_write_batch(h, slots) ==
  LET b == write_index(h)
      n == active_size[h][b]
  IN  /\ ProducerIdle /\ h \in exists
      /\ Len(slots) <= remaining_capacity(h, b)
      /\ storage' = [storage EXCEPT ![h][b] = Appended(@, n, slots)]
      /\ active_size' = [active_size EXCEPT ![h][b] = n + Len(slots)]
      /\ UNCHANGED <<exists, read_index, read_buffer_pending, call, view, generation>>

\* The checks of compact_terminated precede the first move of an entry.
Compact(h, b, lane_states, order) ==
  /\ ProducerIdle /\ h \in exists
  /\ order \in CompactionOrder
  /\ Len(lane_states) = active_size[h][b]
  /\ call' = [handle |-> h, buffer |-> b, lane_states |-> lane_states,
              order |-> order, input_lane |-> 0, active_lanes |-> 0, input |-> Entries(h, b)]
  /\ UNCHANGED <<buffers, view, generation>>

begin_compaction(h, lane_states, order) == Compact(h, write_index(h), lane_states, order)

output_lane(active_lanes) == active_lanes + 1

\* One turn of the removal loop; the entry is read where the loop left it.
compact_lane ==
  /\ call # NoCall
  /\ call.input_lane < Len(call.lane_states)
  /\ LET lane == call.input_lane + 1
     IN  IF call.lane_states[lane] = "active"
           THEN /\ storage' = [storage EXCEPT ![call.handle][call.buffer][output_lane(call.active_lanes)] =
                                 storage[call.handle][call.buffer][lane]]
                /\ call' = [call EXCEPT !.input_lane = lane, !.active_lanes = @ + 1]
           ELSE /\ call' = [call EXCEPT !.input_lane = lane]
                /\ UNCHANGED storage
  /\ UNCHANGED <<exists, active_size, read_index, read_buffer_pending, view, generation>>

\* The orders std::sort may leave the first n cells in.
SortedBy(cells, n) ==
  {p \in [1..n -> 1..n] :
     /\ \A i, j \in 1..n : i # j => p[i] # p[j]
     /\ \A i, j \in 1..n : i < j => cells[p[i]] <= cells[p[j]]}

Identity(n) == [i \in 1..n |-> i]

end_compaction ==
  /\ call # NoCall
  /\ call.input_lane = Len(call.lane_states)
  /\ LET cells == storage[call.handle][call.buffer]
         n == call.active_lanes
     IN  \E p \in IF call.order = "deterministic_path_slot" THEN SortedBy(cells, n)
                                                            ELSE {Identity(n)} :
           storage' = [storage EXCEPT ![call.handle][call.buffer] =
                         [i \in DOMAIN cells |-> IF i <= n THEN cells[p[i]] ELSE cells[i]]]
  /\ active_size' = [active_size EXCEPT ![call.handle][call.buffer] = call.active_lanes]
  /\ call' = NoCall
  /\ UNCHANGED <<exists, read_index, read_buffer_pending, view, generation>>

Publish(h, published) ==
  /\ ProducerIdle /\ h \in exists
  /\ read_index' = [read_index EXCEPT ![h] = published]
  /\ read_buffer_pending' = [read_buffer_pending EXCEPT ![h] = TRUE]
  /\ generation' = [generation EXCEPT ![h] = {Entries(h, write_index(h))}]
  /\ UNCHANGED <<exists, storage, active_size, call, view>>

\* Mutant: an unreleased generation is replaced.
publish_over_pending(h) == Publish(h, write_index(h))
publish_write_buffer(h) == ~read_buffer_pending[h] /\ Publish(h, write_index(h))

\* A barrier operation: the consumer has let go of its span.
Release(h, sizes) ==
  /\ h \in exists
  /\ view # NoView => view.handle # h
  /\ read_buffer_pending[h]
  /\ active_size' = sizes
  /\ read_buffer_pending' = [read_buffer_pending EXCEPT ![h] = FALSE]
  /\ generation' = [generation EXCEPT ![h] = {}]
  /\ UNCHANGED <<exists, storage, read_index, call, view>>

release_read_buffer(h) == Release(h, [active_size EXCEPT ![h][read_index[h]] = 0])

\* The move constructor: each buffer is swapped with a default one.
move(from, to) ==
  /\ from \in exists /\ to \notin exists
  /\ Unobserved(from)
  /\ exists' = exists \cup {to}
  /\ storage' = [storage EXCEPT ![to] = storage[from], ![from] = EmptyStorage]
  /\ active_size' = [active_size EXCEPT ![to] = active_size[from], ![from] = NoEntries]
  /\ read_index' = [read_index EXCEPT ![to] = read_index[from], ![from] = 0]
  /\ read_buffer_pending' =
       [read_buffer_pending EXCEPT ![to] = read_buffer_pending[from], ![from] = FALSE]
  /\ generation' = [generation EXCEPT ![to] = generation[from], ![from] = {}]
  /\ UNCHANGED <<call, view>>

destroy(h) ==
  /\ h \in exists /\ Unobserved(h)
  /\ exists' = exists \ {h}
  /\ storage' = [storage EXCEPT ![h] = EmptyStorage]
  /\ active_size' = [active_size EXCEPT ![h] = NoEntries]
  /\ read_index' = [read_index EXCEPT ![h] = 0]
  /\ read_buffer_pending' = [read_buffer_pending EXCEPT ![h] = FALSE]
  /\ generation' = [generation EXCEPT ![h] = {}]
  /\ UNCHANGED <<call, view>>

------------------------------------------------------
\* The consumer.  A span is an address and a length fixed when it is taken.

pending_read_entries(h) ==
  /\ h \in exists /\ view = NoView
  /\ read_buffer_pending[h]
  /\ view' = [handle |-> h, buffer |-> read_index[h],
              size |-> active_size[h][read_index[h]], seen |-> <<>>]
  /\ UNCHANGED <<buffers, call, generation>>

read_entry ==
  /\ view # NoView
  /\ Len(view.seen) < view.size
  /\ view' = [view EXCEPT !.seen =
                Append(@, storage[view.handle][view.buffer][Len(view.seen) + 1])]
  /\ UNCHANGED <<buffers, call, generation>>

drop_view ==
  /\ view # NoView
  /\ view' = NoView
  /\ UNCHANGED <<buffers, call, generation>>

Next ==
  \/ \E h \in Handle :
       \/ create(h)
       \/ \E slot \in Slot : push_write(h, slot)
       \/ \E slots \in Batch : push_write_batch(h, slots)
       \/ \E lane_states \in UNION {[1..n -> LaneState] : n \in 0..Capacity},
             order \in CompactionOrder : begin_compaction(h, lane_states, order)
       \/ publish_write_buffer(h)
       \/ release_read_buffer(h)
       \/ \E to \in Handle : move(h, to)
       \/ destroy(h)
       \/ pending_read_entries(h)
  \/ compact_lane
  \/ end_compaction
  \/ read_entry
  \/ drop_view

Spec == Init /\ [][Next]_vars

------------------------------------------------------
\* Every variable has its type.
CallType ==
  [handle : Handle, buffer : Buffer, lane_states : Seq(LaneState),
   order : CompactionOrder, input_lane : Nat, active_lanes : Nat, input : Seq(Slot)]

ASSUME CallAssumption == NoCall \notin CallType

ViewType == [handle : Handle, buffer : Buffer, size : Nat, seen : Seq(Slot)]

\* Type correctness of the queue fields, the compaction locals and the span.
TypeOK ==
  /\ exists \subseteq Handle
  /\ storage \in [Handle -> [Buffer -> Seq(Slot)]]
  /\ active_size \in [Handle -> [Buffer -> Nat]]
  /\ read_index \in [Handle -> Buffer]
  /\ read_buffer_pending \in [Handle -> BOOLEAN]
  /\ call = NoCall \/ call \in CallType
  /\ view = NoView \/ view \in ViewType
  /\ generation \in [Handle -> SUBSET Seq(Slot)]

\* No sequence of pushes, batches, compactions, publications and moves makes a
\* buffer claim more entries than it has cells (push, push_batch, move).
WithinStorage ==
  \A h \in Handle, b \in Buffer : active_size[h][b] <= Len(storage[h][b])

\* A published generation stays exactly what was published until it is
\* released, whatever the producer does to the other buffer meanwhile
\* (WavefrontQueues.hpp: publishing never clears or replaces an unreleased
\* read generation; compaction leaves it immutable).
GenerationIntact ==
  \A h \in Handle :
    generation[h] = IF read_buffer_pending[h] THEN {Entries(h, read_index[h])} ELSE {}

\* A consumer that walks its span entry by entry, between the steps of the
\* producer, has read a prefix of the published generation and nothing else.
ViewFaithful ==
  view # NoView =>
    \E g \in generation[view.handle] :
      /\ view.size = Len(g)
      /\ Len(view.seen) <= Len(g)
      /\ \A i \in 1..Len(view.seen) : view.seen[i] = g[i]

\* The removal loop works on the write buffer of a live object, and its output
\* index never overtakes its input index.
CallInv ==
  call # NoCall =>
    /\ call.handle \in exists
    /\ call.buffer = write_index(call.handle)
    /\ Len(call.lane_states) = active_size[call.handle][call.buffer]
    /\ call.active_lanes <= call.input_lane
    /\ call.input_lane <= Len(call.lane_states)

\* A span covers exactly the pending read buffer of a live object.
ViewInv ==
  view # NoView =>
    /\ view.handle \in exists
    /\ read_buffer_pending[view.handle]
    /\ view.buffer = read_index[view.handle]
    /\ view.size = active_size[view.handle][view.buffer]
    /\ Len(view.seen) <= view.size
    /\ \A i \in 1..Len(view.seen) : view.seen[i] = storage[view.handle][view.buffer][i]

\* The loop bounds and the span's extent that make the storage invariants
\* inductive: what compact_lane and read_entry read lies inside a live buffer.
IInv ==
  /\ TypeOK
  /\ WithinStorage
  /\ CallInv
  /\ ViewInv

------------------------------------------------------
\* Both buffers together implement the generation channel: an unfinished
\* compaction is invisible until active_size changes.
Room == [h \in Handle |-> Len(storage[h][0])]
Building == [h \in Handle |-> IF call # NoCall /\ call.handle = h THEN call.input
                                                                ELSE Entries(h, write_index(h))]
Published == [h \in Handle |->
                IF read_buffer_pending[h] THEN {Entries(h, read_index[h])} ELSE {}]

Channel == INSTANCE GenerationChannel WITH
  capacity <- Room, building <- Building, published <- Published

\* The storage-level queue implements the abstract generation channel.
ChannelSpec == Channel!Spec
=============================================================================
