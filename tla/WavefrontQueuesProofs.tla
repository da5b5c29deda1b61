------------------------ MODULE WavefrontQueuesProofs ------------------------
(***************************************************************************)
(* The inductive invariant of WavefrontQueues, for every capacity, batch   *)
(* bound, slot domain and set of objects: a published generation is        *)
(* immutable until it is released, and a consumer's span shows it; and the *)
(* refinement: the two buffers implement the generation channel.           *)
(***************************************************************************)
EXTENDS WavefrontQueues, SequenceTheorems, FiniteSetTheorems, TLAPS

StorageType == [Handle -> [Buffer -> Seq(Slot)]]

------------------------------------------------------
\* A function on 1..n is a sequence of length n.
LEMMA FunctionIsSeq ==
  ASSUME NEW S, NEW n \in Nat, NEW f \in [1..n -> S]
  PROVE  f \in Seq(S) /\ Len(f) = n
OBVIOUS

\* The two roles are always on different buffers.
LEMMA WriteIndexIsOther ==
  ASSUME TypeOK, NEW h \in Handle
  PROVE  write_index(h) \in Buffer /\ write_index(h) # read_index[h]
<1>1. read_index[h] = 0 \/ read_index[h] = 1 BY DEF TypeOK, Buffer
<1>2. QED BY <1>1 DEF write_index, Buffer

\* A full active prefix is a sequence of slots.
LEMMA EntriesType ==
  ASSUME TypeOK, WithinStorage, NEW h \in Handle, NEW b \in Buffer
  PROVE  /\ Entries(h, b) \in Seq(Slot)
         /\ Len(Entries(h, b)) = active_size[h][b]
         /\ \A i \in 1..active_size[h][b] : Entries(h, b)[i] = storage[h][b][i]
<1>1. storage[h][b] \in Seq(Slot) /\ active_size[h][b] \in Nat BY DEF TypeOK
<1>2. active_size[h][b] <= Len(storage[h][b]) BY DEF WithinStorage
<1>3. \A i \in 1..active_size[h][b] : storage[h][b][i] \in Slot
  BY <1>1, <1>2, ElementOfSeq
<1>4. Entries(h, b) \in [1..active_size[h][b] -> Slot] BY <1>3 DEF Entries
<1>5. QED BY <1>1, <1>4, FunctionIsSeq DEF Entries
------------------------------------------------------
\* What the steps that build a buffer store is a sequence of slots.
LEMMA BatchIsSeq ==
  ASSUME NEW slots \in Batch
  PROVE  slots \in Seq(Slot)
<1>1. MaxBatch \in Nat BY QueueAssumption
<1>2. PICK n \in 0..MaxBatch : slots \in [1..n -> Slot] BY DEF Batch
<1>3. QED BY <1>1, <1>2, FunctionIsSeq

LEMMA AppendedType ==
  ASSUME NEW cells \in Seq(Slot), NEW n \in Nat, NEW slots \in Seq(Slot),
         n + Len(slots) <= Len(cells)
  PROVE  /\ Appended(cells, n, slots) \in Seq(Slot)
         /\ Len(Appended(cells, n, slots)) = Len(cells)
         /\ \A i \in 1..n : Appended(cells, n, slots)[i] = cells[i]
<1>1. /\ Len(cells) \in Nat /\ Len(slots) \in Nat
      /\ DOMAIN cells = 1..Len(cells)
  BY LenProperties
<1>2. \A i \in 1..Len(cells) :
        (IF n < i /\ i <= n + Len(slots) THEN slots[i - n] ELSE cells[i]) \in Slot
  <2>1. TAKE i \in 1..Len(cells)
  <2>2. CASE n < i /\ i <= n + Len(slots)
    <3>1. i - n \in 1..Len(slots) BY <1>1, <2>2
    <3>2. QED BY <2>2, <3>1, ElementOfSeq
  <2>3. CASE ~(n < i /\ i <= n + Len(slots))
    BY <2>3, ElementOfSeq
  <2>4. QED BY <2>2, <2>3
<1>3. Appended(cells, n, slots) \in [1..Len(cells) -> Slot]
  BY <1>1, <1>2 DEF Appended
<1>4. /\ Appended(cells, n, slots) \in Seq(Slot)
      /\ Len(Appended(cells, n, slots)) = Len(cells)
  BY <1>1, <1>3, FunctionIsSeq
<1>5. \A i \in 1..n : Appended(cells, n, slots)[i] = cells[i]
  BY <1>1 DEF Appended
<1>6. QED BY <1>4, <1>5

\* Reordering a prefix of the cells keeps the type and the length.
LEMMA ReorderedType ==
  ASSUME NEW cells \in Seq(Slot), NEW n \in Nat, n <= Len(cells), NEW p \in [1..n -> 1..n]
  PROVE  LET sorted == [i \in DOMAIN cells |-> IF i <= n THEN cells[p[i]] ELSE cells[i]]
         IN  sorted \in Seq(Slot) /\ Len(sorted) = Len(cells)
<1> DEFINE sorted == [i \in DOMAIN cells |-> IF i <= n THEN cells[p[i]] ELSE cells[i]]
<1>1. Len(cells) \in Nat /\ DOMAIN cells = 1..Len(cells) BY LenProperties
<1>2. \A i \in 1..Len(cells) : (IF i <= n THEN cells[p[i]] ELSE cells[i]) \in Slot
  <2>1. TAKE i \in 1..Len(cells)
  <2>2. CASE i <= n
    <3>1. p[i] \in 1..Len(cells) BY <1>1, <2>2
    <3>2. QED BY <2>2, <3>1, ElementOfSeq
  <2>3. CASE ~(i <= n)
    BY <2>3, ElementOfSeq
  <2>4. QED BY <2>2, <2>3
<1>3. sorted \in [1..Len(cells) -> Slot] BY <1>1, <1>2
<1>4. QED BY <1>1, <1>3, FunctionIsSeq

\* Both orders of a compaction permute the kept prefix.
LEMMA OrderIsFunction ==
  ASSUME NEW cells, NEW n \in Nat, NEW order,
         NEW p \in IF order = "deterministic_path_slot" THEN SortedBy(cells, n) ELSE {Identity(n)}
  PROVE  p \in [1..n -> 1..n]
BY DEF SortedBy, Identity

------------------------------------------------------
\* The invariant holds initially and every action preserves it.
LEMMA InitIInv == Init => IInv
<1> SUFFICES ASSUME Init PROVE IInv
  OBVIOUS
<1> USE DEF Init
<1>1. TypeOK BY DEF TypeOK, EmptyStorage, NoEntries, Buffer
<1>2. WithinStorage BY DEF WithinStorage, EmptyStorage, NoEntries, Buffer
<1>3. CallInv /\ ViewInv BY DEF CallInv, ViewInv
<1>4. QED BY <1>1, <1>2, <1>3 DEF IInv

LEMMA CreateIInv ==
  ASSUME IInv, NEW h \in Handle, create(h)
  PROVE  IInv'
<1> USE DEF IInv, create
<1>1. /\ Capacity \in Nat
      /\ FreshStorage \in [Buffer -> Seq(Slot)]
      /\ \A b \in Buffer : Len(FreshStorage[b]) = Capacity
  <2>1. Capacity \in Nat /\ [i \in 1..Capacity |-> 0] \in [1..Capacity -> Slot]
    BY QueueAssumption
  <2>2. QED BY <2>1, FunctionIsSeq DEF FreshStorage
<1>2. TypeOK' BY <1>1 DEF TypeOK, NoEntries, Buffer
<1>3. WithinStorage' BY <1>1 DEF TypeOK, WithinStorage, NoEntries
<1>4. CallInv' BY DEF CallInv, ProducerIdle
<1>5. ViewInv' BY DEF TypeOK, ViewInv, ViewType
<1>6. QED BY <1>2, <1>3, <1>4, <1>5

LEMMA PushIInv ==
  ASSUME IInv, NEW h \in Handle, NEW slot \in Slot, push_write(h, slot)
  PROVE  IInv'
<1> DEFINE b == write_index(h)
           n == active_size[h][b]
<1> USE DEF IInv
<1>0. /\ call = NoCall
      /\ n # Len(storage[h][b])
      /\ storage' = [storage EXCEPT ![h][b][n + 1] = slot]
      /\ active_size' = [active_size EXCEPT ![h][b] = n + 1]
      /\ UNCHANGED <<exists, read_index, read_buffer_pending, call, view, generation>>
  BY DEF push_write, ProducerIdle
<1>1. b \in Buffer /\ b # read_index[h] BY WriteIndexIsOther
<1> HIDE DEF b
<1>2. storage \in StorageType /\ n \in Nat /\ n + 1 \in 1..Len(storage[h][b])
  <2>1. storage \in StorageType /\ storage[h][b] \in Seq(Slot) /\ n \in Nat
    BY <1>1 DEF TypeOK, StorageType
  <2>2. Len(storage[h][b]) \in Nat BY <2>1, LenProperties
  <2>3. n <= Len(storage[h][b]) BY <1>1 DEF WithinStorage
  <2>4. QED BY <1>0, <2>1, <2>2, <2>3
<1> HIDE DEF n
<1>3. /\ storage' \in StorageType
      /\ \A g \in Handle, c \in Buffer : Len(storage'[g][c]) = Len(storage[g][c])
      /\ \A g \in Handle, c \in Buffer : \A j \in 1..Len(storage[g][c]) :
           storage'[g][c][j] = IF g = h /\ c = b /\ j = n + 1 THEN slot ELSE storage[g][c][j]
  <2> DEFINE cells == [storage[h][b] EXCEPT ![n + 1] = slot]
  <2>1. storage[h][b] \in Seq(Slot) BY <1>1, <1>2 DEF StorageType
  <2>2. /\ cells \in Seq(Slot)
        /\ Len(cells) = Len(storage[h][b])
        /\ \A j \in 1..Len(storage[h][b]) :
             cells[j] = IF j = n + 1 THEN slot ELSE storage[h][b][j]
    BY <1>2, <2>1, ExceptSeq
  <2>3. storage' = [storage EXCEPT ![h][b] = cells] BY <1>0
  <2> HIDE DEF cells
  <2>4. /\ storage' \in StorageType
        /\ \A g \in Handle, c \in Buffer :
             storage'[g][c] = IF g = h /\ c = b THEN cells ELSE storage[g][c]
    BY <1>1, <1>2, <2>2, <2>3 DEF StorageType
  <2>5. QED BY <2>2, <2>4
<1>4. TypeOK' BY <1>0, <1>1, <1>2, <1>3 DEF TypeOK, StorageType
<1>5. WithinStorage' BY <1>0, <1>1, <1>2, <1>3 DEF TypeOK, WithinStorage
<1>6. CallInv' BY <1>0 DEF CallInv
<1>7. ViewInv'
  <2> SUFFICES ASSUME view # NoView PROVE ViewInv'
    BY <1>0 DEF ViewInv
  <2>1. view.handle \in Handle /\ view.buffer \in Buffer /\ view.buffer = read_index[view.handle]
    BY DEF TypeOK, ViewInv, ViewType
  <2>2. active_size'[view.handle][view.buffer] = active_size[view.handle][view.buffer]
    BY <1>0, <1>1, <2>1 DEF TypeOK
  <2>3. \A j \in 1..Len(view.seen) : j \in 1..Len(storage[view.handle][view.buffer])
    BY <2>1, LenProperties DEF TypeOK, ViewInv, ViewType, WithinStorage
  <2>4. \A j \in 1..Len(view.seen) :
          storage'[view.handle][view.buffer][j] = storage[view.handle][view.buffer][j]
    BY <1>1, <1>3, <2>1, <2>3
  <2>5. QED BY <1>0, <2>2, <2>4 DEF ViewInv
<1>8. QED BY <1>4, <1>5, <1>6, <1>7

LEMMA PushBatchIInv ==
  ASSUME IInv, NEW h \in Handle, NEW slots \in Batch, push_write_batch(h, slots)
  PROVE  IInv'
<1> DEFINE b == write_index(h)
           n == active_size[h][b]
           cells == Appended(storage[h][b], n, slots)
<1> USE DEF IInv
<1>0. /\ call = NoCall
      /\ Len(slots) <= remaining_capacity(h, b)
      /\ storage' = [storage EXCEPT ![h][b] = cells]
      /\ active_size' = [active_size EXCEPT ![h][b] = n + Len(slots)]
      /\ UNCHANGED <<exists, read_index, read_buffer_pending, call, view, generation>>
  BY DEF push_write_batch, ProducerIdle
<1>1. b \in Buffer /\ b # read_index[h] BY WriteIndexIsOther
<1>2. /\ storage \in StorageType /\ n \in Nat
      /\ storage[h][b] \in Seq(Slot)
      /\ slots \in Seq(Slot) /\ Len(slots) \in Nat
  BY <1>1, BatchIsSeq, LenProperties DEF TypeOK, StorageType
<1>3. n + Len(slots) <= Len(storage[h][b])
  <2>1. Len(storage[h][b]) \in Nat BY <1>2, LenProperties
  <2>2. QED BY <1>0, <1>2, <2>1 DEF remaining_capacity
<1>4. cells \in Seq(Slot) /\ Len(cells) = Len(storage[h][b])
  BY <1>2, <1>3, AppendedType
<1> HIDE DEF b, n, cells
<1>5. /\ storage' \in StorageType
      /\ \A g \in Handle, c \in Buffer :
           storage'[g][c] = IF g = h /\ c = b THEN cells ELSE storage[g][c]
  BY <1>0, <1>1, <1>2, <1>4 DEF StorageType
<1>6. TypeOK' BY <1>0, <1>1, <1>2, <1>5 DEF TypeOK, StorageType
<1>7. WithinStorage'
  BY <1>0, <1>1, <1>2, <1>3, <1>4, <1>5 DEF TypeOK, WithinStorage
<1>8. CallInv' BY <1>0 DEF CallInv
<1>9. ViewInv' BY <1>0, <1>1, <1>2, <1>5 DEF TypeOK, ViewInv, ViewType
<1>10. QED BY <1>6, <1>7, <1>8, <1>9

LEMMA BeginCompactionIInv ==
  ASSUME IInv, NEW h \in Handle,
         NEW lane_states \in UNION {[1..n -> LaneState] : n \in 0..Capacity},
         NEW order \in CompactionOrder, begin_compaction(h, lane_states, order)
  PROVE  IInv'
<1> DEFINE b == write_index(h)
<1> USE DEF IInv
<1>0. /\ h \in exists
      /\ Len(lane_states) = active_size[h][b]
      /\ call' = [handle |-> h, buffer |-> b, lane_states |-> lane_states, order |-> order,
                  input_lane |-> 0, active_lanes |-> 0, input |-> Entries(h, b)]
      /\ UNCHANGED <<exists, storage, active_size, read_index, read_buffer_pending,
                     view, generation>>
  BY DEF begin_compaction, Compact, buffers
<1>1. b \in Buffer BY WriteIndexIsOther
<1>2. lane_states \in Seq(LaneState) /\ Len(lane_states) \in Nat
  <2>1. PICK n \in 0..Capacity : lane_states \in [1..n -> LaneState] OBVIOUS
  <2>2. n \in Nat BY QueueAssumption
  <2>3. QED BY <2>1, <2>2, FunctionIsSeq
<1>3. Entries(h, b) \in Seq(Slot) BY <1>1, EntriesType
<1>4. call' \in CallType BY <1>0, <1>1, <1>2, <1>3 DEF CallType
<1>5. TypeOK' BY <1>0, <1>4 DEF TypeOK
<1>6. WithinStorage' /\ ViewInv' BY <1>0 DEF WithinStorage, ViewInv
<1>7. CallInv' BY <1>0, <1>2 DEF CallInv, write_index
<1>8. QED BY <1>5, <1>6, <1>7

\* What the loop of a running compaction reads and writes lies inside the
\* write buffer.
LEMMA CompactionBounds ==
  ASSUME IInv, call # NoCall
  PROVE  /\ call \in CallType
         /\ call.handle \in Handle /\ call.buffer \in Buffer
         /\ call.buffer # read_index[call.handle]
         /\ call.active_lanes \in Nat /\ call.input_lane \in Nat
         /\ Len(call.lane_states) \in Nat
         /\ storage[call.handle][call.buffer] \in Seq(Slot)
         /\ Len(storage[call.handle][call.buffer]) \in Nat
         /\ call.active_lanes <= call.input_lane
         /\ call.input_lane <= Len(call.lane_states)
         /\ Len(call.lane_states) <= Len(storage[call.handle][call.buffer])
<1> USE DEF IInv
<1>1. call \in CallType BY DEF TypeOK
<1>2. /\ call.handle \in Handle /\ call.buffer \in Buffer
      /\ call.active_lanes \in Nat /\ call.input_lane \in Nat
      /\ call.lane_states \in Seq(LaneState)
  BY <1>1 DEF CallType
<1>3. call.buffer # read_index[call.handle]
  BY <1>2, WriteIndexIsOther DEF CallInv
<1>4. storage[call.handle][call.buffer] \in Seq(Slot) BY <1>2 DEF TypeOK
<1>5. Len(call.lane_states) \in Nat /\ Len(storage[call.handle][call.buffer]) \in Nat
  BY <1>2, <1>4, LenProperties
<1>6. active_size[call.handle][call.buffer] <= Len(storage[call.handle][call.buffer])
  BY <1>2 DEF WithinStorage
<1>7. QED BY <1>1, <1>2, <1>3, <1>4, <1>5, <1>6 DEF CallInv

\* A span is over the read buffer and inside its cells.
LEMMA ViewBounds ==
  ASSUME IInv, view # NoView
  PROVE  /\ view \in ViewType
         /\ view.handle \in Handle /\ view.buffer \in Buffer
         /\ view.buffer = read_index[view.handle]
         /\ view.size \in Nat
         /\ view.seen \in Seq(Slot) /\ Len(view.seen) \in Nat
         /\ storage[view.handle][view.buffer] \in Seq(Slot)
         /\ Len(storage[view.handle][view.buffer]) \in Nat
         /\ view.size <= Len(storage[view.handle][view.buffer])
<1> USE DEF IInv
<1>1. view \in ViewType BY DEF TypeOK
<1>2. /\ view.handle \in Handle /\ view.buffer \in Buffer /\ view.size \in Nat
      /\ view.seen \in Seq(Slot)
  BY <1>1 DEF ViewType
<1>3. storage[view.handle][view.buffer] \in Seq(Slot) BY <1>2 DEF TypeOK
<1>4. Len(view.seen) \in Nat /\ Len(storage[view.handle][view.buffer]) \in Nat
  BY <1>2, <1>3, LenProperties
<1>5. active_size[view.handle][view.buffer] <= Len(storage[view.handle][view.buffer])
  BY <1>2 DEF WithinStorage
<1>6. QED BY <1>1, <1>2, <1>3, <1>4, <1>5 DEF ViewInv

\* A step that writes only one buffer, and not the one under a span, leaves
\* what the span shows alone.
LEMMA ViewUntouched ==
  ASSUME IInv, NEW h \in Handle, NEW b \in Buffer, b # read_index[h],
         exists' = exists, active_size' = active_size, read_index' = read_index,
         read_buffer_pending' = read_buffer_pending, view' = view,
         \A g \in Handle, c \in Buffer : ~(g = h /\ c = b) => storage'[g][c] = storage[g][c]
  PROVE  ViewInv'
<1> SUFFICES ASSUME view # NoView PROVE ViewInv'
  BY DEF ViewInv
<1>1. storage'[view.handle][view.buffer] = storage[view.handle][view.buffer]
  BY ViewBounds
<1>2. QED BY <1>1 DEF IInv, ViewInv

(* The bounds of a compaction that looks at one lane more. *)
LEMMA OneLaneMore ==
  ASSUME NEW a \in Nat, NEW i \in Nat, NEW m \in Nat, NEW n \in Nat, a <= i, i < m, m <= n
  PROVE  /\ i + 1 \in Nat /\ a + 1 \in Nat
         /\ i + 1 \in 1..n /\ a + 1 \in 1..n
         /\ a + 1 <= i + 1 /\ a <= i + 1 /\ i + 1 <= m
OBVIOUS

LEMMA CompactLaneIInv ==
  ASSUME IInv, compact_lane
  PROVE  IInv'
<1> DEFINE h == call.handle
           b == call.buffer
           lane == call.input_lane + 1
           out == call.active_lanes + 1
<1>0. /\ call # NoCall
      /\ call.input_lane < Len(call.lane_states)
      /\ UNCHANGED <<exists, active_size, read_index, read_buffer_pending, view, generation>>
  BY DEF compact_lane
<1>1. /\ call \in CallType
      /\ h \in Handle /\ b \in Buffer /\ b # read_index[h]
      /\ storage[h][b] \in Seq(Slot)
      /\ lane \in Nat /\ out \in Nat
      /\ lane \in 1..Len(storage[h][b]) /\ out \in 1..Len(storage[h][b])
      /\ out <= lane /\ call.active_lanes <= lane /\ lane <= Len(call.lane_states)
  <2>1. /\ call \in CallType
        /\ h \in Handle /\ b \in Buffer /\ b # read_index[h]
        /\ call.active_lanes \in Nat /\ call.input_lane \in Nat
        /\ Len(call.lane_states) \in Nat
        /\ storage[h][b] \in Seq(Slot)
        /\ Len(storage[h][b]) \in Nat
        /\ call.active_lanes <= call.input_lane
        /\ Len(call.lane_states) <= Len(storage[h][b])
    BY <1>0, CompactionBounds
  <2>2. call.input_lane < Len(call.lane_states) BY <1>0
  <2> HIDE DEF h, b
  <2>3. /\ lane \in Nat /\ out \in Nat
        /\ lane \in 1..Len(storage[h][b]) /\ out \in 1..Len(storage[h][b])
        /\ out <= lane /\ call.active_lanes <= lane /\ lane <= Len(call.lane_states)
    BY <2>1, <2>2, OneLaneMore
  <2>4. QED BY <2>1, <2>3
<1>2. CASE call.lane_states[lane] = "active"
  <2> DEFINE cells == [storage[h][b] EXCEPT ![out] = storage[h][b][lane]]
  <2>1. /\ storage' = [storage EXCEPT ![h][b] = cells]
        /\ call' = [call EXCEPT !.input_lane = lane, !.active_lanes = call.active_lanes + 1]
    BY <1>0, <1>2 DEF compact_lane, output_lane
  <2>2. /\ cells \in Seq(Slot)
        /\ Len(cells) = Len(storage[h][b])
    BY <1>1, ElementOfSeq, ExceptSeq
  <2> HIDE DEF cells, h, b, lane, out
  <2>3. /\ storage' \in StorageType
        /\ \A g \in Handle, c \in Buffer :
             storage'[g][c] = IF g = h /\ c = b THEN cells ELSE storage[g][c]
    BY <1>1, <2>1, <2>2 DEF IInv, TypeOK, StorageType
  <2>4. /\ call' \in CallType
        /\ call'.handle = call.handle /\ call'.buffer = call.buffer
        /\ call'.lane_states = call.lane_states
        /\ call'.input_lane = lane /\ call'.active_lanes = out
    <3>1. call' = [call EXCEPT !.input_lane = lane, !.active_lanes = out]
      BY <2>1 DEF out
    <3>2. QED BY <1>1, <3>1 DEF CallType
  <2>5. TypeOK' BY <1>0, <2>3, <2>4 DEF IInv, TypeOK, StorageType
  <2>6. WithinStorage' BY <1>0, <2>2, <2>3 DEF IInv, WithinStorage
  <2>7. CallInv' BY <1>0, <1>1, <2>4 DEF IInv, CallInv, write_index
  <2>8. ViewInv'
    <3>1. \A g \in Handle, c \in Buffer : ~(g = h /\ c = b) => storage'[g][c] = storage[g][c]
      BY <2>3
    <3>2. QED BY <1>0, <1>1, <3>1, ViewUntouched
  <2>9. QED BY <2>5, <2>6, <2>7, <2>8 DEF IInv
<1>3. CASE call.lane_states[lane] # "active"
  <2>1. /\ storage' = storage
        /\ call' = [call EXCEPT !.input_lane = lane]
    BY <1>0, <1>3 DEF compact_lane
  <2> HIDE DEF lane
  <2>2. /\ call' \in CallType
        /\ call'.handle = call.handle /\ call'.buffer = call.buffer
        /\ call'.lane_states = call.lane_states
        /\ call'.input_lane = lane /\ call'.active_lanes = call.active_lanes
    BY <1>1, <2>1 DEF CallType
  <2>3. TypeOK' BY <1>0, <2>1, <2>2 DEF IInv, TypeOK
  <2>4. WithinStorage' /\ ViewInv'
    BY <1>0, <2>1 DEF IInv, WithinStorage, ViewInv
  <2>5. CallInv' BY <1>0, <1>1, <2>2 DEF IInv, CallInv, write_index, out
  <2>6. QED BY <2>3, <2>4, <2>5 DEF IInv
<1>4. QED BY <1>2, <1>3

LEMMA EndCompactionIInv ==
  ASSUME IInv, end_compaction
  PROVE  IInv'
<1> DEFINE h == call.handle
           b == call.buffer
           n == call.active_lanes
           cells == storage[h][b]
<1>0. /\ call # NoCall
      /\ active_size' = [active_size EXCEPT ![h][b] = n]
      /\ call' = NoCall
      /\ exists' = exists /\ read_index' = read_index
      /\ read_buffer_pending' = read_buffer_pending /\ view' = view /\ generation' = generation
  BY DEF end_compaction
<1>1. /\ h \in Handle /\ b \in Buffer /\ b # read_index[h]
      /\ cells \in Seq(Slot) /\ n \in Nat /\ n <= Len(cells)
  <2>1. /\ h \in Handle /\ b \in Buffer /\ b # read_index[h]
        /\ cells \in Seq(Slot)
        /\ call.active_lanes \in Nat /\ call.input_lane \in Nat
        /\ Len(call.lane_states) \in Nat /\ Len(cells) \in Nat
        /\ call.active_lanes <= call.input_lane
        /\ call.input_lane <= Len(call.lane_states)
        /\ Len(call.lane_states) <= Len(cells)
    BY <1>0, CompactionBounds
  <2>2. QED BY <2>1
<1>2. PICK p \in IF call.order = "deterministic_path_slot" THEN SortedBy(cells, n)
                                                          ELSE {Identity(n)} :
        storage' = [storage EXCEPT ![h][b] =
                      [i \in DOMAIN cells |-> IF i <= n THEN cells[p[i]] ELSE cells[i]]]
  BY DEF end_compaction
<1> DEFINE sorted == [i \in DOMAIN cells |-> IF i <= n THEN cells[p[i]] ELSE cells[i]]
<1>3. sorted \in Seq(Slot) /\ Len(sorted) = Len(cells)
  <2>1. p \in [1..n -> 1..n] BY <1>1, OrderIsFunction
  <2>2. QED BY <1>1, <2>1, ReorderedType
<1>4. storage' = [storage EXCEPT ![h][b] = sorted] BY <1>2
<1> HIDE DEF sorted, n, h, b
<1>5. /\ storage' \in StorageType
      /\ \A g \in Handle, c \in Buffer :
           storage'[g][c] = IF g = h /\ c = b THEN sorted ELSE storage[g][c]
  BY <1>1, <1>3, <1>4 DEF IInv, TypeOK, StorageType
<1>6. /\ active_size' \in [Handle -> [Buffer -> Nat]]
      /\ \A g \in Handle, c \in Buffer :
           active_size'[g][c] = IF g = h /\ c = b THEN n ELSE active_size[g][c]
  BY <1>0, <1>1 DEF IInv, TypeOK
<1>7. TypeOK' BY <1>0, <1>5, <1>6 DEF IInv, TypeOK, StorageType
<1>8. WithinStorage' BY <1>1, <1>3, <1>5, <1>6 DEF IInv, WithinStorage
<1>9. CallInv' BY <1>0 DEF CallInv
<1>10. ViewInv'
  <2> SUFFICES ASSUME view # NoView PROVE ViewInv'
    BY <1>0 DEF ViewInv
  <2>1. /\ view.handle \in Handle /\ view.buffer \in Buffer
        /\ view.buffer = read_index[view.handle]
    BY ViewBounds
  <2>2. /\ storage'[view.handle][view.buffer] = storage[view.handle][view.buffer]
        /\ active_size'[view.handle][view.buffer] = active_size[view.handle][view.buffer]
    BY <1>1, <1>5, <1>6, <2>1
  <2>3. QED BY <1>0, <2>2 DEF IInv, ViewInv
<1>11. QED BY <1>7, <1>8, <1>9, <1>10 DEF IInv

LEMMA PublishIInv ==
  ASSUME IInv, NEW h \in Handle, publish_write_buffer(h)
  PROVE  IInv'
<1>0. /\ call = NoCall /\ ~read_buffer_pending[h]
      /\ read_index' = [read_index EXCEPT ![h] = write_index(h)]
      /\ read_buffer_pending' = [read_buffer_pending EXCEPT ![h] = TRUE]
      /\ generation' = [generation EXCEPT ![h] = {Entries(h, write_index(h))}]
      /\ exists' = exists /\ storage' = storage /\ active_size' = active_size
      /\ call' = call /\ view' = view
  BY DEF publish_write_buffer, Publish, ProducerIdle
<1>1. write_index(h) \in Buffer /\ Entries(h, write_index(h)) \in Seq(Slot)
  BY WriteIndexIsOther, EntriesType DEF IInv
<1>2. TypeOK' BY <1>0, <1>1 DEF IInv, TypeOK
<1>3. WithinStorage' /\ CallInv' BY <1>0 DEF IInv, WithinStorage, CallInv
<1>4. ViewInv'
  <2> SUFFICES ASSUME view # NoView PROVE ViewInv'
    BY <1>0 DEF ViewInv
  <2>1. view.handle \in Handle /\ view.handle # h
    BY <1>0, ViewBounds DEF IInv, ViewInv
  <2>2. /\ read_index'[view.handle] = read_index[view.handle]
        /\ read_buffer_pending'[view.handle] = read_buffer_pending[view.handle]
    BY <1>0, <2>1 DEF IInv, TypeOK
  <2>3. QED BY <1>0, <2>2 DEF IInv, ViewInv
<1>5. QED BY <1>2, <1>3, <1>4 DEF IInv

LEMMA ReleaseIInv ==
  ASSUME IInv, NEW h \in Handle, release_read_buffer(h)
  PROVE  IInv'
<1> DEFINE r == read_index[h]
<1>0. /\ view # NoView => view.handle # h
      /\ active_size' = [active_size EXCEPT ![h][r] = 0]
      /\ read_buffer_pending' = [read_buffer_pending EXCEPT ![h] = FALSE]
      /\ generation' = [generation EXCEPT ![h] = {}]
      /\ exists' = exists /\ storage' = storage /\ read_index' = read_index
      /\ call' = call /\ view' = view
  BY DEF release_read_buffer, Release
<1>1. r \in Buffer BY DEF IInv, TypeOK
<1> HIDE DEF r
<1>2. /\ active_size' \in [Handle -> [Buffer -> Nat]]
      /\ \A g \in Handle, c \in Buffer :
           active_size'[g][c] = IF g = h /\ c = r THEN 0 ELSE active_size[g][c]
  BY <1>0, <1>1 DEF IInv, TypeOK
<1>3. TypeOK' BY <1>0, <1>2 DEF IInv, TypeOK
<1>4. WithinStorage'
  <2> SUFFICES ASSUME NEW g \in Handle, NEW c \in Buffer
               PROVE  active_size'[g][c] <= Len(storage[g][c])
    BY <1>0 DEF WithinStorage
  <2>1. storage[g][c] \in Seq(Slot) /\ active_size[g][c] <= Len(storage[g][c])
    BY DEF IInv, TypeOK, WithinStorage
  <2>2. Len(storage[g][c]) \in Nat BY <2>1, LenProperties
  <2>3. QED BY <1>2, <2>1, <2>2
<1>5. CallInv'
  <2> SUFFICES ASSUME call # NoCall PROVE CallInv'
    BY <1>0 DEF CallInv
  <2>1. /\ call.handle \in Handle /\ call.buffer \in Buffer
        /\ call.buffer # read_index[call.handle]
    BY CompactionBounds
  <2>2. active_size'[call.handle][call.buffer] = active_size[call.handle][call.buffer]
    BY <1>2, <2>1 DEF r
  <2>3. QED BY <1>0, <2>2 DEF IInv, CallInv, write_index
<1>6. ViewInv'
  <2> SUFFICES ASSUME view # NoView PROVE ViewInv'
    BY <1>0 DEF ViewInv
  <2>1. view.handle \in Handle /\ view.handle # h /\ view.buffer \in Buffer
    BY <1>0, ViewBounds
  <2>2. /\ active_size'[view.handle][view.buffer] = active_size[view.handle][view.buffer]
        /\ read_buffer_pending'[view.handle] = read_buffer_pending[view.handle]
    BY <1>0, <1>2, <2>1 DEF IInv, TypeOK
  <2>3. QED BY <1>0, <2>2 DEF IInv, ViewInv
<1>7. QED BY <1>3, <1>4, <1>5, <1>6 DEF IInv

LEMMA MoveIInv ==
  ASSUME IInv, NEW from \in Handle, NEW to \in Handle, move(from, to)
  PROVE  IInv'
<1>0. /\ from \in exists /\ to \notin exists /\ call = NoCall
      /\ view # NoView => view.handle # from
      /\ exists' = exists \cup {to}
      /\ storage' = [storage EXCEPT ![to] = storage[from], ![from] = EmptyStorage]
      /\ active_size' = [active_size EXCEPT ![to] = active_size[from], ![from] = NoEntries]
      /\ read_index' = [read_index EXCEPT ![to] = read_index[from], ![from] = 0]
      /\ read_buffer_pending' =
           [read_buffer_pending EXCEPT ![to] = read_buffer_pending[from], ![from] = FALSE]
      /\ generation' = [generation EXCEPT ![to] = generation[from], ![from] = {}]
      /\ call' = call /\ view' = view
  BY DEF move, Unobserved, ProducerIdle
<1>1. /\ EmptyStorage \in [Buffer -> Seq(Slot)] /\ \A c \in Buffer : Len(EmptyStorage[c]) = 0
      /\ NoEntries \in [Buffer -> Nat] /\ \A c \in Buffer : NoEntries[c] = 0
  BY EmptySeq DEF EmptyStorage, NoEntries
<1> HIDE DEF EmptyStorage, NoEntries
<1>2. /\ storage' \in [Handle -> [Buffer -> Seq(Slot)]]
      /\ active_size' \in [Handle -> [Buffer -> Nat]]
      /\ \A g \in Handle : storage'[g] = IF g = from THEN EmptyStorage
                                         ELSE IF g = to THEN storage[from] ELSE storage[g]
      /\ \A g \in Handle : active_size'[g] = IF g = from THEN NoEntries
                                             ELSE IF g = to THEN active_size[from] ELSE active_size[g]
  BY <1>0, <1>1 DEF IInv, TypeOK
<1>3. TypeOK' BY <1>0, <1>2 DEF IInv, TypeOK, Buffer
<1>4. WithinStorage'
  <2> SUFFICES ASSUME NEW g \in Handle, NEW c \in Buffer
               PROVE  active_size'[g][c] <= Len(storage'[g][c])
    BY DEF WithinStorage
  <2>1. /\ active_size[g][c] <= Len(storage[g][c])
        /\ active_size[from][c] <= Len(storage[from][c])
    BY DEF IInv, WithinStorage
  <2>2. CASE g = from
    BY <1>1, <1>2, <2>2
  <2>3. CASE g # from /\ g = to
    BY <1>2, <2>1, <2>3
  <2>4. CASE g # from /\ g # to
    BY <1>2, <2>1, <2>4
  <2>5. QED BY <2>2, <2>3, <2>4
<1>5. CallInv' BY <1>0 DEF CallInv
<1>6. ViewInv'
  <2> SUFFICES ASSUME view # NoView PROVE ViewInv'
    BY <1>0 DEF ViewInv
  <2>1. /\ view.handle \in Handle /\ view.handle # from /\ view.handle # to
        /\ view.handle \in exists'
    BY <1>0, ViewBounds DEF IInv, ViewInv
  <2>2. /\ storage'[view.handle] = storage[view.handle]
        /\ active_size'[view.handle] = active_size[view.handle]
        /\ read_index'[view.handle] = read_index[view.handle]
        /\ read_buffer_pending'[view.handle] = read_buffer_pending[view.handle]
    BY <1>0, <1>2, <2>1 DEF IInv, TypeOK
  <2>3. QED BY <1>0, <2>1, <2>2 DEF IInv, ViewInv
<1>7. QED BY <1>3, <1>4, <1>5, <1>6 DEF IInv

LEMMA DestroyIInv ==
  ASSUME IInv, NEW h \in Handle, destroy(h)
  PROVE  IInv'
<1>0. /\ call = NoCall
      /\ view # NoView => view.handle # h
      /\ exists' = exists \ {h}
      /\ storage' = [storage EXCEPT ![h] = EmptyStorage]
      /\ active_size' = [active_size EXCEPT ![h] = NoEntries]
      /\ read_index' = [read_index EXCEPT ![h] = 0]
      /\ read_buffer_pending' = [read_buffer_pending EXCEPT ![h] = FALSE]
      /\ generation' = [generation EXCEPT ![h] = {}]
      /\ call' = call /\ view' = view
  BY DEF destroy, Unobserved, ProducerIdle
<1>1. /\ EmptyStorage \in [Buffer -> Seq(Slot)] /\ \A c \in Buffer : Len(EmptyStorage[c]) = 0
      /\ NoEntries \in [Buffer -> Nat] /\ \A c \in Buffer : NoEntries[c] = 0
  BY EmptySeq DEF EmptyStorage, NoEntries
<1>2. /\ storage' \in [Handle -> [Buffer -> Seq(Slot)]]
      /\ active_size' \in [Handle -> [Buffer -> Nat]]
      /\ \A g \in Handle : storage'[g] = IF g = h THEN EmptyStorage ELSE storage[g]
      /\ \A g \in Handle : active_size'[g] = IF g = h THEN NoEntries ELSE active_size[g]
  BY <1>0, <1>1 DEF IInv, TypeOK
<1>3. TypeOK' BY <1>0, <1>2 DEF IInv, TypeOK, Buffer
<1>4. WithinStorage'
  <2> SUFFICES ASSUME NEW g \in Handle, NEW c \in Buffer
               PROVE  active_size'[g][c] <= Len(storage'[g][c])
    BY DEF WithinStorage
  <2>1. CASE g = h
    BY <1>1, <1>2, <2>1
  <2>2. CASE g # h
    BY <1>2, <2>2 DEF IInv, WithinStorage
  <2>3. QED BY <2>1, <2>2
<1>5. CallInv' BY <1>0 DEF CallInv
<1>6. ViewInv'
  <2> SUFFICES ASSUME view # NoView PROVE ViewInv'
    BY <1>0 DEF ViewInv
  <2>1. view.handle \in Handle /\ view.handle # h BY <1>0, ViewBounds
  <2>2. /\ storage'[view.handle] = storage[view.handle]
        /\ active_size'[view.handle] = active_size[view.handle]
        /\ read_index'[view.handle] = read_index[view.handle]
        /\ read_buffer_pending'[view.handle] = read_buffer_pending[view.handle]
    BY <1>0, <1>2, <2>1 DEF IInv, TypeOK
  <2>3. QED BY <1>0, <2>1, <2>2 DEF IInv, ViewInv
<1>7. QED BY <1>3, <1>4, <1>5, <1>6 DEF IInv

LEMMA PendingReadEntriesIInv ==
  ASSUME IInv, NEW h \in Handle, pending_read_entries(h)
  PROVE  IInv'
<1>0. /\ h \in exists /\ read_buffer_pending[h]
      /\ view' = [handle |-> h, buffer |-> read_index[h],
                  size |-> active_size[h][read_index[h]], seen |-> <<>>]
      /\ exists' = exists /\ storage' = storage /\ active_size' = active_size
      /\ read_index' = read_index /\ read_buffer_pending' = read_buffer_pending
      /\ call' = call /\ generation' = generation
  BY DEF pending_read_entries, buffers
<1>1. /\ read_index[h] \in Buffer /\ active_size[h][read_index[h]] \in Nat
  BY DEF IInv, TypeOK
<1>2. view' \in ViewType BY <1>0, <1>1 DEF ViewType
<1>3. TypeOK' BY <1>0, <1>2 DEF IInv, TypeOK
<1>4. WithinStorage' /\ CallInv'
  BY <1>0 DEF IInv, WithinStorage, CallInv, write_index
<1>5. ViewInv' BY <1>0, <1>1 DEF ViewInv
<1>6. QED BY <1>3, <1>4, <1>5 DEF IInv

LEMMA ReadEntryIInv ==
  ASSUME IInv, read_entry
  PROVE  IInv'
<1> DEFINE i == Len(view.seen) + 1
           cell == storage[view.handle][view.buffer][i]
<1>0. /\ view # NoView
      /\ Len(view.seen) < view.size
      /\ view' = [view EXCEPT !.seen = Append(view.seen, cell)]
      /\ exists' = exists /\ storage' = storage /\ active_size' = active_size
      /\ read_index' = read_index /\ read_buffer_pending' = read_buffer_pending
      /\ call' = call /\ generation' = generation
  BY DEF read_entry, buffers
<1>1. /\ view \in ViewType
      /\ view.seen \in Seq(Slot) /\ Len(view.seen) \in Nat /\ view.size \in Nat
      /\ storage[view.handle][view.buffer] \in Seq(Slot)
      /\ Len(storage[view.handle][view.buffer]) \in Nat
      /\ view.size <= Len(storage[view.handle][view.buffer])
  BY <1>0, ViewBounds
<1>2. cell \in Slot
  <2>1. i \in 1..Len(storage[view.handle][view.buffer]) BY <1>0, <1>1
  <2>2. QED BY <1>1, <2>1, ElementOfSeq
<1> HIDE DEF cell
<1>3. /\ Append(view.seen, cell) \in Seq(Slot)
      /\ Len(Append(view.seen, cell)) = i
      /\ \A j \in 1..i : Append(view.seen, cell)[j] = IF j = i THEN cell ELSE view.seen[j]
  BY <1>1, <1>2
<1>4. /\ view' \in ViewType
      /\ view'.handle = view.handle /\ view'.buffer = view.buffer /\ view'.size = view.size
      /\ view'.seen = Append(view.seen, cell)
  BY <1>0, <1>1, <1>3 DEF ViewType
<1>5. TypeOK' BY <1>0, <1>4 DEF IInv, TypeOK
<1>6. WithinStorage' /\ CallInv'
  BY <1>0 DEF IInv, WithinStorage, CallInv, write_index
<1>7. ViewInv'
  <2>1. \A j \in 1..Len(view.seen) : view.seen[j] = storage[view.handle][view.buffer][j]
    BY <1>0 DEF IInv, ViewInv
  <2>2. \A j \in 1..i : j = i \/ j \in 1..Len(view.seen) BY <1>1 DEF i
  <2>3. \A j \in 1..i : view'.seen[j] = storage[view.handle][view.buffer][j]
    BY <1>3, <1>4, <2>1, <2>2 DEF cell
  <2>4. Len(view'.seen) = i /\ i <= view.size BY <1>0, <1>1, <1>3, <1>4
  <2>5. QED BY <1>0, <1>4, <2>3, <2>4 DEF IInv, ViewInv
<1>8. QED BY <1>5, <1>6, <1>7 DEF IInv

LEMMA DropViewIInv ==
  ASSUME IInv, drop_view
  PROVE  IInv'
BY DEF drop_view, buffers, IInv, TypeOK, WithinStorage, CallInv, ViewInv, write_index

LEMMA StutterIInv ==
  ASSUME IInv, UNCHANGED vars
  PROVE  IInv'
BY DEF vars, IInv, TypeOK, WithinStorage, CallInv, ViewInv, write_index

\* Every reachable state is typed, stays inside its storage, and keeps its
\* loop and span bounds: the invariant the other theorems stand on.
THEOREM SpecIInv == Spec => []IInv
<1>1. Init => IInv BY InitIInv
<1>2. IInv /\ [Next]_vars => IInv'
  <2> SUFFICES ASSUME IInv, [Next]_vars PROVE IInv'
    OBVIOUS
  <2>1. ASSUME NEW h \in Handle, create(h) PROVE IInv'
    BY <2>1, CreateIInv
  <2>2. ASSUME NEW h \in Handle, NEW slot \in Slot, push_write(h, slot) PROVE IInv'
    BY <2>2, PushIInv
  <2>3. ASSUME NEW h \in Handle, NEW slots \in Batch, push_write_batch(h, slots) PROVE IInv'
    BY <2>3, PushBatchIInv
  <2>4. ASSUME NEW h \in Handle,
               NEW lane_states \in UNION {[1..n -> LaneState] : n \in 0..Capacity},
               NEW order \in CompactionOrder, begin_compaction(h, lane_states, order)
        PROVE  IInv'
    BY <2>4, BeginCompactionIInv
  <2>5. CASE compact_lane
    BY <2>5, CompactLaneIInv
  <2>6. CASE end_compaction
    BY <2>6, EndCompactionIInv
  <2>7. ASSUME NEW h \in Handle, publish_write_buffer(h) PROVE IInv'
    BY <2>7, PublishIInv
  <2>8. ASSUME NEW h \in Handle, release_read_buffer(h) PROVE IInv'
    BY <2>8, ReleaseIInv
  <2>9. ASSUME NEW h \in Handle, NEW to \in Handle, move(h, to) PROVE IInv'
    BY <2>9, MoveIInv
  <2>10. ASSUME NEW h \in Handle, destroy(h) PROVE IInv'
    BY <2>10, DestroyIInv
  <2>11. ASSUME NEW h \in Handle, pending_read_entries(h) PROVE IInv'
    BY <2>11, PendingReadEntriesIInv
  <2>12. CASE read_entry
    BY <2>12, ReadEntryIInv
  <2>13. CASE drop_view
    BY <2>13, DropViewIInv
  <2>14. CASE UNCHANGED vars
    BY <2>14, StutterIInv
  <2>15. QED
    BY <2>1, <2>2, <2>3, <2>4, <2>5, <2>6, <2>7, <2>8, <2>9, <2>10, <2>11, <2>12, <2>13, <2>14
      DEF Next
<1>3. QED BY <1>1, <1>2, PTL DEF Spec

\* Type correctness of the queues.
THEOREM SpecTypeOK == Spec => []TypeOK
<1>1. IInv => TypeOK BY DEF IInv
<1>2. QED BY <1>1, SpecIInv, PTL

\* No legal sequence of calls makes a buffer claim more entries than cells.
THEOREM SpecWithinStorage == Spec => []WithinStorage
<1>1. IInv => WithinStorage BY DEF IInv
<1>2. QED BY <1>1, SpecIInv, PTL

------------------------------------------------------
\* A step that leaves the fields of one object alone leaves its generation
\* intact.
LEMMA GenerationFrame ==
  ASSUME IInv, GenerationIntact, NEW g \in Handle,
         storage'[g][read_index[g]] = storage[g][read_index[g]],
         active_size'[g][read_index[g]] = active_size[g][read_index[g]],
         read_index'[g] = read_index[g],
         read_buffer_pending'[g] = read_buffer_pending[g],
         generation'[g] = generation[g]
  PROVE  generation'[g] = IF read_buffer_pending'[g] THEN {Entries(g, read_index[g])'} ELSE {}
<1>1. Entries(g, read_index[g])' = Entries(g, read_index[g]) BY DEF Entries
<1>2. QED BY <1>1 DEF GenerationIntact

\* Steps that write only the buffer that is not being read.
LEMMA WriteSideKeepsGeneration ==
  ASSUME IInv, GenerationIntact, NEW h \in Handle, NEW b \in Buffer, b # read_index[h],
         \A g \in Handle, c \in Buffer : ~(g = h /\ c = b) =>
           storage'[g][c] = storage[g][c] /\ active_size'[g][c] = active_size[g][c],
         read_index' = read_index, read_buffer_pending' = read_buffer_pending,
         generation' = generation
  PROVE  GenerationIntact'
<1> SUFFICES ASSUME NEW g \in Handle
             PROVE  generation'[g] =
                      IF read_buffer_pending'[g] THEN {Entries(g, read_index[g])'} ELSE {}
  BY DEF GenerationIntact
<1>1. read_index[g] \in Buffer BY DEF IInv, TypeOK
<1>2. /\ storage'[g][read_index[g]] = storage[g][read_index[g]]
      /\ active_size'[g][read_index[g]] = active_size[g][read_index[g]]
  BY <1>1
<1>3. QED BY <1>2, GenerationFrame

\* Every step keeps every published generation, or releases it, or publishes
\* one where none was pending.
LEMMA GenerationIntactStep ==
  ASSUME IInv, GenerationIntact, [Next]_vars
  PROVE  GenerationIntact'
<1>0. /\ storage \in [Handle -> [Buffer -> Seq(Slot)]]
      /\ active_size \in [Handle -> [Buffer -> Nat]]
      /\ read_index \in [Handle -> Buffer]
      /\ read_buffer_pending \in [Handle -> BOOLEAN]
      /\ generation \in [Handle -> SUBSET Seq(Slot)]
  BY DEF IInv, TypeOK
<1>1. ASSUME NEW h \in Handle, create(h) \/ destroy(h) PROVE GenerationIntact'
  <2>1. /\ storage'= [storage EXCEPT ![h] = storage'[h]]
        /\ active_size' = [active_size EXCEPT ![h] = NoEntries]
        /\ read_index' = [read_index EXCEPT ![h] = 0]
        /\ read_buffer_pending' = [read_buffer_pending EXCEPT ![h] = FALSE]
        /\ generation' = [generation EXCEPT ![h] = {}]
    BY <1>0, <1>1 DEF create, destroy
  <2> SUFFICES ASSUME NEW g \in Handle
               PROVE  generation'[g] =
                        IF read_buffer_pending'[g] THEN {Entries(g, read_index[g])'} ELSE {}
    BY DEF GenerationIntact
  <2>2. CASE g = h
    BY <1>0, <2>1, <2>2
  <2>3. CASE g # h
    <3>1. /\ storage'[g] = storage[g] /\ active_size'[g] = active_size[g]
          /\ read_index'[g] = read_index[g]
          /\ read_buffer_pending'[g] = read_buffer_pending[g] /\ generation'[g] = generation[g]
      BY <1>0, <2>1, <2>3
    <3>2. QED BY <3>1, GenerationFrame
  <2>4. QED BY <2>2, <2>3
<1>2. ASSUME NEW h \in Handle, NEW slot \in Slot, push_write(h, slot) PROVE GenerationIntact'
  <2> DEFINE b == write_index(h)
             n == active_size[h][b]
  <2>1. /\ storage' = [storage EXCEPT ![h][b][n + 1] = slot]
        /\ active_size' = [active_size EXCEPT ![h][b] = n + 1]
        /\ read_index' = read_index /\ read_buffer_pending' = read_buffer_pending
        /\ generation' = generation
    BY <1>2 DEF push_write
  <2>2. b \in Buffer /\ b # read_index[h] BY WriteIndexIsOther DEF IInv
  <2> HIDE DEF b, n
  <2>3. \A g \in Handle, c \in Buffer : ~(g = h /\ c = b) =>
          storage'[g][c] = storage[g][c] /\ active_size'[g][c] = active_size[g][c]
    BY <1>0, <2>1, <2>2
  <2>4. QED BY <2>1, <2>2, <2>3, WriteSideKeepsGeneration
<1>3. ASSUME NEW h \in Handle, NEW slots \in Batch, push_write_batch(h, slots)
      PROVE  GenerationIntact'
  <2> DEFINE b == write_index(h)
             n == active_size[h][b]
             cells == Appended(storage[h][b], n, slots)
  <2>1. /\ storage' = [storage EXCEPT ![h][b] = cells]
        /\ active_size' = [active_size EXCEPT ![h][b] = n + Len(slots)]
        /\ read_index' = read_index /\ read_buffer_pending' = read_buffer_pending
        /\ generation' = generation
    BY <1>3 DEF push_write_batch
  <2>2. b \in Buffer /\ b # read_index[h] BY WriteIndexIsOther DEF IInv
  <2> HIDE DEF b, n, cells
  <2>3. \A g \in Handle, c \in Buffer : ~(g = h /\ c = b) =>
          storage'[g][c] = storage[g][c] /\ active_size'[g][c] = active_size[g][c]
    BY <1>0, <2>1, <2>2
  <2>4. QED BY <2>1, <2>2, <2>3, WriteSideKeepsGeneration
<1>4. CASE UNCHANGED <<storage, active_size, read_index, read_buffer_pending, generation>>
  BY <1>4 DEF GenerationIntact, Entries
<1>5. ASSUME compact_lane \/ end_compaction PROVE GenerationIntact'
  <2> DEFINE h == call.handle
             b == call.buffer
  <2>1. call # NoCall BY <1>5 DEF compact_lane, end_compaction
  <2>2. h \in Handle /\ b \in Buffer /\ b # read_index[h]
    BY <2>1, CompactionBounds
  <2>3. /\ read_index' = read_index /\ read_buffer_pending' = read_buffer_pending
        /\ generation' = generation
    BY <1>5 DEF compact_lane, end_compaction
  <2>4. \A g \in Handle, c \in Buffer : ~(g = h /\ c = b) =>
          storage'[g][c] = storage[g][c] /\ active_size'[g][c] = active_size[g][c]
    <3>1. CASE compact_lane
      <4>1. active_size' = active_size BY <3>1 DEF compact_lane
      <4>2. \/ storage' = storage
            \/ \E i, v : storage' = [storage EXCEPT ![h][b][i] = v]
        BY <3>1 DEF compact_lane
      <4> HIDE DEF h, b
      <4>3. ASSUME NEW i, NEW v, storage' = [storage EXCEPT ![h][b][i] = v]
            PROVE  \A g \in Handle, c \in Buffer :
                     ~(g = h /\ c = b) => storage'[g][c] = storage[g][c]
        BY <1>0, <2>2, <4>3
      <4>4. QED BY <4>1, <4>2, <4>3
    <3>2. CASE end_compaction
      <4>1. PICK cells : storage' = [storage EXCEPT ![h][b] = cells]
        BY <3>2 DEF end_compaction
      <4>2. active_size' = [active_size EXCEPT ![h][b] = call.active_lanes]
        BY <3>2 DEF end_compaction
      <4> HIDE DEF h, b
      <4>3. QED BY <1>0, <2>2, <4>1, <4>2
    <3>3. QED BY <1>5, <3>1, <3>2
  <2> HIDE DEF h, b
  <2>5. QED BY <2>2, <2>3, <2>4, WriteSideKeepsGeneration
<1>6. ASSUME NEW h \in Handle, publish_write_buffer(h) PROVE GenerationIntact'
  <2>1. /\ read_index' = [read_index EXCEPT ![h] = write_index(h)]
        /\ read_buffer_pending' = [read_buffer_pending EXCEPT ![h] = TRUE]
        /\ generation' = [generation EXCEPT ![h] = {Entries(h, write_index(h))}]
        /\ storage' = storage /\ active_size' = active_size
    BY <1>6 DEF publish_write_buffer, Publish
  <2> SUFFICES ASSUME NEW g \in Handle
               PROVE  generation'[g] =
                        IF read_buffer_pending'[g] THEN {Entries(g, read_index[g])'} ELSE {}
    BY DEF GenerationIntact
  <2>2. CASE g = h
    <3>1. Entries(g, read_index[g])' = Entries(h, write_index(h))
      BY <1>0, <2>1, <2>2 DEF Entries
    <3>2. QED BY <1>0, <2>1, <2>2, <3>1
  <2>3. CASE g # h
    BY <1>0, <2>1, <2>3, GenerationFrame
  <2>4. QED BY <2>2, <2>3
<1>7. ASSUME NEW h \in Handle, release_read_buffer(h) PROVE GenerationIntact'
  <2>1. /\ active_size' = [active_size EXCEPT ![h][read_index[h]] = 0]
        /\ read_buffer_pending' = [read_buffer_pending EXCEPT ![h] = FALSE]
        /\ generation' = [generation EXCEPT ![h] = {}]
        /\ storage' = storage /\ read_index' = read_index
    BY <1>7 DEF release_read_buffer, Release
  <2> SUFFICES ASSUME NEW g \in Handle
               PROVE  generation'[g] =
                        IF read_buffer_pending'[g] THEN {Entries(g, read_index[g])'} ELSE {}
    BY DEF GenerationIntact
  <2>2. CASE g = h
    BY <1>0, <2>1, <2>2
  <2>3. CASE g # h
    BY <1>0, <2>1, <2>3, GenerationFrame
  <2>4. QED BY <2>2, <2>3
<1>8. ASSUME NEW from \in Handle, NEW to \in Handle, move(from, to) PROVE GenerationIntact'
  <2>1. /\ from # to
        /\ storage' = [storage EXCEPT ![to] = storage[from], ![from] = EmptyStorage]
        /\ active_size' = [active_size EXCEPT ![to] = active_size[from], ![from] = NoEntries]
        /\ read_index' = [read_index EXCEPT ![to] = read_index[from], ![from] = 0]
        /\ read_buffer_pending' =
             [read_buffer_pending EXCEPT ![to] = read_buffer_pending[from], ![from] = FALSE]
        /\ generation' = [generation EXCEPT ![to] = generation[from], ![from] = {}]
    BY <1>8 DEF move
  <2> SUFFICES ASSUME NEW g \in Handle
               PROVE  generation'[g] =
                        IF read_buffer_pending'[g] THEN {Entries(g, read_index[g])'} ELSE {}
    BY DEF GenerationIntact
  <2>2. CASE g = from
    BY <1>0, <2>1, <2>2
  <2>3. CASE g = to
    <3>1. /\ storage'[g] = storage[from] /\ active_size'[g] = active_size[from]
          /\ read_index'[g] = read_index[from]
          /\ read_buffer_pending'[g] = read_buffer_pending[from]
          /\ generation'[g] = generation[from]
      BY <1>0, <2>1, <2>3
    <3>2. Entries(g, read_index[g])' = Entries(from, read_index[from])
      BY <3>1 DEF Entries
    <3>3. QED BY <3>1, <3>2 DEF GenerationIntact
  <2>4. CASE g # from /\ g # to
    <3>1. /\ storage'[g] = storage[g] /\ active_size'[g] = active_size[g]
          /\ read_index'[g] = read_index[g]
          /\ read_buffer_pending'[g] = read_buffer_pending[g] /\ generation'[g] = generation[g]
      BY <1>0, <2>1, <2>4
    <3>2. QED BY <3>1, GenerationFrame
  <2>5. QED BY <2>2, <2>3, <2>4
<1>9. ASSUME NEW h \in Handle,
             NEW lane_states \in UNION {[1..n -> LaneState] : n \in 0..Capacity},
             NEW order \in CompactionOrder,
             begin_compaction(h, lane_states, order)
      PROVE  GenerationIntact'
  BY <1>4, <1>9 DEF begin_compaction, Compact, buffers
<1>10. ASSUME NEW h \in Handle, pending_read_entries(h) PROVE GenerationIntact'
  BY <1>4, <1>10 DEF pending_read_entries, buffers
<1>11. CASE read_entry \/ drop_view \/ UNCHANGED vars
  BY <1>4, <1>11 DEF read_entry, drop_view, buffers, vars
<1>12. QED BY <1>1, <1>2, <1>3, <1>5, <1>6, <1>7, <1>8, <1>9, <1>10, <1>11 DEF Next

\* A published generation stays exactly what was published until it is
\* released, whatever is pushed, compacted or moved meanwhile.
THEOREM SpecGenerationIntact == Spec => []GenerationIntact
<1>1. Init => GenerationIntact BY DEF Init, GenerationIntact
<1>2. IInv /\ GenerationIntact /\ [Next]_vars => GenerationIntact'
  BY GenerationIntactStep
<1>3. QED BY <1>1, <1>2, SpecIInv, PTL DEF Spec

\* What a consumer has read through its span is a prefix of the published
\* generation, however its reads fall between the producer's steps.
THEOREM SpecViewFaithful == Spec => []ViewFaithful
<1>1. IInv /\ GenerationIntact => ViewFaithful
  <2> SUFFICES ASSUME IInv, GenerationIntact, view # NoView
               PROVE  \E g \in generation[view.handle] :
                        /\ view.size = Len(g)
                        /\ Len(view.seen) <= Len(g)
                        /\ \A i \in 1..Len(view.seen) : view.seen[i] = g[i]
    BY DEF ViewFaithful
  <2> DEFINE g == Entries(view.handle, view.buffer)
  <2>1. /\ view.handle \in Handle /\ view.buffer \in Buffer
        /\ view.size \in Nat /\ Len(view.seen) \in Nat
    BY ViewBounds
  <2>2. /\ Len(g) = view.size
        /\ \A i \in 1..view.size : g[i] = storage[view.handle][view.buffer][i]
    BY <2>1, EntriesType DEF IInv, ViewInv
  <2>3. generation[view.handle] = {g}
    BY <2>1 DEF IInv, ViewInv, GenerationIntact
  <2> HIDE DEF g
  <2>4. Len(view.seen) <= Len(g) /\ \A i \in 1..Len(view.seen) : view.seen[i] = g[i]
    BY <2>1, <2>2 DEF IInv, ViewInv
  <2>5. QED BY <2>2, <2>3, <2>4
<1>2. QED BY <1>1, SpecIInv, SpecGenerationIntact, PTL

------------------------------------------------------
\* The refinement of the generation channel rests on three more facts.
\* Both buffers of an object have the same storage.
SameCapacity == \A h \in Handle : Len(storage[h][0]) = Len(storage[h][1])

\* A read buffer that nothing was published into is empty, so that publishing
\* leaves an empty write buffer.
ReadIdle ==
  \A h \in Handle : ~read_buffer_pending[h] => active_size[h][read_index[h]] = 0

\* The lanes a running compaction has kept of the first m.
KeptOf(states, m) == {i \in 1..m : states[i] = "active"}
Kept == KeptOf(call.lane_states, call.input_lane)

\* i is the k-th of the lanes kept.
IsKth(kept, i, k) == i \in kept /\ Cardinality({j \in kept : j < i}) = k - 1

\* A running compaction has moved the k-th lane it kept to cell k, and has not
\* touched the cells it has yet to read.
CompactionInv ==
  call # NoCall =>
    /\ Len(call.input) = Len(call.lane_states)
    /\ call.active_lanes = Cardinality(Kept)
    /\ \A i \in 1..Len(call.lane_states) : call.input_lane < i =>
         storage[call.handle][call.buffer][i] = call.input[i]
    /\ \A k \in 1..call.active_lanes : \E i \in Nat :
         /\ IsKth(Kept, i, k)
         /\ storage[call.handle][call.buffer][k] = call.input[i]

RefInv == SameCapacity /\ ReadIdle /\ CompactionInv

------------------------------------------------------
\* The kept lanes are finitely many, and the loop adds one to them or none.
LEMMA KeptFinite ==
  ASSUME NEW states, NEW m \in Nat
  PROVE  /\ KeptOf(states, m) \subseteq 1..m
         /\ IsFiniteSet(KeptOf(states, m))
         /\ Cardinality(KeptOf(states, m)) \in Nat
         /\ KeptOf(states, m + 1) =
              IF states[m + 1] = "active" THEN KeptOf(states, m) \cup {m + 1}
                                          ELSE KeptOf(states, m)
<1>1. KeptOf(states, m) \subseteq 1..m BY DEF KeptOf
<1>2. IsFiniteSet(1..m) BY FS_Interval
<1>3. IsFiniteSet(KeptOf(states, m)) BY <1>1, <1>2, FS_Subset
<1>4. Cardinality(KeptOf(states, m)) \in Nat BY <1>3, FS_CardinalityType
<1>5. 1..(m + 1) = (1..m) \cup {m + 1} OBVIOUS
<1>6. QED BY <1>1, <1>3, <1>4, <1>5 DEF KeptOf

\* A later lane does not change which one is the k-th, and is the last itself.
LEMMA KthAfterAdding ==
  ASSUME NEW m \in Nat, NEW kept \in SUBSET (1..m), IsFiniteSet(kept)
  PROVE  /\ \A i, k : IsKth(kept, i, k) => IsKth(kept \cup {m + 1}, i, k)
         /\ IsKth(kept \cup {m + 1}, m + 1, Cardinality(kept) + 1)
<1>1. ASSUME NEW i, NEW k, IsKth(kept, i, k) PROVE IsKth(kept \cup {m + 1}, i, k)
  <2>1. i \in kept /\ i \in 1..m BY <1>1 DEF IsKth
  <2>2. {j \in kept \cup {m + 1} : j < i} = {j \in kept : j < i} BY <2>1
  <2>3. QED BY <1>1, <2>2 DEF IsKth
<1>2. {j \in kept \cup {m + 1} : j < m + 1} = kept
  <2>1. \A j \in kept : j \in Nat /\ j <= m OBVIOUS
  <2>2. ~(m + 1 < m + 1) /\ \A j \in kept : j < m + 1 BY <2>1
  <2>3. QED BY <2>2
<1>3. Cardinality(kept) \in Nat BY FS_CardinalityType
<1>4. QED BY <1>1, <1>2, <1>3 DEF IsKth

\* There is one k-th lane.
LEMMA KthUnique ==
  ASSUME NEW kept \in SUBSET Nat, IsFiniteSet(kept), NEW k, NEW i, NEW j,
         IsKth(kept, i, k), IsKth(kept, j, k)
  PROVE  i = j
<1> DEFINE below(n) == {l \in kept : l < n}
<1>1. i \in kept /\ j \in kept /\ i \in Nat /\ j \in Nat BY DEF IsKth
<1>2. ASSUME NEW u \in kept, NEW v \in kept, u < v, IsKth(kept, u, k), IsKth(kept, v, k)
      PROVE  FALSE
  <2>1. below(u) \in SUBSET below(v) /\ u \in below(v) /\ u \notin below(u)
    <3>1. u \in Nat /\ v \in Nat /\ \A l \in kept : l \in Nat OBVIOUS
    <3>2. ~(u < u) /\ \A l \in kept : l < u => l < v BY <1>2, <3>1
    <3>3. QED BY <1>2, <3>2
  <2>2. IsFiniteSet(below(v)) BY FS_Subset
  <2>3. Cardinality(below(u)) = Cardinality(below(v)) BY <1>2 DEF IsKth
  <2> HIDE DEF below
  <2>4. QED BY <2>1, <2>2, <2>3, FS_Subset
<1>3. i < j \/ j < i \/ i = j BY <1>1
<1>4. QED BY <1>1, <1>2, <1>3

------------------------------------------------------
\* Writing one buffer, or one size, leaves the others as they were.
LEMMA BufferWritten ==
  ASSUME TypeOK, NEW h \in Handle, NEW b \in Buffer, NEW cells,
         storage' = [storage EXCEPT ![h][b] = cells]
  PROVE  \A g \in Handle, c \in Buffer :
           storage'[g][c] = IF g = h /\ c = b THEN cells ELSE storage[g][c]
BY DEF TypeOK

LEMMA SizeWritten ==
  ASSUME TypeOK, NEW h \in Handle, NEW b \in Buffer, NEW n,
         active_size' = [active_size EXCEPT ![h][b] = n]
  PROVE  \A g \in Handle, c \in Buffer :
           active_size'[g][c] = IF g = h /\ c = b THEN n ELSE active_size[g][c]
BY DEF TypeOK

\* Either push writes the entries behind those of the write buffer.
Pushed(h, slots) ==
  LET b == write_index(h)
      n == active_size[h][b]
  IN  /\ h \in exists /\ call = NoCall
      /\ n + Len(slots) <= Len(storage[h][b])
      /\ \E cells \in Seq(Slot) :
           /\ Len(cells) = Len(storage[h][b])
           /\ \A i \in 1..n : cells[i] = storage[h][b][i]
           /\ \A i \in 1..Len(slots) : cells[n + i] = slots[i]
           /\ storage' = [storage EXCEPT ![h][b] = cells]
      /\ active_size' = [active_size EXCEPT ![h][b] = n + Len(slots)]
      /\ UNCHANGED <<exists, read_index, read_buffer_pending, call, view, generation>>

LEMMA PushPushes ==
  ASSUME IInv, NEW h \in Handle, NEW slot \in Slot, push_write(h, slot)
  PROVE  <<slot>> \in Seq(Slot) /\ Pushed(h, <<slot>>)
<1> DEFINE b == write_index(h)
           n == active_size[h][b]
           cells == [storage[h][b] EXCEPT ![n + 1] = slot]
<1>1. /\ h \in exists /\ call = NoCall
      /\ n # Len(storage[h][b])
      /\ storage' = [storage EXCEPT ![h][b][n + 1] = slot]
      /\ active_size' = [active_size EXCEPT ![h][b] = n + 1]
      /\ UNCHANGED <<exists, read_index, read_buffer_pending, call, view, generation>>
  BY DEF push_write, ProducerIdle
<1>2. b \in Buffer /\ storage[h][b] \in Seq(Slot) /\ n \in Nat
  BY WriteIndexIsOther DEF IInv, TypeOK
<1>3. Len(storage[h][b]) \in Nat BY <1>2, LenProperties
<1>4. n <= Len(storage[h][b]) BY <1>2 DEF IInv, WithinStorage
<1>5. n + 1 \in 1..Len(storage[h][b]) /\ n + 1 <= Len(storage[h][b])
  BY <1>1, <1>2, <1>3, <1>4
<1>6. storage' = [storage EXCEPT ![h][b] = cells] BY <1>1
<1> HIDE DEF b, n
<1>7. /\ cells \in Seq(Slot)
      /\ Len(cells) = Len(storage[h][b])
      /\ \A i \in 1..Len(storage[h][b]) : cells[i] = IF i = n + 1 THEN slot ELSE storage[h][b][i]
  BY <1>2, <1>5, ExceptSeq
<1> HIDE DEF cells
<1>8. /\ \A i \in 1..n : cells[i] = storage[h][b][i]
      /\ cells[n + 1] = slot
  BY <1>2, <1>3, <1>5, <1>7
<1>9. /\ <<slot>> \in Seq(Slot) /\ Len(<<slot>>) = 1
      /\ \A i \in 1..Len(<<slot>>) : cells[n + i] = <<slot>>[i]
  BY <1>8
<1>10. QED BY <1>1, <1>5, <1>6, <1>7, <1>8, <1>9 DEF Pushed, b, n

LEMMA PushBatchPushes ==
  ASSUME IInv, NEW h \in Handle, NEW slots \in Batch, push_write_batch(h, slots)
  PROVE  slots \in Seq(Slot) /\ Pushed(h, slots)
<1> DEFINE b == write_index(h)
           n == active_size[h][b]
           cells == Appended(storage[h][b], n, slots)
<1>1. /\ h \in exists /\ call = NoCall
      /\ Len(slots) <= Len(storage[h][b]) - n
      /\ storage' = [storage EXCEPT ![h][b] = cells]
      /\ active_size' = [active_size EXCEPT ![h][b] = n + Len(slots)]
      /\ UNCHANGED <<exists, read_index, read_buffer_pending, call, view, generation>>
  BY DEF push_write_batch, ProducerIdle, remaining_capacity
<1>2. /\ b \in Buffer /\ storage[h][b] \in Seq(Slot) /\ n \in Nat
      /\ slots \in Seq(Slot)
  BY WriteIndexIsOther, BatchIsSeq DEF IInv, TypeOK
<1>3. /\ Len(storage[h][b]) \in Nat /\ Len(slots) \in Nat
      /\ DOMAIN storage[h][b] = 1..Len(storage[h][b])
  BY <1>2, LenProperties
<1>4. n + Len(slots) <= Len(storage[h][b]) BY <1>1, <1>2, <1>3
<1> HIDE DEF b, n
<1>5. /\ cells \in Seq(Slot)
      /\ Len(cells) = Len(storage[h][b])
      /\ \A i \in 1..n : cells[i] = storage[h][b][i]
  BY <1>2, <1>4, AppendedType
<1>6. \A i \in 1..Len(slots) : cells[n + i] = slots[i]
  <2> TAKE i \in 1..Len(slots)
  <2>1. n + i \in 1..Len(storage[h][b]) /\ n < n + i /\ n + i <= n + Len(slots)
          /\ (n + i) - n = i
    BY <1>2, <1>3, <1>4
  <2>2. QED BY <1>3, <2>1 DEF Appended
<1> HIDE DEF cells
<1>7. QED BY <1>1, <1>2, <1>4, <1>5, <1>6 DEF Pushed, b, n

------------------------------------------------------
\* The two buffers of an object always have the same number of cells.
LEMMA CapacityKept ==
  ASSUME TypeOK, SameCapacity, NEW h \in Handle, NEW b \in Buffer, NEW cells,
         Len(cells) = Len(storage[h][b]), storage' = [storage EXCEPT ![h][b] = cells]
  PROVE  SameCapacity'
<1>1. \A g \in Handle, c \in Buffer : Len(storage'[g][c]) = Len(storage[g][c])
  BY BufferWritten
<1>2. 0 \in Buffer /\ 1 \in Buffer BY DEF Buffer
<1>3. QED BY <1>1, <1>2 DEF SameCapacity

LEMMA CapacityStep ==
  ASSUME IInv, SameCapacity, [Next]_vars
  PROVE  SameCapacity'
<1>0. TypeOK BY DEF IInv
<1>1. ASSUME NEW h \in Handle, create(h) PROVE SameCapacity'
  <2>1. storage' = [storage EXCEPT ![h] = FreshStorage] BY <1>1 DEF create
  <2>2. Len(FreshStorage[0]) = Len(FreshStorage[1]) BY DEF FreshStorage, Buffer
  <2> HIDE DEF FreshStorage
  <2>3. QED BY <1>0, <2>1, <2>2 DEF SameCapacity, TypeOK
<1>2. ASSUME NEW h \in Handle, NEW slots, Pushed(h, slots) PROVE SameCapacity'
  <2>1. write_index(h) \in Buffer BY <1>0, WriteIndexIsOther
  <2>2. PICK cells \in Seq(Slot) :
          /\ Len(cells) = Len(storage[h][write_index(h)])
          /\ storage' = [storage EXCEPT ![h][write_index(h)] = cells]
    BY <1>2 DEF Pushed
  <2>3. QED BY <1>0, <2>1, <2>2, CapacityKept
<1>3. CASE compact_lane
  <2> DEFINE h == call.handle
             b == call.buffer
             lane == call.input_lane + 1
             out == call.active_lanes + 1
             cells == [storage[h][b] EXCEPT ![out] = storage[h][b][lane]]
  <2>1. call # NoCall /\ call.input_lane < Len(call.lane_states)
    BY <1>3 DEF compact_lane
  <2>2. /\ h \in Handle /\ b \in Buffer /\ storage[h][b] \in Seq(Slot)
        /\ lane \in 1..Len(storage[h][b]) /\ out \in 1..Len(storage[h][b])
    <3>1. /\ h \in Handle /\ b \in Buffer
          /\ call.active_lanes \in Nat /\ call.input_lane \in Nat
          /\ Len(call.lane_states) \in Nat
          /\ storage[h][b] \in Seq(Slot)
          /\ Len(storage[h][b]) \in Nat
          /\ call.active_lanes <= call.input_lane
          /\ Len(call.lane_states) <= Len(storage[h][b])
      BY <2>1, CompactionBounds
    <3> HIDE DEF h, b
    <3>2. /\ lane \in Nat /\ 1 <= lane /\ lane <= Len(storage[h][b])
          /\ out \in Nat /\ 1 <= out /\ out <= Len(storage[h][b])
      BY <2>1, <3>1
    <3>3. QED BY <3>1, <3>2
  <2>3. storage' = storage \/ storage' = [storage EXCEPT ![h][b] = cells]
    BY <1>3 DEF compact_lane, output_lane
  <2>4. Len(cells) = Len(storage[h][b]) BY <2>2, ElementOfSeq, ExceptSeq
  <2> HIDE DEF cells, h, b
  <2>5. CASE storage' = storage
    BY <2>5 DEF SameCapacity
  <2>6. CASE storage' = [storage EXCEPT ![h][b] = cells]
    BY <1>0, <2>2, <2>4, <2>6, CapacityKept
  <2>7. QED BY <2>3, <2>5, <2>6
<1>4. CASE end_compaction
  <2> DEFINE h == call.handle
             b == call.buffer
             n == call.active_lanes
             cells == storage[h][b]
  <2>1. call # NoCall BY <1>4 DEF end_compaction
  <2>2. /\ h \in Handle /\ b \in Buffer /\ cells \in Seq(Slot)
    BY <2>1, CompactionBounds
  <2>3. PICK p : storage' = [storage EXCEPT ![h][b] =
                      [i \in DOMAIN cells |-> IF i <= n THEN cells[p[i]] ELSE cells[i]]]
    BY <1>4 DEF end_compaction
  <2> DEFINE sorted == [i \in DOMAIN cells |-> IF i <= n THEN cells[p[i]] ELSE cells[i]]
  <2>4. Len(sorted) = Len(cells)
    <3>1. Len(cells) \in Nat /\ DOMAIN cells = 1..Len(cells)
      BY <2>2, LenProperties
    <3> HIDE DEF cells, n
    <3>2. sorted = [i \in 1..Len(cells) |-> IF i <= n THEN cells[p[i]] ELSE cells[i]]
      BY <3>1
    <3> HIDE DEF sorted
    <3>3. QED BY <3>1, <3>2
  <2>5. storage' = [storage EXCEPT ![h][b] = sorted] BY <2>3
  <2> HIDE DEF sorted, h, b
  <2>6. QED BY <1>0, <2>2, <2>4, <2>5, CapacityKept
<1>5. ASSUME NEW from \in Handle, NEW to \in Handle, move(from, to) PROVE SameCapacity'
  <2>1. storage' = [storage EXCEPT ![to] = storage[from], ![from] = EmptyStorage]
    BY <1>5 DEF move
  <2>2. EmptyStorage[0] = EmptyStorage[1] BY DEF EmptyStorage, Buffer
  <2> HIDE DEF EmptyStorage
  <2>3. QED BY <1>0, <2>1, <2>2 DEF SameCapacity, TypeOK
<1>6. ASSUME NEW h \in Handle, destroy(h) PROVE SameCapacity'
  <2>1. storage' = [storage EXCEPT ![h] = EmptyStorage] BY <1>6 DEF destroy
  <2>2. EmptyStorage[0] = EmptyStorage[1] BY DEF EmptyStorage, Buffer
  <2> HIDE DEF EmptyStorage
  <2>3. QED BY <1>0, <2>1, <2>2 DEF SameCapacity, TypeOK
<1>7. CASE storage' = storage
  BY <1>7 DEF SameCapacity
<1>8. QED
  <2>1. ASSUME NEW h \in Handle, NEW slot \in Slot, push_write(h, slot) PROVE SameCapacity'
    BY <1>2, <2>1, PushPushes
  <2>2. ASSUME NEW h \in Handle, NEW slots \in Batch, push_write_batch(h, slots)
        PROVE  SameCapacity'
    BY <1>2, <2>2, PushBatchPushes
  <2>3. ASSUME NEW h \in Handle, NEW lane_states, NEW order,
               begin_compaction(h, lane_states, order)
        PROVE  SameCapacity'
    BY <1>7, <2>3 DEF begin_compaction, Compact, buffers
  <2>4. ASSUME NEW h \in Handle, \/ publish_write_buffer(h) \/ release_read_buffer(h)
                                 \/ pending_read_entries(h)
        PROVE  SameCapacity'
    BY <1>7, <2>4 DEF publish_write_buffer, Publish, release_read_buffer, Release,
      pending_read_entries, buffers
  <2>5. ASSUME read_entry \/ drop_view \/ UNCHANGED vars PROVE SameCapacity'
    BY <1>7, <2>5 DEF read_entry, drop_view, buffers, vars
  <2>6. QED BY <1>1, <1>3, <1>4, <1>5, <1>6, <2>1, <2>2, <2>3, <2>4, <2>5 DEF Next

------------------------------------------------------
\* A read buffer that holds no generation is empty.
LEMMA ReadIdleKept ==
  ASSUME TypeOK, ReadIdle, NEW h \in Handle, NEW b \in Buffer, b # read_index[h], NEW n,
         active_size' = [active_size EXCEPT ![h][b] = n],
         read_index' = read_index, read_buffer_pending' = read_buffer_pending
  PROVE  ReadIdle'
<1>1. \A g \in Handle, c \in Buffer :
        active_size'[g][c] = IF g = h /\ c = b THEN n ELSE active_size[g][c]
  BY DEF TypeOK
<1>2. \A g \in Handle : read_index[g] \in Buffer BY DEF TypeOK
<1>3. QED BY <1>1, <1>2 DEF ReadIdle

LEMMA ReadIdleStep ==
  ASSUME IInv, ReadIdle, [Next]_vars
  PROVE  ReadIdle'
<1>0. /\ TypeOK
      /\ active_size \in [Handle -> [Buffer -> Nat]]
      /\ read_index \in [Handle -> Buffer]
      /\ read_buffer_pending \in [Handle -> BOOLEAN]
      /\ NoEntries[0] = 0
  BY DEF IInv, TypeOK, NoEntries, Buffer
<1>1. ASSUME NEW h \in Handle, create(h) \/ destroy(h) PROVE ReadIdle'
  <2>1. /\ active_size' = [active_size EXCEPT ![h] = NoEntries]
        /\ read_index' = [read_index EXCEPT ![h] = 0]
        /\ read_buffer_pending' = [read_buffer_pending EXCEPT ![h] = FALSE]
    BY <1>1 DEF create, destroy
  <2>2. QED BY <1>0, <2>1 DEF ReadIdle
<1>2. ASSUME NEW h \in Handle, NEW slots, Pushed(h, slots) PROVE ReadIdle'
  <2>1. write_index(h) \in Buffer /\ write_index(h) # read_index[h]
    BY <1>0, WriteIndexIsOther
  <2>2. /\ active_size' = [active_size EXCEPT ![h][write_index(h)] =
                             active_size[h][write_index(h)] + Len(slots)]
        /\ read_index' = read_index /\ read_buffer_pending' = read_buffer_pending
    BY <1>2 DEF Pushed
  <2>3. QED BY <1>0, <2>1, <2>2, ReadIdleKept
<1>3. CASE end_compaction
  <2>1. /\ call # NoCall
        /\ active_size' = [active_size EXCEPT ![call.handle][call.buffer] = call.active_lanes]
        /\ read_index' = read_index /\ read_buffer_pending' = read_buffer_pending
    BY <1>3 DEF end_compaction
  <2>2. call.handle \in Handle /\ call.buffer \in Buffer /\ call.buffer # read_index[call.handle]
    BY <2>1, CompactionBounds
  <2>3. QED BY <1>0, <2>1, <2>2, ReadIdleKept
<1>4. ASSUME NEW h \in Handle, publish_write_buffer(h) PROVE ReadIdle'
  <2>1. /\ read_index' = [read_index EXCEPT ![h] = write_index(h)]
        /\ read_buffer_pending' = [read_buffer_pending EXCEPT ![h] = TRUE]
        /\ active_size' = active_size
    BY <1>4 DEF publish_write_buffer, Publish
  <2>2. QED BY <1>0, <2>1 DEF ReadIdle
<1>5. ASSUME NEW h \in Handle, release_read_buffer(h) PROVE ReadIdle'
  <2>1. /\ active_size' = [active_size EXCEPT ![h][read_index[h]] = 0]
        /\ read_buffer_pending' = [read_buffer_pending EXCEPT ![h] = FALSE]
        /\ read_index' = read_index
    BY <1>5 DEF release_read_buffer, Release
  <2>2. QED BY <1>0, <2>1, SizeWritten DEF ReadIdle
<1>6. ASSUME NEW from \in Handle, NEW to \in Handle, move(from, to) PROVE ReadIdle'
  <2>1. /\ active_size' = [active_size EXCEPT ![to] = active_size[from], ![from] = NoEntries]
        /\ read_index' = [read_index EXCEPT ![to] = read_index[from], ![from] = 0]
        /\ read_buffer_pending' =
             [read_buffer_pending EXCEPT ![to] = read_buffer_pending[from], ![from] = FALSE]
    BY <1>6 DEF move
  <2>2. QED BY <1>0, <2>1 DEF ReadIdle
<1>7. CASE UNCHANGED <<active_size, read_index, read_buffer_pending>>
  BY <1>7 DEF ReadIdle
<1>8. QED
  <2>1. ASSUME NEW h \in Handle, NEW slot \in Slot, push_write(h, slot) PROVE ReadIdle'
    BY <1>2, <2>1, PushPushes
  <2>2. ASSUME NEW h \in Handle, NEW slots \in Batch, push_write_batch(h, slots)
        PROVE  ReadIdle'
    BY <1>2, <2>2, PushBatchPushes
  <2>3. ASSUME NEW h \in Handle, NEW lane_states, NEW order,
               begin_compaction(h, lane_states, order)
        PROVE  ReadIdle'
    BY <1>7, <2>3 DEF begin_compaction, Compact, buffers
  <2>4. ASSUME NEW h \in Handle, pending_read_entries(h) PROVE ReadIdle'
    BY <1>7, <2>4 DEF pending_read_entries, buffers
  <2>5. ASSUME compact_lane \/ read_entry \/ drop_view \/ UNCHANGED vars PROVE ReadIdle'
    BY <1>7, <2>5 DEF compact_lane, read_entry, drop_view, buffers, vars
  <2>6. QED BY <1>1, <1>3, <1>4, <1>5, <1>6, <2>1, <2>2, <2>3, <2>4, <2>5 DEF Next

------------------------------------------------------
\* What there is to show of a step of the loop.
LEMMA CompactionNext ==
  ASSUME NEW cells, NEW kept,
         storage'[call'.handle][call'.buffer] = cells,
         KeptOf(call'.lane_states, call'.input_lane) = kept,
         Len(call'.input) = Len(call'.lane_states),
         call'.active_lanes = Cardinality(kept),
         \A i \in 1..Len(call'.lane_states) : call'.input_lane < i => cells[i] = call'.input[i],
         \A k \in 1..call'.active_lanes : \E i \in Nat :
           IsKth(kept, i, k) /\ cells[k] = call'.input[i]
  PROVE  CompactionInv'
BY DEF CompactionInv, Kept

\* The removal loop starts with the entries of the write buffer.
LEMMA CompactionBegins ==
  ASSUME IInv, NEW h \in Handle,
         NEW lane_states \in UNION {[1..n -> LaneState] : n \in 0..Capacity},
         NEW order \in CompactionOrder, begin_compaction(h, lane_states, order)
  PROVE  CompactionInv'
<1> DEFINE b == write_index(h)
<1>1. /\ Len(lane_states) = active_size[h][b]
      /\ call' = [handle |-> h, buffer |-> b, lane_states |-> lane_states, order |-> order,
                  input_lane |-> 0, active_lanes |-> 0, input |-> Entries(h, b)]
      /\ storage' = storage
  BY DEF begin_compaction, Compact, buffers
<1>2. b \in Buffer /\ active_size[h][b] \in Nat
  BY WriteIndexIsOther DEF IInv, TypeOK
<1>3. /\ Len(Entries(h, b)) = active_size[h][b]
      /\ \A i \in 1..active_size[h][b] : Entries(h, b)[i] = storage[h][b][i]
  BY <1>2, EntriesType DEF IInv
<1> HIDE DEF b
<1>4. /\ call'.handle = h /\ call'.buffer = b /\ call'.lane_states = lane_states
      /\ call'.input_lane = 0 /\ call'.active_lanes = 0 /\ call'.input = Entries(h, b)
  BY <1>1
<1>5. KeptOf(lane_states, 0) = {} /\ Cardinality({}) = 0
  BY FS_EmptySet DEF KeptOf
<1>6. /\ \A i \in 1..Len(lane_states) : 0 < i => storage[h][b][i] = Entries(h, b)[i]
      /\ \A k \in 1..0 : \E i \in Nat : IsKth({}, i, k) /\ storage[h][b][k] = Entries(h, b)[i]
  BY <1>1, <1>2, <1>3
<1>7. /\ storage'[call'.handle][call'.buffer] = storage[h][b]
      /\ KeptOf(call'.lane_states, call'.input_lane) = {}
      /\ Len(call'.input) = Len(call'.lane_states)
      /\ call'.active_lanes = Cardinality({})
      /\ \A i \in 1..Len(call'.lane_states) :
           call'.input_lane < i => storage[h][b][i] = call'.input[i]
      /\ \A k \in 1..call'.active_lanes : \E i \in Nat :
           IsKth({}, i, k) /\ storage[h][b][k] = call'.input[i]
  BY <1>1, <1>3, <1>4, <1>5, <1>6
<1>8. QED BY <1>7, CompactionNext

\* A turn of the loop moves the lane it keeps behind those it kept before.
LEMMA CompactionTurn ==
  ASSUME IInv, CompactionInv, compact_lane
  PROVE  CompactionInv'
<1> DEFINE h == call.handle
           b == call.buffer
           m == call.input_lane
           n == call.active_lanes
           states == call.lane_states
           kept == KeptOf(states, m)
           old == storage[h][b]
<1>1. /\ call # NoCall /\ call \in CallType
      /\ m < Len(states)
  BY CompactionBounds DEF compact_lane
<1>2. /\ h \in Handle /\ b \in Buffer
      /\ n \in Nat /\ m \in Nat /\ Len(states) \in Nat
      /\ old \in Seq(Slot) /\ Len(old) \in Nat
      /\ n <= m /\ Len(states) <= Len(old)
  BY <1>1, CompactionBounds
<1>3. /\ Len(call.input) = Len(states)
      /\ n = Cardinality(kept)
      /\ \A i \in 1..Len(states) : m < i => old[i] = call.input[i]
      /\ \A k \in 1..n : \E i \in Nat : IsKth(kept, i, k) /\ old[k] = call.input[i]
  BY <1>1 DEF CompactionInv, Kept
<1>4. /\ kept \in SUBSET (1..m) /\ IsFiniteSet(kept)
      /\ KeptOf(states, m + 1) = IF states[m + 1] = "active" THEN kept \cup {m + 1} ELSE kept
  BY <1>2, KeptFinite
<1>5. CASE states[m + 1] # "active"
  <2>1. /\ storage' = storage
        /\ call' = [call EXCEPT !.input_lane = m + 1]
    BY <1>5 DEF compact_lane
  <2>2. /\ call'.handle = h /\ call'.buffer = b /\ call'.lane_states = states
        /\ call'.input_lane = m + 1 /\ call'.active_lanes = n /\ call'.input = call.input
    BY <1>1, <2>1 DEF CallType
  <2>3. KeptOf(states, m + 1) = kept BY <1>4, <1>5
  <2> HIDE DEF h, b, m, n, states, kept
  <2>4. \A i \in 1..Len(states) : m + 1 < i => m < i BY <1>2
  <2> HIDE DEF old
  <2>5. storage'[h][b] = old BY <2>1 DEF old
  <2>6. QED BY <1>3, <2>2, <2>3, <2>4, <2>5, CompactionNext
<1>6. CASE states[m + 1] = "active"
  <2> DEFINE cells == [old EXCEPT ![n + 1] = old[m + 1]]
  <2>1. /\ storage' = [storage EXCEPT ![h][b] = cells]
        /\ call' = [call EXCEPT !.input_lane = m + 1, !.active_lanes = n + 1]
    BY <1>6 DEF compact_lane, output_lane
  <2>2. /\ call'.handle = h /\ call'.buffer = b /\ call'.lane_states = states
        /\ call'.input_lane = m + 1 /\ call'.active_lanes = n + 1 /\ call'.input = call.input
    BY <1>1, <2>1 DEF CallType
  <2> HIDE DEF h, b, m, n, states, kept
  <2>3. n + 1 \in 1..Len(old) /\ m + 1 \in 1..Len(old) /\ m + 1 \in 1..Len(states)
    BY <1>1, <1>2
  <2>4. /\ old[m + 1] = call.input[m + 1]
        /\ \A i \in 1..Len(old) : cells[i] = IF i = n + 1 THEN old[m + 1] ELSE old[i]
    BY <1>2, <1>3, <2>3, ElementOfSeq, ExceptSeq
  <2> HIDE DEF cells, old
  <2>5. storage'[h][b] = cells BY <1>2, <2>1 DEF IInv, TypeOK
  <2>6. KeptOf(states, m + 1) = kept \cup {m + 1} BY <1>4, <1>6
  <2>7. Cardinality(kept \cup {m + 1}) = n + 1
    <3>1. m + 1 \notin kept BY <1>2, <1>4
    <3>2. QED BY <1>3, <1>4, <3>1, FS_AddElement
  <2>8. \A i \in 1..Len(states) : m + 1 < i => cells[i] = call.input[i]
    <3> TAKE i \in 1..Len(states)
    <3>1. CASE m + 1 < i
      <4>1. m < i /\ i # n + 1 /\ i \in 1..Len(old) BY <1>2, <3>1
      <4>2. QED BY <1>3, <2>4, <4>1
    <3>2. QED BY <3>1
  <2>9. \A k \in 1..(n + 1) : \E i \in Nat :
          IsKth(kept \cup {m + 1}, i, k) /\ cells[k] = call.input[i]
    <3> TAKE k \in 1..(n + 1)
    <3>1. CASE k = n + 1
      <4>1. IsKth(kept \cup {m + 1}, m + 1, k)
        BY <1>2, <1>3, <1>4, <3>1, KthAfterAdding
      <4>2. cells[k] = call.input[m + 1] BY <2>3, <2>4, <3>1
      <4>3. QED BY <1>2, <4>1, <4>2
    <3>2. CASE k # n + 1
      <4>1. k \in 1..n /\ k \in 1..Len(old) BY <1>2, <2>3, <3>2
      <4>2. PICK i \in Nat : IsKth(kept, i, k) /\ old[k] = call.input[i]
        BY <1>3, <4>1
      <4>3. IsKth(kept \cup {m + 1}, i, k) BY <1>2, <1>4, <4>2, KthAfterAdding
      <4>4. cells[k] = call.input[i] BY <2>4, <3>2, <4>1, <4>2
      <4>5. QED BY <4>3, <4>4
    <3>3. QED BY <3>1, <3>2
  <2> DEFINE now == kept \cup {m + 1}
  <2>10. KeptOf(states, m + 1) = now /\ Cardinality(now) = n + 1 BY <2>6, <2>7
  <2>11. \A k \in 1..(n + 1) : \E i \in Nat : IsKth(now, i, k) /\ cells[k] = call.input[i]
    BY <2>9
  <2> HIDE DEF now
  <2>12. /\ storage'[call'.handle][call'.buffer] = cells
         /\ KeptOf(call'.lane_states, call'.input_lane) = now
         /\ Len(call'.input) = Len(call'.lane_states)
         /\ call'.active_lanes = Cardinality(now)
    BY <1>3, <2>2, <2>5, <2>10
  <2>13. \A i \in 1..Len(call'.lane_states) :
           call'.input_lane < i => cells[i] = call'.input[i]
    BY <2>2, <2>8
  <2>14. \A k \in 1..call'.active_lanes : \E i \in Nat :
           IsKth(now, i, k) /\ cells[k] = call'.input[i]
    BY <2>2, <2>11
  <2>15. QED BY <2>12, <2>13, <2>14, CompactionNext
<1>7. QED BY <1>5, <1>6

LEMMA CompactionStep ==
  ASSUME IInv, CompactionInv, [Next]_vars
  PROVE  CompactionInv'
<1>1. CASE call' = NoCall
  BY <1>1 DEF CompactionInv
<1>2. CASE storage' = storage /\ call' = call
  BY <1>2 DEF CompactionInv, Kept
<1>3. ASSUME NEW h \in Handle,
             \/ create(h) \/ publish_write_buffer(h) \/ destroy(h)
             \/ \E to \in Handle : move(h, to)
             \/ \E slot \in Slot : push_write(h, slot)
             \/ \E slots \in Batch : push_write_batch(h, slots)
      PROVE  call' = NoCall
  BY <1>3 DEF create, publish_write_buffer, Publish, destroy, move, push_write,
    push_write_batch, ProducerIdle, Unobserved
<1>4. end_compaction => call' = NoCall BY DEF end_compaction
<1>5. ASSUME NEW h \in Handle, release_read_buffer(h) \/ pending_read_entries(h)
      PROVE  storage' = storage /\ call' = call
  BY <1>5 DEF release_read_buffer, Release, pending_read_entries, buffers
<1>6. read_entry \/ drop_view \/ UNCHANGED vars => storage' = storage /\ call' = call
  BY DEF read_entry, drop_view, buffers, vars
<1>7. QED BY <1>1, <1>2, <1>3, <1>4, <1>5, <1>6, CompactionBegins, CompactionTurn DEF Next

\* Together they are inductive.
LEMMA RefInit == Init => RefInv
BY DEF Init, RefInv, SameCapacity, ReadIdle, CompactionInv, EmptyStorage, NoEntries, Buffer

LEMMA RefStep == IInv /\ RefInv /\ [Next]_vars => RefInv'
BY CapacityStep, ReadIdleStep, CompactionStep DEF RefInv

------------------------------------------------------
\* What a step changes of the channel is shown object by object.
LEMMA Updated ==
  ASSUME NEW D, NEW f, NEW g, f = [x \in D |-> f[x]], g = [x \in D |-> g[x]],
         NEW h \in D, NEW v, \A x \in D : g[x] = IF x = h THEN v ELSE f[x]
  PROVE  g = [f EXCEPT ![h] = v]
OBVIOUS

LEMMA Same ==
  ASSUME NEW D, NEW f, NEW g, f = [x \in D |-> f[x]], g = [x \in D |-> g[x]],
         \A x \in D : g[x] = f[x]
  PROVE  g = f
<1>1. g = [x \in D |-> f[x]] OBVIOUS
<1>2. QED BY <1>1

LEMMA ChannelFunctions ==
  /\ Room = [h \in Handle |-> Room[h]] /\ Room' = [h \in Handle |-> Room'[h]]
  /\ Building = [h \in Handle |-> Building[h]] /\ Building' = [h \in Handle |-> Building'[h]]
  /\ Published = [h \in Handle |-> Published[h]] /\ Published' = [h \in Handle |-> Published'[h]]
BY DEF Room, Building, Published

\* An object whose fields a step leaves alone keeps its channel.
LEMMA ChannelFrame ==
  ASSUME NEW g \in Handle, storage'[g] = storage[g], active_size'[g] = active_size[g],
         read_index'[g] = read_index[g], read_buffer_pending'[g] = read_buffer_pending[g],
         call' = call
  PROVE  Room'[g] = Room[g] /\ Building'[g] = Building[g] /\ Published'[g] = Published[g]
BY DEF Room, Building, Published, Entries, write_index

\* What an object hands over is the channel it had.
LEMMA ChannelMoved ==
  ASSUME NEW g \in Handle, NEW f \in Handle, storage'[g] = storage[f],
         active_size'[g] = active_size[f], read_index'[g] = read_index[f],
         read_buffer_pending'[g] = read_buffer_pending[f], call = NoCall, call' = NoCall
  PROVE  Room'[g] = Room[f] /\ Building'[g] = Building[f] /\ Published'[g] = Published[f]
<1>1. /\ Building[f] = Entries(f, write_index(f)) /\ Building'[g] = Entries(g, write_index(g))'
      /\ Room[f] = Len(storage[f][0]) /\ Room'[g] = Len(storage'[g][0])
      /\ Published[f] = IF read_buffer_pending[f] THEN {Entries(f, read_index[f])} ELSE {}
      /\ Published'[g] = IF read_buffer_pending'[g] THEN {Entries(g, read_index[g])'} ELSE {}
  BY DEF Room, Building, Published
<1>2. /\ Entries(g, write_index(g))' = Entries(f, write_index(f))
      /\ Entries(g, read_index[g])' = Entries(f, read_index[f])
  BY DEF Entries, write_index
<1>3. QED BY <1>1, <1>2

\* An object without cells, or a buffer without entries, shows nothing.
LEMMA NothingShown ==
  ASSUME NEW f, NEW n, n = 0, f = [i \in 1..n |-> f[i]]
  PROVE  f = <<>>
<1>1. f \in [1..0 -> Slot] OBVIOUS
<1>2. QED BY <1>1, FunctionIsSeq, EmptySeq

LEMMA EmptyChannel ==
  ASSUME NEW h \in Handle, active_size'[h] = NoEntries, read_index'[h] = 0,
         read_buffer_pending'[h] = FALSE, call' = NoCall
  PROVE  /\ Room'[h] = Len(storage'[h][0])
         /\ Building'[h] = <<>>
         /\ Published'[h] = {}
<1>1. /\ Room'[h] = Len(storage'[h][0])
      /\ Published'[h] = {}
      /\ Building'[h] = [i \in 1..active_size'[h][1] |-> storage'[h][1][i]]
  BY DEF Room, Published, Building, Entries, write_index
<1>2. active_size'[h][1] = 0 BY DEF NoEntries, Buffer
<1>3. QED BY <1>1, <1>2, NothingShown

LEMMA CreateRefines ==
  ASSUME IInv, RefInv, NEW h \in Handle, create(h)
  PROVE  Channel!Create(h)
<1>1. /\ h \notin exists /\ exists' = exists \cup {h}
      /\ storage' = [storage EXCEPT ![h] = FreshStorage]
      /\ active_size' = [active_size EXCEPT ![h] = NoEntries]
      /\ read_index' = [read_index EXCEPT ![h] = 0]
      /\ read_buffer_pending' = [read_buffer_pending EXCEPT ![h] = FALSE]
      /\ call = NoCall /\ call' = call
  BY DEF create, ProducerIdle
<1>2. /\ storage'[h] = FreshStorage /\ active_size'[h] = NoEntries /\ read_index'[h] = 0
      /\ read_buffer_pending'[h] = FALSE
      /\ \A g \in Handle : g # h =>
           /\ storage'[g] = storage[g] /\ active_size'[g] = active_size[g]
           /\ read_index'[g] = read_index[g]
           /\ read_buffer_pending'[g] = read_buffer_pending[g]
  BY <1>1 DEF IInv, TypeOK
<1>3. Len(FreshStorage[0]) = Capacity
  <2>1. Capacity \in Nat /\ [i \in 1..Capacity |-> 0] \in [1..Capacity -> Slot]
    BY QueueAssumption
  <2>2. QED BY <2>1, FunctionIsSeq DEF FreshStorage, Buffer
<1> HIDE DEF FreshStorage
<1>4. Room'[h] = Capacity /\ Building'[h] = <<>> /\ Published'[h] = {}
  BY <1>1, <1>2, <1>3, EmptyChannel
<1>5. \A g \in Handle : g # h =>
        Room'[g] = Room[g] /\ Building'[g] = Building[g] /\ Published'[g] = Published[g]
  BY <1>1, <1>2, ChannelFrame
<1>6. /\ Room' = [Room EXCEPT ![h] = Capacity]
      /\ Building' = [Building EXCEPT ![h] = <<>>]
      /\ Published' = [Published EXCEPT ![h] = {}]
  BY <1>4, <1>5, ChannelFunctions, Updated
<1>7. QED BY <1>1, <1>6 DEF Channel!Create

LEMMA DestroyRefines ==
  ASSUME IInv, RefInv, NEW h \in Handle, destroy(h)
  PROVE  Channel!Destroy(h)
<1>1. /\ h \in exists /\ exists' = exists \ {h}
      /\ storage' = [storage EXCEPT ![h] = EmptyStorage]
      /\ active_size' = [active_size EXCEPT ![h] = NoEntries]
      /\ read_index' = [read_index EXCEPT ![h] = 0]
      /\ read_buffer_pending' = [read_buffer_pending EXCEPT ![h] = FALSE]
      /\ call = NoCall /\ call' = call
  BY DEF destroy, Unobserved, ProducerIdle
<1>2. /\ storage'[h] = EmptyStorage /\ active_size'[h] = NoEntries /\ read_index'[h] = 0
      /\ read_buffer_pending'[h] = FALSE
      /\ \A g \in Handle : g # h =>
           /\ storage'[g] = storage[g] /\ active_size'[g] = active_size[g]
           /\ read_index'[g] = read_index[g]
           /\ read_buffer_pending'[g] = read_buffer_pending[g]
  BY <1>1 DEF IInv, TypeOK
<1>3. Len(EmptyStorage[0]) = 0 BY DEF EmptyStorage, Buffer
<1> HIDE DEF EmptyStorage
<1>4. Room'[h] = 0 /\ Building'[h] = <<>> /\ Published'[h] = {}
  BY <1>1, <1>2, <1>3, EmptyChannel
<1>5. \A g \in Handle : g # h =>
        Room'[g] = Room[g] /\ Building'[g] = Building[g] /\ Published'[g] = Published[g]
  BY <1>1, <1>2, ChannelFrame
<1>6. /\ Room' = [Room EXCEPT ![h] = 0]
      /\ Building' = [Building EXCEPT ![h] = <<>>]
      /\ Published' = [Published EXCEPT ![h] = {}]
  BY <1>4, <1>5, ChannelFunctions, Updated
<1>7. QED BY <1>1, <1>6 DEF Channel!Destroy

LEMMA UpdatedTwice ==
  ASSUME NEW D, NEW f, NEW g, f = [x \in D |-> f[x]], g = [x \in D |-> g[x]],
         NEW to \in D, NEW from \in D, to # from, NEW v, NEW w,
         \A x \in D : g[x] = IF x = from THEN w ELSE IF x = to THEN v ELSE f[x]
  PROVE  g = [f EXCEPT ![to] = v, ![from] = w]
OBVIOUS

LEMMA MoveRefines ==
  ASSUME IInv, RefInv, NEW from \in Handle, NEW to \in Handle, move(from, to)
  PROVE  Channel!Move(from, to)
<1>1. /\ from \in exists /\ to \notin exists /\ exists' = exists \cup {to}
      /\ storage' = [storage EXCEPT ![to] = storage[from], ![from] = EmptyStorage]
      /\ active_size' = [active_size EXCEPT ![to] = active_size[from], ![from] = NoEntries]
      /\ read_index' = [read_index EXCEPT ![to] = read_index[from], ![from] = 0]
      /\ read_buffer_pending' =
           [read_buffer_pending EXCEPT ![to] = read_buffer_pending[from], ![from] = FALSE]
      /\ call = NoCall /\ call' = call
  BY DEF move, Unobserved, ProducerIdle
<1>2. to # from BY <1>1
<1>3. /\ storage'[from] = EmptyStorage /\ active_size'[from] = NoEntries
      /\ read_index'[from] = 0 /\ read_buffer_pending'[from] = FALSE
      /\ storage'[to] = storage[from] /\ active_size'[to] = active_size[from]
      /\ read_index'[to] = read_index[from]
      /\ read_buffer_pending'[to] = read_buffer_pending[from]
      /\ \A g \in Handle : g # from /\ g # to =>
           /\ storage'[g] = storage[g] /\ active_size'[g] = active_size[g]
           /\ read_index'[g] = read_index[g]
           /\ read_buffer_pending'[g] = read_buffer_pending[g]
  BY <1>1, <1>2 DEF IInv, TypeOK
<1>4. Len(EmptyStorage[0]) = 0 BY DEF EmptyStorage, Buffer
<1> HIDE DEF EmptyStorage
<1>5. Room'[from] = 0 /\ Building'[from] = <<>> /\ Published'[from] = {}
  BY <1>1, <1>3, <1>4, EmptyChannel
<1>6. Room'[to] = Room[from] /\ Building'[to] = Building[from] /\ Published'[to] = Published[from]
  BY <1>1, <1>3, ChannelMoved
<1>7. \A g \in Handle : g # from /\ g # to =>
        Room'[g] = Room[g] /\ Building'[g] = Building[g] /\ Published'[g] = Published[g]
  BY <1>1, <1>3, ChannelFrame
<1>8. /\ Room' = [Room EXCEPT ![to] = Room[from], ![from] = 0]
      /\ Building' = [Building EXCEPT ![to] = Building[from], ![from] = <<>>]
      /\ Published' = [Published EXCEPT ![to] = Published[from], ![from] = {}]
  BY <1>2, <1>5, <1>6, <1>7, ChannelFunctions, UpdatedTwice
<1>9. QED BY <1>1, <1>8 DEF Channel!Move

------------------------------------------------------
\* While no compaction runs on it, an object shows its write buffer.
LEMMA BuildingShown ==
  ASSUME NEW h \in Handle, call = NoCall \/ call.handle # h
  PROVE  Building[h] = Entries(h, write_index(h))
BY DEF Building

LEMMA PushRefines ==
  ASSUME IInv, RefInv, NEW h \in Handle, NEW slots \in Seq(Slot), Pushed(h, slots)
  PROVE  Channel!Accept(h, slots)
<1> DEFINE b == write_index(h)
           r == read_index[h]
           n == active_size[h][b]
<1>0. /\ TypeOK /\ WithinStorage
      /\ storage \in [Handle -> [Buffer -> Seq(Slot)]]
      /\ active_size \in [Handle -> [Buffer -> Nat]]
      /\ b \in Buffer /\ r \in Buffer /\ b # r /\ 0 \in Buffer /\ 1 \in Buffer
      /\ n \in Nat /\ storage[h][b] \in Seq(Slot)
  BY WriteIndexIsOther DEF IInv, TypeOK, Buffer
<1>1. /\ h \in exists /\ call = NoCall /\ call' = NoCall
      /\ n + Len(slots) <= Len(storage[h][b])
      /\ active_size' = [active_size EXCEPT ![h][b] = n + Len(slots)]
      /\ exists' = exists /\ read_index' = read_index
      /\ read_buffer_pending' = read_buffer_pending
  BY DEF Pushed
<1>2. PICK cells \in Seq(Slot) :
        /\ Len(cells) = Len(storage[h][b])
        /\ \A i \in 1..n : cells[i] = storage[h][b][i]
        /\ \A i \in 1..Len(slots) : cells[n + i] = slots[i]
        /\ storage' = [storage EXCEPT ![h][b] = cells]
  BY DEF Pushed
<1>3. Len(slots) \in Nat /\ Len(storage[h][b]) \in Nat BY <1>0, LenProperties
<1>4. write_index(h)' = b /\ read_index'[h] = r BY <1>1 DEF write_index
<1> HIDE DEF b, r, n
<1>5. /\ storage'[h][b] = cells /\ active_size'[h][b] = n + Len(slots)
      /\ storage'[h][r] = storage[h][r] /\ active_size'[h][r] = active_size[h][r]
      /\ \A g \in Handle : g # h => storage'[g] = storage[g] /\ active_size'[g] = active_size[g]
      /\ \A g \in Handle, c \in Buffer : Len(storage'[g][c]) = Len(storage[g][c])
  BY <1>0, <1>1, <1>2
<1>6. Building[h] = Entries(h, b) /\ Building'[h] = [i \in 1..n + Len(slots) |-> cells[i]]
  <2>1. Building[h] = Entries(h, b) BY <1>1, BuildingShown DEF b
  <2>2. Building'[h] = Entries(h, write_index(h))' BY <1>1 DEF Building
  <2>3. Entries(h, write_index(h))' = [i \in 1..active_size'[h][b] |-> storage'[h][b][i]]
    BY <1>4 DEF Entries
  <2>4. QED BY <1>5, <2>1, <2>2, <2>3
<1>7. /\ Entries(h, b) \in Seq(Slot) /\ Len(Entries(h, b)) = n
      /\ \A i \in 1..n : Entries(h, b)[i] = storage[h][b][i]
  BY <1>0, EntriesType DEF n
<1>8. Building'[h] = Building[h] \o slots
  <2> DEFINE more == [i \in 1..n + Len(slots) |-> cells[i]]
             both == Entries(h, b) \o slots
  <2>1. more \in Seq(Slot) /\ Len(more) = n + Len(slots)
    <3>1. \A i \in 1..n + Len(slots) : cells[i] \in Slot
      BY <1>0, <1>1, <1>2, <1>3, ElementOfSeq
    <3>2. more \in [1..n + Len(slots) -> Slot] /\ n + Len(slots) \in Nat
      BY <1>0, <1>3, <3>1
    <3>3. QED BY <3>2, FunctionIsSeq
  <2>2. /\ both \in Seq(Slot) /\ Len(both) = n + Len(slots)
        /\ \A i \in 1..n + Len(slots) :
             both[i] = IF i <= n THEN Entries(h, b)[i] ELSE slots[i - n]
    BY <1>7, ConcatProperties
  <2>3. \A i \in 1..n + Len(slots) : more[i] = both[i]
    <3> TAKE i \in 1..n + Len(slots)
    <3> HIDE DEF both
    <3>1. CASE i <= n
      <4>1. i \in 1..n BY <1>0, <3>1
      <4>2. QED BY <1>2, <1>7, <2>2, <3>1, <4>1
    <3>2. CASE ~(i <= n)
      <4>1. i - n \in 1..Len(slots) /\ n + (i - n) = i BY <1>0, <1>3, <3>2
      <4>2. QED BY <1>2, <2>2, <3>2, <4>1
    <3>3. QED BY <3>1, <3>2
  <2> HIDE DEF more, both
  <2>4. more = both BY <2>1, <2>2, <2>3, SeqEqual
  <2>5. QED BY <1>6, <2>4 DEF more, both
<1>9. Published'[h] = Published[h] /\ Room'[h] = Room[h]
  <2>1. Entries(h, read_index[h])' = Entries(h, read_index[h])
    BY <1>4, <1>5 DEF Entries, r
  <2>2. QED BY <1>0, <1>1, <1>5, <2>1 DEF Published, Room
<1>10. \A g \in Handle : g # h =>
         Room'[g] = Room[g] /\ Building'[g] = Building[g] /\ Published'[g] = Published[g]
  BY <1>1, <1>5, ChannelFrame
<1>11. /\ Room' = Room /\ Published' = Published
       /\ Building' = [Building EXCEPT ![h] = Building[h] \o slots]
  BY <1>8, <1>9, <1>10, ChannelFunctions, Same, Updated
<1>12. Len(Building[h]) + Len(slots) <= Room[h]
  <2>1. Len(storage[h][b]) = Len(storage[h][0])
    BY <1>0 DEF RefInv, SameCapacity, Buffer
  <2>2. QED BY <1>1, <1>6, <1>7, <2>1 DEF Room
<1>13. QED BY <1>1, <1>11, <1>12 DEF Channel!Accept

LEMMA PublishRefines ==
  ASSUME IInv, RefInv, NEW h \in Handle, publish_write_buffer(h)
  PROVE  Channel!Publish(h)
<1>1. /\ h \in exists /\ call = NoCall /\ call' = call /\ ~read_buffer_pending[h]
      /\ read_index' = [read_index EXCEPT ![h] = write_index(h)]
      /\ read_buffer_pending' = [read_buffer_pending EXCEPT ![h] = TRUE]
      /\ exists' = exists /\ storage' = storage /\ active_size' = active_size
  BY DEF publish_write_buffer, Publish, ProducerIdle
<1>2. /\ read_index'[h] = write_index(h) /\ read_buffer_pending'[h] = TRUE
      /\ \A g \in Handle : g # h => /\ read_index'[g] = read_index[g]
                                    /\ read_buffer_pending'[g] = read_buffer_pending[g]
  BY <1>1 DEF IInv, TypeOK
<1>3. Published[h] = {} /\ Building[h] = Entries(h, write_index(h))
  BY <1>1, BuildingShown DEF Published
<1>4. Published'[h] = {Building[h]}
  <2>1. Entries(h, read_index[h])' = Entries(h, write_index(h))
    BY <1>1, <1>2 DEF Entries
  <2>2. QED BY <1>2, <1>3, <2>1 DEF Published
<1>5. Building'[h] = <<>>
  <2>1. write_index(h)' = read_index[h]
    <3>1. read_index[h] \in {0, 1} /\ write_index(h)' = 1 - (1 - read_index[h])
      BY <1>2 DEF write_index, IInv, TypeOK, Buffer
    <3>2. QED BY <3>1
  <2>2. active_size[h][read_index[h]] = 0 BY <1>1 DEF RefInv, ReadIdle
  <2>3. Building'[h] = [i \in 1..active_size[h][read_index[h]] |-> storage[h][read_index[h]][i]]
    BY <1>1, <2>1 DEF Building, Entries
  <2>4. QED BY <2>2, <2>3, NothingShown
<1>6. Room' = Room BY <1>1 DEF Room
<1>7. \A g \in Handle : g # h => Building'[g] = Building[g] /\ Published'[g] = Published[g]
  BY <1>1, <1>2, ChannelFrame
<1>8. /\ Published' = [Published EXCEPT ![h] = {Building[h]}]
      /\ Building' = [Building EXCEPT ![h] = <<>>]
  BY <1>4, <1>5, <1>7, ChannelFunctions, Updated
<1>9. QED BY <1>1, <1>3, <1>6, <1>8 DEF Channel!Publish

LEMMA ReleaseRefines ==
  ASSUME IInv, RefInv, NEW h \in Handle, release_read_buffer(h)
  PROVE  Channel!Release(h)
<1>1. /\ h \in exists /\ read_buffer_pending[h]
      /\ active_size' = [active_size EXCEPT ![h][read_index[h]] = 0]
      /\ read_buffer_pending' = [read_buffer_pending EXCEPT ![h] = FALSE]
      /\ exists' = exists /\ storage' = storage /\ read_index' = read_index /\ call' = call
  BY DEF release_read_buffer, Release
<1>2. TypeOK /\ write_index(h) \in Buffer /\ write_index(h) # read_index[h]
  BY WriteIndexIsOther DEF IInv
<1>3. /\ active_size'[h][write_index(h)] = active_size[h][write_index(h)]
      /\ read_buffer_pending'[h] = FALSE
      /\ \A g \in Handle : g # h => /\ active_size'[g] = active_size[g]
                                    /\ read_buffer_pending'[g] = read_buffer_pending[g]
  BY <1>1, <1>2 DEF TypeOK
<1>4. Published[h] # {} /\ Published'[h] = {} BY <1>1, <1>3 DEF Published
<1>5. Building'[h] = Building[h]
  <2>1. Entries(h, write_index(h))' = Entries(h, write_index(h))
    BY <1>1, <1>3 DEF Entries, write_index
  <2>2. QED BY <1>1, <2>1 DEF Building
<1>6. Room' = Room BY <1>1 DEF Room
<1>7. \A g \in Handle : g # h => Building'[g] = Building[g] /\ Published'[g] = Published[g]
  BY <1>1, <1>3, ChannelFrame
<1>8. Building' = Building /\ Published' = [Published EXCEPT ![h] = {}]
  BY <1>4, <1>5, <1>7, ChannelFunctions, Same, Updated
<1>9. QED BY <1>1, <1>4, <1>6, <1>8 DEF Channel!Release

\* A compaction is not seen while it runs.
LEMMA BeginRefines ==
  ASSUME IInv, RefInv, NEW h \in Handle, NEW lane_states, NEW order,
         begin_compaction(h, lane_states, order)
  PROVE  UNCHANGED Channel!vars
<1> DEFINE b == write_index(h)
<1>1. /\ call = NoCall
      /\ call' = [handle |-> h, buffer |-> b, lane_states |-> lane_states, order |-> order,
                  input_lane |-> 0, active_lanes |-> 0, input |-> Entries(h, b)]
      /\ UNCHANGED <<exists, storage, active_size, read_index, read_buffer_pending>>
  BY DEF begin_compaction, Compact, ProducerIdle, buffers
<1>2. call'.handle = h /\ call'.input = Entries(h, b) BY <1>1
<1>3. \A g \in Handle : Entries(g, write_index(g))' = Entries(g, write_index(g))
  BY <1>1 DEF Entries, write_index
<1>4. Room' = Room /\ Published' = Published
  BY <1>1 DEF Room, Published, Entries
<1>5. \A g \in Handle : Building'[g] = Building[g]
  BY <1>1, <1>2, <1>3 DEF Building
<1>6. Building' = Building BY <1>5, ChannelFunctions, Same
<1>7. QED BY <1>1, <1>4, <1>6 DEF Channel!vars

LEMMA TurnRefines ==
  ASSUME IInv, RefInv, compact_lane, IInv', RefInv'
  PROVE  UNCHANGED Channel!vars
<1> DEFINE h == call.handle
           b == call.buffer
<1>1. /\ call # NoCall /\ call \in CallType /\ h \in Handle /\ b \in Buffer
      /\ b # read_index[h]
      /\ call.input_lane \in Nat /\ call.active_lanes \in Nat
  BY CompactionBounds DEF compact_lane
<1>2. /\ UNCHANGED <<exists, active_size, read_index, read_buffer_pending>>
      /\ \/ storage' = storage
         \/ \E i, v : storage' = [storage EXCEPT ![h][b][i] = v]
      /\ \/ call' = [call EXCEPT !.input_lane = call.input_lane + 1]
         \/ call' = [call EXCEPT !.input_lane = call.input_lane + 1,
                                 !.active_lanes = call.active_lanes + 1]
  BY DEF compact_lane
<1>3. call' \in CallType /\ call'.handle = h /\ call'.input = call.input
  <2>1. ASSUME NEW m \in Nat, call' = [call EXCEPT !.input_lane = m]
        PROVE  call' \in CallType /\ call'.handle = h /\ call'.input = call.input
    BY <1>1, <2>1 DEF CallType
  <2>2. ASSUME NEW m \in Nat, NEW n \in Nat,
               call' = [call EXCEPT !.input_lane = m, !.active_lanes = n]
        PROVE  call' \in CallType /\ call'.handle = h /\ call'.input = call.input
    BY <1>1, <2>2 DEF CallType
  <2>3. call.input_lane + 1 \in Nat /\ call.active_lanes + 1 \in Nat BY <1>1
  <2>4. QED BY <1>2, <2>1, <2>2, <2>3
<1>4. call' # NoCall BY <1>3, CallAssumption
<1> HIDE DEF h, b
<1>5. \A g \in Handle, c \in Buffer : ~(g = h /\ c = b) => storage'[g][c] = storage[g][c]
  <2>1. storage \in [Handle -> [Buffer -> Seq(Slot)]] BY DEF IInv, TypeOK
  <2>2. ASSUME NEW i, NEW v, storage' = [storage EXCEPT ![h][b][i] = v]
        PROVE  \A g \in Handle, c \in Buffer : ~(g = h /\ c = b) => storage'[g][c] = storage[g][c]
    BY <1>1, <2>1, <2>2
  <2>3. QED BY <1>2, <2>2
<1>6. /\ \A g \in Handle : read_index[g] \in Buffer /\ write_index(g) \in Buffer
      /\ 1 - b \in Buffer /\ 0 \in Buffer /\ 1 \in Buffer
  <2>1. \A g \in Handle : read_index[g] \in Buffer BY DEF IInv, TypeOK
  <2>2. \A g \in Handle : write_index(g) \in Buffer
    BY WriteIndexIsOther DEF IInv
  <2>3. 1 - b \in Buffer /\ 0 \in Buffer /\ 1 \in Buffer BY <1>1 DEF Buffer
  <2>4. QED BY <2>1, <2>2, <2>3
<1>7. ASSUME NEW g \in Handle PROVE Published'[g] = Published[g]
  <2>1. storage'[g][read_index[g]] = storage[g][read_index[g]]
    BY <1>1, <1>5, <1>6
  <2>2. Entries(g, read_index[g])' = Entries(g, read_index[g])
    BY <1>2, <2>1 DEF Entries
  <2>3. QED BY <1>2, <2>2 DEF Published
<1>8. ASSUME NEW g \in Handle PROVE Building'[g] = Building[g]
  <2>1. CASE g = h
    BY <1>1, <1>3, <1>4, <2>1 DEF Building, h
  <2>2. CASE g # h
    <3>1. storage'[g][write_index(g)] = storage[g][write_index(g)]
      BY <1>5, <1>6, <2>2
    <3>2. Entries(g, write_index(g))' = Entries(g, write_index(g))
      BY <1>2, <3>1 DEF Entries, write_index
    <3>3. Building[g] = Entries(g, write_index(g)) BY <2>2 DEF Building, h
    <3>4. Building'[g] = Entries(g, write_index(g))' BY <1>3, <2>2 DEF Building
    <3>5. QED BY <3>2, <3>3, <3>4
  <2>3. QED BY <2>1, <2>2
<1>9. ASSUME NEW g \in Handle PROVE Room'[g] = Room[g]
  <2>1. CASE g = h
    <3>1. Len(storage'[h][1 - b]) = Len(storage[h][1 - b])
      BY <1>1, <1>5, <1>6 DEF Buffer
    <3>2. /\ Len(storage[h][0]) = Len(storage[h][1]) /\ Len(storage'[h][0]) = Len(storage'[h][1])
      BY <1>1 DEF RefInv, SameCapacity
    <3>3. QED BY <1>1, <2>1, <3>1, <3>2 DEF Room, Buffer
  <2>2. CASE g # h
    BY <1>5, <1>6, <2>2 DEF Room
  <2>3. QED BY <2>1, <2>2
<1>10. QED BY <1>2, <1>7, <1>8, <1>9, ChannelFunctions, Same DEF Channel!vars

------------------------------------------------------
\* The channel's own count of a set is the usual one.
LEMMA SameCardinality == \A S : Channel!Cardinality(S) = Cardinality(S)
BY DEF Cardinality, Channel!Cardinality

\* The lane the channel calls the k-th survivor is the k-th one kept.
LEMMA SurvivorIsKth ==
  ASSUME NEW kept \in SUBSET Nat, IsFiniteSet(kept), NEW k, NEW i, IsKth(kept, i, k)
  PROVE  Channel!Survivor(kept, k) = i
<1>1. \A j : Channel!Cardinality({l \in kept : l < j}) = Cardinality({l \in kept : l < j})
  BY SameCardinality
<1>2. IsKth(kept, Channel!Survivor(kept, k), k)
  BY <1>1 DEF IsKth, Channel!Survivor
<1>3. QED BY <1>2, KthUnique

\* A rearrangement holds each slot as often as what it rearranges.
LEMMA SameSlots ==
  ASSUME NEW n \in Nat, NEW p \in [1..n -> 1..n], \A i, j \in 1..n : i # j => p[i] # p[j],
         NEW left, left = [i \in 1..n |-> left[i]],
         NEW sorted, sorted = [i \in 1..n |-> left[p[i]]]
  PROVE  Channel!SameEntries(sorted, left)
<1>1. IsFiniteSet(1..n) BY FS_Interval
<1>2. p \in Surjection(1..n, 1..n)
  <2>1. p \in Injection(1..n, 1..n) BY DEF Injection, IsInjective
  <2>2. QED BY <1>1, <2>1, FS_Injection
<1>3. ASSUME NEW slot
      PROVE  Cardinality({i \in 1..n : sorted[i] = slot}) = Cardinality({i \in 1..n : left[i] = slot})
  <2> DEFINE from == {i \in 1..n : sorted[i] = slot}
             to == {i \in 1..n : left[i] = slot}
             q == [i \in from |-> p[i]]
  <2>1. IsFiniteSet(from) BY <1>1, FS_Subset
  <2>2. q \in [from -> to] OBVIOUS
  <2>3. \A j \in to : \E i \in from : q[i] = j
    <3> TAKE j \in to
    <3>1. PICK i \in 1..n : p[i] = j BY <1>2 DEF Surjection
    <3>2. QED BY <3>1
  <2>4. \A i, j \in from : i # j => q[i] # q[j] OBVIOUS
  <2> HIDE DEF from, to, q
  <2>5. q \in Bijection(from, to)
    BY <2>2, <2>3, <2>4 DEF Bijection, Surjection, Injection, IsInjective
  <2>6. ExistsBijection(from, to) BY <2>5 DEF ExistsBijection
  <2>7. QED BY <2>1, <2>6, FS_Bijection DEF from, to
<1>4. DOMAIN sorted = 1..n /\ DOMAIN left = 1..n OBVIOUS
<1>5. QED BY <1>3, <1>4, SameCardinality DEF Channel!SameEntries, Channel!Occurrences

\* The end of a compaction is the compaction of the channel.
LEMMA EndRefines ==
  ASSUME IInv, RefInv, end_compaction
  PROVE  \E h \in Handle : Channel!Compact(h)
<1> DEFINE h == call.handle
           b == call.buffer
           r == read_index[h]
           n == call.active_lanes
           old == storage[h][b]
           kept == Kept
           left == [k \in 1..n |-> old[k]]
<1>1. /\ call # NoCall /\ call' = NoCall
      /\ call.input_lane = Len(call.lane_states)
      /\ active_size' = [active_size EXCEPT ![h][b] = n]
      /\ exists' = exists /\ read_index' = read_index
      /\ read_buffer_pending' = read_buffer_pending
  BY DEF end_compaction
<1>2. PICK p \in IF call.order = "deterministic_path_slot" THEN SortedBy(old, n) ELSE {Identity(n)} :
        storage' = [storage EXCEPT ![h][b] =
                      [i \in DOMAIN old |-> IF i <= n THEN old[p[i]] ELSE old[i]]]
  BY DEF end_compaction
<1>3. /\ h \in Handle /\ h \in exists /\ b \in Buffer /\ b # r /\ b = write_index(h)
      /\ n \in Nat /\ call.input_lane \in Nat /\ n <= call.input_lane
      /\ old \in Seq(Slot) /\ Len(old) \in Nat /\ Len(call.lane_states) \in Nat
      /\ Len(call.lane_states) <= Len(old)
      /\ call.input \in Seq(Slot)
  BY <1>1, CompactionBounds DEF IInv, CallInv, CallType
<1>4. /\ Len(call.input) = Len(call.lane_states)
      /\ n = Cardinality(kept)
      /\ \A k \in 1..n : \E i \in Nat : IsKth(kept, i, k) /\ old[k] = call.input[i]
  BY <1>1 DEF RefInv, CompactionInv
<1>5. kept \in SUBSET (1..Len(call.input)) /\ kept \in SUBSET Nat /\ IsFiniteSet(kept)
  <2>1. kept \subseteq 1..call.input_lane /\ IsFiniteSet(kept)
    BY <1>3, KeptFinite DEF Kept
  <2>2. QED BY <1>1, <1>3, <1>4, <2>1
<1>6. n <= Len(old) /\ DOMAIN old = 1..Len(old) BY <1>1, <1>3, LenProperties
<1>7. p \in [1..n -> 1..n] BY <1>3, OrderIsFunction
<1>8. Building[h] = call.input BY <1>1, <1>3 DEF Building
<1> HIDE DEF kept
<1>9. Channel!Surviving(call.input, kept) = left
  <2>1. \A k \in 1..n : call.input[Channel!Survivor(kept, k)] = old[k]
    BY <1>4, <1>5, SurvivorIsKth
  <2>2. Channel!Cardinality(kept) = n BY <1>4, SameCardinality
  <2> HIDE DEF n, old
  <2>3. QED BY <2>1, <2>2 DEF Channel!Surviving
<1> DEFINE cells == [i \in DOMAIN old |-> IF i <= n THEN old[p[i]] ELSE old[i]]
<1>10. /\ \A i \in 1..n : cells[i] = left[p[i]]
       /\ Len(cells) = Len(old)
  <2>1. \A i \in 1..n : i \in DOMAIN old /\ i <= n /\ p[i] \in 1..n
    BY <1>3, <1>6, <1>7
  <2>2. Len(cells) = Len(old) BY <1>3, <1>6, <1>7, ReorderedType
  <2>3. QED BY <2>1, <2>2
<1>11. storage' = [storage EXCEPT ![h][b] = cells] BY <1>2
<1> DEFINE sorted == [i \in 1..n |-> left[p[i]]]
<1> HIDE DEF cells, h, b, r, n, old, left
<1>12. /\ storage'[h][b] = cells /\ active_size'[h][b] = n
       /\ \A g \in Handle, c \in Buffer : ~(g = h /\ c = b) =>
            storage'[g][c] = storage[g][c] /\ active_size'[g][c] = active_size[g][c]
       /\ \A g \in Handle : g # h => storage'[g] = storage[g] /\ active_size'[g] = active_size[g]
       /\ \A g \in Handle, c \in Buffer : Len(storage'[g][c]) = Len(storage[g][c])
  BY <1>1, <1>3, <1>10, <1>11 DEF IInv, TypeOK, old
<1>13. \A g \in Handle : read_index[g] \in Buffer /\ 0 \in Buffer
  BY DEF IInv, TypeOK, Buffer
<1>14. Building'[h] = sorted /\ Published'[h] = Published[h]
  <2>1. PICK g \in Handle : g = h BY <1>3
  <2>2. PICK c \in Buffer : c = b BY <1>3
  <2>3. /\ Building'[g] = Entries(g, write_index(g))'
        /\ write_index(g)' = c
    BY <1>1, <1>3, <2>1, <2>2 DEF Building, write_index
  <2>4. Entries(g, write_index(g))' = [i \in 1..n |-> cells[i]]
    BY <1>12, <2>1, <2>2, <2>3 DEF Entries
  <2>5. Building'[h] = sorted BY <1>10, <2>1, <2>3, <2>4
  <2>6. PICK a \in Buffer : a = read_index[g] BY <1>13
  <2>7. /\ storage'[g][a] = storage[g][a] /\ active_size'[g][a] = active_size[g][a]
        /\ read_index'[g] = a
    BY <1>1, <1>3, <1>12, <2>1, <2>2, <2>6 DEF r
  <2>8. Entries(g, read_index[g])' = Entries(g, read_index[g])
    BY <2>6, <2>7 DEF Entries
  <2>9. Published'[g] = Published[g] BY <1>1, <2>8 DEF Published
  <2>10. QED BY <2>1, <2>5, <2>9
<1>16. \A g \in Handle : g # h => Building'[g] = Building[g] /\ Published'[g] = Published[g]
  <2> SUFFICES ASSUME NEW g \in Handle, g # h
               PROVE  Building'[g] = Building[g] /\ Published'[g] = Published[g]
    OBVIOUS
  <2>1. \A c : Entries(g, c)' = Entries(g, c) BY <1>12 DEF Entries
  <2>2. /\ Building[g] = Entries(g, write_index(g))
        /\ Building'[g] = Entries(g, write_index(g))'
    BY <1>1 DEF Building, h
  <2>3. write_index(g)' = write_index(g) /\ read_index'[g] = read_index[g]
    BY <1>1 DEF write_index
  <2>4. Entries(g, write_index(g))' = Entries(g, write_index(g))
    BY <1>12, <2>3 DEF Entries
  <2>5. Entries(g, read_index[g])' = Entries(g, read_index[g])
    BY <1>12, <2>3 DEF Entries
  <2>6. QED BY <1>1, <2>2, <2>4, <2>5 DEF Published
<1>17. \A g \in Handle : Room'[g] = Room[g] BY <1>12, <1>13 DEF Room
<1>18. /\ Room' = Room /\ Published' = Published
       /\ Building' = [Building EXCEPT ![h] = sorted]
  BY <1>3, <1>14, <1>16, <1>17, ChannelFunctions, Same, Updated
<1>19. CASE call.order = "deterministic_path_slot"
  <2>1. /\ \A i, j \in 1..n : i # j => p[i] # p[j]
        /\ \A i, j \in 1..n : i < j => old[p[i]] <= old[p[j]]
    BY <1>2, <1>19 DEF SortedBy
  <2>2. left = [k \in 1..n |-> left[k]] /\ DOMAIN left = 1..n BY DEF left
  <2>3. Channel!SameEntries(sorted, left) BY <1>3, <1>7, <2>1, <2>2, SameSlots
  <2>4. \A i \in 1..n : sorted[i] = old[p[i]] /\ sorted[i] \in Slot
    BY <1>3, <1>6, <1>7, ElementOfSeq DEF left
  <2>5. Channel!Ascending(sorted) BY <2>1, <2>4 DEF Channel!Ascending
  <2>6. sorted \in [DOMAIN left -> Slot] BY <2>2, <2>4
  <2>7. DOMAIN Building[h] = 1..Len(call.input) BY <1>3, <1>8, LenProperties
  <2> HIDE DEF sorted
  <2>8. Channel!Compact(h)
    BY <1>1, <1>3, <1>5, <1>8, <1>9, <1>14, <1>18, <2>3, <2>5, <2>6, <2>7 DEF Channel!Compact
  <2>9. QED BY <1>3, <2>8
<1>20. CASE call.order # "deterministic_path_slot"
  <2>1. \A i \in 1..n : p[i] = i BY <1>2, <1>20 DEF Identity
  <2>2. sorted = left BY <2>1 DEF left
  <2>3. DOMAIN Building[h] = 1..Len(call.input) BY <1>3, <1>8, LenProperties
  <2> HIDE DEF sorted
  <2>4. Channel!Compact(h)
    BY <1>1, <1>3, <1>5, <1>8, <1>9, <1>14, <1>18, <2>2, <2>3 DEF Channel!Compact
  <2>5. QED BY <1>3, <2>4
<1>21. QED BY <1>19, <1>20

------------------------------------------------------
LEMMA ChannelInit == Init => Channel!Init
<1> SUFFICES ASSUME Init PROVE Channel!Init
  OBVIOUS
<1> USE DEF Init
<1>1. Len(EmptyStorage[0]) = 0 BY DEF EmptyStorage, Buffer
<1> HIDE DEF EmptyStorage
<1>2. Room = [h \in Handle |-> 0] BY <1>1 DEF Room
<1>3. Published = [h \in Handle |-> {}] BY DEF Published
<1>4. \A h \in Handle : Building[h] = <<>>
  <2> TAKE h \in Handle
  <2>1. Building[h] = Entries(h, 1) BY DEF Building, write_index
  <2>2. active_size[h][1] = 0 /\ Entries(h, 1) = [i \in 1..active_size[h][1] |-> storage[h][1][i]]
    BY DEF NoEntries, Entries, Buffer
  <2>3. QED BY <2>1, <2>2, NothingShown
<1>5. Building = [h \in Handle |-> <<>>] BY <1>4 DEF Building
<1>6. QED BY <1>2, <1>3, <1>5 DEF Channel!Init

LEMMA ChannelNext ==
  ASSUME IInv, RefInv, [Next]_vars, IInv', RefInv'
  PROVE  [Channel!Next]_(Channel!vars)
<1>1. ASSUME NEW h \in Handle, create(h) PROVE Channel!Next
  BY <1>1, CreateRefines DEF Channel!Next
<1>2. ASSUME NEW h \in Handle, NEW slot \in Slot, push_write(h, slot) PROVE Channel!Next
  <2>1. <<slot>> \in Channel!Batch
    <3>1. MaxBatch \in Nat /\ 1 \in 0..MaxBatch BY QueueAssumption
    <3>2. <<slot>> \in [1..1 -> Slot] OBVIOUS
    <3>3. QED BY <3>1, <3>2 DEF Channel!Batch
  <2>2. Channel!Accept(h, <<slot>>) BY <1>2, PushPushes, PushRefines
  <2>3. QED BY <2>1, <2>2 DEF Channel!Next
<1>3. ASSUME NEW h \in Handle, NEW slots \in Batch, push_write_batch(h, slots)
      PROVE  Channel!Next
  <2>1. slots \in Channel!Batch BY DEF Batch, Channel!Batch
  <2>2. Channel!Accept(h, slots) BY <1>3, PushBatchPushes, PushRefines
  <2>3. QED BY <2>1, <2>2 DEF Channel!Next
<1>4. ASSUME NEW h \in Handle, NEW lane_states, NEW order,
             begin_compaction(h, lane_states, order)
      PROVE  UNCHANGED Channel!vars
  BY <1>4, BeginRefines
<1>5. CASE compact_lane
  BY <1>5, TurnRefines
<1>6. CASE end_compaction
  BY <1>6, EndRefines DEF Channel!Next
<1>7. ASSUME NEW h \in Handle, publish_write_buffer(h) PROVE Channel!Next
  BY <1>7, PublishRefines DEF Channel!Next
<1>8. ASSUME NEW h \in Handle, release_read_buffer(h) PROVE Channel!Next
  BY <1>8, ReleaseRefines DEF Channel!Next
<1>9. ASSUME NEW h \in Handle, NEW to \in Handle, move(h, to) PROVE Channel!Next
  BY <1>9, MoveRefines DEF Channel!Next
<1>10. ASSUME NEW h \in Handle, destroy(h) PROVE Channel!Next
  BY <1>10, DestroyRefines DEF Channel!Next
<1>11. CASE UNCHANGED <<buffers, call>>
  BY <1>11 DEF Channel!vars, buffers, Room, Building, Published, Entries, write_index
<1>12. (\E h \in Handle : pending_read_entries(h)) \/ read_entry \/ drop_view \/ UNCHANGED vars
         => UNCHANGED <<buffers, call>>
  BY DEF pending_read_entries, read_entry, drop_view, vars, buffers
<1>13. QED BY <1>1, <1>2, <1>3, <1>4, <1>5, <1>6, <1>7, <1>8, <1>9, <1>10, <1>11, <1>12 DEF Next

\* For every capacity, batch bound and set of objects, the two buffers with
\* their in-place compaction implement the generation channel.
THEOREM SpecChannel == Spec => ChannelSpec
<1>1. Init => IInv /\ RefInv /\ Channel!Init BY InitIInv, RefInit, ChannelInit
<1>2. IInv /\ RefInv /\ [Next]_vars => RefInv' BY RefStep
<1>3. IInv /\ RefInv /\ IInv' /\ RefInv' /\ [Next]_vars => [Channel!Next]_(Channel!vars)
  BY ChannelNext
<1>4. QED BY <1>1, <1>2, <1>3, SpecIInv, PTL DEF Spec, ChannelSpec, Channel!Spec
=============================================================================
