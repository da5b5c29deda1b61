--------------------- MODULE WavefrontTransportProofs ---------------------
(***************************************************************************)
(* The wavefront transports for every batch, capacity, depth limit and     *)
(* scene.                                                                  *)
(*                                                                         *)
(* On the CPU: no stage fails on what another one left, no path is lost or *)
(* traced twice, and each slot makes the steps of SceneMisPathLoop on its  *)
(* own path. found(k, q) and left(k, q) say what a runtime q is when the   *)
(* kernel of stage k finds it and when it leaves it. First every kernel is *)
(* shown to lead from the one to the other, as an operator on runtimes;    *)
(* then the steps of the lanes and of the caller are shown to keep the     *)
(* invariant, which says where each slot is; then each of these steps is   *)
(* mapped to a step of the scalar loop, or to none.                        *)
(*                                                                         *)
(* On the device: nothing a trace leaves in its workspace, however it      *)
(* ends, contradicts a later one, and each trace makes the steps of the    *)
(* same scalar loop. The last parts prove it along the same line, of       *)
(* threads and a host that audits their outcomes.                          *)
(***************************************************************************)
EXTENDS MCCudaWavefrontTransport, SequenceTheorems, FiniteSetTheorems,
        WellFoundedInduction, TLAPS

(* The scalar loop's theorems, of the path in each slot. *)
Loop == INSTANCE SceneMisPathLoopProofs WITH
            Paths <- Slot,
            path  <- [s \in Slot |-> scalar_path(s)]

------------------------------------------------------
(* Induction over a bounded range of numbers, from the well-founded order
   of the natural numbers: what holds of 0, and of n + 1 with n, holds. *)
Before == {pair \in Nat \X Nat : pair[1] < pair[2]}

(* A set of numbers that is not empty has a least one. *)
LEMMA LeastElement ==
  ASSUME NEW A \in SUBSET Nat, A # {}
  PROVE  \E n \in A : \A m \in A : n <= m
<1>1. IsWellFoundedOn(Before, Nat) BY NatLessThanWellFounded DEF OpToRel, Before
<1>2. PICK n \in A : \A m \in A : <<m, n>> \notin Before BY <1>1, WFMin
<1>3. \A m \in A : m \in Nat /\ n \in Nat /\ (<<m, n>> \in Before <=> m < n)
  BY DEF Before
<1>4. \A m \in A : n <= m
  <2> TAKE m \in A
  <2>1. m \in Nat /\ n \in Nat /\ ~(m < n) BY <1>2, <1>3
  <2>2. QED BY <2>1
<1>5. QED BY <1>4

(* Induction over 0 .. N: a set that holds 0, and n + 1 whenever it holds
   n, is all of the range. *)
LEMMA UpTo ==
  ASSUME NEW N \in Nat, NEW A \in SUBSET (0 .. N), 0 \in A,
         \A n \in 0 .. N : n \in A /\ n < N => n + 1 \in A
  PROVE  A = 0 .. N
<1> DEFINE rest == (0 .. N) \ A
<1>1. SUFFICES ASSUME rest # {} PROVE FALSE
  OBVIOUS
<1>2. PICK n \in rest : \A m \in rest : n <= m
  <2>1. rest \in SUBSET Nat OBVIOUS
  <2> HIDE DEF rest
  <2>2. QED BY <1>1, <2>1, LeastElement
<1>3. n \in 0 .. N /\ n # 0 /\ n - 1 \in 0 .. N /\ n - 1 < N /\ ~(n <= n - 1)
  OBVIOUS
<1>4. n - 1 \in A BY <1>2, <1>3
<1>5. (n - 1) + 1 \in A BY <1>3, <1>4
<1>6. QED BY <1>3, <1>5

------------------------------------------------------
(* The entries a stage routes to another queue. *)
distinct(entries) == \A i, j \in DOMAIN entries : entries[i] = entries[j] => i = j

step(entries, wanted, before, n) ==
    IF entries[n] \in wanted THEN Append(before, entries[n]) ELSE before

filters(entries, wanted, m, f) ==
    f = [n \in 0 .. m |-> IF n = 0 THEN << >>
                          ELSE IF entries[n] \in wanted THEN Append(f[n - 1], entries[n])
                          ELSE f[n - 1]]

(* The recursive function that fills a queue entry by entry exists for
   every number of entries. *)
LEMMA FilterExists ==
  ASSUME NEW entries, NEW wanted, NEW N \in Nat
  PROVE  \E f : filters(entries, wanted, N, f)
<1> DEFINE A == {m \in 0 .. N : \E f : filters(entries, wanted, m, f)}
<1>1. 0 \in A
  <2>1. filters(entries, wanted, 0, [n \in 0 .. 0 |-> << >>]) BY DEF filters
  <2>2. QED BY <2>1
<1>2. ASSUME NEW m \in 0 .. N, m \in A, m < N
      PROVE  m + 1 \in A
  <2>1. PICK f : filters(entries, wanted, m, f) BY <1>2
  <2> DEFINE g == [n \in 0 .. (m + 1) |->
                      IF n = m + 1 THEN IF entries[n] \in wanted THEN Append(f[m], entries[n])
                                                                 ELSE f[m]
                                   ELSE f[n]]
  <2>2. \A n \in 0 .. m : g[n] = f[n] OBVIOUS
  <2>3. \A n \in 0 .. m : f[n] = IF n = 0 THEN << >>
                                 ELSE IF entries[n] \in wanted THEN Append(f[n - 1], entries[n])
                                 ELSE f[n - 1]
    BY <2>1 DEF filters
  <2>4. \A n \in 0 .. m : n # 0 => n - 1 \in 0 .. m OBVIOUS
  <2>5. g[m + 1] = IF entries[m + 1] \in wanted THEN Append(g[m], entries[m + 1]) ELSE g[m]
    BY <2>2
  <2>6. \A n \in 0 .. (m + 1) :
           g[n] = IF n = 0 THEN << >>
                  ELSE IF entries[n] \in wanted THEN Append(g[n - 1], entries[n])
                  ELSE g[n - 1]
    <3> TAKE n \in 0 .. (m + 1)
    <3>1. CASE n = m + 1
      BY <3>1, <2>5
    <3>2. CASE n # m + 1
      <4>1. n \in 0 .. m BY <3>2
      <4>2. g[n] = f[n] /\ (n # 0 => g[n - 1] = f[n - 1]) BY <4>1, <2>2, <2>4
      <4>3. QED BY <4>1, <4>2, <2>3
    <3>3. QED BY <3>1, <3>2
  <2>7. g = [n \in 0 .. (m + 1) |-> g[n]] OBVIOUS
  <2> HIDE DEF g
  <2>8. filters(entries, wanted, m + 1, g) BY <2>6, <2>7 DEF filters
  <2>9. QED BY <1>2, <2>8
<1>3. A = 0 .. N BY <1>1, <1>2, UpTo
<1>4. QED BY <1>3

(* What fills a queue entry by entry holds the wanted entries and no
   others, without repetition when the entries have none, and is no longer
   than they are. *)
LEMMA FilledEntries ==
  ASSUME NEW S, NEW entries \in Seq(S), NEW wanted, NEW F,
         filters(entries, wanted, Len(entries), F)
  PROVE  LET e == F[Len(entries)]
         IN  /\ e \in Seq(S)
             /\ Len(e) <= Len(entries)
             /\ ToSet(e) = ToSet(entries) \cap wanted
             /\ distinct(entries) => distinct(e)
<1> DEFINE N == Len(entries)
<1>1. N \in Nat /\ DOMAIN entries = 1 .. N BY LenProperties
<1>2. filters(entries, wanted, N, F) OBVIOUS
<1> HIDE DEF N
<1>4. /\ F[0] = << >>
      /\ \A n \in 1 .. N : F[n] = IF entries[n] \in wanted THEN Append(F[n - 1], entries[n])
                                                           ELSE F[n - 1]
  <2>1. \A n \in 0 .. N : F[n] = IF n = 0 THEN << >>
                                 ELSE IF entries[n] \in wanted THEN Append(F[n - 1], entries[n])
                                 ELSE F[n - 1]
    BY <1>2 DEF filters
  <2>2. 0 \in 0 .. N /\ \A n \in 1 .. N : n \in 0 .. N /\ n # 0 BY <1>1
  <2>3. QED BY <2>1, <2>2
<1> DEFINE good(n) == /\ F[n] \in Seq(S)
                      /\ Len(F[n]) <= n
                      /\ ToSet(F[n]) = {entries[i] : i \in 1 .. n} \cap wanted
                      /\ distinct(entries) => distinct(F[n])
           A == {n \in 0 .. N : good(n)}
<1>5. 0 \in A
  <2>1. good(0) BY <1>4 DEF ToSet, distinct
  <2>2. QED BY <1>1, <2>1
<1>6. ASSUME NEW n \in 0 .. N, n \in A, n < N
      PROVE  n + 1 \in A
  <2> DEFINE e == entries[n + 1]
  <2>1. good(n) /\ n \in Nat /\ n + 1 \in 1 .. N /\ n + 1 \in 0 .. N /\ (n + 1) - 1 = n
    BY <1>1, <1>6
  <2>2. e \in S /\ \A i \in 1 .. n : i \in 1 .. N BY <1>1, <2>1, ElementOfSeq
  <2>3. {entries[i] : i \in 1 .. (n + 1)} = {entries[i] : i \in 1 .. n} \cup {e}
    BY <2>1
  <2>4. CASE e \in wanted
    <3>1. F[n + 1] = Append(F[n], e) BY <1>4, <2>1, <2>4
    <3>2. /\ Append(F[n], e) \in Seq(S)
          /\ Len(Append(F[n], e)) = Len(F[n]) + 1
          /\ \A i \in 1 .. Len(F[n]) : Append(F[n], e)[i] = F[n][i]
          /\ Append(F[n], e)[Len(F[n]) + 1] = e
          /\ Len(F[n]) \in Nat
          /\ DOMAIN F[n] = 1 .. Len(F[n])
          /\ DOMAIN Append(F[n], e) = 1 .. (Len(F[n]) + 1)
      BY <2>1, <2>2, AppendProperties, LenProperties
    <3>3. ToSet(Append(F[n], e)) = ToSet(F[n]) \cup {e}
      BY <3>2, SMTT(20) DEF ToSet
    <3>4. ASSUME distinct(entries) PROVE distinct(Append(F[n], e))
      <4>1. e \notin ToSet(F[n])
        <5>1. \A i \in 1 .. n : entries[i] # e
          BY <1>1, <2>1, <2>2, <3>4 DEF distinct
        <5>2. QED BY <2>1, <5>1
      <4>2. \A i \in 1 .. Len(F[n]) : F[n][i] # e BY <3>2, <4>1 DEF ToSet
      <4>3. distinct(F[n]) BY <2>1, <3>4
      <4> DEFINE m == Len(F[n])
                 w == Append(F[n], e)
      <4>4. SUFFICES ASSUME NEW i \in DOMAIN w, NEW j \in DOMAIN w, w[i] = w[j]
                     PROVE  i = j
        BY DEF distinct
      <4>5. /\ m \in Nat /\ i \in 1 .. (m + 1) /\ j \in 1 .. (m + 1)
            /\ \A k \in 1 .. m : w[k] = F[n][k] /\ F[n][k] # e
            /\ w[m + 1] = e
        BY <3>2, <4>2
      <4>6. \A k, l \in 1 .. m : F[n][k] = F[n][l] => k = l
        BY <3>2, <4>3 DEF distinct
      <4> HIDE DEF m, w
      <4>7. QED BY <4>4, <4>5, <4>6
    <3>5. good(n + 1) BY <2>1, <2>3, <2>4, <3>1, <3>2, <3>3, <3>4
    <3>6. QED BY <2>1, <3>5
  <2>5. CASE e \notin wanted
    <3>1. F[n + 1] = F[n] BY <1>4, <2>1, <2>5
    <3>2. good(n + 1) BY <2>1, <2>3, <2>5, <3>1, LenProperties
    <3>3. QED BY <2>1, <3>2
  <2>6. QED BY <2>4, <2>5
<1>7. A = 0 .. N BY <1>1, <1>5, <1>6, UpTo
<1>8. good(N)
  <2> HIDE DEF good
  <2>1. N \in A BY <1>1, <1>7
  <2>2. QED BY <2>1
<1>9. ToSet(entries) = {entries[i] : i \in 1 .. N} BY <1>1 DEF ToSet
<1>10. QED BY <1>8, <1>9 DEF N

(* filtered(entries, wanted) is that queue. *)
LEMMA FilteredEntries ==
  ASSUME NEW S, NEW entries \in Seq(S), NEW wanted
  PROVE  /\ filtered(entries, wanted) \in Seq(S)
         /\ Len(filtered(entries, wanted)) <= Len(entries)
         /\ ToSet(filtered(entries, wanted)) = ToSet(entries) \cap wanted
         /\ distinct(entries) => distinct(filtered(entries, wanted))
<1> DEFINE F == CHOOSE f : filters(entries, wanted, Len(entries), f)
<1>1. Len(entries) \in Nat BY LenProperties
<1>2. filters(entries, wanted, Len(entries), F) BY <1>1, FilterExists
<1>3. filtered(entries, wanted) = F[Len(entries)] BY DEF filtered, filters
<1> HIDE DEF F
<1>4. QED BY <1>2, <1>3, FilledEntries

------------------------------------------------------
(* The events of a path and its bookkeeping. The transport and the scalar
   loop share PathDepthLimits: what is proved of the one's operators holds
   of the other's. *)
LEMMA SameBookkeeping ==
  /\ Loop!Category = Category /\ Loop!Flag = Flag
  /\ Loop!SurfaceEvent = SurfaceEvent /\ Loop!NoCounters = NoCounters
  /\ Loop!Counters = [Category -> Nat]
  /\ \A c : Loop!path_depth_total(c) = path_depth_total(c)
  /\ \A c, n : Loop!validate_path_depth_state(c, n) <=> validate_path_depth_state(c, n)
  /\ \A c, e : Loop!accepted(c, e) <=> accepted(c, e)
  /\ \A c, e : Loop!advanced_counters(c, e) = advanced_counters(c, e)
  /\ \A f, e : Loop!next_delta_flags(f, e) = next_delta_flags(f, e)
  /\ \A c, f : Loop!path_state_valid(c, f) <=> path_state_valid(c, f)
<1>1. /\ Loop!Category = Category /\ Loop!Flag = Flag
      /\ Loop!SurfaceEvent = SurfaceEvent /\ Loop!NoCounters = NoCounters
      /\ Loop!Counters = [Category -> Nat]
  BY DEF Category, Flag, SurfaceEvent, NoCounters, Family, Direction, Loop!Category,
    Loop!Flag, Loop!SurfaceEvent, Loop!NoCounters, Loop!Family, Loop!Direction, Loop!Counters
<1>2. /\ \A c : Loop!path_depth_total(c) = path_depth_total(c)
      /\ \A c : Loop!surface_total(c) = surface_total(c)
      /\ \A c : Loop!non_delta_depth(c) = non_delta_depth(c)
  BY DEF path_depth_total, surface_total, non_delta_depth, Loop!path_depth_total,
    Loop!surface_total, Loop!non_delta_depth
<1>3. \A c : Loop!validate_path_depth_counters(c) <=> validate_path_depth_counters(c)
  BY <1>2 DEF validate_path_depth_counters, Loop!validate_path_depth_counters
<1>4. \A c, n : Loop!validate_path_depth_state(c, n) <=> validate_path_depth_state(c, n)
  BY <1>1, <1>2, <1>3 DEF validate_path_depth_state, Loop!validate_path_depth_state
<1>5. \A c, e : Loop!advanced_counters(c, e) = advanced_counters(c, e)
  BY <1>1 DEF advanced_counters, Loop!advanced_counters
<1>6. \A f, e : Loop!next_delta_flags(f, e) = next_delta_flags(f, e)
  BY DEF next_delta_flags, Loop!next_delta_flags, is_delta_event, Loop!is_delta_event
<1>7. \A c, f : Loop!path_state_valid(c, f) <=> path_state_valid(c, f)
  BY <1>2, <1>3 DEF path_state_valid, Loop!path_state_valid
<1>8. \A c, e : Loop!accepted(c, e) <=> accepted(c, e)
  BY <1>1, <1>2, <1>4, <1>5 DEF accepted, Loop!accepted, blocked_limits, Loop!blocked_limits,
    depth_exhausted, Loop!depth_exhausted
<1>9. QED BY <1>1, <1>2, <1>4, <1>5, <1>6, <1>7, <1>8

(* The assumptions of the scalar loop hold of the loop each slot follows. *)
LEMMA LoopAssumptions ==
  /\ MaxDepth \in Nat \ {0}
  /\ DepthLimits \in [Loop!Category -> 0 .. MaxDepth]
  /\ BlackInputs \subseteq Slot
  /\ Surfaces \subseteq SUBSET Loop!SurfaceEvent
  /\ FirstEligibleDepth \in 0 .. MaxDepth
  /\ None \notin Surfaces
  BY SameBookkeeping, DepthAssumption, TransportAssumption DEF Slot

(* The counters and flags are those of the events, and a valid PathState. *)
booked(events, c, flags) ==
    /\ c \in [Category -> Nat] /\ flags \in SUBSET Flag
    /\ c = counters_of(events)
    /\ flags = flags_of(events)
    /\ validate_path_depth_state(c, Len(events))
    /\ path_state_valid(c, flags)

(* Counters and flags agree with events in the sense of the scalar loop
   exactly when they are those the transport computes from them. *)
LEMMA CountersAgree ==
  ASSUME NEW events \in Seq(SurfaceEvent), NEW c \in [Category -> Nat],
         NEW flags \in SUBSET Flag
  PROVE  Loop!agree(events, c, flags) <=> c = counters_of(events) /\ flags = flags_of(events)
<1>1. Last(events) = events[Len(events)] BY DEF Last
<1>2. (\A k \in Category : c[k] = Cardinality({i \in DOMAIN events : k \in events[i]}))
         <=> c = counters_of(events)
  BY DEF counters_of
<1>3. /\ ("previous_bounce_was_delta" \in flags_of(events)
             <=> events # << >> /\ is_delta_event(events[Len(events)]))
      /\ ("any_non_delta_bounces" \in flags_of(events)
             <=> \E i \in DOMAIN events : ~is_delta_event(events[i]))
      /\ flags_of(events) \in SUBSET Flag
  BY <1>1 DEF flags_of, Flag
<1>4. \A f \in SUBSET Flag : f = flags
         <=> /\ "previous_bounce_was_delta" \in f <=> "previous_bounce_was_delta" \in flags
             /\ "any_non_delta_bounces" \in f <=> "any_non_delta_bounces" \in flags
  <2> TAKE f \in SUBSET Flag
  <2>1. f = flags <=> \A x \in Flag : x \in f <=> x \in flags OBVIOUS
  <2>2. QED BY <2>1, Zenon DEF Flag
<1>5. flags = flags_of(events)
        <=> /\ "previous_bounce_was_delta" \in flags
                 <=> events # << >> /\ is_delta_event(events[Len(events)])
            /\ "any_non_delta_bounces" \in flags
                 <=> \E i \in DOMAIN events : ~is_delta_event(events[i])
  BY <1>3, <1>4, Zenon
<1>6. \A S : Loop!Cardinality(S) = Cardinality(S)
  BY DEF Cardinality, Loop!Cardinality
<1>7. \A e : Loop!is_delta_event(e) <=> is_delta_event(e)
  BY DEF is_delta_event, Loop!is_delta_event
<1>8. QED BY <1>2, <1>5, <1>6, <1>7, SameBookkeeping DEF Loop!agree

(* A path without events is booked with every counter at zero and no flag. *)
LEMMA BookedNothing == booked(<< >>, NoCounters, {})
<1>1. << >> \in Seq(SurfaceEvent) /\ Len(<< >>) = 0 OBVIOUS
<1>2. NoCounters \in [Category -> Nat] /\ {} \in SUBSET Flag BY DEF NoCounters
<1>3. Loop!agree(<< >>, NoCounters, {})
  BY Loop!NothingYet, LoopAssumptions, SameBookkeeping
<1>4. \A k \in Category : NoCounters[k] = 0 /\ DepthLimits[k] \in Nat
  BY DepthAssumption DEF NoCounters
<1>5. /\ path_depth_total(NoCounters) = 0 /\ surface_total(NoCounters) = 0
      /\ non_delta_depth(NoCounters) = 0 /\ NoCounters["transmission"] = 0
  BY <1>4 DEF path_depth_total, surface_total, non_delta_depth, Category
<1>6. MaxDepth \in Nat BY DepthAssumption
<1>7. validate_path_depth_counters(NoCounters)
  BY <1>5, <1>6 DEF validate_path_depth_counters
<1>8. validate_path_depth_state(NoCounters, 0)
  BY <1>4, <1>5, <1>7 DEF validate_path_depth_state
<1>9. path_state_valid(NoCounters, {}) BY <1>5, <1>7 DEF path_state_valid
<1>10. QED BY <1>1, <1>2, <1>3, <1>8, <1>9, CountersAgree DEF booked

(* An allowed event counted and flagged keeps the events, the counters and
   the flags in step: record_scatter and validate_next_event agree. *)
LEMMA BookedScatter ==
  ASSUME NEW events \in Seq(SurfaceEvent), NEW c, NEW flags, booked(events, c, flags),
         NEW event \in SurfaceEvent, accepted(c, event)
  PROVE  /\ booked(Append(events, event), advanced_counters(c, event),
                   next_delta_flags(flags, event))
         /\ path_depth_total(advanced_counters(c, event)) = Len(Append(events, event))
         /\ path_depth_total(c) = Len(events)
<1> DEFINE n == advanced_counters(c, event)
           f == next_delta_flags(flags, event)
<1>1. /\ c \in [Category -> Nat] /\ flags \in SUBSET Flag /\ path_state_valid(c, flags)
      /\ validate_path_depth_state(c, Len(events))
      /\ Loop!agree(events, c, flags)
  BY CountersAgree DEF booked
<1>2. /\ n \in [Category -> Nat] /\ f \in SUBSET Flag
      /\ path_depth_total(n) = path_depth_total(c) + 1
      /\ validate_path_depth_state(n, path_depth_total(c) + 1)
      /\ path_state_valid(n, f)
  BY <1>1, Loop!AcceptedKeepsState, LoopAssumptions, SameBookkeeping, SMTT(20)
<1>3. Loop!agree(Append(events, event), n, f)
  BY <1>1, Loop!OneMore, LoopAssumptions, SameBookkeeping
<1>4. /\ Append(events, event) \in Seq(SurfaceEvent)
      /\ Len(Append(events, event)) = Len(events) + 1
  BY AppendProperties
<1>5. path_depth_total(c) = Len(events) BY <1>1 DEF validate_path_depth_state
<1>6. QED BY <1>2, <1>3, <1>4, <1>5, CountersAgree DEF booked
------------------------------------------------------
(* What a runtime is between two steps, wherever its slot is. *)
Radiance == Seq({"environment", "emission", "direct"} \X Nat)

RuntimePath == [initialized            : BOOLEAN,
                beta                   : Beta,
                radiance               : Radiance,
                depth_counters         : [Category -> Nat],
                delta_flags            : SUBSET Flag,
                hit                    : BOOLEAN,
                surface                : Surfaces \cup {None},
                pending_shadow         : Shadow \cup {None},
                pending_termination    : Ending \cup {None},
                continuation_requested : BOOLEAN,
                result                 : Result \cup {None},
                closure_samples        : Nat,
                light_samples          : Nat,
                shadow_queries         : Nat]

directs(radiance) == {i \in DOMAIN radiance : radiance[i][1] = "direct"}

kept(q) ==
    /\ q \in RuntimePath
    /\ booked(q.beta.events, q.depth_counters, q.delta_flags)
    /\ Len(q.beta.events) <= q.closure_samples
    /\ q.closure_samples <= Len(q.beta.events) + 1
    /\ q.light_samples <= q.closure_samples
    /\ q.shadow_queries <= q.light_samples
    /\ IsFiniteSet(directs(q.radiance))
    /\ Cardinality(directs(q.radiance)) <= q.shadow_queries

live(q) == kept(q) /\ q.initialized /\ q.result = None

(* On its way to a vertex, or at it before it is shaded. *)
traveling(q) ==
    /\ live(q)
    /\ q.pending_shadow = None /\ q.pending_termination = None
    /\ ~q.continuation_requested
    /\ q.closure_samples = Len(q.beta.events)

shadable(q) == traveling(q) /\ q.hit /\ q.surface \in Surfaces

(* Behind the shading: it goes on, it ends, or it waits for a shadow ray. *)
bouncing(q) ==
    /\ live(q)
    /\ q.pending_shadow = None /\ q.pending_termination = None
    /\ q.continuation_requested
    /\ q.closure_samples = Len(q.beta.events)

ending(q) ==
    /\ live(q)
    /\ q.pending_shadow = None /\ q.pending_termination # None
    /\ ~q.continuation_requested

missed(q, b) ==
    /\ q.beta = b
    /\ q.depth_counters = counters_of(b.events) /\ q.delta_flags = flags_of(b.events)
    /\ q.pending_termination = [reason |-> "outside_bsdf_support", blocked |-> {}]
    /\ ~q.continuation_requested

bounced(q, b, event) ==
    /\ q.beta.events = Append(b.events, event)
    /\ q.depth_counters = advanced_counters(counters_of(b.events), event)
    /\ q.delta_flags = next_delta_flags(flags_of(b.events), event)
    /\ q.closure_samples = Len(q.beta.events)
    /\ \/ /\ q.beta.black /\ ~q.continuation_requested
          /\ q.pending_termination = [reason |-> "zero_throughput", blocked |-> {}]
       \/ /\ ~q.beta.black /\ q.continuation_requested
          /\ q.pending_termination = None
       \/ /\ ~q.beta.black /\ ~q.continuation_requested
          /\ q.pending_termination = [reason |-> "russian_roulette", blocked |-> {}]
          /\ eligible(path_depth_total(q.depth_counters))

(* The closure sample taken with throughput b at a surface: none, or an
   event the limits allow. *)
scattered_from(n, b, surface) ==
    \/ missed(n, b)
    \/ \E event \in allowed_events(counters_of(b.events), surface) : bounced(n, b, event)

(* The throughput kept for the shadow query is the one that arrived at the
   surface, and the path has scattered there by an event the limits allow. *)
lit(q) ==
    /\ live(q)
    /\ q.pending_shadow # None
    /\ q.surface \in Surfaces
    /\ q.shadow_queries < q.light_samples
    /\ LET b == q.pending_shadow.beta
       IN  /\ booked(b.events, counters_of(b.events), flags_of(b.events))
           /\ scattered_from(q, b, q.surface)

finished(q) ==
    /\ kept(q) /\ q.result # None
    /\ q.pending_shadow = None /\ q.pending_termination = None
    /\ ~q.continuation_requested

(* What the kernel of stage k finds, and what it leaves. *)
found(k, q) ==
    CASE k = "camera"       -> q = Runtime
      [] k = "ray"          -> traveling(q)
      [] k = "miss"         -> traveling(q) /\ ~q.hit
      [] k = "hit"          -> traveling(q) /\ q.hit
      [] k = "shade"        -> shadable(q)
      [] k = "shadow"       -> lit(q)
      [] k = "continuation" -> bouncing(q)

left(k, q) ==
    CASE k = "camera"       -> traveling(q)
      [] k = "ray"          -> traveling(q)
      [] k = "miss"         -> finished(q)
      [] k = "hit"          -> shadable(q)
      [] k = "shade"        -> lit(q) \/ bouncing(q) \/ ending(q)
      [] k = "shadow"       -> bouncing(q) \/ ending(q)
      [] k = "continuation" -> traveling(q)

------------------------------------------------------
(* The queues that can hold an entry while the caller is at stage k. *)
in_use(k) ==
    CASE k = "miss"   -> {"miss", "hit"}
      [] k = "shadow" -> {"shadow", "continuation"}
      [] OTHER        -> {k}

RuntimeInv == path \in [Slot -> RuntimePath] /\ \A s \in Slot : kept(path[s])

QueueInv ==
    /\ queue \in [Kind -> Seq(Slot)]
    /\ \A k \in Kind : distinct(queue[k])

StatsInv ==
    /\ stats \in [Kind -> [peak_size : Nat, dispatch_count : Nat,
                           input_lanes : Nat, stage_lanes : Nat]]
    /\ validate_queue_statistics

(* Each slot is in one queue or finished, and is there what the kernel of
   that stage finds or, behind it, leaves. *)
StageInv ==
    stage \in Kind =>
        /\ \A k, l \in Kind : k # l => ToSet(queue[k]) \cap ToSet(queue[l]) = {}
        /\ \A k \in Kind \ in_use(stage) : queue[k] = << >>
        /\ \A s \in Slot : finished(path[s]) \/ \E k \in Kind : s \in ToSet(queue[k])
        /\ \A k \in Kind : \A s \in ToSet(queue[k]) :
              IF k = stage /\ running /\ s \notin lanes
              THEN left(k, path[s]) \/ (failure # "none" /\ found(k, path[s]))
              ELSE found(k, path[s])

PhaseInv ==
    /\ stage \in Kind \cup {"begin", "returned", "failed"}
    /\ running \in BOOLEAN
    /\ running => stage \in Kind /\ lanes \subseteq ToSet(queue[stage])
    /\ ~running => lanes = {}
    /\ running => failure \in {"none", "data"}
    /\ ~running /\ stage # "failed" => failure = "none"
    /\ failure \in {"none", "refused", "unavailable", "data"}
    /\ stage = "begin" => path = [s \in Slot |-> Runtime] /\ queue = [k \in Kind |-> << >>]

IInv == RuntimeInv /\ QueueInv /\ StatsInv /\ StageInv /\ PhaseInv
------------------------------------------------------
(* Runtimes. A contribution of light makes one more direct entry, or none. *)
LEMMA DirectsGrow ==
  ASSUME NEW r \in Radiance, IsFiniteSet(directs(r)),
         NEW kind \in {"environment", "emission", "direct"}, NEW n \in Nat
  PROVE  /\ Append(r, <<kind, n>>) \in Radiance
         /\ IsFiniteSet(directs(Append(r, <<kind, n>>)))
         /\ Cardinality(directs(r)) \in Nat
         /\ Cardinality(directs(Append(r, <<kind, n>>)))
              = Cardinality(directs(r)) + (IF kind = "direct" THEN 1 ELSE 0)
<1> DEFINE m == Len(r)
           a == Append(r, <<kind, n>>)
<1>1. /\ a \in Radiance
      /\ m \in Nat /\ DOMAIN r = 1 .. m /\ DOMAIN a = 1 .. (m + 1)
      /\ \A i \in 1 .. m : a[i] = r[i]
      /\ a[m + 1] = <<kind, n>>
  BY AppendProperties, LenProperties DEF Radiance
<1> HIDE DEF a
<1>2. a[m + 1][1] = kind BY <1>1
<1>3. directs(a) = IF kind = "direct" THEN directs(r) \cup {m + 1} ELSE directs(r)
  <2>1. 1 .. (m + 1) = (1 .. m) \cup {m + 1} /\ m + 1 \notin 1 .. m BY <1>1
  <2> HIDE DEF m
  <2>2. QED BY <1>1, <1>2, <2>1 DEF directs
<1>4. m + 1 \notin directs(r) BY <1>1 DEF directs
<1>5. Cardinality(directs(r)) \in Nat BY FS_CardinalityType
<1>6. /\ IsFiniteSet(directs(r) \cup {m + 1})
      /\ Cardinality(directs(r) \cup {m + 1}) = Cardinality(directs(r)) + 1
  BY <1>4, FS_AddElement
<1>7. QED BY <1>1, <1>3, <1>5, <1>6 DEF a

(* add_weighted appends one contribution, and one more direct one only when
   it is of that kind. *)
LEMMA WeighKeeps ==
  ASSUME NEW q \in RuntimePath, IsFiniteSet(directs(q.radiance)), NEW b \in Beta,
         NEW kind \in {"environment", "emission", "direct"}
  PROVE  /\ Weigh(q, kind, b) \in RuntimePath
         /\ Weigh(q, kind, b) = [q EXCEPT !.radiance = Append(@, <<kind, Len(b.events)>>)]
         /\ IsFiniteSet(directs(Weigh(q, kind, b).radiance))
         /\ Cardinality(directs(q.radiance)) \in Nat
         /\ Cardinality(directs(Weigh(q, kind, b).radiance))
              = Cardinality(directs(q.radiance)) + (IF kind = "direct" THEN 1 ELSE 0)
<1>1. Len(b.events) \in Nat BY LenProperties DEF Beta
<1>2. q.radiance \in Radiance BY DEF RuntimePath
<1> DEFINE a == Append(q.radiance, <<kind, Len(b.events)>>)
<1>3. /\ a \in Radiance /\ IsFiniteSet(directs(a))
      /\ Cardinality(directs(q.radiance)) \in Nat
      /\ Cardinality(directs(a))
           = Cardinality(directs(q.radiance)) + (IF kind = "direct" THEN 1 ELSE 0)
  BY <1>1, <1>2, DirectsGrow
<1> HIDE DEF a
<1>4. Weigh(q, kind, b) = [q EXCEPT !.radiance = a] BY DEF Weigh, a
<1>5. [q EXCEPT !.radiance = a] \in RuntimePath /\ [q EXCEPT !.radiance = a].radiance = a
  BY <1>3 DEF RuntimePath
<1>6. QED BY <1>3, <1>4, <1>5 DEF a

(* The runtime of a slot nobody uses satisfies the type. *)
LEMMA RuntimeKept == kept(Runtime)
<1>1. booked(<< >>, NoCounters, {}) BY BookedNothing
<1>2. << >> \in Seq(SurfaceEvent) /\ << >> \in Radiance /\ Len(<< >>) = 0
  BY DEF Radiance
<1>3. directs(<< >>) = {} /\ IsFiniteSet({}) /\ Cardinality({}) = 0
  BY FS_EmptySet DEF directs
<1>4. Runtime \in RuntimePath
  BY <1>1, <1>2 DEF Runtime, RuntimePath, Beta, booked
<1>5. QED BY <1>1, <1>2, <1>3, <1>4 DEF Runtime, kept

(* initialize: a slot the camera stage leaves is a path without events, on
   its way to its first vertex. *)
LEMMA InitializeLeaves ==
  ASSUME NEW q, found("camera", q), NEW s
  PROVE  left("camera", [q EXCEPT !.initialized = TRUE,
                                  !.beta = [events |-> << >>, black |-> s \in BlackInputs]])
<1> DEFINE n == [q EXCEPT !.initialized = TRUE,
                          !.beta = [events |-> << >>, black |-> s \in BlackInputs]]
<1>1. q = Runtime /\ kept(q) /\ q \in RuntimePath BY RuntimeKept DEF found, kept
<1>2. << >> \in Seq(SurfaceEvent) OBVIOUS
<1>3. n \in RuntimePath
  <2> DEFINE b == [events |-> << >>, black |-> s \in BlackInputs]
  <2>1. (s \in BlackInputs) \in BOOLEAN OBVIOUS
  <2>2. b \in Beta BY <1>2, <2>1, Zenon DEF Beta
  <2>3. n = [q EXCEPT !.initialized = TRUE, !.beta = b] OBVIOUS
  <2> HIDE DEF b, n
  <2>4. QED BY <1>1, <2>2, <2>3 DEF RuntimePath
<1>4. /\ n.initialized = TRUE /\ n.beta.events = << >> /\ q.beta.events = << >>
      /\ n.radiance = q.radiance /\ n.depth_counters = q.depth_counters
      /\ n.delta_flags = q.delta_flags /\ n.closure_samples = 0
      /\ n.light_samples = 0 /\ n.shadow_queries = 0
      /\ q.closure_samples = 0 /\ q.light_samples = 0 /\ q.shadow_queries = 0
      /\ n.pending_shadow = None /\ n.pending_termination = None
      /\ n.continuation_requested = FALSE /\ n.result = None
  BY <1>1 DEF Runtime, RuntimePath
<1> HIDE DEF n
<1>5. kept(n) BY <1>1, <1>3, <1>4 DEF kept
<1>6. Len(n.beta.events) = 0 BY <1>4
<1>7. QED BY <1>3, <1>4, <1>5, <1>6 DEF left, traveling, live, n

(* trace: the ray stage leaves a travelling path with its hit and its
   surface recorded, and nothing else changed. *)
LEMMA TraceLeaves ==
  ASSUME NEW q, found("ray", q), NEW hit \in BOOLEAN
  PROVE  left("ray", [q EXCEPT !.hit = hit, !.surface = None])
<1> DEFINE n == [q EXCEPT !.hit = hit, !.surface = None]
<1>1. traveling(q) /\ kept(q) /\ q \in RuntimePath
  BY DEF found, traveling, live, kept
<1>2. n \in RuntimePath BY <1>1 DEF RuntimePath
<1>3. /\ n.initialized = q.initialized /\ n.beta = q.beta /\ n.radiance = q.radiance
      /\ n.depth_counters = q.depth_counters /\ n.delta_flags = q.delta_flags
      /\ n.pending_shadow = q.pending_shadow
      /\ n.pending_termination = q.pending_termination
      /\ n.continuation_requested = q.continuation_requested /\ n.result = q.result
      /\ n.closure_samples = q.closure_samples /\ n.light_samples = q.light_samples
      /\ n.shadow_queries = q.shadow_queries
  BY <1>1 DEF RuntimePath
<1> HIDE DEF n
<1>4. QED BY <1>1, <1>2, <1>3 DEF left, traveling, live, kept, n

(* shade_miss: a missed ray ends the path with the environment. *)
LEMMA MissLeaves ==
  ASSUME NEW q, found("miss", q)
  PROVE  left("miss", finish_path(Weigh(q, "environment", q.beta), "escaped_environment", {}))
<1> DEFINE w == Weigh(q, "environment", q.beta)
           n == finish_path(w, "escaped_environment", {})
           result == [termination |-> "escaped_environment", blocked |-> {}]
<1>1. traveling(q) /\ kept(q) /\ q \in RuntimePath /\ q.beta \in Beta
  BY DEF found, traveling, live, kept, RuntimePath
<1>2. /\ w \in RuntimePath
      /\ w = [q EXCEPT !.radiance = Append(@, <<"environment", Len(q.beta.events)>>)]
      /\ IsFiniteSet(directs(w.radiance))
      /\ Cardinality(directs(w.radiance)) = Cardinality(directs(q.radiance)) + 0
      /\ Cardinality(directs(q.radiance)) \in Nat
  BY <1>1, WeighKeeps DEF kept
<1>3. result \in Result /\ result # None
  BY TransportAssumption DEF Result, Termination
<1> HIDE DEF w, result
<1>4. n = [w EXCEPT !.result = result, !.pending_shadow = None,
                    !.pending_termination = None, !.continuation_requested = FALSE]
  BY DEF finish_path, result
<1>5. n \in RuntimePath BY <1>2, <1>3, <1>4 DEF RuntimePath
<1>6. /\ n.beta = q.beta /\ n.radiance = w.radiance
      /\ n.depth_counters = q.depth_counters /\ n.delta_flags = q.delta_flags
      /\ n.pending_shadow = None /\ n.pending_termination = None
      /\ n.continuation_requested = FALSE /\ n.result = result
      /\ n.closure_samples = q.closure_samples /\ n.light_samples = q.light_samples
      /\ n.shadow_queries = q.shadow_queries
  BY <1>1, <1>2, <1>4 DEF RuntimePath
<1> HIDE DEF n
<1>7. kept(n) BY <1>1, <1>2, <1>5, <1>6 DEF kept
<1>8. QED BY <1>3, <1>6, <1>7 DEF left, finished, n, w

(* The hit stage leaves what it finds: a path at a surface. *)
LEMMA ResolveLeaves ==
  ASSUME NEW q, found("hit", q), NEW surface \in Surfaces
  PROVE  left("hit", [q EXCEPT !.surface = surface])
<1> DEFINE n == [q EXCEPT !.surface = surface]
<1>1. traveling(q) /\ q.hit /\ kept(q) /\ q \in RuntimePath
  BY DEF found, traveling, live, kept
<1>2. n \in RuntimePath BY <1>1 DEF RuntimePath
<1>3. /\ n.initialized = q.initialized /\ n.beta = q.beta /\ n.radiance = q.radiance
      /\ n.depth_counters = q.depth_counters /\ n.delta_flags = q.delta_flags
      /\ n.hit = q.hit /\ n.surface = surface
      /\ n.pending_shadow = q.pending_shadow
      /\ n.pending_termination = q.pending_termination
      /\ n.continuation_requested = q.continuation_requested /\ n.result = q.result
      /\ n.closure_samples = q.closure_samples /\ n.light_samples = q.light_samples
      /\ n.shadow_queries = q.shadow_queries
  BY <1>1 DEF RuntimePath
<1> HIDE DEF n
<1>4. QED BY <1>1, <1>2, <1>3 DEF left, shadable, traveling, live, kept, n

(* shade: the emission, and the ways the path can end there. *)
LEMMA EmittedKeeps ==
  ASSUME NEW q, shadable(q)
  PROVE  /\ shadable(emitted(q))
         /\ emitted(q) = [q EXCEPT !.radiance = Append(@, <<"emission", Len(q.beta.events)>>)]
         /\ emitted(q).beta = q.beta
         /\ emitted(q).depth_counters = q.depth_counters
         /\ emitted(q).delta_flags = q.delta_flags
         /\ emitted(q).surface = q.surface
<1> DEFINE i == [q EXCEPT !.pending_shadow = None, !.pending_termination = None,
                          !.continuation_requested = FALSE]
           n == Weigh(i, "emission", q.beta)
<1>1. traveling(q) /\ kept(q) /\ q \in RuntimePath /\ q.beta \in Beta
  BY DEF shadable, traveling, live, kept, RuntimePath
<1>2. i = q
  <2>1. i \in RuntimePath BY <1>1, TransportAssumption DEF RuntimePath
  <2>2. q.pending_shadow = None /\ q.pending_termination = None
        /\ q.continuation_requested = FALSE
    BY <1>1 DEF traveling, RuntimePath
  <2>3. QED BY <1>1, <2>1, <2>2 DEF RuntimePath
<1>3. /\ n \in RuntimePath
      /\ n = [q EXCEPT !.radiance = Append(@, <<"emission", Len(q.beta.events)>>)]
      /\ IsFiniteSet(directs(n.radiance))
      /\ Cardinality(directs(n.radiance)) = Cardinality(directs(q.radiance)) + 0
      /\ Cardinality(directs(q.radiance)) \in Nat
  BY <1>1, <1>2, WeighKeeps DEF kept
<1>4. emitted(q) = n BY DEF emitted
<1> HIDE DEF n
<1>5. /\ n.initialized = q.initialized /\ n.beta = q.beta
      /\ n.depth_counters = q.depth_counters /\ n.delta_flags = q.delta_flags
      /\ n.hit = q.hit /\ n.surface = q.surface
      /\ n.pending_shadow = q.pending_shadow
      /\ n.pending_termination = q.pending_termination
      /\ n.continuation_requested = q.continuation_requested /\ n.result = q.result
      /\ n.closure_samples = q.closure_samples /\ n.light_samples = q.light_samples
      /\ n.shadow_queries = q.shadow_queries
  BY <1>1, <1>3 DEF RuntimePath
<1>6. kept(n) BY <1>1, <1>3, <1>5 DEF kept
<1>7. QED BY <1>3, <1>4, <1>5, <1>6 DEF shadable, traveling, live

(* terminate keeps the reason for the barrier to read, and changes nothing
   else that the end of the path is made of. *)
LEMMA TerminateKeeps ==
  ASSUME NEW q, live(q), NEW reason \in Termination, NEW blocked \in SUBSET Category
  PROVE  LET n == terminate(q, reason, blocked)
         IN  /\ live(n)
             /\ n.pending_termination = [reason |-> reason, blocked |-> blocked]
             /\ n.pending_termination # None
             /\ n.beta = q.beta /\ n.radiance = q.radiance
             /\ n.depth_counters = q.depth_counters /\ n.delta_flags = q.delta_flags
             /\ n.hit = q.hit /\ n.surface = q.surface
             /\ n.pending_shadow = q.pending_shadow /\ n.result = q.result
             /\ n.continuation_requested = q.continuation_requested
             /\ n.closure_samples = q.closure_samples
             /\ n.light_samples = q.light_samples /\ n.shadow_queries = q.shadow_queries
<1> DEFINE p == [reason |-> reason, blocked |-> blocked]
           n == terminate(q, reason, blocked)
<1>1. p \in Ending /\ p # None BY TransportAssumption DEF Ending
<1>2. kept(q) /\ q \in RuntimePath BY DEF live, kept
<1> HIDE DEF p
<1>3. n = [q EXCEPT !.pending_termination = p] BY DEF terminate, p
<1>4. n \in RuntimePath BY <1>1, <1>2, <1>3 DEF RuntimePath
<1>5. /\ n.initialized = q.initialized /\ n.pending_termination = p
      /\ n.beta = q.beta /\ n.radiance = q.radiance
      /\ n.depth_counters = q.depth_counters /\ n.delta_flags = q.delta_flags
      /\ n.hit = q.hit /\ n.surface = q.surface
      /\ n.pending_shadow = q.pending_shadow /\ n.result = q.result
      /\ n.continuation_requested = q.continuation_requested
      /\ n.closure_samples = q.closure_samples
      /\ n.light_samples = q.light_samples /\ n.shadow_queries = q.shadow_queries
  BY <1>2, <1>3 DEF RuntimePath
<1> HIDE DEF n
<1>6. live(n) BY <1>2, <1>4, <1>5 DEF live, kept
<1>7. QED BY <1>1, <1>5, <1>6 DEF n, p

(* A path that ends at the surface is one the shade stage may leave. *)
LEMMA TerminalLeaves ==
  ASSUME NEW q, found("shade", q), NEW reason \in Termination, NEW blocked \in SUBSET Category
  PROVE  left("shade", terminate(emitted(q), reason, blocked))
<1> DEFINE e == emitted(q)
           n == terminate(e, reason, blocked)
<1>1. shadable(e) BY EmittedKeeps DEF found
<1> HIDE DEF e
<1>2. live(e) /\ e.pending_shadow = None /\ ~e.continuation_requested
  BY <1>1 DEF shadable, traveling
<1>3. /\ live(n) /\ n.pending_termination # None
      /\ n.pending_shadow = e.pending_shadow
      /\ n.continuation_requested = e.continuation_requested
  BY <1>2, TerminateKeeps
<1> HIDE DEF n
<1>4. ending(n) BY <1>2, <1>3 DEF ending
<1>5. QED BY <1>4 DEF left, n, e

(* The light sample: what it costs, and what it keeps for a shadow ray. *)
LightSample == {"unsampled", "unshadowed", "shadow"}

(* The light sample adds no radiance, and keeps a pending shadow state
   exactly when a shadow ray has to decide. *)
LEMMA PreparedKeeps ==
  ASSUME NEW e, shadable(e), NEW light \in LightSample
  PROVE  LET p == prepared(e, light)
         IN  /\ live(p) /\ ~p.continuation_requested /\ p.pending_termination = None
             /\ p.closure_samples = Len(e.beta.events) + 1
             /\ p.beta = e.beta /\ p.radiance = e.radiance
             /\ p.depth_counters = e.depth_counters /\ p.delta_flags = e.delta_flags
             /\ p.surface = e.surface /\ p.hit = e.hit
             /\ light = "shadow" => /\ p.pending_shadow # None
                                    /\ p.pending_shadow.beta = e.beta
                                    /\ p.shadow_queries < p.light_samples
             /\ light # "shadow" => p.pending_shadow = None
<1> DEFINE c == e.closure_samples + 1
           l == IF light = "unsampled" THEN e.light_samples ELSE e.light_samples + 1
           h == IF light = "shadow" THEN [beta |-> e.beta] ELSE None
           p == prepared(e, light)
<1>1. traveling(e) /\ kept(e) /\ e \in RuntimePath /\ e.beta \in Beta
      /\ e.closure_samples \in Nat /\ e.light_samples \in Nat /\ e.shadow_queries \in Nat
      /\ e.closure_samples = Len(e.beta.events)
  BY DEF shadable, traveling, live, kept, RuntimePath
<1>2. h \in Shadow \cup {None} /\ (light = "shadow" => h # None /\ h.beta = e.beta)
      /\ (light # "shadow" => h = None)
  BY <1>1, TransportAssumption DEF Shadow
<1>3. l \in Nat /\ e.light_samples <= l /\ l <= e.light_samples + 1
      /\ (light = "shadow" => l = e.light_samples + 1)
  BY <1>1
<1>4. p = [e EXCEPT !.closure_samples = c, !.light_samples = l, !.pending_shadow = h]
  BY DEF prepared
<1>a. c \in Nat /\ c = e.closure_samples + 1 BY <1>1
<1> HIDE DEF p, c, l, h
<1>5. p \in RuntimePath BY <1>1, <1>2, <1>3, <1>4, <1>a DEF RuntimePath
<1>6. /\ p.initialized = e.initialized /\ p.result = e.result
      /\ p.beta = e.beta /\ p.radiance = e.radiance
      /\ p.depth_counters = e.depth_counters /\ p.delta_flags = e.delta_flags
      /\ p.surface = e.surface /\ p.hit = e.hit
      /\ p.pending_termination = e.pending_termination
      /\ p.continuation_requested = e.continuation_requested
      /\ p.shadow_queries = e.shadow_queries /\ p.pending_shadow = h
      /\ p.closure_samples = e.closure_samples + 1 /\ p.light_samples = l
  BY <1>1, <1>4, <1>a DEF RuntimePath
<1>7. /\ p.light_samples <= p.closure_samples /\ p.shadow_queries <= p.light_samples
      /\ light = "shadow" => p.shadow_queries < p.light_samples
      /\ Len(p.beta.events) <= p.closure_samples
      /\ p.closure_samples <= Len(p.beta.events) + 1
  BY <1>1, <1>3, <1>6 DEF kept
<1>8. kept(p) BY <1>1, <1>5, <1>6, <1>7 DEF kept
<1>9. live(p) /\ ~p.continuation_requested /\ p.pending_termination = None
  BY <1>1, <1>6, <1>8 DEF live, traveling
<1>10. QED BY <1>1, <1>2, <1>6, <1>7, <1>9 DEF p

(* An event the limits allow is an event. *)
LEMMA AllowedEvent ==
  ASSUME NEW c, NEW surface \in Surfaces, NEW event \in allowed_events(c, surface)
  PROVE  event \in SurfaceEvent /\ accepted(c, event)
  BY TransportAssumption DEF allowed_events

(* The bounce of a prepared runtime. *)
LEMMA ScatteredKeeps ==
  ASSUME NEW p, live(p), p.closure_samples = Len(p.beta.events) + 1,
         NEW event \in SurfaceEvent, accepted(p.depth_counters, event), NEW black \in BOOLEAN
  PROVE  LET n == scattered(p, event, black)
         IN  /\ live(n)
             /\ n.beta = [events |-> Append(p.beta.events, event), black |-> black]
             /\ n.depth_counters = advanced_counters(p.depth_counters, event)
             /\ n.delta_flags = next_delta_flags(p.delta_flags, event)
             /\ n.closure_samples = Len(n.beta.events)
             /\ n.radiance = p.radiance /\ n.surface = p.surface /\ n.hit = p.hit
             /\ n.pending_shadow = p.pending_shadow
             /\ n.pending_termination = p.pending_termination
             /\ n.continuation_requested = p.continuation_requested
             /\ n.light_samples = p.light_samples /\ n.shadow_queries = p.shadow_queries
<1> DEFINE b == [events |-> Append(p.beta.events, event), black |-> black]
           c == advanced_counters(p.depth_counters, event)
           f == next_delta_flags(p.delta_flags, event)
           n == scattered(p, event, black)
<1>1. /\ kept(p) /\ p \in RuntimePath /\ p.beta.events \in Seq(SurfaceEvent)
      /\ booked(p.beta.events, p.depth_counters, p.delta_flags)
      /\ p.closure_samples \in Nat
  BY DEF live, kept, RuntimePath, Beta
<1>2. /\ b \in Beta /\ b.events = Append(p.beta.events, event)
      /\ Len(b.events) = Len(p.beta.events) + 1
  BY <1>1, AppendProperties DEF Beta
<1>3. booked(b.events, c, f) BY <1>1, <1>2, BookedScatter
<1>4. n = [p EXCEPT !.beta = b, !.depth_counters = c, !.delta_flags = f]
  BY DEF scattered
<1> HIDE DEF n, b, c, f
<1>5. c \in [Category -> Nat] /\ f \in SUBSET Flag BY <1>3 DEF booked
<1>6. n \in RuntimePath BY <1>1, <1>2, <1>4, <1>5 DEF RuntimePath
<1>7. /\ n.beta = b /\ n.depth_counters = c /\ n.delta_flags = f
      /\ n.initialized = p.initialized /\ n.result = p.result
      /\ n.radiance = p.radiance /\ n.surface = p.surface /\ n.hit = p.hit
      /\ n.pending_shadow = p.pending_shadow
      /\ n.pending_termination = p.pending_termination
      /\ n.continuation_requested = p.continuation_requested
      /\ n.closure_samples = p.closure_samples
      /\ n.light_samples = p.light_samples /\ n.shadow_queries = p.shadow_queries
  BY <1>1, <1>4 DEF RuntimePath
<1>8. n.closure_samples = Len(n.beta.events)
      /\ n.closure_samples <= Len(n.beta.events) + 1
  BY <1>1, <1>2, <1>7
<1>9. kept(n) BY <1>1, <1>3, <1>6, <1>7, <1>8 DEF kept
<1>10. live(n) BY <1>7, <1>9 DEF live
<1>11. QED BY <1>2, <1>7, <1>8, <1>10 DEF n, b, c, f

(* Asking for the continuation changes nothing else of the runtime. *)
LEMMA ContinuationKeeps ==
  ASSUME NEW q, live(q)
  PROVE  LET n == [q EXCEPT !.continuation_requested = TRUE]
         IN  /\ live(n) /\ n.continuation_requested
             /\ n.beta = q.beta /\ n.radiance = q.radiance
             /\ n.depth_counters = q.depth_counters /\ n.delta_flags = q.delta_flags
             /\ n.hit = q.hit /\ n.surface = q.surface
             /\ n.pending_shadow = q.pending_shadow /\ n.result = q.result
             /\ n.pending_termination = q.pending_termination
             /\ n.closure_samples = q.closure_samples
             /\ n.light_samples = q.light_samples /\ n.shadow_queries = q.shadow_queries
<1> DEFINE n == [q EXCEPT !.continuation_requested = TRUE]
<1>1. kept(q) /\ q \in RuntimePath BY DEF live, kept
<1>2. n \in RuntimePath BY <1>1 DEF RuntimePath
<1>3. /\ n.initialized = q.initialized /\ n.continuation_requested = TRUE
      /\ n.beta = q.beta /\ n.radiance = q.radiance
      /\ n.depth_counters = q.depth_counters /\ n.delta_flags = q.delta_flags
      /\ n.hit = q.hit /\ n.surface = q.surface
      /\ n.pending_shadow = q.pending_shadow /\ n.result = q.result
      /\ n.pending_termination = q.pending_termination
      /\ n.closure_samples = q.closure_samples
      /\ n.light_samples = q.light_samples /\ n.shadow_queries = q.shadow_queries
  BY <1>1 DEF RuntimePath
<1> HIDE DEF n
<1>4. live(n) BY <1>1, <1>2, <1>3 DEF live, kept
<1>5. QED BY <1>3, <1>4 DEF n

(* What the shading of e with a light sample leaves. *)
shaded(e, light, n) ==
    /\ live(n) /\ n.radiance = e.radiance /\ n.surface = e.surface
    /\ scattered_from(n, e.beta, e.surface)
    /\ light = "shadow" => /\ n.pending_shadow # None
                           /\ n.pending_shadow.beta = e.beta
                           /\ n.shadow_queries < n.light_samples
    /\ light # "shadow" => n.pending_shadow = None

(* A bounce without a shadow ray to wait for goes on or is ending. *)
LEMMA ScatteredGoes ==
  ASSUME NEW n, live(n), n.pending_shadow = None, NEW b, NEW surface,
         scattered_from(n, b, surface)
  PROVE  bouncing(n) \/ ending(n)
<1>1. /\ [reason |-> "outside_bsdf_support", blocked |-> {}] \in Ending
      /\ [reason |-> "zero_throughput", blocked |-> {}] \in Ending
      /\ [reason |-> "russian_roulette", blocked |-> {}] \in Ending
  BY DEF Ending, Termination
<1>2. /\ [reason |-> "outside_bsdf_support", blocked |-> {}] # None
      /\ [reason |-> "zero_throughput", blocked |-> {}] # None
      /\ [reason |-> "russian_roulette", blocked |-> {}] # None
  BY <1>1, TransportAssumption
<1>3. CASE missed(n, b)
  BY <1>2, <1>3 DEF missed, ending
<1>4. ASSUME NEW event, bounced(n, b, event) PROVE bouncing(n) \/ ending(n)
  BY <1>2, <1>4 DEF bounced, ending, bouncing
<1>5. QED BY <1>3, <1>4 DEF scattered_from

(* A shaded path is one the shade stage may leave: it waits for its shadow
   ray, or is behind the bounce. *)
LEMMA ShadedLeaves ==
  ASSUME NEW e, shadable(e), NEW light, NEW n, shaded(e, light, n)
  PROVE  left("shade", n)
<1>1. booked(e.beta.events, e.depth_counters, e.delta_flags) /\ e.surface \in Surfaces
  BY DEF shadable, traveling, live, kept
<1>2. booked(e.beta.events, counters_of(e.beta.events), flags_of(e.beta.events))
  BY <1>1 DEF booked
<1>3. CASE light = "shadow"
  BY <1>1, <1>2, <1>3 DEF shaded, lit, left
<1>4. CASE light # "shadow"
  BY <1>4, ScatteredGoes DEF shaded, left
<1>5. QED BY <1>3, <1>4

(* shade_scatter without a closure sample: the path ends, or waits for its
   light first. *)
LEMMA MissedShades ==
  ASSUME NEW e, shadable(e), NEW light \in LightSample
  PROVE  shaded(e, light, terminate(prepared(e, light), "outside_bsdf_support", {}))
<1> DEFINE p == prepared(e, light)
           n == terminate(p, "outside_bsdf_support", {})
<1>1. /\ live(p) /\ ~p.continuation_requested
      /\ p.beta = e.beta /\ p.surface = e.surface /\ p.radiance = e.radiance
      /\ p.depth_counters = e.depth_counters /\ p.delta_flags = e.delta_flags
      /\ light = "shadow" => /\ p.pending_shadow # None
                             /\ p.pending_shadow.beta = e.beta
                             /\ p.shadow_queries < p.light_samples
      /\ light # "shadow" => p.pending_shadow = None
  BY PreparedKeeps
<1> HIDE DEF p
<1>2. /\ live(n)
      /\ n.pending_termination = [reason |-> "outside_bsdf_support", blocked |-> {}]
      /\ n.pending_termination # None
      /\ n.beta = p.beta /\ n.surface = p.surface /\ n.radiance = p.radiance
      /\ n.depth_counters = p.depth_counters /\ n.delta_flags = p.delta_flags
      /\ n.pending_shadow = p.pending_shadow
      /\ n.continuation_requested = p.continuation_requested
      /\ n.light_samples = p.light_samples /\ n.shadow_queries = p.shadow_queries
  <2>1. "outside_bsdf_support" \in Termination /\ {} \in SUBSET Category
    BY DEF Termination
  <2>2. QED BY <1>1, <2>1, TerminateKeeps
<1> HIDE DEF n
<1>3. booked(e.beta.events, e.depth_counters, e.delta_flags) /\ e.surface \in Surfaces
  BY DEF shadable, traveling, live, kept
<1>4. /\ e.depth_counters = counters_of(e.beta.events)
      /\ e.delta_flags = flags_of(e.beta.events)
  BY <1>3 DEF booked
<1>5. missed(n, e.beta) BY <1>1, <1>2, <1>4 DEF missed
<1>6. QED BY <1>1, <1>2, <1>5 DEF shaded, scattered_from, n, p

(* shade_scatter with a closure sample: a throughput that becomes black, or
   a path that goes on, or one the roulette stops, each with and without a
   shadow ray. *)
LEMMA BouncedShades ==
  ASSUME NEW e, shadable(e), NEW light \in LightSample,
         NEW event \in allowed_events(e.depth_counters, e.surface), NEW black \in BOOLEAN,
         NEW n,
         LET m == scattered(prepared(e, light), event, black)
         IN  \/ black /\ n = terminate(m, "zero_throughput", {})
             \/ ~black /\ n = [m EXCEPT !.continuation_requested = TRUE]
             \/ /\ ~black /\ eligible(path_depth_total(m.depth_counters))
                /\ n = terminate(m, "russian_roulette", {})
  PROVE  shaded(e, light, n)
<1> DEFINE p == prepared(e, light)
           m == scattered(p, event, black)
<1>1. /\ live(p) /\ ~p.continuation_requested /\ p.pending_termination = None
      /\ p.closure_samples = Len(p.beta.events) + 1
      /\ p.beta = e.beta /\ p.surface = e.surface /\ p.radiance = e.radiance
      /\ p.depth_counters = e.depth_counters /\ p.delta_flags = e.delta_flags
      /\ light = "shadow" => /\ p.pending_shadow # None
                             /\ p.pending_shadow.beta = e.beta
                             /\ p.shadow_queries < p.light_samples
      /\ light # "shadow" => p.pending_shadow = None
  BY PreparedKeeps
<1>2. e.surface \in Surfaces /\ booked(e.beta.events, e.depth_counters, e.delta_flags)
  BY DEF shadable, traveling, live, kept
<1>3. event \in SurfaceEvent /\ accepted(p.depth_counters, event)
  BY <1>1, <1>2, AllowedEvent
<1> HIDE DEF p
<1>4. /\ live(m)
      /\ m.beta = [events |-> Append(p.beta.events, event), black |-> black]
      /\ m.depth_counters = advanced_counters(p.depth_counters, event)
      /\ m.delta_flags = next_delta_flags(p.delta_flags, event)
      /\ m.closure_samples = Len(m.beta.events)
      /\ m.surface = p.surface /\ m.radiance = p.radiance
      /\ m.pending_shadow = p.pending_shadow
      /\ m.pending_termination = p.pending_termination
      /\ m.continuation_requested = p.continuation_requested
      /\ m.light_samples = p.light_samples /\ m.shadow_queries = p.shadow_queries
  BY <1>1, <1>3, ScatteredKeeps
<1>5. \/ black /\ n = terminate(m, "zero_throughput", {})
      \/ ~black /\ n = [m EXCEPT !.continuation_requested = TRUE]
      \/ /\ ~black /\ eligible(path_depth_total(m.depth_counters))
         /\ n = terminate(m, "russian_roulette", {})
  BY DEF p
<1> HIDE DEF m
<1>7. /\ live(n)
      /\ n.beta = m.beta /\ n.surface = m.surface /\ n.radiance = m.radiance
      /\ n.depth_counters = m.depth_counters /\ n.delta_flags = m.delta_flags
      /\ n.pending_shadow = m.pending_shadow
      /\ n.closure_samples = m.closure_samples
      /\ n.light_samples = m.light_samples /\ n.shadow_queries = m.shadow_queries
      /\ \/ /\ black /\ ~n.continuation_requested /\ n.pending_termination # None
            /\ n.pending_termination = [reason |-> "zero_throughput", blocked |-> {}]
         \/ /\ ~black /\ n.continuation_requested /\ n.pending_termination = None
         \/ /\ ~black /\ ~n.continuation_requested /\ n.pending_termination # None
            /\ n.pending_termination = [reason |-> "russian_roulette", blocked |-> {}]
            /\ eligible(path_depth_total(m.depth_counters))
  <2>1. CASE black /\ n = terminate(m, "zero_throughput", {})
    <3> DEFINE t == terminate(m, "zero_throughput", {})
    <3>1. /\ live(t)
          /\ t.pending_termination = [reason |-> "zero_throughput", blocked |-> {}]
          /\ t.pending_termination # None
          /\ t.beta = m.beta /\ t.surface = m.surface /\ t.radiance = m.radiance
          /\ t.depth_counters = m.depth_counters /\ t.delta_flags = m.delta_flags
          /\ t.pending_shadow = m.pending_shadow
          /\ t.continuation_requested = m.continuation_requested
          /\ t.closure_samples = m.closure_samples
          /\ t.light_samples = m.light_samples /\ t.shadow_queries = m.shadow_queries
      <4>1. live(m) BY <1>4
      <4>2. "zero_throughput" \in Termination /\ {} \in SUBSET Category
        BY DEF Termination
      <4>3. QED BY <4>1, <4>2, TerminateKeeps, SMTT(20)
    <3>2. ~t.continuation_requested BY <1>1, <1>4, <3>1
    <3> HIDE DEF t
    <3>3. n = t BY <2>1 DEF t
    <3>4. QED BY <3>1, <3>2, <3>3, <2>1
  <2>2. CASE ~black /\ n = [m EXCEPT !.continuation_requested = TRUE]
    BY <1>1, <1>4, <2>2, ContinuationKeeps
  <2>3. CASE /\ ~black /\ eligible(path_depth_total(m.depth_counters))
             /\ n = terminate(m, "russian_roulette", {})
    <3> DEFINE t == terminate(m, "russian_roulette", {})
    <3>1. /\ live(t)
          /\ t.pending_termination = [reason |-> "russian_roulette", blocked |-> {}]
          /\ t.pending_termination # None
          /\ t.beta = m.beta /\ t.surface = m.surface /\ t.radiance = m.radiance
          /\ t.depth_counters = m.depth_counters /\ t.delta_flags = m.delta_flags
          /\ t.pending_shadow = m.pending_shadow
          /\ t.continuation_requested = m.continuation_requested
          /\ t.closure_samples = m.closure_samples
          /\ t.light_samples = m.light_samples /\ t.shadow_queries = m.shadow_queries
      <4>1. live(m) BY <1>4
      <4>2. "russian_roulette" \in Termination /\ {} \in SUBSET Category
        BY DEF Termination
      <4>3. QED BY <4>1, <4>2, TerminateKeeps
    <3>2. ~t.continuation_requested BY <1>1, <1>4, <3>1
    <3> HIDE DEF t
    <3>3. n = t BY <2>3 DEF t
    <3>4. QED BY <3>1, <3>2, <3>3, <2>3
  <2>4. QED BY <1>5, <2>1, <2>2, <2>3
<1>8. /\ e.depth_counters = counters_of(e.beta.events)
      /\ e.delta_flags = flags_of(e.beta.events)
  BY <1>2 DEF booked
<1>9. n.beta.events = Append(e.beta.events, event) /\ n.beta.black = black
  BY <1>1, <1>4, <1>7
<1>10. bounced(n, e.beta, event) BY <1>1, <1>4, <1>7, <1>8, <1>9 DEF bounced
<1>11. scattered_from(n, e.beta, e.surface) BY <1>8, <1>10 DEF scattered_from
<1>12. n.pending_shadow = p.pending_shadow /\ n.radiance = e.radiance /\ n.surface = e.surface
       /\ n.light_samples = p.light_samples /\ n.shadow_queries = p.shadow_queries
  BY <1>1, <1>4, <1>7
<1>13. QED BY <1>1, <1>7, <1>11, <1>12 DEF shaded

(* shadow: with the answer of the occlusion query the kept throughput pays
   the direct light, and the pending state is gone. *)
LEMMA ShadowLeaves ==
  ASSUME NEW q, found("shadow", q), NEW visible \in BOOLEAN
  PROVE  LET n == [q EXCEPT !.shadow_queries = @ + 1, !.pending_shadow = None]
             w == IF visible THEN Weigh(n, "direct", q.pending_shadow.beta) ELSE n
         IN  /\ left("shadow", w)
             /\ live(w) /\ w.pending_shadow = None
             /\ scattered_from(w, q.pending_shadow.beta, q.surface)
             /\ w.radiance = IF visible
                             THEN Append(q.radiance, <<"direct", Len(q.pending_shadow.beta.events)>>)
                             ELSE q.radiance
<1> DEFINE b == q.pending_shadow.beta
           h == q.shadow_queries + 1
           n == [q EXCEPT !.shadow_queries = h, !.pending_shadow = None]
           w == IF visible THEN Weigh(n, "direct", b) ELSE n
<1>1. /\ lit(q) /\ live(q) /\ kept(q) /\ q \in RuntimePath
      /\ q.pending_shadow # None /\ q.surface \in Surfaces
      /\ q.shadow_queries < q.light_samples
      /\ q.shadow_queries \in Nat /\ q.light_samples \in Nat
  BY DEF found, lit, live, kept, RuntimePath
<1>2. b \in Beta BY <1>1 DEF RuntimePath, Shadow
<1>3. h \in Nat /\ h = q.shadow_queries + 1 /\ h <= q.light_samples BY <1>1
<1>4. scattered_from(q, b, q.surface) BY <1>1 DEF lit
<1> HIDE DEF b, h
<1>5. n \in RuntimePath BY <1>1, <1>3 DEF RuntimePath
<1>6. /\ n.initialized = q.initialized /\ n.beta = q.beta /\ n.radiance = q.radiance
      /\ n.depth_counters = q.depth_counters /\ n.delta_flags = q.delta_flags
      /\ n.pending_shadow = None
      /\ n.pending_termination = q.pending_termination
      /\ n.continuation_requested = q.continuation_requested /\ n.result = q.result
      /\ n.closure_samples = q.closure_samples
      /\ n.light_samples = q.light_samples /\ n.shadow_queries = h
  BY <1>1 DEF RuntimePath
<1> HIDE DEF n
<1>7. /\ IsFiniteSet(directs(n.radiance))
      /\ Cardinality(directs(n.radiance)) <= q.shadow_queries
      /\ q.beta.events \in Seq(SurfaceEvent)
  BY <1>1, <1>6 DEF kept, RuntimePath, Beta
<1>8. /\ w \in RuntimePath /\ w.initialized = q.initialized /\ w.beta = q.beta
      /\ IsFiniteSet(directs(w.radiance))
      /\ Cardinality(directs(w.radiance)) <= h
      /\ w.depth_counters = q.depth_counters /\ w.delta_flags = q.delta_flags
      /\ w.pending_shadow = None
      /\ w.pending_termination = q.pending_termination
      /\ w.continuation_requested = q.continuation_requested /\ w.result = q.result
      /\ w.closure_samples = q.closure_samples
      /\ w.light_samples = q.light_samples /\ w.shadow_queries = h
      /\ w.radiance = IF visible THEN Append(q.radiance, <<"direct", Len(b.events)>>)
                                 ELSE q.radiance
  <2>1. CASE visible
    <3> DEFINE v == Weigh(n, "direct", b)
    <3>1. /\ v \in RuntimePath
          /\ v = [n EXCEPT !.radiance = Append(@, <<"direct", Len(b.events)>>)]
          /\ IsFiniteSet(directs(v.radiance))
          /\ Cardinality(directs(n.radiance)) \in Nat
          /\ Cardinality(directs(v.radiance)) = Cardinality(directs(n.radiance)) + 1
      BY <1>2, <1>5, <1>7, WeighKeeps
    <3>2. Cardinality(directs(v.radiance)) <= h BY <3>1, <1>7, <1>3, <1>1
    <3> HIDE DEF v
    <3>3. w = v BY <2>1 DEF v
    <3>4. /\ v.initialized = n.initialized /\ v.beta = n.beta
          /\ v.depth_counters = n.depth_counters /\ v.delta_flags = n.delta_flags
          /\ v.pending_shadow = n.pending_shadow
          /\ v.pending_termination = n.pending_termination
          /\ v.continuation_requested = n.continuation_requested /\ v.result = n.result
          /\ v.closure_samples = n.closure_samples
          /\ v.light_samples = n.light_samples /\ v.shadow_queries = n.shadow_queries
          /\ v.radiance = Append(n.radiance, <<"direct", Len(b.events)>>)
      BY <1>5, <3>1 DEF RuntimePath
    <3> HIDE DEF w
    <3>5. QED BY <1>6, <2>1, <3>1, <3>2, <3>3, <3>4
  <2>2. CASE ~visible
    <3>1. w = n BY <2>2
    <3>2. Cardinality(directs(n.radiance)) \in Nat BY <1>7, FS_CardinalityType
    <3>3. Cardinality(directs(n.radiance)) <= h BY <1>1, <1>3, <1>7, <3>2
    <3> HIDE DEF w
    <3>4. QED BY <1>5, <1>6, <1>7, <2>2, <3>1, <3>3
  <2>3. QED BY <2>1, <2>2
<1> HIDE DEF w
<1>9. kept(w) BY <1>1, <1>3, <1>8 DEF kept
<1>10. live(w) BY <1>1, <1>8, <1>9 DEF live
<1>11. scattered_from(w, b, q.surface)
  BY <1>4, <1>8 DEF scattered_from, missed, bounced
<1>12. left("shadow", w) BY <1>8, <1>10, <1>11, ScatteredGoes DEF left
<1>13. QED BY <1>8, <1>10, <1>11, <1>12 DEF w, n, h, b

(* advance: a path that goes on becomes one on its way to the next vertex. *)
LEMMA ContinueLeaves ==
  ASSUME NEW q, found("continuation", q)
  PROVE  left("continuation", [q EXCEPT !.continuation_requested = FALSE,
                                        !.hit = FALSE, !.surface = None])
<1> DEFINE n == [q EXCEPT !.continuation_requested = FALSE,
                          !.hit = FALSE, !.surface = None]
<1>1. bouncing(q) /\ kept(q) /\ q \in RuntimePath
  BY DEF found, bouncing, live, kept
<1>2. n \in RuntimePath BY <1>1 DEF RuntimePath
<1>3. /\ n.initialized = q.initialized /\ n.beta = q.beta /\ n.radiance = q.radiance
      /\ n.depth_counters = q.depth_counters /\ n.delta_flags = q.delta_flags
      /\ n.pending_shadow = q.pending_shadow
      /\ n.pending_termination = q.pending_termination
      /\ n.continuation_requested = FALSE /\ n.result = q.result
      /\ n.closure_samples = q.closure_samples /\ n.light_samples = q.light_samples
      /\ n.shadow_queries = q.shadow_queries
  BY <1>1 DEF RuntimePath
<1> HIDE DEF n
<1>4. QED BY <1>1, <1>2, <1>3 DEF left, traveling, bouncing, live, kept, n

(* A path that ends behind the barrier. *)
LEMMA EndingFinishes ==
  ASSUME NEW q, ending(q)
  PROVE  /\ finished(finish_path(q, q.pending_termination.reason, q.pending_termination.blocked))
         /\ finishable(q)
         /\ path_state_valid(q.depth_counters, q.delta_flags)
<1> DEFINE r == [termination |-> q.pending_termination.reason,
                 blocked     |-> q.pending_termination.blocked]
           n == finish_path(q, q.pending_termination.reason, q.pending_termination.blocked)
<1>1. live(q) /\ kept(q) /\ q \in RuntimePath /\ q.pending_termination \in Ending
  BY DEF ending, live, kept, RuntimePath
<1>2. r \in Result /\ r # None BY <1>1, TransportAssumption DEF Result, Ending
<1> HIDE DEF r
<1>3. n = [q EXCEPT !.result = r, !.pending_shadow = None,
                    !.pending_termination = None, !.continuation_requested = FALSE]
  BY DEF finish_path, r
<1>4. n \in RuntimePath BY <1>1, <1>2, <1>3 DEF RuntimePath
<1>5. /\ n.beta = q.beta /\ n.radiance = q.radiance
      /\ n.depth_counters = q.depth_counters /\ n.delta_flags = q.delta_flags
      /\ n.pending_shadow = None /\ n.pending_termination = None
      /\ n.continuation_requested = FALSE /\ n.result = r
      /\ n.closure_samples = q.closure_samples /\ n.light_samples = q.light_samples
      /\ n.shadow_queries = q.shadow_queries
  BY <1>1, <1>3 DEF RuntimePath
<1> HIDE DEF n
<1>6. finished(n) BY <1>1, <1>2, <1>4, <1>5 DEF finished, kept
<1>7. finishable(q) /\ path_state_valid(q.depth_counters, q.delta_flags)
  BY <1>1 DEF finishable, live, kept, booked
<1>8. QED BY <1>6, <1>7 DEF n

(* What a kernel finds it does not refuse. *)
LEMMA NothingRefused ==
  ASSUME NEW k \in Kind, NEW q, found(k, q)
  PROVE  ~contradicts(k, q) /\ ~refuses_state(k, q)
<1>1. CASE k = "camera"
  <2>1. q = Runtime BY <1>1 DEF found
  <2>2. q.result = None /\ ~q.initialized BY <2>1 DEF Runtime
  <2>3. QED BY <1>1, <2>2 DEF contradicts, refuses_state
<1>2. CASE k # "camera"
  <2>1. live(q) BY <1>2 DEF found, Kind, traveling, shadable, lit, bouncing
  <2>2. q.initialized /\ q.result = None /\ path_state_valid(q.depth_counters, q.delta_flags)
    BY <2>1 DEF live, kept, booked
  <2>3. k = "miss" => ~q.hit BY DEF found
  <2>4. k = "hit" => q.hit BY DEF found
  <2>5. k = "shade" => q.hit /\ q.surface # None
    BY TransportAssumption DEF found, shadable
  <2>6. k = "shadow" => q.pending_shadow # None BY DEF found, lit
  <2>7. k = "continuation" => /\ q.continuation_requested /\ q.pending_termination = None
                              /\ q.pending_shadow = None
    BY DEF found, bouncing
  <2>8. QED BY <1>2, <2>2, <2>3, <2>4, <2>5, <2>6, <2>7 DEF contradicts, refuses_state
<1>3. QED BY <1>1, <1>2

(* What a kernel finds is a valid runtime. *)
LEMMA FoundKept == ASSUME NEW k \in Kind, NEW q, found(k, q) PROVE kept(q) /\ q.result = None
<1>1. CASE k = "camera"
  <2>1. q = Runtime BY <1>1 DEF found
  <2>2. QED BY <2>1, RuntimeKept DEF Runtime
<1>2. CASE k # "camera"
  BY <1>2 DEF found, Kind, traveling, shadable, lit, bouncing, live
<1>3. QED BY <1>1, <1>2

(* What a kernel leaves is a valid runtime. *)
LEMMA LeftKept == ASSUME NEW k \in Kind, NEW q, left(k, q) PROVE kept(q)
  BY DEF left, Kind, traveling, shadable, lit, bouncing, ending, finished, live
------------------------------------------------------
(* A queue without repetition is as long as the set of its entries, so no
   longer than the batch, and stays without repetition when entries it does
   not hold are pushed. *)
LEMMA Counted ==
  ASSUME NEW S, NEW e \in Seq(S), distinct(e)
  PROVE  IsFiniteSet(ToSet(e)) /\ Cardinality(ToSet(e)) = Len(e) /\ Len(e) \in Nat
<1>1. Len(e) \in Nat /\ e \in [1 .. Len(e) -> S] /\ DOMAIN e = 1 .. Len(e)
  BY LenProperties
<1>2. ToSet(e) = {e[i] : i \in 1 .. Len(e)} BY <1>1 DEF ToSet
<1>3. e \in Bijection(1 .. Len(e), ToSet(e))
  <2>1. e \in [1 .. Len(e) -> ToSet(e)] BY <1>1, <1>2
  <2>2. \A x \in ToSet(e) : \E i \in 1 .. Len(e) : e[i] = x BY <1>2
  <2>3. QED BY <1>1, <2>1, <2>2 DEF distinct, Bijection, Injection, Surjection, IsInjective
<1>4. IsFiniteSet(1 .. Len(e)) /\ Cardinality(1 .. Len(e)) = Len(e)
  <2>1. 1 \in Int /\ Len(e) \in Int BY <1>1
  <2>2. /\ IsFiniteSet(1 .. Len(e))
        /\ Cardinality(1 .. Len(e)) = IF 1 > Len(e) THEN 0 ELSE Len(e) - 1 + 1
    BY <2>1, FS_Interval
  <2>3. QED BY <1>1, <2>2
<1>5. QED
  <2>1. ExistsBijection(1 .. Len(e), ToSet(e)) BY <1>3 DEF ExistsBijection
  <2>2. QED BY <1>1, <1>4, <2>1, FS_Bijection

(* A queue of some of the first N slots has N entries at most. *)
LEMMA FitsIn ==
  ASSUME NEW N \in Nat, NEW e \in Seq(0 .. N - 1), distinct(e)
  PROVE  Len(e) \in Nat /\ Len(e) <= N
<1>1. IsFiniteSet(0 .. N - 1) /\ Cardinality(0 .. N - 1) = N
  <2>1. 0 \in Int /\ N - 1 \in Int OBVIOUS
  <2>2. IsFiniteSet(0 .. N - 1)
        /\ Cardinality(0 .. N - 1) = IF 0 > N - 1 THEN 0 ELSE (N - 1) - 0 + 1
    BY <2>1, FS_Interval
  <2>3. QED BY <2>2
<1>2. Cardinality(ToSet(e)) = Len(e) /\ Len(e) \in Nat BY Counted
<1>3. ToSet(e) \subseteq 0 .. N - 1 BY ElementOfSeq, LenProperties DEF ToSet
<1>4. Cardinality(ToSet(e)) <= Cardinality(0 .. N - 1) BY <1>1, <1>3, FS_Subset
<1>5. QED BY <1>1, <1>2, <1>4

(* A queue of the transport is no longer than its batch. *)
LEMMA NoOverflow ==
  ASSUME NEW e \in Seq(Slot), distinct(e)
  PROVE  Len(e) \in Nat /\ Len(e) <= PathCount
  BY TransportAssumption, FitsIn DEF Slot

(* Two queues without repetition and without a common entry make one
   without repetition. *)
LEMMA Joined ==
  ASSUME NEW S, NEW a \in Seq(S), NEW b \in Seq(S), distinct(a), distinct(b),
         ToSet(a) \cap ToSet(b) = {}
  PROVE  /\ a \o b \in Seq(S)
         /\ distinct(a \o b)
         /\ ToSet(a \o b) = ToSet(a) \cup ToSet(b)
         /\ Len(a \o b) = Len(a) + Len(b)
<1> DEFINE c == a \o b
           m == Len(a)
           n == Len(b)
<1>1. /\ c \in Seq(S) /\ Len(c) = m + n
      /\ \A i \in 1 .. m + n : c[i] = IF i <= m THEN a[i] ELSE b[i - m]
  BY ConcatProperties
<1>2. /\ m \in Nat /\ DOMAIN a = 1 .. m
      /\ n \in Nat /\ DOMAIN b = 1 .. n
      /\ DOMAIN c = 1 .. (m + n)
  BY <1>1, LenProperties
<1> HIDE DEF c, m, n
<1>3. /\ \A i \in 1 .. m : i \in 1 .. (m + n) /\ c[i] = a[i] /\ a[i] \in ToSet(a)
      /\ \A i \in 1 .. n : i + m \in 1 .. (m + n) /\ c[i + m] = b[i] /\ b[i] \in ToSet(b)
      /\ \A i \in 1 .. (m + n) : i \in 1 .. m \/ (i - m \in 1 .. n /\ (i - m) + m = i)
  <2>1. \A i \in 1 .. m : i \in 1 .. (m + n) /\ i <= m BY <1>2
  <2>2. \A i \in 1 .. n : i + m \in 1 .. (m + n) /\ ~(i + m <= m) /\ (i + m) - m = i
    BY <1>2
  <2>3. \A i \in 1 .. (m + n) : i \in 1 .. m \/ (i - m \in 1 .. n /\ (i - m) + m = i)
    BY <1>2
  <2>4. (\A i \in 1 .. m : a[i] \in ToSet(a)) /\ \A i \in 1 .. n : b[i] \in ToSet(b)
    BY <1>2 DEF ToSet
  <2>5. QED BY <1>1, <2>1, <2>2, <2>3, <2>4
<1>4. ToSet(c) = ToSet(a) \cup ToSet(b)
  <2>1. \A x : x \in ToSet(c) <=> x \in ToSet(a) \/ x \in ToSet(b)
    <3> TAKE x
    <3>1. ASSUME x \in ToSet(c) PROVE x \in ToSet(a) \/ x \in ToSet(b)
      <4>1. PICK i \in 1 .. (m + n) : c[i] = x BY <1>2, <3>1 DEF ToSet
      <4>2. i \in 1 .. m \/ (i - m \in 1 .. n /\ (i - m) + m = i) BY <1>3
      <4>3. QED BY <1>3, <4>1, <4>2
    <3>2. ASSUME x \in ToSet(a) PROVE x \in ToSet(c)
      <4>1. PICK i \in 1 .. m : a[i] = x BY <1>2, <3>2 DEF ToSet
      <4>2. QED BY <1>2, <1>3, <4>1 DEF ToSet
    <3>3. ASSUME x \in ToSet(b) PROVE x \in ToSet(c)
      <4>1. PICK i \in 1 .. n : b[i] = x BY <1>2, <3>3 DEF ToSet
      <4>2. i + m \in 1 .. (m + n) /\ c[i + m] = x BY <1>3, <4>1
      <4>3. QED BY <1>2, <4>2 DEF ToSet
    <3>4. QED BY <3>1, <3>2, <3>3
  <2>2. QED BY <2>1
<1>5. ASSUME NEW i \in 1 .. (m + n), NEW j \in 1 .. (m + n), c[i] = c[j]
      PROVE  i = j
  <2>1. CASE i \in 1 .. m /\ j \in 1 .. m
    BY <1>2, <1>3, <1>5, <2>1 DEF distinct
  <2>2. CASE i \in 1 .. m /\ j \notin 1 .. m
    <3>1. c[i] \in ToSet(a) /\ c[j] \in ToSet(b) BY <1>3, <2>2
    <3>2. QED BY <1>5, <3>1
  <2>3. CASE i \notin 1 .. m /\ j \in 1 .. m
    <3>1. c[j] \in ToSet(a) /\ c[i] \in ToSet(b) BY <1>3, <2>3
    <3>2. QED BY <1>5, <3>1
  <2>4. CASE i \notin 1 .. m /\ j \notin 1 .. m
    <3>1. /\ i - m \in 1 .. n /\ j - m \in 1 .. n
          /\ b[i - m] = c[i] /\ b[j - m] = c[j]
      BY <1>3, <2>4
    <3>2. i - m = j - m BY <1>2, <1>5, <3>1 DEF distinct
    <3>3. QED BY <1>2, <3>2
  <2>5. QED BY <2>1, <2>2, <2>3, <2>4
<1>6. distinct(c) BY <1>2, <1>5 DEF distinct
<1>7. QED BY <1>1, <1>4, <1>6 DEF c, m, n

(* So for the queues of slots. *)
LEMMA Pushed ==
  ASSUME NEW a \in Seq(Slot), NEW b \in Seq(Slot), distinct(a), distinct(b),
         ToSet(a) \cap ToSet(b) = {}
  PROVE  /\ a \o b \in Seq(Slot)
         /\ distinct(a \o b)
         /\ ToSet(a \o b) = ToSet(a) \cup ToSet(b)
  BY Joined

(* The statistics of a stage: what is recorded satisfies the contract. *)
LEMMA SizesRecorded ==
  ASSUME NEW st \in [Kind -> [peak_size : Nat, dispatch_count : Nat,
                              input_lanes : Nat, stage_lanes : Nat]],
         NEW q \in [Kind -> Seq(Slot)], \A k \in Kind : Len(q[k]) <= PathCount,
         \A k \in Kind : st[k].peak_size <= PathCount
  PROVE  LET n == record_queue_size(st, lengths(q))
         IN  /\ n \in [Kind -> [peak_size : Nat, dispatch_count : Nat,
                                input_lanes : Nat, stage_lanes : Nat]]
             /\ \A k \in Kind : /\ n[k].peak_size <= PathCount
                                /\ n[k].dispatch_count = st[k].dispatch_count
                                /\ n[k].input_lanes = st[k].input_lanes
                                /\ n[k].stage_lanes = st[k].stage_lanes
<1> DEFINE n == record_queue_size(st, lengths(q))
           Row == [peak_size : Nat, dispatch_count : Nat, input_lanes : Nat, stage_lanes : Nat]
<1>1. \A k \in Kind : Len(q[k]) \in Nat /\ lengths(q)[k] = Len(q[k])
  BY LenProperties DEF lengths
<1>2. n = [k \in Kind |-> [st[k] EXCEPT !.peak_size =
                             IF lengths(q)[k] > @ THEN lengths(q)[k] ELSE @]]
  BY DEF record_queue_size
<1>3. ASSUME NEW k \in Kind
      PROVE  /\ n[k] \in Row /\ n[k].peak_size <= PathCount
             /\ n[k].dispatch_count = st[k].dispatch_count
             /\ n[k].input_lanes = st[k].input_lanes
             /\ n[k].stage_lanes = st[k].stage_lanes
  <2> DEFINE p == IF lengths(q)[k] > st[k].peak_size THEN lengths(q)[k] ELSE st[k].peak_size
  <2>1. p \in Nat /\ p <= PathCount /\ st[k] \in Row
    BY <1>1, TransportAssumption
  <2>2. n[k] = [st[k] EXCEPT !.peak_size = p] BY <1>2
  <2> HIDE DEF p, n
  <2>3. QED BY <2>1, <2>2
<1>4. n \in [Kind -> Row] BY <1>2, <1>3
<1>5. QED BY <1>3, <1>4

(* The dispatch recorded of a stage keeps the contract of the statistics: a
   stage with entries counts once, with as many items. *)
LEMMA DispatchRecorded ==
  ASSUME StatsInv, NEW k \in Kind, queue[k] \in Seq(Slot), Len(queue[k]) <= PathCount
  PROVE  LET st == record_stage_dispatch(k)
         IN  /\ st \in [Kind -> [peak_size : Nat, dispatch_count : Nat,
                                 input_lanes : Nat, stage_lanes : Nat]]
             /\ \A j \in Kind :
                   /\ st[j].peak_size <= PathCount
                   /\ st[j].input_lanes = st[j].stage_lanes
                   /\ st[j].dispatch_count = 0 => st[j].input_lanes = 0
                   /\ st[j].input_lanes <= PathCount * st[j].dispatch_count
<1> DEFINE st == record_stage_dispatch(k)
           Row == [peak_size : Nat, dispatch_count : Nat, input_lanes : Nat, stage_lanes : Nat]
           m == Len(queue[k])
           row == [stats[k] EXCEPT !.dispatch_count = @ + 1, !.input_lanes = @ + m,
                                   !.stage_lanes = @ + m]
<1>1. /\ stats \in [Kind -> Row]
      /\ \A j \in Kind : /\ stats[j].peak_size <= PathCount
                         /\ stats[j].input_lanes = stats[j].stage_lanes
                         /\ stats[j].dispatch_count = 0 => stats[j].input_lanes = 0
                         /\ stats[j].input_lanes <= PathCount * stats[j].dispatch_count
  BY DEF StatsInv, validate_queue_statistics
<1>2. m \in Nat /\ m <= PathCount /\ PathCount \in Nat /\ stats[k] \in Row
  BY <1>1, LenProperties, TransportAssumption
<1>3. /\ row \in Row
      /\ row.peak_size = stats[k].peak_size
      /\ row.dispatch_count = stats[k].dispatch_count + 1
      /\ row.input_lanes = stats[k].input_lanes + m
      /\ row.stage_lanes = stats[k].stage_lanes + m
  <2> DEFINE r == stats[k]
             d == r.dispatch_count + 1
             i == r.input_lanes + m
             l == r.stage_lanes + m
  <2>1. r \in Row /\ r.dispatch_count \in Nat /\ r.input_lanes \in Nat /\ r.stage_lanes \in Nat
    BY <1>2
  <2>2. row = [r EXCEPT !.dispatch_count = d, !.input_lanes = i, !.stage_lanes = l]
    OBVIOUS
  <2> HIDE DEF r, m, row
  <2>3. d \in Nat /\ i \in Nat /\ l \in Nat BY <1>2, <2>1
  <2> HIDE DEF d, i, l
  <2>4. /\ row \in Row /\ row.peak_size = r.peak_size
        /\ row.dispatch_count = d /\ row.input_lanes = i /\ row.stage_lanes = l
    BY <2>1, <2>2, <2>3
  <2>5. QED BY <2>4 DEF r, d, i, l
<1>4. st = [stats EXCEPT ![k] = row] BY <1>1 DEF record_stage_dispatch
<1>5. row.input_lanes <= PathCount * row.dispatch_count
  <2> DEFINE d == stats[k].dispatch_count
             l == stats[k].input_lanes
  <2>1. d \in Nat /\ l \in Nat /\ l <= PathCount * d BY <1>1, <1>2
  <2> HIDE DEF d, l, m
  <2>2. PathCount * (d + 1) = PathCount * d + PathCount /\ PathCount * d \in Nat
    BY <1>2, <2>1
  <2>3. l + m <= PathCount * (d + 1) BY <1>2, <2>1, <2>2
  <2>4. QED BY <1>3, <2>3 DEF d, l
<1> HIDE DEF row, st, m
<1>6. st \in [Kind -> Row] /\ st[k] = row /\ \A j \in Kind : j # k => st[j] = stats[j]
  BY <1>1, <1>3, <1>4
<1>7. ASSUME NEW j \in Kind
      PROVE  /\ st[j].peak_size <= PathCount
             /\ st[j].input_lanes = st[j].stage_lanes
             /\ st[j].dispatch_count = 0 => st[j].input_lanes = 0
             /\ st[j].input_lanes <= PathCount * st[j].dispatch_count
  <2>1. CASE j = k
    BY <1>1, <1>2, <1>3, <1>5, <1>6, <2>1
  <2>2. CASE j # k
    BY <1>1, <1>6, <2>2
  <2>3. QED BY <2>1, <2>2
<1>8. QED BY <1>6, <1>7 DEF st
------------------------------------------------------
(* Steps of the batch. A kernel that runs leaves its runtime as its stage
   should, and touches no other. *)

(* A lane that has not run is a slot of the stage's queue, in the state the
   stage finds. *)
LEMMA WhereKernelRuns ==
  ASSUME IInv, NEW s \in Slot, running, s \in lanes
  PROVE  /\ stage \in Kind /\ s \in ToSet(queue[stage])
         /\ found(stage, path[s])
         /\ ~contradicts(stage, path[s]) /\ ~refuses_state(stage, path[s])
<1>1. stage \in Kind /\ s \in ToSet(queue[stage]) BY DEF IInv, PhaseInv
<1>2. found(stage, path[s]) BY <1>1 DEF IInv, StageInv
<1>3. QED BY <1>1, <1>2, NothingRefused

(* A kernel that leaves its slot as its stage should keeps the invariant. *)
LEMMA LaneStep ==
  ASSUME IInv, NEW k \in Kind, NEW s \in Slot, runs(k, s), NEW n, left(k, n), leave(s, n)
  PROVE  IInv'
<1>1. /\ stage = k /\ running /\ s \in lanes
      /\ path' = [path EXCEPT ![s] = n] /\ lanes' = lanes \ {s}
      /\ queue' = queue /\ stage' = stage /\ running' = running /\ failure' = failure
      /\ stats' = stats
  BY DEF runs, leave
<1>2. s \in ToSet(queue[k]) /\ found(k, path[s]) BY <1>1, WhereKernelRuns
<1>3. path \in [Slot -> RuntimePath] /\ \A x \in Slot : kept(path[x])
  BY DEF IInv, RuntimeInv
<1>4. kept(n) /\ n \in RuntimePath BY LeftKept DEF kept
<1>5. /\ path' \in [Slot -> RuntimePath] /\ path'[s] = n
      /\ \A x \in Slot : x # s => path'[x] = path[x]
  BY <1>1, <1>3, <1>4
<1>6. RuntimeInv'
  <2>1. \A x \in Slot : kept(path'[x]) BY <1>3, <1>4, <1>5
  <2>2. QED BY <1>5, <2>1 DEF RuntimeInv
<1>7. QueueInv' BY <1>1 DEF IInv, QueueInv
<1>8. StatsInv' BY <1>1 DEF IInv, StatsInv, validate_queue_statistics
<1>9. StageInv'
  <2>1. /\ \A a, b \in Kind : a # b => ToSet(queue[a]) \cap ToSet(queue[b]) = {}
        /\ \A a \in Kind \ in_use(stage) : queue[a] = << >>
        /\ \A x \in Slot : finished(path[x]) \/ \E a \in Kind : x \in ToSet(queue[a])
        /\ \A a \in Kind : \A x \in ToSet(queue[a]) :
              IF a = stage /\ running /\ x \notin lanes
              THEN left(a, path[x]) \/ (failure # "none" /\ found(a, path[x]))
              ELSE found(a, path[x])
    BY <1>1 DEF IInv, StageInv
  <2>2. \A x \in Slot : finished(path'[x]) \/ \E a \in Kind : x \in ToSet(queue[a])
    BY <1>2, <1>5, <2>1
  <2>3. ASSUME NEW a \in Kind, NEW x \in ToSet(queue[a])
        PROVE  IF a = k /\ running /\ x \notin lanes'
               THEN left(a, path'[x]) \/ (failure # "none" /\ found(a, path'[x]))
               ELSE found(a, path'[x])
    <3>1. x \in Slot
      <4>1. queue[a] \in Seq(Slot) BY DEF IInv, QueueInv
      <4>2. QED BY <4>1 DEF ToSet
    <3>2. CASE x = s
      <4>1. a = k BY <1>2, <2>1, <2>3, <3>2
      <4>2. QED BY <1>1, <1>5, <3>2, <4>1
    <3>3. CASE x # s
      <4>1. path'[x] = path[x] /\ (x \in lanes' <=> x \in lanes)
        BY <1>1, <1>5, <3>1, <3>3
      <4>2. QED BY <1>1, <2>1, <4>1
    <3>4. QED BY <3>2, <3>3
  <2>4. QED BY <1>1, <2>1, <2>2, <2>3 DEF StageInv
<1>10. PhaseInv'
  <2>1. stage # "begin" BY <1>1 DEF Kind
  <2>2. QED BY <1>1, <2>1 DEF IInv, PhaseInv
<1>11. QED BY <1>6, <1>7, <1>8, <1>9, <1>10 DEF IInv

(* shade_scatter: whatever the light sample and the closure sample are. *)
LEMMA ScatterShades ==
  ASSUME NEW s \in Slot, shade_scatter(s), shadable(emitted(path[s]))
  PROVE  \E light \in LightSample : \E n : leave(s, n) /\ shaded(emitted(path[s]), light, n)
<1> DEFINE e == emitted(path[s])
           bounce(light, event, black) ==
              LET n == scattered(prepared(e, light), event, black)
              IN  \/ black /\ leave(s, terminate(n, "zero_throughput", {}))
                  \/ ~black /\ leave(s, [n EXCEPT !.continuation_requested = TRUE])
                  \/ /\ ~black /\ eligible(path_depth_total(n.depth_counters))
                     /\ leave(s, terminate(n, "russian_roulette", {}))
<1>1. PICK light \in LightSample :
          \/ leave(s, terminate(prepared(e, light), "outside_bsdf_support", {}))
          \/ \E event \in allowed_events(e.depth_counters, e.surface), black \in BOOLEAN :
                bounce(light, event, black)
  BY DEF shade_scatter, LightSample
<1> HIDE DEF e
<1>2. shadable(e) BY DEF e
<1>3. CASE leave(s, terminate(prepared(e, light), "outside_bsdf_support", {}))
  <2>1. shaded(e, light, terminate(prepared(e, light), "outside_bsdf_support", {}))
    BY <1>2, MissedShades
  <2>2. QED BY <1>3, <2>1 DEF e
<1>4. CASE \E event \in allowed_events(e.depth_counters, e.surface), black \in BOOLEAN :
              bounce(light, event, black)
  <2> HIDE DEF bounce
  <2>1. PICK event \in allowed_events(e.depth_counters, e.surface) :
            \E black \in BOOLEAN : bounce(light, event, black)
    BY <1>4
  <2>2. PICK black \in BOOLEAN : bounce(light, event, black) BY <2>1
  <2> DEFINE m == scattered(prepared(e, light), event, black)
  <2>3. \E n : /\ leave(s, n)
               /\ \/ black /\ n = terminate(m, "zero_throughput", {})
                  \/ ~black /\ n = [m EXCEPT !.continuation_requested = TRUE]
                  \/ /\ ~black /\ eligible(path_depth_total(m.depth_counters))
                     /\ n = terminate(m, "russian_roulette", {})
    BY <2>2 DEF bounce
  <2>4. PICK n : /\ leave(s, n)
                 /\ \/ black /\ n = terminate(m, "zero_throughput", {})
                    \/ ~black /\ n = [m EXCEPT !.continuation_requested = TRUE]
                    \/ /\ ~black /\ eligible(path_depth_total(m.depth_counters))
                       /\ n = terminate(m, "russian_roulette", {})
    BY <2>3
  <2>5. shaded(e, light, n) BY <1>2, <2>4, BouncedShades
  <2>6. QED BY <2>4, <2>5 DEF e
<1>5. QED BY <1>1, <1>3, <1>4

(* What each kernel does is what its stage leaves. *)
LEMMA KernelLeaves ==
  ASSUME IInv, NEW s \in Slot, Kernel(s)
  PROVE  \/ lane_error(s)
         \/ \E k \in Kind : \E n : runs(k, s) /\ leave(s, n) /\ left(k, n)
<1> DEFINE Left == \E k \in Kind : \E n : runs(k, s) /\ leave(s, n) /\ left(k, n)
<1>0. ASSUME NEW k \in Kind, runs(k, s) PROVE found(k, path[s])
  BY <1>0, WhereKernelRuns DEF runs
<1>1. CASE initialize_runtime_path(s)
  <2>1. runs("camera", s) /\ "camera" \in Kind
    BY <1>1 DEF initialize_runtime_path, Kind
  <2>2. left("camera", [path[s] EXCEPT !.initialized = TRUE,
                             !.beta = [events |-> << >>, black |-> s \in BlackInputs]])
    BY <1>0, <2>1, InitializeLeaves
  <2>3. QED BY <1>1, <2>1, <2>2 DEF initialize_runtime_path
<1>2. CASE trace_ray(s)
  <2>1. runs("ray", s) /\ "ray" \in Kind BY <1>2 DEF trace_ray, Kind
  <2>2. PICK hit \in BOOLEAN : leave(s, [path[s] EXCEPT !.hit = hit, !.surface = None])
    BY <1>2 DEF trace_ray
  <2>3. left("ray", [path[s] EXCEPT !.hit = hit, !.surface = None])
    BY <1>0, <2>1, TraceLeaves
  <2>4. QED BY <2>1, <2>2, <2>3
<1>3. CASE accumulate_miss(s)
  <2>1. runs("miss", s) /\ "miss" \in Kind BY <1>3 DEF accumulate_miss, Kind
  <2>2. left("miss", finish_path(Weigh(path[s], "environment", path[s].beta),
                                 "escaped_environment", {}))
    BY <1>0, <2>1, MissLeaves
  <2>3. QED BY <1>3, <2>1, <2>2 DEF accumulate_miss
<1>4. CASE resolve_surface(s)
  <2>1. runs("hit", s) /\ "hit" \in Kind BY <1>4 DEF resolve_surface, Kind
  <2>2. PICK surface \in Surfaces : leave(s, [path[s] EXCEPT !.surface = surface])
    BY <1>4 DEF resolve_surface
  <2>3. left("hit", [path[s] EXCEPT !.surface = surface])
    BY <1>0, <2>1, ResolveLeaves
  <2>4. QED BY <2>1, <2>2, <2>3
<1>5. CASE shade_terminal(s)
  <2>1. runs("shade", s) /\ "shade" \in Kind /\ found("shade", path[s])
    BY <1>0, <1>5 DEF shade_terminal, Kind
  <2> DEFINE q == emitted(path[s])
  <2>2. \E reason \in Termination : \E blocked \in SUBSET Category :
           leave(s, terminate(q, reason, blocked))
    <3>1. q.surface \in Surfaces BY <2>1, EmittedKeeps DEF found, shadable
    <3>2. blocked_lobes(q.depth_counters, q.surface) \in SUBSET Category
      BY DEF blocked_lobes, blocked_limits
    <3>3. /\ "zero_throughput" \in Termination /\ "outside_bsdf_support" \in Termination
          /\ "depth_limit" \in Termination /\ {} \in SUBSET Category
      BY DEF Termination
    <3>4. \/ leave(s, terminate(q, "zero_throughput", {}))
          \/ leave(s, terminate(q, "outside_bsdf_support", {}))
          \/ leave(s, terminate(q, "depth_limit", blocked_lobes(q.depth_counters, q.surface)))
      BY <1>5 DEF shade_terminal
    <3> HIDE DEF q
    <3>5. QED BY <3>2, <3>3, <3>4
  <2>3. PICK reason \in Termination : \E blocked \in SUBSET Category :
           leave(s, terminate(q, reason, blocked))
    BY <2>2
  <2>4. PICK blocked \in SUBSET Category : leave(s, terminate(q, reason, blocked))
    BY <2>3
  <2>5. left("shade", terminate(q, reason, blocked)) BY <2>1, TerminalLeaves
  <2>6. QED BY <2>1, <2>4, <2>5
<1>6. CASE shade_scatter(s)
  <2>1. runs("shade", s) /\ "shade" \in Kind /\ found("shade", path[s])
    BY <1>0, <1>6 DEF shade_scatter, Kind
  <2>2. shadable(emitted(path[s])) BY <2>1, EmittedKeeps DEF found
  <2>3. PICK light \in LightSample : \E n : leave(s, n) /\ shaded(emitted(path[s]), light, n)
    BY <1>6, <2>2, ScatterShades
  <2>4. QED BY <2>1, <2>2, <2>3, ShadedLeaves
<1>7. CASE query_shadow(s)
  <2>1. runs("shadow", s) /\ "shadow" \in Kind /\ found("shadow", path[s])
    BY <1>0, <1>7 DEF query_shadow, Kind
  <2> DEFINE n == [path[s] EXCEPT !.shadow_queries = @ + 1, !.pending_shadow = None]
  <2>2. PICK visible \in BOOLEAN :
           leave(s, IF visible THEN Weigh(n, "direct", path[s].pending_shadow.beta) ELSE n)
    BY <1>7 DEF query_shadow
  <2>3. left("shadow", IF visible THEN Weigh(n, "direct", path[s].pending_shadow.beta) ELSE n)
    BY <2>1, ShadowLeaves
  <2>4. QED BY <2>1, <2>2, <2>3
<1>8. CASE continue_path(s)
  <2>1. runs("continuation", s) /\ "continuation" \in Kind
    BY <1>8 DEF continue_path, Kind
  <2>2. left("continuation", [path[s] EXCEPT !.continuation_requested = FALSE,
                                             !.hit = FALSE, !.surface = None])
    BY <1>0, <2>1, ContinueLeaves
  <2>3. QED BY <1>8, <2>1, <2>2 DEF continue_path
<1>9. QED BY <1>1, <1>2, <1>3, <1>4, <1>5, <1>6, <1>7, <1>8 DEF Kernel

(* A step of a kernel keeps the invariant. *)
LEMMA KernelKeeps ==
  ASSUME IInv, NEW s \in Slot, Kernel(s)
  PROVE  IInv'
<1>1. CASE lane_error(s)
  <2>1. /\ running /\ s \in lanes /\ lanes' = lanes \ {s}
        /\ failure' = IF contradicts(stage, path[s]) THEN "contradiction"
                      ELSE IF refuses_state(stage, path[s]) THEN "state"
                      ELSE IF failure = "none" THEN "data" ELSE failure
        /\ path' = path /\ queue' = queue /\ stage' = stage /\ running' = running
        /\ stats' = stats
    BY <1>1 DEF lane_error
  <2>2. /\ stage \in Kind /\ found(stage, path[s])
        /\ ~contradicts(stage, path[s]) /\ ~refuses_state(stage, path[s])
    BY <2>1, WhereKernelRuns
  <2>3. failure \in {"none", "data"} BY <2>1 DEF IInv, PhaseInv
  <2>4. failure' = "data" BY <2>1, <2>2, <2>3
  <2>5. RuntimeInv' /\ QueueInv' BY <2>1 DEF IInv, RuntimeInv, QueueInv
  <2>6. StatsInv' BY <2>1 DEF IInv, StatsInv, validate_queue_statistics
  <2>7. StageInv'
    <3>1. ASSUME NEW a \in Kind, NEW x \in ToSet(queue[a])
          PROVE  IF a = stage /\ running /\ x \notin lanes'
                 THEN left(a, path[x]) \/ (failure' # "none" /\ found(a, path[x]))
                 ELSE found(a, path[x])
      <4>1. IF a = stage /\ running /\ x \notin lanes
            THEN left(a, path[x]) \/ (failure # "none" /\ found(a, path[x]))
            ELSE found(a, path[x])
        BY <2>2, <3>1 DEF IInv, StageInv
      <4>2. CASE x = s
        BY <2>1, <2>2, <2>4, <4>1, <4>2
      <4>3. CASE x # s
        <5>1. x \in lanes' <=> x \in lanes BY <2>1, <4>3
        <5>2. QED BY <2>4, <4>1, <5>1
      <4>4. QED BY <4>2, <4>3
    <3>2. QED BY <2>1, <2>2, <3>1 DEF IInv, StageInv
  <2>8. PhaseInv'
    <3>1. stage # "begin" BY <2>2 DEF Kind
    <3>2. QED BY <2>1, <2>4, <3>1 DEF IInv, PhaseInv
  <2>9. QED BY <2>5, <2>6, <2>7, <2>8 DEF IInv
<1>2. CASE \E k \in Kind : \E n : runs(k, s) /\ leave(s, n) /\ left(k, n)
  BY <1>2, LaneStep
<1>3. QED BY <1>1, <1>2, KernelLeaves
------------------------------------------------------
(* Steps of the caller. Behind the barrier of stage k, every slot of its
   queue goes to a queue of the stages that follow, where it is what their
   kernel finds, or ends. *)

(* Behind each stage comes the one the code calls next. *)
LEMMA NextStage ==
  ASSUME NEW k \in Kind
  PROVE  after(k) \in Kind /\ after(k) # k /\ k \notin in_use(after(k))
         /\ (k # "ray" => in_use(k) \subseteq {k} \cup in_use(after(k)))
  BY DEF Kind, after, in_use

(* A stage that routes its slots, each to a queue whose kernel finds it or
   to its end, keeps the invariant. *)
LEMMA RouteKeeps ==
  ASSUME IInv, NEW k \in Kind, NEW q \in [Kind -> Seq(Slot)], NEW finishing \in SUBSET Slot,
         NEW unrouted, unrouted = {}, route(k, q, finishing, unrouted),
         \A x \in Kind : distinct(q[x]),
         \A x, y \in Kind \ {k} : x # y => ToSet(q[x]) \cap ToSet(q[y]) = {},
         \A x \in Kind \ {k} : x \notin in_use(after(k)) => q[x] = << >>,
         \A s \in Slot : \/ s \in finishing \/ finished(path[s])
                         \/ \E x \in Kind \ {k} : s \in ToSet(q[x]),
         \A x \in Kind \ {k} : \A s \in ToSet(q[x]) : s \notin finishing /\ found(x, path[s]),
         \A s \in finishing : ending(path[s])
  PROVE  IInv'
<1> DEFINE end(s) == finish_path(path[s], path[s].pending_termination.reason,
                                          path[s].pending_termination.blocked)
           n == [q EXCEPT ![k] = << >>]
<1>1. \A x \in Kind : Len(q[x]) \in Nat /\ Len(q[x]) <= PathCount BY NoOverflow
<1>2. ~overflows(q)
  <2>1. \A x \in Kind : ~(Len(q[x]) > PathCount) BY <1>1, TransportAssumption
  <2>2. QED BY <2>1 DEF overflows
<1>3. \A s \in finishing : /\ finished(end(s)) /\ finishable(path[s])
                           /\ path_state_valid(path[s].depth_counters, path[s].delta_flags)
  BY EndingFinishes
<1>4. /\ stage = k /\ running /\ stage_complete /\ failure = "none"
      /\ path' = [s \in Slot |-> IF s \in finishing THEN end(s) ELSE path[s]]
      /\ queue' = n
      /\ stats' = record_queue_size(record_stage_dispatch(k), lengths(q))
      /\ failure' = "none" /\ stage' = after(k) /\ running' = FALSE /\ lanes' = lanes
  <2> DEFINE why == IF unrouted # {} \/ \E s \in finishing : ~finishable(path[s])
                    THEN "contradiction"
                    ELSE IF \E s \in finishing :
                               ~path_state_valid(path[s].depth_counters, path[s].delta_flags)
                    THEN "state"
                    ELSE IF overflows(q) THEN "overflow" ELSE "none"
  <2>1. why = "none" BY <1>2, <1>3
  <2>2. /\ stage = k /\ running /\ stage_complete /\ failure = "none"
        /\ path' = [s \in Slot |-> IF s \in finishing THEN end(s) ELSE path[s]]
        /\ queue' = IF why = "none" THEN n ELSE queue
        /\ stats' = IF why = "none"
                    THEN record_queue_size(record_stage_dispatch(k), lengths(q)) ELSE stats
        /\ failure' = why
        /\ stage' = IF why = "none" THEN after(k) ELSE "failed"
        /\ running' = FALSE /\ lanes' = lanes
    BY DEF route
  <2> HIDE DEF why
  <2>3. QED BY <2>1, <2>2
<1>5. n \in [Kind -> Seq(Slot)] /\ n[k] = << >> /\ \A x \in Kind \ {k} : n[x] = q[x]
  <2>1. << >> \in Seq(Slot) OBVIOUS
  <2>2. QED BY <2>1
<1>6. ToSet(<< >>) = {} /\ distinct(<< >>) BY DEF ToSet, distinct
<1>7. path \in [Slot -> RuntimePath] /\ \A s \in Slot : kept(path[s])
  BY DEF IInv, RuntimeInv
<1>8. \A s \in Slot : path'[s] = IF s \in finishing THEN end(s) ELSE path[s]
  BY <1>4
<1>a. \A s \in finishing : finished(path'[s]) BY <1>3, <1>8
<1>b. \A s \in Slot : s \notin finishing => path'[s] = path[s] BY <1>8
<1> HIDE DEF n, end
<1>9. RuntimeInv'
  <2>1. \A s \in Slot : kept(path'[s]) BY <1>7, <1>a, <1>b DEF finished
  <2>2. path' \in [Slot -> RuntimePath]
    <3>1. path' = [s \in Slot |-> path'[s]] BY <1>4
    <3>2. \A s \in Slot : path'[s] \in RuntimePath BY <2>1 DEF kept
    <3>3. QED BY <3>1, <3>2
  <2>3. QED BY <2>1, <2>2 DEF RuntimeInv
<1>10. QueueInv'
  <2>1. \A x \in Kind : distinct(n[x]) BY <1>5, <1>6
  <2>2. QED BY <1>4, <1>5, <2>1 DEF QueueInv
<1>11. StatsInv'
  <2> DEFINE st == record_stage_dispatch(k)
             Row == [peak_size : Nat, dispatch_count : Nat, input_lanes : Nat, stage_lanes : Nat]
  <2>1. StatsInv /\ queue[k] \in Seq(Slot) /\ distinct(queue[k])
    BY DEF IInv, QueueInv
  <2>2. Len(queue[k]) <= PathCount BY <2>1, NoOverflow
  <2>3. /\ st \in [Kind -> Row]
        /\ \A j \in Kind : /\ st[j].peak_size <= PathCount
                           /\ st[j].input_lanes = st[j].stage_lanes
                           /\ st[j].dispatch_count = 0 => st[j].input_lanes = 0
                           /\ st[j].input_lanes <= PathCount * st[j].dispatch_count
    BY <2>1, <2>2, DispatchRecorded
  <2> HIDE DEF st
  <2>4. stats' = record_queue_size(st, lengths(q)) BY <1>4 DEF st
  <2>5. /\ stats' \in [Kind -> Row]
        /\ \A j \in Kind : /\ stats'[j].peak_size <= PathCount
                           /\ stats'[j].dispatch_count = st[j].dispatch_count
                           /\ stats'[j].input_lanes = st[j].input_lanes
                           /\ stats'[j].stage_lanes = st[j].stage_lanes
    <3> DEFINE r == record_queue_size(st, lengths(q))
    <3>1. (\A x \in Kind : Len(q[x]) <= PathCount) /\ \A x \in Kind : st[x].peak_size <= PathCount
      BY <1>1, <2>3
    <3>2. /\ r \in [Kind -> Row]
          /\ \A j \in Kind : /\ r[j].peak_size <= PathCount
                             /\ r[j].dispatch_count = st[j].dispatch_count
                             /\ r[j].input_lanes = st[j].input_lanes
                             /\ r[j].stage_lanes = st[j].stage_lanes
      BY <2>3, <3>1, SizesRecorded
    <3>3. stats' = r BY <2>4
    <3> HIDE DEF r, Row
    <3>4. QED BY <3>2, <3>3
  <2>6. validate_queue_statistics' BY <2>3, <2>5 DEF validate_queue_statistics
  <2>7. QED BY <2>5, <2>6 DEF StatsInv
<1>12. StageInv'
  <2>1. after(k) \in Kind /\ after(k) # k /\ k \notin in_use(after(k))
    BY NextStage
  <2>2. ASSUME NEW x \in Kind, NEW y \in Kind, x # y PROVE ToSet(n[x]) \cap ToSet(n[y]) = {}
    BY <1>5, <1>6, <2>2
  <2>3. ASSUME NEW x \in Kind \ in_use(after(k)) PROVE n[x] = << >>
    BY <1>5
  <2>4. ASSUME NEW s \in Slot PROVE finished(path'[s]) \/ \E x \in Kind : s \in ToSet(n[x])
    <3>1. CASE s \in finishing
      BY <1>a, <3>1
    <3>2. CASE s \notin finishing
      <4>1. path'[s] = path[s] BY <1>b, <3>2
      <4>2. finished(path[s]) \/ \E x \in Kind \ {k} : s \in ToSet(q[x]) BY <3>2
      <4>3. QED BY <1>5, <4>1, <4>2
    <3>3. QED BY <3>1, <3>2
  <2>5. ASSUME NEW x \in Kind, NEW s \in ToSet(n[x]) PROVE found(x, path'[s])
    <3>1. x # k BY <1>5, <1>6, <2>5
    <3>2. n[x] = q[x] /\ q[x] \in Seq(Slot) BY <1>5, <3>1
    <3>3. s \in Slot BY <2>5, <3>2 DEF ToSet
    <3>4. s \notin finishing /\ found(x, path[s]) BY <2>5, <3>1, <3>2
    <3>5. QED BY <1>b, <3>3, <3>4
  <2>6. QED BY <1>4, <2>1, <2>2, <2>3, <2>4, <2>5 DEF StageInv
<1>13. PhaseInv'
  <2>1. after(k) \in Kind /\ after(k) # "begin" BY NextStage DEF Kind
  <2>2. lanes = {} BY <1>4 DEF stage_complete
  <2>3. QED BY <1>4, <2>1, <2>2 DEF PhaseInv
<1>14. QED BY <1>9, <1>10, <1>11, <1>12, <1>13 DEF IInv

(* Where the slots are when every lane of a stage has run. *)
LEMMA BehindBarrier ==
  ASSUME IInv, NEW k \in Kind, stage = k, running, stage_complete, failure = "none"
  PROVE  /\ queue \in [Kind -> Seq(Slot)]
         /\ \A x \in Kind : distinct(queue[x])
         /\ \A x, y \in Kind : x # y => ToSet(queue[x]) \cap ToSet(queue[y]) = {}
         /\ \A x \in Kind \ in_use(k) : queue[x] = << >> /\ ToSet(queue[x]) = {}
         /\ \A s \in Slot : finished(path[s]) \/ \E x \in Kind : s \in ToSet(queue[x])
         /\ \A x \in Kind : \A s \in ToSet(queue[x]) :
               /\ s \in Slot
               /\ IF x = k THEN left(k, path[s]) ELSE found(x, path[s])
<1>1. lanes = {} BY DEF stage_complete
<1>2. queue \in [Kind -> Seq(Slot)] /\ \A x \in Kind : distinct(queue[x])
  BY DEF IInv, QueueInv
<1>3. \A x \in Kind : \A s \in ToSet(queue[x]) : s \in Slot BY <1>2 DEF ToSet
<1>4. ToSet(<< >>) = {} BY DEF ToSet
<1>5. QED BY <1>1, <1>2, <1>3, <1>4 DEF IInv, StageInv

(* A stage whose whole queue goes to the next stage. *)
LEMMA MoveKeeps ==
  ASSUME IInv, NEW k \in Kind, in_use(k) = {k}, in_use(after(k)) = {after(k)},
         \A q : left(k, q) => found(after(k), q),
         route(k, push_batch(after(k), k), {}, {})
  PROVE  IInv'
<1> DEFINE t == after(k)
           q == push_batch(t, k)
<1>1. t \in Kind /\ t # k BY NextStage
<1>2. stage = k /\ running /\ stage_complete /\ failure = "none" BY DEF route
<1>3. /\ queue \in [Kind -> Seq(Slot)]
      /\ \A x \in Kind : distinct(queue[x])
      /\ \A x \in Kind \ {k} : queue[x] = << >> /\ ToSet(queue[x]) = {}
      /\ \A s \in Slot : finished(path[s]) \/ \E x \in Kind : s \in ToSet(queue[x])
      /\ \A s \in ToSet(queue[k]) : s \in Slot /\ left(k, path[s])
  BY <1>2, BehindBarrier
<1> HIDE DEF t
<1>4. queue[t] \o queue[k] = queue[k] BY <1>1, <1>3, ConcatEmptySeq
<1>5. q = [queue EXCEPT ![t] = queue[k]] BY <1>4 DEF push_batch
<1>6. /\ q \in [Kind -> Seq(Slot)] /\ q[t] = queue[k]
      /\ \A x \in Kind : x # t => q[x] = queue[x]
  BY <1>1, <1>3, <1>5
<1> HIDE DEF q
<1>7. \A x \in Kind : distinct(q[x]) BY <1>1, <1>3, <1>6
<1>8. \A x \in Kind \ {k} : x # t => q[x] = << >> /\ ToSet(q[x]) = {}
  BY <1>3, <1>6
<1>9. \A x, y \in Kind \ {k} : x # y => ToSet(q[x]) \cap ToSet(q[y]) = {}
  BY <1>8
<1>10. \A s \in Slot : finished(path[s]) \/ \E x \in Kind \ {k} : s \in ToSet(q[x])
  <2> TAKE s \in Slot
  <2>1. finished(path[s]) \/ s \in ToSet(queue[k]) BY <1>3
  <2>2. QED BY <1>1, <1>6, <2>1
<1>11. \A x \in Kind \ {k} : \A s \in ToSet(q[x]) : found(x, path[s])
  <2> TAKE x \in Kind \ {k}
  <2> TAKE s \in ToSet(q[x])
  <2>1. x = t /\ s \in ToSet(queue[k]) BY <1>6, <1>8
  <2>2. left(k, path[s]) BY <1>3, <2>1
  <2>3. QED BY <2>1, <2>2 DEF t
<1>12. \A x \in Kind \ {k} : x \notin in_use(after(k)) => q[x] = << >>
  BY <1>8 DEF t
<1>13. route(k, q, {}, {}) BY DEF q, t
<1>14. {} \in SUBSET Slot OBVIOUS
<1>15. QED BY <1>6, <1>7, <1>9, <1>10, <1>11, <1>12, <1>13, <1>14, RouteKeeps, ZenonT(40)

(* What a stage selects of its queue. *)
LEMMA Selected ==
  ASSUME IInv, NEW k \in Kind, NEW wanted
  PROVE  /\ filtered(queue[k], wanted) \in Seq(Slot)
         /\ distinct(filtered(queue[k], wanted))
         /\ ToSet(filtered(queue[k], wanted)) = ToSet(queue[k]) \cap wanted
<1>1. queue[k] \in Seq(Slot) /\ distinct(queue[k]) BY DEF IInv, QueueInv
<1>2. QED BY <1>1, FilteredEntries

(* The ray stage routes each slot to the miss queue or to the hit queue,
   and ends the failed ones. *)
LEMMA AfterRayKeeps == ASSUME IInv, after_ray PROVE IInv'
<1> DEFINE hits   == {s \in Slot : path[s].hit}
           misses == {s \in Slot : ~path[s].hit}
           H == filtered(queue["ray"], hits)
           M == filtered(queue["ray"], misses)
           q == [queue EXCEPT !["hit"] = @ \o H, !["miss"] = @ \o M]
<1>1. route("ray", q, {}, {}) BY DEF after_ray, select
<1>2. "ray" \in Kind /\ "hit" \in Kind /\ "miss" \in Kind BY DEF Kind
<1>3. stage = "ray" /\ running /\ stage_complete /\ failure = "none"
  BY <1>1 DEF route
<1>4. in_use("ray") = {"ray"} /\ in_use(after("ray")) = {"miss", "hit"}
  BY DEF in_use, after
<1>5. /\ queue \in [Kind -> Seq(Slot)]
      /\ \A x \in Kind : distinct(queue[x])
      /\ \A x \in Kind \ {"ray"} : queue[x] = << >> /\ ToSet(queue[x]) = {}
      /\ \A s \in Slot : finished(path[s]) \/ \E x \in Kind : s \in ToSet(queue[x])
      /\ \A s \in ToSet(queue["ray"]) : s \in Slot /\ left("ray", path[s])
  BY <1>2, <1>3, <1>4, BehindBarrier
<1>6. /\ H \in Seq(Slot) /\ distinct(H) /\ ToSet(H) = ToSet(queue["ray"]) \cap hits
      /\ M \in Seq(Slot) /\ distinct(M) /\ ToSet(M) = ToSet(queue["ray"]) \cap misses
  BY <1>2, Selected
<1> HIDE DEF H, M
<1>7. queue["hit"] \o H = H /\ queue["miss"] \o M = M
  BY <1>2, <1>5, <1>6, ConcatEmptySeq, SMTT(20)
<1>8. q = [queue EXCEPT !["hit"] = H, !["miss"] = M] BY <1>7
<1>9. /\ q \in [Kind -> Seq(Slot)] /\ q["hit"] = H /\ q["miss"] = M
      /\ \A x \in Kind : x # "hit" /\ x # "miss" => q[x] = queue[x]
  BY <1>2, <1>5, <1>6, <1>8
<1> HIDE DEF q
<1>10. \A x \in Kind : distinct(q[x]) BY <1>5, <1>6, <1>9
<1>11. \A x \in Kind \ {"ray"} : x # "hit" /\ x # "miss" => q[x] = << >> /\ ToSet(q[x]) = {}
  BY <1>5, <1>9
<1>12. \A x, y \in Kind \ {"ray"} : x # y => ToSet(q[x]) \cap ToSet(q[y]) = {}
  <2>1. ToSet(H) \cap ToSet(M) = {} BY <1>6
  <2> HIDE DEF hits, misses
  <2>2. QED BY <1>9, <1>11, <2>1
<1>13. \A s \in Slot : finished(path[s]) \/ \E x \in Kind \ {"ray"} : s \in ToSet(q[x])
  <2> TAKE s \in Slot
  <2>1. finished(path[s]) \/ s \in ToSet(queue["ray"]) BY <1>5
  <2>2. s \in ToSet(queue["ray"]) => s \in ToSet(H) \/ s \in ToSet(M) BY <1>6
  <2>3. "hit" \in Kind \ {"ray"} /\ "miss" \in Kind \ {"ray"} BY <1>2
  <2>4. QED BY <1>9, <2>1, <2>2, <2>3
<1>14. \A x \in Kind \ {"ray"} : \A s \in ToSet(q[x]) : found(x, path[s])
  <2> TAKE x \in Kind \ {"ray"}
  <2> TAKE s \in ToSet(q[x])
  <2>1. x = "hit" \/ x = "miss" BY <1>11
  <2>2. s \in ToSet(queue["ray"]) /\ path[s].hit = (x = "hit") /\ traveling(path[s])
    <3>1. s \in ToSet(queue["ray"]) /\ (x = "hit" => path[s].hit) /\ (x = "miss" => ~path[s].hit)
      BY <1>6, <1>9, <2>1
    <3>2. left("ray", path[s]) BY <1>5, <3>1
    <3>3. traveling(path[s]) BY <3>2 DEF left
    <3>4. path[s].hit \in BOOLEAN BY <3>3 DEF traveling, live, kept, RuntimePath
    <3>5. QED BY <2>1, <3>1, <3>3, <3>4
  <2>3. QED BY <2>1, <2>2 DEF found
<1>15. \A x \in Kind \ {"ray"} : x \notin in_use(after("ray")) => q[x] = << >>
  BY <1>4, <1>11
<1>16. {} \in SUBSET Slot OBVIOUS
<1>17. QED BY <1>1, <1>2, <1>9, <1>10, <1>12, <1>13, <1>14, <1>15, <1>16, RouteKeeps, ZenonT(40)

(* The miss stage ends every slot it holds. *)
LEMMA AfterMissKeeps == ASSUME IInv, after_miss PROVE IInv'
<1>1. route("miss", queue, {}, {}) BY DEF after_miss
<1>2. "miss" \in Kind BY DEF Kind
<1>3. stage = "miss" /\ running /\ stage_complete /\ failure = "none"
  BY <1>1 DEF route
<1>4. in_use("miss") = {"miss", "hit"} /\ in_use(after("miss")) = {"hit"}
  BY DEF in_use, after
<1>5. /\ queue \in [Kind -> Seq(Slot)]
      /\ \A x \in Kind : distinct(queue[x])
      /\ \A x, y \in Kind : x # y => ToSet(queue[x]) \cap ToSet(queue[y]) = {}
      /\ \A x \in Kind : x # "miss" /\ x # "hit" => queue[x] = << >>
      /\ \A s \in Slot : finished(path[s]) \/ \E x \in Kind : s \in ToSet(queue[x])
      /\ \A s \in ToSet(queue["miss"]) : s \in Slot /\ left("miss", path[s])
      /\ \A x \in Kind \ {"miss"} : \A s \in ToSet(queue[x]) : found(x, path[s])
  BY <1>2, <1>3, <1>4, BehindBarrier
<1>6. \A s \in ToSet(queue["miss"]) : finished(path[s]) BY <1>5 DEF left
<1>7. \A s \in Slot : finished(path[s]) \/ \E x \in Kind \ {"miss"} : s \in ToSet(queue[x])
  BY <1>5, <1>6
<1>8. \A x \in Kind \ {"miss"} : x \notin in_use(after("miss")) => queue[x] = << >>
  BY <1>4, <1>5
<1>9. {} \in SUBSET Slot OBVIOUS
<1>10. QED BY <1>1, <1>2, <1>5, <1>7, <1>8, <1>9, RouteKeeps

(* The shade stage routes each slot to the shadow queue, to the
   continuation queue or to its end. *)
LEMMA AfterShadeKeeps == ASSUME IInv, after_shade PROVE IInv'
<1> DEFINE lights  == {s \in Slot : wants_shadow(path[s])}
           bounces == {s \in Slot : wants_continuation(path[s])}
           ends    == {s \in Slot : wants_finish(path[s])}
           nowhere == {s \in Slot : has_no_route(path[s])}
           L == filtered(queue["shade"], lights)
           B == filtered(queue["shade"], bounces)
           E == filtered(queue["shade"], ends)
           N == filtered(queue["shade"], nowhere)
           q == [queue EXCEPT !["shadow"] = @ \o L, !["continuation"] = @ \o B]
<1>1. route("shade", q, ToSet(E), ToSet(N)) BY DEF after_shade, select
<1>2. "shade" \in Kind /\ "shadow" \in Kind /\ "continuation" \in Kind
  BY DEF Kind
<1>3. stage = "shade" /\ running /\ stage_complete /\ failure = "none"
  BY <1>1 DEF route
<1>4. in_use("shade") = {"shade"} /\ in_use(after("shade")) = {"shadow", "continuation"}
  BY DEF in_use, after
<1>5. /\ queue \in [Kind -> Seq(Slot)]
      /\ \A x \in Kind : distinct(queue[x])
      /\ \A x \in Kind \ {"shade"} : queue[x] = << >> /\ ToSet(queue[x]) = {}
      /\ \A s \in Slot : finished(path[s]) \/ \E x \in Kind : s \in ToSet(queue[x])
      /\ \A s \in ToSet(queue["shade"]) : s \in Slot /\ left("shade", path[s])
  BY <1>2, <1>3, <1>4, BehindBarrier
<1>6. /\ L \in Seq(Slot) /\ distinct(L) /\ ToSet(L) = ToSet(queue["shade"]) \cap lights
      /\ B \in Seq(Slot) /\ distinct(B) /\ ToSet(B) = ToSet(queue["shade"]) \cap bounces
      /\ ToSet(E) = ToSet(queue["shade"]) \cap ends
      /\ ToSet(N) = ToSet(queue["shade"]) \cap nowhere
  BY <1>2, Selected
<1> HIDE DEF L, B, E, N
<1>7. queue["shadow"] \o L = L /\ queue["continuation"] \o B = B
  BY <1>2, <1>5, <1>6, ConcatEmptySeq
<1>8. q = [queue EXCEPT !["shadow"] = L, !["continuation"] = B] BY <1>7
<1>9. /\ q \in [Kind -> Seq(Slot)] /\ q["shadow"] = L /\ q["continuation"] = B
      /\ \A x \in Kind : x # "shadow" /\ x # "continuation" => q[x] = queue[x]
  BY <1>2, <1>5, <1>6, <1>8
<1> HIDE DEF q
<1>10. ASSUME NEW s \in ToSet(queue["shade"])
       PROVE  /\ s \in Slot
              /\ lit(path[s]) \/ bouncing(path[s]) \/ ending(path[s])
              /\ lit(path[s]) <=> s \in lights
              /\ bouncing(path[s]) <=> s \in bounces
              /\ ending(path[s]) <=> s \in ends
              /\ s \notin nowhere
              /\ s \in lights => s \notin bounces /\ s \notin ends
              /\ s \in bounces => s \notin ends
  <2>1. s \in Slot /\ (lit(path[s]) \/ bouncing(path[s]) \/ ending(path[s]))
    BY <1>5 DEF left
  <2>2. lit(path[s]) => path[s].pending_shadow # None BY DEF lit
  <2>3. bouncing(path[s]) => path[s].pending_shadow = None /\ path[s].continuation_requested
    BY DEF bouncing
  <2>4. ending(path[s]) => /\ path[s].pending_shadow = None
                           /\ ~path[s].continuation_requested
                           /\ path[s].pending_termination # None
    BY DEF ending
  <2>5. QED
    BY <2>1, <2>2, <2>3, <2>4 DEF wants_shadow, wants_continuation, wants_finish, has_no_route
<1> HIDE DEF lights, bounces, ends, nowhere
<1>11. ToSet(N) = {} BY <1>6, <1>10
<1>12. ToSet(E) \in SUBSET Slot /\ \A s \in ToSet(E) : ending(path[s])
  BY <1>5, <1>6, <1>10
<1>13. \A x \in Kind : distinct(q[x]) BY <1>5, <1>6, <1>9
<1>14. \A x \in Kind \ {"shade"} :
          x # "shadow" /\ x # "continuation" => q[x] = << >> /\ ToSet(q[x]) = {}
  BY <1>5, <1>9
<1>15. \A x, y \in Kind \ {"shade"} : x # y => ToSet(q[x]) \cap ToSet(q[y]) = {}
  <2>1. ToSet(L) \cap ToSet(B) = {} BY <1>6, <1>10
  <2>2. QED BY <1>9, <1>14, <2>1
<1>16. \A s \in Slot : \/ s \in ToSet(E) \/ finished(path[s])
                       \/ \E x \in Kind \ {"shade"} : s \in ToSet(q[x])
  <2> TAKE s \in Slot
  <2>1. finished(path[s]) \/ s \in ToSet(queue["shade"]) BY <1>5
  <2>2. s \in ToSet(queue["shade"]) => s \in ToSet(L) \/ s \in ToSet(B) \/ s \in ToSet(E)
    BY <1>6, <1>10
  <2>3. "shadow" \in Kind \ {"shade"} /\ "continuation" \in Kind \ {"shade"}
    BY <1>2
  <2>4. QED BY <1>9, <2>1, <2>2, <2>3
<1>17. \A x \in Kind \ {"shade"} : \A s \in ToSet(q[x]) :
          s \notin ToSet(E) /\ found(x, path[s])
  <2> TAKE x \in Kind \ {"shade"}
  <2> TAKE s \in ToSet(q[x])
  <2>1. CASE x = "shadow"
    <3>1. s \in ToSet(queue["shade"]) /\ s \in lights BY <1>6, <1>9, <2>1
    <3>2. lit(path[s]) /\ s \notin ends BY <3>1, <1>10
    <3>3. QED BY <2>1, <3>2, <1>6 DEF found
  <2>2. CASE x = "continuation"
    <3>1. s \in ToSet(queue["shade"]) /\ s \in bounces BY <1>6, <1>9, <2>2
    <3>2. bouncing(path[s]) /\ s \notin ends BY <3>1, <1>10
    <3>3. QED BY <2>2, <3>2, <1>6 DEF found
  <2>3. QED BY <1>14, <2>1, <2>2
<1>18. \A x \in Kind \ {"shade"} : x \notin in_use(after("shade")) => q[x] = << >>
  BY <1>4, <1>14
<1>19. QED BY <1>1, <1>2, <1>9, <1>11, <1>12, <1>13, <1>15, <1>16, <1>17, <1>18, RouteKeeps

(* The shadow stage routes each slot to the continuation queue or to its
   end, behind those the shade stage had already put there. *)
LEMMA AfterShadowKeeps == ASSUME IInv, after_shadow PROVE IInv'
<1> DEFINE onward  == {s \in Slot : path[s].continuation_requested}
           ends    == {s \in Slot : /\ ~path[s].continuation_requested
                                    /\ path[s].pending_termination # None}
           neither == {s \in Slot : /\ ~path[s].continuation_requested
                                    /\ path[s].pending_termination = None}
           G == filtered(queue["shadow"], onward)
           E == filtered(queue["shadow"], ends)
           N == filtered(queue["shadow"], neither)
           C == queue["continuation"]
           q == [queue EXCEPT !["continuation"] = @ \o G]
<1>1. route("shadow", q, ToSet(E), ToSet(N)) BY DEF after_shadow, select
<1>2. "shadow" \in Kind /\ "continuation" \in Kind BY DEF Kind
<1>3. stage = "shadow" /\ running /\ stage_complete /\ failure = "none"
  BY <1>1 DEF route
<1>4. in_use("shadow") = {"shadow", "continuation"} /\ in_use(after("shadow")) = {"continuation"}
  BY DEF in_use, after
<1>5. /\ queue \in [Kind -> Seq(Slot)]
      /\ \A x \in Kind : distinct(queue[x])
      /\ \A x \in Kind : x # "shadow" /\ x # "continuation" =>
            queue[x] = << >> /\ ToSet(queue[x]) = {}
      /\ ToSet(queue["shadow"]) \cap ToSet(C) = {}
      /\ \A s \in Slot : finished(path[s]) \/ \E x \in Kind : s \in ToSet(queue[x])
      /\ \A s \in ToSet(queue["shadow"]) : s \in Slot /\ left("shadow", path[s])
      /\ \A s \in ToSet(C) : found("continuation", path[s])
  BY <1>2, <1>3, <1>4, BehindBarrier
<1>6. /\ G \in Seq(Slot) /\ distinct(G) /\ ToSet(G) = ToSet(queue["shadow"]) \cap onward
      /\ ToSet(E) = ToSet(queue["shadow"]) \cap ends
      /\ ToSet(N) = ToSet(queue["shadow"]) \cap neither
  BY <1>2, Selected
<1> HIDE DEF G, E, N
<1>7. C \o G \in Seq(Slot) /\ distinct(C \o G) /\ ToSet(C \o G) = ToSet(C) \cup ToSet(G)
  <2>1. C \in Seq(Slot) /\ distinct(C) /\ ToSet(C) \cap ToSet(G) = {}
    BY <1>2, <1>5, <1>6
  <2>2. QED BY <1>6, <2>1, Pushed
<1>8. /\ q \in [Kind -> Seq(Slot)] /\ q["continuation"] = C \o G
      /\ \A x \in Kind : x # "continuation" => q[x] = queue[x]
  BY <1>2, <1>5, <1>7
<1> HIDE DEF q, C
<1>9. ASSUME NEW s \in ToSet(queue["shadow"])
      PROVE  /\ s \in Slot
             /\ s \in onward \/ s \in ends
             /\ s \in onward => bouncing(path[s]) /\ s \notin ends
             /\ s \in ends => ending(path[s])
             /\ s \notin neither
  <2>1. s \in Slot /\ (bouncing(path[s]) \/ ending(path[s])) BY <1>5 DEF left
  <2>2. bouncing(path[s]) => path[s].continuation_requested BY DEF bouncing
  <2>3. ending(path[s]) => ~path[s].continuation_requested /\ path[s].pending_termination # None
    BY DEF ending
  <2>4. QED BY <2>1, <2>2, <2>3
<1> HIDE DEF onward, ends, neither
<1>10. ToSet(N) = {} BY <1>6, <1>9
<1>11. ToSet(E) \in SUBSET Slot /\ \A s \in ToSet(E) : ending(path[s])
  BY <1>6, <1>9
<1>12. \A x \in Kind : distinct(q[x]) BY <1>5, <1>7, <1>8
<1>13. \A x \in Kind \ {"shadow"} : x # "continuation" => q[x] = << >> /\ ToSet(q[x]) = {}
  BY <1>5, <1>8
<1>14. \A x, y \in Kind \ {"shadow"} : x # y => ToSet(q[x]) \cap ToSet(q[y]) = {}
  BY <1>13
<1>15. \A s \in Slot : \/ s \in ToSet(E) \/ finished(path[s])
                       \/ \E x \in Kind \ {"shadow"} : s \in ToSet(q[x])
  <2> TAKE s \in Slot
  <2>1. finished(path[s]) \/ s \in ToSet(queue["shadow"]) \/ s \in ToSet(C)
    BY <1>5 DEF C
  <2>2. s \in ToSet(queue["shadow"]) => s \in ToSet(G) \/ s \in ToSet(E)
    BY <1>6, <1>9
  <2>3. "continuation" \in Kind \ {"shadow"} BY <1>2
  <2>4. QED BY <1>7, <1>8, <2>1, <2>2, <2>3
<1>16. \A x \in Kind \ {"shadow"} : \A s \in ToSet(q[x]) :
          s \notin ToSet(E) /\ found(x, path[s])
  <2> TAKE x \in Kind \ {"shadow"}
  <2> TAKE s \in ToSet(q[x])
  <2>1. x = "continuation" /\ (s \in ToSet(C) \/ s \in ToSet(G))
    BY <1>7, <1>8, <1>13
  <2>2. CASE s \in ToSet(C)
    BY <1>5, <1>6, <2>1, <2>2
  <2>3. CASE s \in ToSet(G)
    <3>1. s \in ToSet(queue["shadow"]) /\ s \in onward BY <1>6, <2>3
    <3>2. bouncing(path[s]) /\ s \notin ends BY <3>1, <1>9
    <3>3. QED BY <2>1, <3>2, <1>6 DEF found
  <2>4. QED BY <2>1, <2>2, <2>3
<1>17. \A x \in Kind \ {"shadow"} : x \notin in_use(after("shadow")) => q[x] = << >>
  BY <1>4, <1>13
<1>18. QED BY <1>1, <1>2, <1>8, <1>10, <1>11, <1>12, <1>14, <1>15, <1>16, <1>17, RouteKeeps

(* The stages a queue reaches without being looked at hold nothing. *)
LEMMA ClearedAlready == ASSUME IInv, stage \in Kind PROVE cleared = queue
<1>1. /\ queue \in [Kind -> Seq(Slot)]
      /\ \A k \in Kind \ in_use(stage) : queue[k] = << >>
  BY DEF IInv, QueueInv, StageInv
<1>2. cleared_before(stage) \cap in_use(stage) = {}
  BY DEF Kind, cleared_before, in_use
<1>3. cleared = [k \in Kind |-> queue[k]] BY <1>1, <1>2 DEF cleared
<1>4. QED BY <1>1, <1>3

(* A batch starts with fresh runtimes, empty queues but for the camera's,
   and statistics at zero. *)
LEMMA BeginKeeps == ASSUME IInv, begin_batch PROVE IInv'
<1> DEFINE all == [i \in 1 .. PathCount |-> i - 1]
           q == [queue EXCEPT !["camera"] = all]
           Row == [peak_size : Nat, dispatch_count : Nat, input_lanes : Nat, stage_lanes : Nat]
<1>1. /\ stage = "begin" /\ queue' = q
      /\ stats' = record_queue_size(stats, lengths(q))
      /\ stage' = IF PathCount = 0 THEN "returned" ELSE "camera"
      /\ path' = path /\ running' = running /\ lanes' = lanes /\ failure' = failure
  BY DEF begin_batch
<1>2. "camera" \in Kind /\ "begin" \notin Kind /\ "returned" \notin Kind
  BY DEF Kind
<1>3. PathCount \in Nat BY TransportAssumption
<1>4. /\ path = [s \in Slot |-> Runtime] /\ queue = [k \in Kind |-> << >>]
      /\ ~running /\ running \in BOOLEAN /\ lanes = {} /\ failure = "none"
  <2>1. running \in BOOLEAN /\ (running => stage \in Kind) /\ (~running => lanes = {})
        /\ (~running /\ stage # "failed" => failure = "none")
    BY DEF IInv, PhaseInv
  <2>2. path = [s \in Slot |-> Runtime] /\ queue = [k \in Kind |-> << >>]
    BY <1>1 DEF IInv, PhaseInv
  <2>3. QED BY <1>1, <1>2, <2>1, <2>2
<1>5. /\ all \in Seq(Slot) /\ distinct(all) /\ ToSet(all) = Slot
      /\ << >> \in Seq(Slot) /\ distinct(<< >>) /\ ToSet(<< >>) = {}
  <2>1. all \in [1 .. PathCount -> Slot] /\ DOMAIN all = 1 .. PathCount
    BY <1>3 DEF Slot
  <2>2. \A i \in 1 .. PathCount : all[i] = i - 1 OBVIOUS
  <2>3. \A s \in Slot : s + 1 \in 1 .. PathCount /\ s = (s + 1) - 1
    BY <1>3 DEF Slot
  <2> HIDE DEF all
  <2>4. all \in Seq(Slot) BY <1>3, <2>1
  <2>5. distinct(all) BY <1>3, <2>1, <2>2 DEF distinct
  <2>6. ToSet(all) = Slot
    <3>1. \A s \in Slot : all[s + 1] = s BY <2>2, <2>3
    <3>2. QED BY <2>1, <2>3, <3>1 DEF ToSet
  <2>7. QED BY <2>4, <2>5, <2>6 DEF distinct, ToSet
<1> HIDE DEF all
<1>6. /\ q \in [Kind -> Seq(Slot)] /\ q["camera"] = all
      /\ \A k \in Kind : k # "camera" => q[k] = << >>
  BY <1>2, <1>4, <1>5
<1> HIDE DEF q
<1>7. \A k \in Kind : distinct(q[k]) BY <1>5, <1>6
<1>8. RuntimeInv' BY <1>1 DEF IInv, RuntimeInv
<1>9. QueueInv' BY <1>1, <1>6, <1>7 DEF QueueInv
<1>10. StatsInv'
  <2>1. \A k \in Kind : Len(q[k]) <= PathCount BY <1>6, <1>7, NoOverflow
  <2>2. stats \in [Kind -> Row] /\ validate_queue_statistics
    BY DEF IInv, StatsInv
  <2>3. \A k \in Kind : stats[k].peak_size <= PathCount
    BY <2>2 DEF validate_queue_statistics
  <2> DEFINE r == record_queue_size(stats, lengths(q))
  <2>4. /\ r \in [Kind -> Row]
        /\ \A j \in Kind : /\ r[j].peak_size <= PathCount
                           /\ r[j].dispatch_count = stats[j].dispatch_count
                           /\ r[j].input_lanes = stats[j].input_lanes
                           /\ r[j].stage_lanes = stats[j].stage_lanes
    BY <1>6, <2>1, <2>2, <2>3, SizesRecorded
  <2> HIDE DEF r
  <2>5. stats' = r BY <1>1 DEF r
  <2>6. QED BY <2>2, <2>4, <2>5 DEF StatsInv, validate_queue_statistics
<1>11. StageInv'
  <2>1. CASE PathCount = 0
    BY <1>1, <1>2, <2>1 DEF StageInv
  <2>2. CASE PathCount # 0
    <3>1. stage' = "camera" /\ queue' = q /\ path' = path /\ running' = FALSE
      BY <1>1, <1>4, <2>2
    <3>2. in_use("camera") = {"camera"} BY DEF in_use
    <3>3. \A k \in Kind : k # "camera" => ToSet(q[k]) = {} BY <1>5, <1>6
    <3>4. \A s \in Slot : s \in ToSet(q["camera"]) BY <1>5, <1>6
    <3>5. \A s \in ToSet(q["camera"]) : found("camera", path[s])
      BY <1>4, <1>5, <1>6 DEF found
    <3>6. QED BY <1>2, <1>6, <3>1, <3>2, <3>3, <3>4, <3>5 DEF StageInv
  <2>3. QED BY <2>1, <2>2
<1>12. PhaseInv' BY <1>1, <1>2, <1>4 DEF PhaseInv
<1>13. QED BY <1>8, <1>9, <1>10, <1>11, <1>12 DEF IInv

(* A batch that stops keeps the invariant: nothing of it is used again. *)
LEMMA StoppedKeeps ==
  ASSUME IInv, path' = path, queue' = queue, stats' = stats, running' = FALSE, lanes' = {},
         \/ /\ stage' = "failed"
            /\ failure' \in {"refused", "unavailable", "data"}
         \/ stage' = "returned" /\ failure' = "none"
  PROVE  IInv'
<1>1. RuntimeInv' /\ QueueInv' BY DEF IInv, RuntimeInv, QueueInv
<1>2. StatsInv' BY DEF IInv, StatsInv, validate_queue_statistics
<1>3. StageInv' BY DEF StageInv, Kind
<1>4. PhaseInv' BY DEF PhaseInv
<1>5. QED BY <1>1, <1>2, <1>3, <1>4 DEF IInv

(* A stage whose queue is empty is skipped. *)
LEMMA SkipKeeps == ASSUME IInv, skip_stage PROVE IInv'
<1>1. /\ stage \in Kind /\ stage # "ray" /\ ~running /\ queue[stage] = << >>
      /\ queue' = queue /\ stage' = after(stage)
      /\ path' = path /\ running' = running /\ lanes' = lanes /\ failure' = failure
      /\ stats' = stats
  BY ClearedAlready DEF skip_stage
<1>2. /\ after(stage) \in Kind /\ in_use(stage) \subseteq {stage} \cup in_use(after(stage))
      /\ "begin" \notin Kind /\ "failed" \notin Kind
  BY <1>1, NextStage DEF Kind
<1>3. RuntimeInv' /\ QueueInv' BY <1>1 DEF IInv, RuntimeInv, QueueInv
<1>4. StatsInv' BY <1>1 DEF IInv, StatsInv, validate_queue_statistics
<1>5. StageInv'
  <2>1. \A k \in Kind \ in_use(after(stage)) : queue[k] = << >>
    BY <1>1, <1>2 DEF IInv, StageInv
  <2>2. QED BY <1>1, <1>2, <2>1 DEF IInv, StageInv
<1>6. PhaseInv' BY <1>1, <1>2 DEF IInv, PhaseInv
<1>7. QED BY <1>3, <1>4, <1>5, <1>6 DEF IInv

(* Handing a queue to the scheduler changes no runtime. *)
LEMMA ExecuteKeeps == ASSUME IInv, execute_queue PROVE IInv'
<1>1. /\ stage \in Kind /\ ~running
      /\ queue' = queue /\ running' = TRUE /\ lanes' = ToSet(queue[stage])
      /\ path' = path /\ stage' = stage /\ failure' = failure /\ stats' = stats
  BY ClearedAlready DEF execute_queue
<1>2. "begin" \notin Kind /\ "failed" \notin Kind BY DEF Kind
<1>3. RuntimeInv' /\ QueueInv' BY <1>1 DEF IInv, RuntimeInv, QueueInv
<1>4. StatsInv' BY <1>1 DEF IInv, StatsInv, validate_queue_statistics
<1>5. StageInv' BY <1>1 DEF IInv, StageInv
<1>6. PhaseInv' BY <1>1, <1>2 DEF IInv, PhaseInv
<1>7. QED BY <1>3, <1>4, <1>5, <1>6 DEF IInv

(* At the end of the loop no queue holds a slot: every path has a result. *)
LEMMA CollectKeeps == ASSUME IInv, collect PROVE IInv'
<1>1. /\ stage = "ray" /\ ~running /\ queue["ray"] = << >> /\ stage \in Kind
      /\ failure' = IF \E s \in Slot : path[s].result = None THEN "incomplete"
                    ELSE IF ~validate_queue_statistics THEN "statistics" ELSE "none"
      /\ stage' = IF failure' = "none" THEN "returned" ELSE "failed"
      /\ path' = path /\ queue' = queue /\ running' = running /\ lanes' = lanes /\ stats' = stats
  BY DEF collect, Kind
<1>2. in_use("ray") = {"ray"} /\ ToSet(<< >>) = {} BY DEF in_use, ToSet
<1>3. \A k \in Kind : queue[k] = << >> BY <1>1, <1>2 DEF IInv, StageInv
<1>4. \A s \in Slot : path[s].result # None
  BY <1>1, <1>2, <1>3 DEF IInv, StageInv, finished
<1>5. validate_queue_statistics BY DEF IInv, StatsInv
<1>6. failure' = "none" /\ stage' = "returned" BY <1>1, <1>4, <1>5
<1>7. running' = FALSE /\ lanes' = {} BY <1>1 DEF IInv, PhaseInv
<1>8. QED BY <1>1, <1>6, <1>7, StoppedKeeps

(* A step of the calling thread keeps the invariant. *)
LEMMA CallerKeeps == ASSUME IInv, Caller PROVE IInv'
<1>0. "begin" \notin Kind BY DEF Kind
<1>1. CASE refuse_batch
  <2>1. /\ stage = "begin" /\ stage' = "failed" /\ failure' = "refused" /\ path' = path
        /\ queue' = queue /\ running' = running /\ lanes' = lanes /\ stats' = stats
    BY <1>1 DEF refuse_batch
  <2>2. running' = FALSE /\ lanes' = {} BY <1>0, <2>1 DEF IInv, PhaseInv
  <2>3. QED BY <2>1, <2>2, StoppedKeeps
<1>2. CASE begin_batch
  BY <1>2, BeginKeeps
<1>3. CASE skip_stage
  BY <1>3, SkipKeeps
<1>4. CASE execute_queue
  BY <1>4, ExecuteKeeps
<1>5. CASE scheduler_unavailable
  <2>1. /\ ~running /\ stage' = "failed" /\ failure' = "unavailable" /\ path' = path
        /\ queue' = queue /\ running' = running /\ lanes' = lanes /\ stats' = stats
    BY <1>5, ClearedAlready DEF scheduler_unavailable
  <2>2. running' = FALSE /\ lanes' = {} BY <2>1 DEF IInv, PhaseInv
  <2>3. QED BY <2>1, <2>2, StoppedKeeps
<1>6. CASE stage_failed
  <2>1. /\ running /\ lanes = {} /\ failure # "none" /\ stage' = "failed" /\ running' = FALSE
        /\ failure' = failure /\ path' = path /\ queue' = queue /\ lanes' = lanes
        /\ stats' = stats
    BY <1>6 DEF stage_failed, stage_complete
  <2>2. failure' = "data" BY <2>1 DEF IInv, PhaseInv
  <2>3. QED BY <2>1, <2>2, StoppedKeeps
<1>7. CASE after_camera
  <2>1. "camera" \in Kind /\ after("camera") = "ray"
        /\ in_use("camera") = {"camera"} /\ in_use("ray") = {"ray"}
    BY DEF Kind, after, in_use
  <2>2. \A q : left("camera", q) => found("ray", q) BY DEF left, found
  <2>3. QED BY <1>7, <2>1, <2>2, MoveKeeps DEF after_camera
<1>8. CASE after_ray
  BY <1>8, AfterRayKeeps
<1>9. CASE after_miss
  BY <1>9, AfterMissKeeps
<1>10. CASE after_hit
  <2>1. "hit" \in Kind /\ after("hit") = "shade"
        /\ in_use("hit") = {"hit"} /\ in_use("shade") = {"shade"}
    BY DEF Kind, after, in_use
  <2>2. \A q : left("hit", q) => found("shade", q) BY DEF left, found
  <2>3. QED BY <1>10, <2>1, <2>2, MoveKeeps DEF after_hit
<1>11. CASE after_shade
  BY <1>11, AfterShadeKeeps
<1>12. CASE after_shadow
  BY <1>12, AfterShadowKeeps
<1>13. CASE after_continuation
  <2>1. "continuation" \in Kind /\ after("continuation") = "ray"
        /\ in_use("continuation") = {"continuation"} /\ in_use("ray") = {"ray"}
    BY DEF Kind, after, in_use
  <2>2. \A q : left("continuation", q) => found("ray", q) BY DEF left, found
  <2>3. QED BY <1>13, <2>1, <2>2, MoveKeeps DEF after_continuation
<1>14. CASE collect
  BY <1>14, CollectKeeps
<1>15. QED
  BY <1>1, <1>2, <1>3, <1>4, <1>5, <1>6, <1>7, <1>8, <1>9, <1>10, <1>11, <1>12, <1>13, <1>14
    DEF Caller

(* The transport starts in the invariant. *)
LEMMA InitKeeps == Init => IInv
<1> SUFFICES ASSUME Init PROVE IInv
  OBVIOUS
<1>1. kept(Runtime) /\ Runtime \in RuntimePath BY RuntimeKept DEF kept
<1>2. RuntimeInv BY <1>1 DEF Init, RuntimeInv
<1>3. QueueInv
  <2>1. << >> \in Seq(Slot) /\ distinct(<< >>) BY DEF distinct
  <2>2. QED BY <2>1 DEF Init, QueueInv
<1>4. StatsInv
  <2>1. PathCount \in Nat /\ 0 <= PathCount /\ 0 <= PathCount * 0
    BY TransportAssumption
  <2>2. QED BY <2>1 DEF Init, StatsInv, validate_queue_statistics
<1>5. StageInv BY DEF Init, StageInv, Kind
<1>6. PhaseInv BY DEF Init, PhaseInv, Kind
<1>7. QED BY <1>2, <1>3, <1>4, <1>5, <1>6 DEF IInv

(* Between any two steps of the transport, whatever the lanes' order: every
   queue without repetition, no two queues with a common slot, every slot
   as the stage that holds it finds or leaves it, the statistics within
   their contract (CpuWavefrontTransport.cpp, the batch loop and its
   kernels). *)
THEOREM SpecIInv == Spec => []IInv
<1>1. Init => IInv BY InitKeeps
<1>2. IInv /\ [Next]_vars => IInv'
  <2> SUFFICES ASSUME IInv, [Next]_vars PROVE IInv'
    OBVIOUS
  <2>1. CASE Caller
    BY <2>1, CallerKeeps
  <2>2. CASE \E s \in Slot : Kernel(s)
    BY <2>2, KernelKeeps
  <2>3. CASE UNCHANGED vars
    <3>1. RuntimeInv' /\ QueueInv' BY <2>3 DEF IInv, RuntimeInv, QueueInv, vars
    <3>2. StatsInv' /\ StageInv' /\ PhaseInv'
      BY <2>3 DEF IInv, StatsInv, validate_queue_statistics, StageInv, PhaseInv, vars
    <3>3. QED BY <3>1, <3>2 DEF IInv
  <2>4. QED BY <2>1, <2>2, <2>3 DEF Next
<1>3. QED BY <1>1, <1>2, PTL DEF Spec

------------------------------------------------------
(* What the invariant says of the batch. *)

(* The invariant gives the type of every variable. *)
LEMMA TypesFollow == IInv => TypeOK
<1> SUFFICES ASSUME IInv PROVE TypeOK
  OBVIOUS
<1>1. /\ stage \in Kind \cup {"begin", "returned", "failed"} /\ running \in BOOLEAN
      /\ failure \in {"none", "refused", "unavailable", "data"}
      /\ running => stage \in Kind /\ lanes \subseteq ToSet(queue[stage])
      /\ ~running => lanes = {}
  BY DEF IInv, PhaseInv
<1>2. queue \in [Kind -> Seq(Slot)] /\ \A k \in Kind : distinct(queue[k])
  BY DEF IInv, QueueInv
<1>3. \A k \in Kind : Len(queue[k]) <= PathCount BY <1>2, NoOverflow
<1>4. lanes \subseteq Slot
  <2>1. \A k \in Kind : ToSet(queue[k]) \subseteq Slot BY <1>2 DEF ToSet
  <2>2. QED BY <1>1, <2>1
<1>5. stats \in [Kind -> [peak_size : 0 .. PathCount, dispatch_count : Nat,
                          input_lanes : Nat, stage_lanes : Nat]]
  <2>1. stats \in [Kind -> [peak_size : Nat, dispatch_count : Nat,
                            input_lanes : Nat, stage_lanes : Nat]]
        /\ \A k \in Kind : stats[k].peak_size <= PathCount
    BY DEF IInv, StatsInv, validate_queue_statistics
  <2>2. \A k \in Kind : stats[k].peak_size \in 0 .. PathCount
    BY <2>1, TransportAssumption
  <2>3. QED BY <2>1, <2>2
<1>6. ASSUME NEW s \in Slot
      PROVE  /\ path[s].depth_counters \in [Category -> 0 .. MaxDepth]
             /\ path[s].delta_flags \subseteq Flag
             /\ path[s].surface \in Surfaces \cup {None}
  <2> DEFINE c == path[s].depth_counters
  <2>1. kept(path[s]) BY DEF IInv, RuntimeInv
  <2>2. path[s] \in RuntimePath /\ c \in [Category -> Nat]
        /\ validate_path_depth_state(c, Len(path[s].beta.events))
    BY <2>1 DEF kept, booked
  <2>3. \A k \in Category : c[k] <= DepthLimits[k] /\ DepthLimits[k] \in 0 .. MaxDepth
    BY <2>2, DepthAssumption DEF validate_path_depth_state
  <2>4. \A k \in Category : c[k] \in 0 .. MaxDepth
    BY <2>2, <2>3, DepthAssumption
  <2>5. c \in [Category -> 0 .. MaxDepth]
    <3> HIDE DEF c
    <3>1. QED BY <2>2, <2>4
  <2>6. path[s].delta_flags \in SUBSET Flag /\ path[s].surface \in Surfaces \cup {None}
    BY <2>2 DEF RuntimePath
  <2>7. QED BY <2>5, <2>6
<1>7. QED BY <1>1, <1>2, <1>3, <1>4, <1>5, <1>6 DEF TypeOK

(* The invariant gives each slot to one stage at most. *)
LEMMA PlacesFollow == IInv => SlotOwned
<1> SUFFICES ASSUME IInv, stage \in Kind, NEW s \in Slot
             PROVE  LET places == {entry \in Kind \X (1 .. PathCount) :
                                      entry[2] \in DOMAIN queue[entry[1]] /\ queue[entry[1]][entry[2]] = s}
                    IN  IF path[s].result = None THEN Cardinality(places) = 1
                        ELSE (stage = "miss" /\ running) \/ places = {}
  BY DEF SlotOwned
<1> DEFINE places == {entry \in Kind \X (1 .. PathCount) :
                         entry[2] \in DOMAIN queue[entry[1]] /\ queue[entry[1]][entry[2]] = s}
<1>1. queue \in [Kind -> Seq(Slot)] /\ \A k \in Kind : distinct(queue[k])
  BY DEF IInv, QueueInv
<1>2. \A k \in Kind : DOMAIN queue[k] = 1 .. Len(queue[k]) /\ Len(queue[k]) \in Nat
                      /\ Len(queue[k]) <= PathCount
  BY <1>1, LenProperties, NoOverflow
<1>3. \A k \in Kind : DOMAIN queue[k] \subseteq 1 .. PathCount
  BY <1>2, TransportAssumption
<1>4. \A entry \in places : /\ entry[1] \in Kind /\ entry[2] \in DOMAIN queue[entry[1]]
                            /\ entry = <<entry[1], entry[2]>> /\ queue[entry[1]][entry[2]] = s
                            /\ s \in ToSet(queue[entry[1]])
  BY DEF ToSet
<1>5. \A k \in Kind : \A i \in DOMAIN queue[k] : queue[k][i] = s => <<k, i>> \in places
  BY <1>3
<1> HIDE DEF places
<1>6. /\ \A a, b \in Kind : a # b => ToSet(queue[a]) \cap ToSet(queue[b]) = {}
      /\ finished(path[s]) \/ \E k \in Kind : s \in ToSet(queue[k])
      /\ \A k \in Kind : s \in ToSet(queue[k]) =>
            found(k, path[s]) \/ (k = stage /\ running /\ left(k, path[s]))
  BY DEF IInv, StageInv
<1>7. CASE path[s].result = None
  <2>1. PICK k \in Kind : s \in ToSet(queue[k]) BY <1>6, <1>7 DEF finished
  <2>2. PICK i \in DOMAIN queue[k] : queue[k][i] = s BY <2>1 DEF ToSet
  <2>3. places = {<<k, i>>}
    <3>1. <<k, i>> \in places BY <1>5, <2>2
    <3>2. ASSUME NEW entry \in places PROVE entry = <<k, i>>
      <4>1. entry[1] = k BY <1>4, <1>6, <2>1
      <4>2. entry[2] = i BY <1>1, <1>4, <2>2, <4>1 DEF distinct
      <4>3. QED BY <1>4, <4>1, <4>2
    <3>3. QED BY <3>1, <3>2
  <2>4. QED BY <1>7, <2>3, FS_Singleton DEF places
<1>8. CASE path[s].result # None /\ places # {}
  <2>1. PICK entry \in places : TRUE BY <1>8
  <2>2. entry[1] \in Kind /\ s \in ToSet(queue[entry[1]]) BY <1>4
  <2>3. entry[1] = stage /\ running /\ left(entry[1], path[s])
    BY <1>6, <1>8, <2>2, FoundKept
  <2>4. entry[1] = "miss"
    BY <1>8, <2>2, <2>3 DEF left, Kind, traveling, shadable, lit, bouncing, ending, live
  <2>5. QED BY <1>8, <2>3, <2>4
<1>9. QED BY <1>7, <1>8 DEF places

(* The invariant gives the accounting of samples. *)
LEMMA SamplesFollow == IInv => SampleAccounting
<1> SUFFICES ASSUME IInv, NEW s \in Slot
             PROVE  LET q == path[s] IN
                    /\ q.closure_samples - Len(q.beta.events) \in {0, 1}
                    /\ q.shadow_queries <= q.light_samples
                    /\ q.light_samples <= q.closure_samples
                    /\ Cardinality({i \in DOMAIN q.radiance : q.radiance[i][1] = "direct"})
                         <= q.shadow_queries
  BY DEF SampleAccounting
<1>1. kept(path[s]) BY DEF IInv, RuntimeInv
<1>2. path[s].closure_samples \in Nat /\ Len(path[s].beta.events) \in Nat
  BY <1>1, LenProperties DEF kept, RuntimePath, Beta
<1>3. path[s].closure_samples - Len(path[s].beta.events) \in {0, 1}
  BY <1>1, <1>2 DEF kept
<1>4. QED BY <1>1, <1>3 DEF kept, directs

(* Every variable of the transport keeps its type. *)
THEOREM SpecTypeOK == Spec => []TypeOK
  BY SpecIInv, TypesFollow, PTL

(* For every batch size, number of lanes and depth limit: every variable of
   its type, no stage fails on a state another stage left, each path that
   has no result has exactly one place in the queues, and the samples and
   shadow queries it accounts for are those it made
   (CpuWavefrontTransport.cpp, render_batch). *)
THEOREM SpecBatchSound == Spec => []BatchSound
<1>1. IInv => BatchSound
  <2>1. IInv => NoInternalError BY DEF IInv, PhaseInv, NoInternalError
  <2>2. QED BY <2>1, TypesFollow, PlacesFollow, SamplesFollow DEF BatchSound
<1>2. QED BY <1>1, SpecIInv, PTL

------------------------------------------------------
(* The scalar loop each slot follows. Its operators on counters and flags
   are those of the transport. *)
LEMMA SameScalarBookkeeping ==
  /\ \A c, n : Scalar!validate_path_depth_state(c, n) <=> validate_path_depth_state(c, n)
  /\ \A c, f : Scalar!path_state_valid(c, f) <=> path_state_valid(c, f)
  /\ \A c : Scalar!path_depth_total(c) = path_depth_total(c)
  /\ \A c, e : Scalar!advanced_counters(c, e) = advanced_counters(c, e)
  /\ \A f, e : Scalar!next_delta_flags(f, e) = next_delta_flags(f, e)
  /\ \A c, s : Scalar!allowed_events(c, s) = allowed_events(c, s)
  /\ \A c, s : Scalar!filter_fails(c, s) <=> filter_fails(c, s)
  /\ \A c, s : Scalar!blocked_lobes(c, s) = blocked_lobes(c, s)
  /\ \A d : Scalar!eligible(d) <=> eligible(d)
  /\ Scalar!NoCounters = NoCounters
<1>1. Scalar!Category = Category /\ Scalar!NoCounters = NoCounters
  BY DEF Category, NoCounters, Scalar!Category, Scalar!NoCounters
<1>2. /\ \A c : Scalar!path_depth_total(c) = path_depth_total(c)
      /\ \A c : Scalar!surface_total(c) = surface_total(c)
      /\ \A c : Scalar!non_delta_depth(c) = non_delta_depth(c)
  BY DEF path_depth_total, surface_total, non_delta_depth, Scalar!path_depth_total,
    Scalar!surface_total, Scalar!non_delta_depth
<1>3. \A c : Scalar!validate_path_depth_counters(c) <=> validate_path_depth_counters(c)
  BY <1>2 DEF validate_path_depth_counters, Scalar!validate_path_depth_counters
<1>4. \A c, n : Scalar!validate_path_depth_state(c, n) <=> validate_path_depth_state(c, n)
  BY <1>1, <1>2, <1>3 DEF validate_path_depth_state, Scalar!validate_path_depth_state
<1>5. \A c, e : Scalar!advanced_counters(c, e) = advanced_counters(c, e)
  BY <1>1 DEF advanced_counters, Scalar!advanced_counters
<1>6. \A f, e : Scalar!next_delta_flags(f, e) = next_delta_flags(f, e)
  BY DEF next_delta_flags, Scalar!next_delta_flags, is_delta_event, Scalar!is_delta_event
<1>7. \A c, f : Scalar!path_state_valid(c, f) <=> path_state_valid(c, f)
  BY <1>2, <1>3 DEF path_state_valid, Scalar!path_state_valid
<1>8. \A c, e : Scalar!blocked_limits(c, e) = blocked_limits(c, e)
  BY <1>1 DEF blocked_limits, Scalar!blocked_limits
<1>9. \A c, e : Scalar!accepted(c, e) <=> accepted(c, e)
  BY <1>2, <1>4, <1>5, <1>8 DEF accepted, Scalar!accepted, depth_exhausted,
    Scalar!depth_exhausted
<1>10. \A c, s : Scalar!allowed_events(c, s) = allowed_events(c, s)
  BY <1>9 DEF allowed_events, Scalar!allowed_events
<1>11. \A c, s : Scalar!filter_fails(c, s) <=> filter_fails(c, s)
  BY <1>2, <1>4, <1>8, <1>9 DEF filter_fails, Scalar!filter_fails
<1>12. \A c, s : Scalar!blocked_lobes(c, s) = blocked_lobes(c, s)
  BY <1>8 DEF blocked_lobes, Scalar!blocked_lobes
<1>13. \A d : Scalar!eligible(d) <=> eligible(d)
  BY DEF eligible, Scalar!eligible
<1>14. QED BY <1>1, <1>2, <1>4, <1>5, <1>6, <1>7, <1>10, <1>11, <1>12, <1>13

(* The locals of a call, whose depth is that of its throughput. *)
call(point, beta, radiance, counters, flags, surface, result) ==
    [at |-> point, beta |-> beta, radiance |-> radiance, depth |-> Len(beta.events),
     depth_counters |-> counters, delta_flags |-> flags, surface |-> surface, result |-> result]

Locals(point, beta, radiance, depth, counters, flags, surface, result) ==
    [at : {point}, beta : {beta}, radiance : {radiance}, depth : {depth},
     depth_counters : {counters}, delta_flags : {flags}, surface : {surface}, result : {result}]

(* The record of a call's locals determines them: two equal calls have
   equal locals. *)
LEMMA OneCall ==
  ASSUME NEW point, NEW beta, NEW radiance, NEW c, NEW f, NEW surface, NEW result,
         NEW n \in Locals(point, beta, radiance, Len(beta.events), c, f, surface, result)
  PROVE  n = call(point, beta, radiance, c, f, surface, result)
<1> DEFINE d == Len(beta.events)
           T == Locals(point, beta, radiance, d, c, f, surface, result)
<1>1. call(point, beta, radiance, c, f, surface, result) \in T
  BY DEF call, Locals
<1>2. \A x, y \in T : x = y
  <2> HIDE DEF d
  <2>1. QED BY DEF Locals
<1>3. QED BY <1>1, <1>2

(* add_weighted on a runtime is add_weighted on the locals of its call. *)
LEMMA WeighedCall ==
  ASSUME NEW point, NEW beta, NEW radiance, NEW c, NEW f, NEW surface, NEW result, NEW kind
  PROVE  Scalar!Weigh(call(point, beta, radiance, c, f, surface, result), kind)
           = call(point, beta, Append(radiance, <<kind, Len(beta.events)>>), c, f, surface, result)
<1> DEFINE q == call(point, beta, radiance, c, f, surface, result)
           r == Append(radiance, <<kind, Len(beta.events)>>)
           n == [q EXCEPT !.radiance = r]
<1>1. q.radiance = radiance /\ q.beta = beta BY DEF call
<1>2. Scalar!Weigh(q, kind) = n BY <1>1 DEF Scalar!Weigh
<1> HIDE DEF r
<1>3. n = call(point, beta, r, c, f, surface, result)
  <2>1. n \in Locals(point, beta, r, Len(beta.events), c, f, surface, result)
    BY DEF call, Locals
  <2>2. QED BY <2>1, OneCall
<1>4. QED BY <1>2, <1>3 DEF r

(* finish_terminated on a runtime is finish_terminated on the locals of its
   call. *)
LEMMA FinishedCall ==
  ASSUME NEW point, NEW beta, NEW radiance, NEW c, NEW f, NEW surface, NEW result,
         booked(beta.events, c, f), NEW reason, NEW blocked
  PROVE  Scalar!finish(call(point, beta, radiance, c, f, surface, result), reason, blocked)
           = call("returned", beta, radiance, c, f, None,
                  [termination |-> reason, blocked |-> blocked])
<1> DEFINE q == call(point, beta, radiance, c, f, surface, result)
           r == [termination |-> reason, blocked |-> blocked]
<1>1. q.depth_counters = c /\ q.delta_flags = f /\ q.depth = Len(beta.events)
  BY DEF call
<1>2. Scalar!representable(q)
  BY <1>1, SameScalarBookkeeping DEF Scalar!representable, booked
<1>3. Scalar!finish(q, reason, blocked)
        = [q EXCEPT !.at = "returned", !.surface = None, !.result = r]
  BY <1>2 DEF Scalar!finish
<1> HIDE DEF r
<1>4. [q EXCEPT !.at = "returned", !.surface = None, !.result = r]
        = call("returned", beta, radiance, c, f, None, r)
  <2>1. [q EXCEPT !.at = "returned", !.surface = None, !.result = r]
          \in Locals("returned", beta, radiance, Len(beta.events), c, f, None, r)
    BY DEF call, Locals
  <2>2. QED BY <2>1, OneCall
<1>5. QED BY <1>3, <1>4 DEF r

(* A bounce of a runtime is a bounce of the locals of its call. *)
LEMMA ScatteredCall ==
  ASSUME NEW point, NEW beta, NEW radiance, NEW c, NEW f, NEW surface, NEW result,
         NEW event, NEW black,
         path_depth_total(advanced_counters(c, event)) = Len(Append(beta.events, event))
  PROVE  Scalar!scattered(call(point, beta, radiance, c, f, surface, result), event, black)
           = call("closest_hit", [events |-> Append(beta.events, event), black |-> black],
                  radiance, advanced_counters(c, event), next_delta_flags(f, event), None, result)
<1> DEFINE q == call(point, beta, radiance, c, f, surface, result)
           b == [events |-> Append(beta.events, event), black |-> black]
           n == advanced_counters(c, event)
           m == next_delta_flags(f, event)
           d == path_depth_total(n)
<1>1. Scalar!scattered(q, event, black)
        = [q EXCEPT !.at = "closest_hit", !.surface = None, !.beta = b,
                    !.depth = d, !.depth_counters = n, !.delta_flags = m]
  BY SameScalarBookkeeping DEF Scalar!scattered, call
<1>2. d = Len(b.events) OBVIOUS
<1> HIDE DEF b, n, m, d
<1>3. [q EXCEPT !.at = "closest_hit", !.surface = None, !.beta = b,
                !.depth = d, !.depth_counters = n, !.delta_flags = m]
        = call("closest_hit", b, radiance, n, m, None, result)
  <2>1. [q EXCEPT !.at = "closest_hit", !.surface = None, !.beta = b,
                  !.depth = d, !.depth_counters = n, !.delta_flags = m]
          \in Locals("closest_hit", b, radiance, d, n, m, None, result)
    BY DEF call, Locals
  <2>2. QED BY <1>2, <2>1, OneCall
<1>4. QED BY <1>1, <1>3 DEF b, n, m

(* Where the scalar path of a slot is. *)

(* A slot whose runtime is not initialized has a call that has not begun. *)
LEMMA CallNotYet ==
  ASSUME NEW s
  PROVE  scalar_of(s, Runtime)
           = call("closest_hit", [events |-> << >>, black |-> s \in BlackInputs], << >>,
                  NoCounters, {}, None, None)
<1> DEFINE b == [events |-> << >>, black |-> s \in BlackInputs]
<1>1. /\ Runtime.pending_shadow = None /\ Runtime.pending_termination = None
      /\ Runtime.result = None /\ Runtime.initialized = FALSE /\ Runtime.radiance = << >>
      /\ Runtime.depth_counters = NoCounters /\ Runtime.delta_flags = {}
  BY DEF Runtime
<1> HIDE DEF b
<1>2. QED BY <1>1 DEF scalar_of, call, b

(* A slot that travels has a call at the head of its loop. *)
LEMMA CallGoing ==
  ASSUME NEW s, NEW q, traveling(q) \/ bouncing(q)
  PROVE  scalar_of(s, q) = call("closest_hit", q.beta, q.radiance, q.depth_counters,
                                q.delta_flags, None, None)
<1>1. /\ q.pending_shadow = None /\ q.pending_termination = None
      /\ q.result = None /\ q.initialized
  BY DEF traveling, bouncing, live
<1>2. QED BY <1>1 DEF scalar_of, call

(* A slot that waits for its shadow ray has a call at its light query. *)
LEMMA CallLit ==
  ASSUME NEW s, NEW q, q.pending_shadow # None
  PROVE  LET b == q.pending_shadow.beta
         IN  scalar_of(s, q) = call("occluded", b, q.radiance, counters_of(b.events),
                                    flags_of(b.events), q.surface, None)
  BY DEF scalar_of, call

(* A slot that ends behind the barrier has a call that has already returned
   its result. *)
LEMMA CallEnding ==
  ASSUME NEW s, NEW q, ending(q)
  PROVE  scalar_of(s, q)
           = call("returned", q.beta, q.radiance, q.depth_counters, q.delta_flags, None,
                  [termination |-> q.pending_termination.reason,
                   blocked     |-> q.pending_termination.blocked])
<1> DEFINE r == [termination |-> q.pending_termination.reason,
                 blocked     |-> q.pending_termination.blocked]
<1>1. /\ q.pending_shadow = None /\ q.pending_termination # None
      /\ q.result = None /\ q.initialized /\ q.pending_termination \in Ending
  BY DEF ending, live, kept, RuntimePath
<1>2. r # None BY <1>1, TransportAssumption DEF Ending, Result
<1>3. scalar_of(s, q)
        = [at             |-> IF r = None THEN "closest_hit" ELSE "returned",
           beta           |-> q.beta,
           radiance       |-> q.radiance,
           depth          |-> Len(q.beta.events),
           depth_counters |-> q.depth_counters,
           delta_flags    |-> q.delta_flags,
           surface        |-> None,
           result         |-> r]
  <2> HIDE DEF r
  <2>1. QED BY <1>1 DEF scalar_of, r
<1> HIDE DEF r
<1>4. QED BY <1>2, <1>3 DEF call, r

(* A finished slot has a call that returned the same result. *)
LEMMA CallFinished ==
  ASSUME NEW s, NEW q, finished(q), q.initialized
  PROVE  scalar_of(s, q) = call("returned", q.beta, q.radiance, q.depth_counters,
                                q.delta_flags, None, q.result)
<1>1. q.pending_shadow = None /\ q.result # None BY DEF finished
<1>2. QED BY <1>1 DEF scalar_of, call

------------------------------------------------------
(* The steps of a scalar call, as a relation of its locals before and after. *)
scalar == [s \in Slot |-> scalar_path(s)]

scatters(q, surface, r) ==
    \/ r = Scalar!finish(q, "outside_bsdf_support", {})
    \/ \E event \in Scalar!allowed_events(q.depth_counters, surface), black \in BOOLEAN :
          LET n == Scalar!scattered(q, event, black)
          IN  \/ black /\ r = Scalar!finish(n, "zero_throughput", {})
              \/ ~black /\ r = n
              \/ ~black /\ Scalar!eligible(n.depth) /\ r = Scalar!finish(n, "russian_roulette", {})

escapes(p, r) ==
    /\ p.at = "closest_hit"
    /\ r = Scalar!finish(Scalar!Weigh(p, "environment"), "escaped_environment", {})

ends_at(p, surface, r) ==
    LET q == Scalar!Weigh(p, "emission")
    IN  /\ p.at = "closest_hit"
        /\ \/ /\ q.beta.black
              /\ r = Scalar!finish(q, "zero_throughput", {})
           \/ /\ ~q.beta.black /\ surface = {}
              /\ ~Scalar!filter_fails(q.depth_counters, surface)
              /\ r = Scalar!finish(q, "outside_bsdf_support", {})
           \/ /\ ~q.beta.black /\ surface # {}
              /\ ~Scalar!filter_fails(q.depth_counters, surface)
              /\ Scalar!allowed_events(q.depth_counters, surface) = {}
              /\ r = Scalar!finish(q, "depth_limit",
                                   Scalar!blocked_lobes(q.depth_counters, surface))

bounces_unlit(p, surface, r) ==
    Scalar!can_sample(p, surface) /\ scatters(Scalar!Weigh(p, "emission"), surface, r)

asks_for_light(p, surface, r) ==
    /\ Scalar!can_sample(p, surface)
    /\ r = [Scalar!Weigh(p, "emission") EXCEPT !.at = "occluded", !.surface = surface]

bounces_lit(p, r) ==
    /\ p.at = "occluded"
    /\ \E visible \in BOOLEAN :
          scatters(IF visible THEN Scalar!Weigh(p, "direct") ELSE p, p.surface, r)

moves(p, r) ==
    \/ escapes(p, r)
    \/ \E surface \in Surfaces : \/ ends_at(p, surface, r)
                                 \/ bounces_unlit(p, surface, r)
                                 \/ asks_for_light(p, surface, r)
    \/ bounces_lit(p, r)

(* A bounce as a relation of locals is a step of the scalar loop's action. *)
LEMMA ScatterStep ==
  ASSUME NEW s \in Slot, NEW q, NEW surface, NEW r, scatters(q, surface, r),
         scalar' = [scalar EXCEPT ![s] = r]
  PROVE  Scalar!scatter(s, q, surface)
  BY DEF scatters, scalar, Scalar!scatter

(* Each of the moves is a step of the scalar loop. *)
LEMMA MoveIsStep ==
  ASSUME NEW s \in Slot, NEW r, moves(scalar[s], r), scalar' = [scalar EXCEPT ![s] = r]
  PROVE  Scalar!Next
<1>1. CASE escapes(scalar[s], r)
  <2>1. Scalar!escape(s) BY <1>1 DEF escapes, scalar, Scalar!escape
  <2>2. QED BY <2>1 DEF Scalar!Next
<1>2. ASSUME NEW surface \in Surfaces, ends_at(scalar[s], surface, r)
      PROVE  Scalar!Next
  <2>1. Scalar!end_at_surface(s, surface)
    BY <1>2 DEF ends_at, scalar, Scalar!end_at_surface
  <2>2. QED BY <2>1 DEF Scalar!Next
<1>3. ASSUME NEW surface \in Surfaces, bounces_unlit(scalar[s], surface, r)
      PROVE  Scalar!Next
  <2>1. Scalar!scatter(s, Scalar!Weigh(scalar[s], "emission"), surface)
    BY <1>3, ScatterStep DEF bounces_unlit
  <2>2. Scalar!bounce_unlit(s, surface)
    BY <1>3, <2>1 DEF bounces_unlit, scalar, Scalar!bounce_unlit
  <2>3. QED BY <2>2 DEF Scalar!Next
<1>4. ASSUME NEW surface \in Surfaces, asks_for_light(scalar[s], surface, r)
      PROVE  Scalar!Next
  <2>1. Scalar!query_light(s, surface)
    BY <1>4 DEF asks_for_light, scalar, Scalar!query_light
  <2>2. QED BY <2>1 DEF Scalar!Next
<1>5. CASE bounces_lit(scalar[s], r)
  <2>1. PICK visible \in BOOLEAN :
           scatters(IF visible THEN Scalar!Weigh(scalar[s], "direct") ELSE scalar[s],
                    scalar[s].surface, r)
    BY <1>5 DEF bounces_lit
  <2>2. Scalar!scatter(s, IF visible THEN Scalar!Weigh(scalar[s], "direct") ELSE scalar[s],
                       scalar[s].surface)
    BY <2>1, ScatterStep
  <2>3. Scalar!bounce_lit(s)
    BY <1>5, <2>2 DEF bounces_lit, scalar, Scalar!bounce_lit
  <2>4. QED BY <2>3 DEF Scalar!Next
<1>6. QED BY <1>1, <1>2, <1>3, <1>4, <1>5 DEF moves

(* A kernel moves the scalar path of its own slot only. *)
LEMMA LaneMoves ==
  ASSUME IInv, NEW s \in Slot, NEW n, leave(s, n)
  PROVE  scalar' = [scalar EXCEPT ![s] = scalar_of(s, n)]
<1>1. path' = [path EXCEPT ![s] = n] /\ path \in [Slot -> RuntimePath]
  BY DEF leave, IInv, RuntimeInv
<1>2. \A x \in Slot : path'[x] = IF x = s THEN n ELSE path[x] BY <1>1
<1>3. scalar' = [x \in Slot |-> scalar_of(x, path'[x])]
  BY DEF scalar, scalar_path
<1>4. scalar = [x \in Slot |-> scalar_of(x, path[x])] BY DEF scalar, scalar_path
<1>5. QED BY <1>2, <1>3, <1>4

(* The end of a bounce, as the scalar loop makes it: with the throughput b
   that arrived, whether or not its light was visible. *)
LEMMA ScatterCall ==
  ASSUME NEW s, NEW n, live(n), n.pending_shadow = None, NEW b \in Beta,
         booked(b.events, counters_of(b.events), flags_of(b.events)),
         NEW surface \in Surfaces, scattered_from(n, b, surface), NEW point, NEW held
  PROVE  scatters(call(point, b, n.radiance, counters_of(b.events), flags_of(b.events), held, None),
                  surface, scalar_of(s, n))
<1> DEFINE c == counters_of(b.events)
           f == flags_of(b.events)
           R == n.radiance
           q == call(point, b, R, c, f, held, None)
           r == scalar_of(s, n)
<1>0. bouncing(n) \/ ending(n) BY ScatteredGoes
<1>1. q.depth_counters = c BY DEF call
<1>2. kept(n) /\ booked(n.beta.events, n.depth_counters, n.delta_flags) /\ n.beta \in Beta
  BY DEF live, kept, RuntimePath
<1>3. CASE missed(n, b)
  <2>1. ending(n) /\ n.beta = b /\ n.depth_counters = c /\ n.delta_flags = f
        /\ n.pending_termination.reason = "outside_bsdf_support"
        /\ n.pending_termination.blocked = {}
    BY <1>0, <1>3 DEF missed, bouncing
  <2>2. r = call("returned", b, R, c, f, None,
                 [termination |-> "outside_bsdf_support", blocked |-> {}])
    BY <2>1, CallEnding
  <2>3. Scalar!finish(q, "outside_bsdf_support", {})
          = call("returned", b, R, c, f, None,
                 [termination |-> "outside_bsdf_support", blocked |-> {}])
    BY FinishedCall
  <2>4. QED BY <2>2, <2>3 DEF scatters
<1>4. ASSUME NEW event \in allowed_events(c, surface), bounced(n, b, event)
      PROVE  scatters(q, surface, r)
  <2> DEFINE black == n.beta.black
             es == Append(b.events, event)
             nc == advanced_counters(c, event)
             nf == next_delta_flags(f, event)
             m == Scalar!scattered(q, event, black)
  <2>1. /\ n.beta = [events |-> es, black |-> black] /\ black \in BOOLEAN
        /\ n.depth_counters = nc /\ n.delta_flags = nf
    <3>1. n.beta = [events |-> n.beta.events, black |-> n.beta.black] /\ black \in BOOLEAN
      BY <1>2 DEF Beta
    <3>2. n.beta.events = es /\ n.depth_counters = nc /\ n.delta_flags = nf
      BY <1>4 DEF bounced
    <3>3. QED BY <3>1, <3>2
  <2>2. path_depth_total(nc) = Len(es)
    <3>1. event \in SurfaceEvent /\ accepted(c, event) BY AllowedEvent
    <3>2. b.events \in Seq(SurfaceEvent) BY DEF Beta
    <3>3. QED BY <3>1, <3>2, BookedScatter
  <2>3. m = call("closest_hit", n.beta, R, nc, nf, None, None)
    BY <2>1, <2>2, ScatteredCall
  <2>4. m.depth = path_depth_total(n.depth_counters)
    BY <2>1, <2>2, <2>3 DEF call
  <2>5. event \in Scalar!allowed_events(q.depth_counters, surface)
    BY <1>1, SameScalarBookkeeping
  <2>6. booked(n.beta.events, nc, nf) BY <1>2, <2>1
  <2> HIDE DEF black, m, q, es, nc, nf
  <2>7. \A reason : Scalar!finish(m, reason, {})
           = call("returned", n.beta, R, nc, nf, None, [termination |-> reason, blocked |-> {}])
    BY <2>3, <2>6, FinishedCall
  <2>8. ASSUME NEW reason \in Termination, ending(n),
               n.pending_termination = [reason |-> reason, blocked |-> {}]
        PROVE  r = Scalar!finish(m, reason, {})
    <3>1. n.pending_termination.reason = reason /\ n.pending_termination.blocked = {}
      BY <2>8
    <3>2. r = call("returned", n.beta, R, nc, nf, None, [termination |-> reason, blocked |-> {}])
      BY <2>1, <2>8, <3>1, CallEnding
    <3>3. QED BY <2>7, <3>2
  <2>9. "zero_throughput" \in Termination /\ "russian_roulette" \in Termination
    BY DEF Termination
  <2>10. \/ black /\ r = Scalar!finish(m, "zero_throughput", {})
         \/ ~black /\ r = m
         \/ ~black /\ Scalar!eligible(m.depth) /\ r = Scalar!finish(m, "russian_roulette", {})
    <3>1. CASE /\ n.beta.black /\ ~n.continuation_requested
               /\ n.pending_termination = [reason |-> "zero_throughput", blocked |-> {}]
      <4>1. ending(n) BY <1>0, <3>1 DEF bouncing
      <4>2. QED BY <2>8, <2>9, <3>1, <4>1 DEF black
    <3>2. CASE ~n.beta.black /\ n.continuation_requested /\ n.pending_termination = None
      <4>1. bouncing(n) BY <1>0, <3>2 DEF ending
      <4>2. r = call("closest_hit", n.beta, R, nc, nf, None, None)
        BY <2>1, <4>1, CallGoing
      <4>3. QED BY <2>3, <3>2, <4>2 DEF black
    <3>3. CASE /\ ~n.beta.black /\ ~n.continuation_requested
               /\ n.pending_termination = [reason |-> "russian_roulette", blocked |-> {}]
               /\ eligible(path_depth_total(n.depth_counters))
      <4>1. ending(n) BY <1>0, <3>3 DEF bouncing
      <4>2. Scalar!eligible(m.depth) BY <2>4, <3>3, SameScalarBookkeeping
      <4>3. QED BY <2>8, <2>9, <3>3, <4>1, <4>2 DEF black
    <3>4. QED BY <1>4, <3>1, <3>2, <3>3 DEF bounced
  <2>11. QED BY <2>1, <2>5, <2>10 DEF scatters, m
<1>5. QED BY <1>3, <1>4 DEF scattered_from

(* The kernels, each with the step its slot makes in the scalar loop. *)

(* The camera stage begins a call the scalar loop has already begun. *)
LEMMA InitializeStays ==
  ASSUME NEW s, NEW q, q = Runtime
  PROVE  scalar_of(s, [q EXCEPT !.initialized = TRUE,
                                !.beta = [events |-> << >>, black |-> s \in BlackInputs]])
           = scalar_of(s, q)
<1> DEFINE b == [events |-> << >>, black |-> s \in BlackInputs]
           n == [q EXCEPT !.initialized = TRUE, !.beta = b]
<1>1. /\ n.pending_shadow = None /\ n.pending_termination = None
      /\ n.result = None /\ n.initialized = TRUE /\ n.radiance = << >>
      /\ n.depth_counters = NoCounters /\ n.delta_flags = {} /\ n.beta = b
  BY DEF Runtime
<1>2. scalar_of(s, q) = call("closest_hit", b, << >>, NoCounters, {}, None, None)
  BY CallNotYet
<1> HIDE DEF n, b
<1>3. scalar_of(s, n) = call("closest_hit", b, << >>, NoCounters, {}, None, None)
  BY <1>1 DEF scalar_of, call
<1>4. QED BY <1>2, <1>3 DEF n, b

(* The ray and the hit stage do not move the call: the scalar loop traces
   and shades in one step. *)
LEMMA GoingStays ==
  ASSUME NEW s, NEW q, traveling(q) \/ bouncing(q), NEW n, traveling(n) \/ bouncing(n),
         n.beta = q.beta, n.radiance = q.radiance,
         n.depth_counters = q.depth_counters, n.delta_flags = q.delta_flags
  PROVE  scalar_of(s, n) = scalar_of(s, q)
  BY CallGoing

(* The miss kernel is the scalar loop's escape. *)
LEMMA MissMoves ==
  ASSUME NEW s, NEW q, found("miss", q)
  PROVE  escapes(scalar_of(s, q),
                 scalar_of(s, finish_path(Weigh(q, "environment", q.beta),
                                          "escaped_environment", {})))
<1> DEFINE w == Weigh(q, "environment", q.beta)
           n == finish_path(w, "escaped_environment", {})
           R == Append(q.radiance, <<"environment", Len(q.beta.events)>>)
           t == [termination |-> "escaped_environment", blocked |-> {}]
           p == call("closest_hit", q.beta, q.radiance, q.depth_counters, q.delta_flags, None, None)
<1>1. traveling(q) /\ kept(q) /\ q \in RuntimePath /\ q.beta \in Beta /\ q.initialized
  BY DEF found, traveling, live, kept, RuntimePath
<1>2. finished(n) BY MissLeaves DEF left
<1>3. w \in RuntimePath /\ w = [q EXCEPT !.radiance = R]
  BY <1>1, WeighKeeps DEF kept
<1> HIDE DEF R, t, w
<1>4. n = [w EXCEPT !.result = t, !.pending_shadow = None,
                    !.pending_termination = None, !.continuation_requested = FALSE]
  BY DEF finish_path, t
<1>5. /\ n.initialized = q.initialized /\ n.beta = q.beta /\ n.radiance = R
      /\ n.depth_counters = q.depth_counters /\ n.delta_flags = q.delta_flags
      /\ n.result = t
  BY <1>1, <1>3, <1>4, ZenonT(40) DEF RuntimePath
<1> HIDE DEF n
<1>6. scalar_of(s, n) = call("returned", q.beta, R, q.depth_counters, q.delta_flags, None, t)
  BY <1>1, <1>2, <1>5, CallFinished
<1>7. scalar_of(s, q) = p BY <1>1, CallGoing
<1>8. booked(q.beta.events, q.depth_counters, q.delta_flags) BY <1>1 DEF kept
<1>9. Scalar!Weigh(p, "environment")
        = call("closest_hit", q.beta, R, q.depth_counters, q.delta_flags, None, None)
  BY WeighedCall DEF R
<1>10. Scalar!finish(Scalar!Weigh(p, "environment"), "escaped_environment", {})
         = call("returned", q.beta, R, q.depth_counters, q.delta_flags, None, t)
  BY <1>8, <1>9, FinishedCall DEF t
<1>11. p.at = "closest_hit" BY DEF call
<1> HIDE DEF p
<1>12. QED BY <1>6, <1>7, <1>10, <1>11 DEF escapes, n, w

(* The scalar call at the surface, with its emission. *)
LEMMA EmissionCall ==
  ASSUME NEW s, NEW q, shadable(q)
  PROVE  LET p == scalar_of(s, q)
             e == emitted(q)
         IN  /\ p.at = "closest_hit" /\ p.beta = q.beta /\ p.depth_counters = q.depth_counters
             /\ Scalar!Weigh(p, "emission")
                  = call("closest_hit", q.beta, e.radiance, q.depth_counters, q.delta_flags,
                         None, None)
<1> DEFINE R == Append(q.radiance, <<"emission", Len(q.beta.events)>>)
           p == call("closest_hit", q.beta, q.radiance, q.depth_counters, q.delta_flags, None, None)
<1>1. scalar_of(s, q) = p BY CallGoing DEF shadable
<1>2. p.at = "closest_hit" /\ p.beta = q.beta /\ p.depth_counters = q.depth_counters
  BY DEF call
<1>3. Scalar!Weigh(p, "emission")
        = call("closest_hit", q.beta, R, q.depth_counters, q.delta_flags, None, None)
  BY WeighedCall
<1>4. emitted(q).radiance = R
  <2>1. q \in RuntimePath BY DEF shadable, traveling, live, kept
  <2> HIDE DEF R
  <2>2. emitted(q) = [q EXCEPT !.radiance = R] BY EmittedKeeps DEF R
  <2>3. QED BY <2>1, <2>2 DEF RuntimePath
<1> HIDE DEF p, R
<1>5. QED BY <1>1, <1>2, <1>3, <1>4

(* A path that ends at the surface ends there in the scalar loop. *)
LEMMA TerminalMoves ==
  ASSUME NEW s, NEW q, shadable(q), NEW reason \in Termination, NEW blocked \in SUBSET Category
  PROVE  scalar_of(s, terminate(emitted(q), reason, blocked))
           = Scalar!finish(Scalar!Weigh(scalar_of(s, q), "emission"), reason, blocked)
<1> DEFINE e == emitted(q)
           n == terminate(e, reason, blocked)
           w == Scalar!Weigh(scalar_of(s, q), "emission")
<1>1. /\ shadable(e) /\ e.beta = q.beta /\ e.depth_counters = q.depth_counters
      /\ e.delta_flags = q.delta_flags
  BY EmittedKeeps
<1>2. w = call("closest_hit", q.beta, e.radiance, q.depth_counters, q.delta_flags, None, None)
  BY EmissionCall
<1> HIDE DEF e
<1>3. live(e) /\ e.pending_shadow = None /\ ~e.continuation_requested
  BY <1>1 DEF shadable, traveling
<1>4. /\ live(n) /\ n.pending_termination # None
      /\ n.pending_termination = [reason |-> reason, blocked |-> blocked]
      /\ n.beta = e.beta /\ n.radiance = e.radiance
      /\ n.depth_counters = e.depth_counters /\ n.delta_flags = e.delta_flags
      /\ n.pending_shadow = e.pending_shadow
      /\ n.continuation_requested = e.continuation_requested
  BY <1>3, TerminateKeeps
<1> HIDE DEF n
<1>5. ending(n) /\ n.pending_termination.reason = reason
      /\ n.pending_termination.blocked = blocked
  BY <1>3, <1>4 DEF ending
<1>6. scalar_of(s, n) = call("returned", q.beta, e.radiance, q.depth_counters, q.delta_flags,
                             None, [termination |-> reason, blocked |-> blocked])
  BY <1>1, <1>4, <1>5, CallEnding
<1>7. booked(q.beta.events, q.depth_counters, q.delta_flags)
  BY DEF shadable, traveling, live, kept
<1> HIDE DEF w
<1>8. Scalar!finish(w, reason, blocked)
        = call("returned", q.beta, e.radiance, q.depth_counters, q.delta_flags,
               None, [termination |-> reason, blocked |-> blocked])
  BY <1>2, <1>7, FinishedCall
<1>9. QED BY <1>6, <1>8 DEF n, w, e

(* A shading that scatters: with a shadow ray to wait for the scalar loop
   is at its query, without one it is behind the bounce. *)
LEMMA ShadedMoves ==
  ASSUME NEW s, NEW q, shadable(q), ~q.beta.black,
         ~filter_fails(q.depth_counters, q.surface),
         allowed_events(q.depth_counters, q.surface) # {},
         NEW light, NEW n, shaded(emitted(q), light, n)
  PROVE  \/ bounces_unlit(scalar_of(s, q), q.surface, scalar_of(s, n))
         \/ asks_for_light(scalar_of(s, q), q.surface, scalar_of(s, n))
<1> DEFINE p == scalar_of(s, q)
           e == emitted(q)
           w == Scalar!Weigh(p, "emission")
           c == counters_of(q.beta.events)
           f == flags_of(q.beta.events)
<1>1. /\ shadable(e) /\ e.beta = q.beta /\ e.surface = q.surface BY EmittedKeeps
<1>2. /\ q.surface \in Surfaces /\ q.beta \in Beta
      /\ booked(q.beta.events, q.depth_counters, q.delta_flags)
  BY DEF shadable, traveling, live, kept, RuntimePath
<1>3. q.depth_counters = c /\ q.delta_flags = f /\ booked(q.beta.events, c, f)
  BY <1>2 DEF booked
<1>4. /\ p.at = "closest_hit" /\ p.beta = q.beta /\ p.depth_counters = q.depth_counters
      /\ w = call("closest_hit", q.beta, e.radiance, q.depth_counters, q.delta_flags, None, None)
  BY EmissionCall
<1> HIDE DEF p, e
<1>5. Scalar!can_sample(p, q.surface)
  BY <1>4, SameScalarBookkeeping DEF Scalar!can_sample
<1>6. /\ live(n) /\ n.radiance = e.radiance /\ n.surface = q.surface
      /\ scattered_from(n, q.beta, q.surface)
      /\ light = "shadow" => n.pending_shadow # None /\ n.pending_shadow.beta = q.beta
      /\ light # "shadow" => n.pending_shadow = None
  BY <1>1 DEF shaded, e
<1> HIDE DEF w
<1>7. CASE light # "shadow"
  <2>1. w = call("closest_hit", q.beta, n.radiance, c, f, None, None)
    BY <1>3, <1>4, <1>6
  <2> HIDE DEF c, f
  <2>2. scatters(call("closest_hit", q.beta, n.radiance, c, f, None, None),
                 q.surface, scalar_of(s, n))
    BY <1>2, <1>3, <1>6, <1>7, ScatterCall DEF c, f
  <2>3. QED BY <1>5, <2>1, <2>2 DEF bounces_unlit, p, w
<1>8. CASE light = "shadow"
  <2>1. scalar_of(s, n) = call("occluded", q.beta, n.radiance, c, f, q.surface, None)
    BY <1>6, <1>8, CallLit
  <2>2. [w EXCEPT !.at = "occluded", !.surface = q.surface]
          = call("occluded", q.beta, n.radiance, c, f, q.surface, None)
    <3> HIDE DEF c, f
    <3>1. [w EXCEPT !.at = "occluded", !.surface = q.surface]
            \in Locals("occluded", q.beta, n.radiance, Len(q.beta.events), c, f, q.surface, None)
      BY <1>3, <1>4, <1>6 DEF call, Locals
    <3>2. QED BY <3>1, OneCall
  <2>3. QED BY <1>5, <2>1, <2>2 DEF asks_for_light, p, w
<1>9. QED BY <1>7, <1>8 DEF p

(* The shadow kernel is the scalar loop's bounce behind a light query. *)
LEMMA ShadowMoves ==
  ASSUME NEW s, NEW q, found("shadow", q), NEW visible \in BOOLEAN
  PROVE  LET n == [q EXCEPT !.shadow_queries = @ + 1, !.pending_shadow = None]
         IN  bounces_lit(scalar_of(s, q),
               scalar_of(s, IF visible THEN Weigh(n, "direct", q.pending_shadow.beta) ELSE n))
<1> DEFINE b == q.pending_shadow.beta
           c == counters_of(b.events)
           f == flags_of(b.events)
           n == [q EXCEPT !.shadow_queries = @ + 1, !.pending_shadow = None]
           w == IF visible THEN Weigh(n, "direct", b) ELSE n
           R == IF visible THEN Append(q.radiance, <<"direct", Len(b.events)>>) ELSE q.radiance
           p == call("occluded", b, q.radiance, c, f, q.surface, None)
           v == IF visible THEN Scalar!Weigh(p, "direct") ELSE p
<1>1. lit(q) /\ q.pending_shadow # None /\ q \in RuntimePath /\ q.surface \in Surfaces
      /\ booked(b.events, c, f)
  BY DEF found, lit, live, kept
<1>2. b \in Beta BY <1>1 DEF RuntimePath, Shadow
<1>3. /\ live(w) /\ w.pending_shadow = None /\ w.radiance = R
      /\ scattered_from(w, b, q.surface)
  BY ShadowLeaves
<1>4. scalar_of(s, q) = p BY <1>1, CallLit
<1>5. v = call("occluded", b, R, c, f, q.surface, None) BY WeighedCall
<1>6. p.at = "occluded" /\ p.surface = q.surface BY DEF call
<1> HIDE DEF w, R, p, b
<1>7. scatters(call("occluded", b, w.radiance, c, f, q.surface, None), q.surface,
               scalar_of(s, w))
  BY <1>1, <1>2, <1>3, ScatterCall
<1> HIDE DEF c, f, v
<1>8. scatters(v, p.surface, scalar_of(s, w)) BY <1>3, <1>5, <1>6, <1>7
<1>9. bounces_lit(p, scalar_of(s, w)) BY <1>6, <1>8 DEF bounces_lit, v
<1>10. QED BY <1>4, <1>9 DEF w, n, b

(* Finishing an ending path does not move its call. *)
LEMMA EndingStays ==
  ASSUME NEW s, NEW q, ending(q)
  PROVE  scalar_of(s, finish_path(q, q.pending_termination.reason, q.pending_termination.blocked))
           = scalar_of(s, q)
<1> DEFINE r == [termination |-> q.pending_termination.reason,
                 blocked     |-> q.pending_termination.blocked]
           n == finish_path(q, q.pending_termination.reason, q.pending_termination.blocked)
<1>1. q \in RuntimePath /\ q.initialized BY DEF ending, live, kept
<1>2. finished(n) BY EndingFinishes
<1>3. scalar_of(s, q) = call("returned", q.beta, q.radiance, q.depth_counters, q.delta_flags,
                             None, r)
  BY CallEnding
<1> HIDE DEF r
<1>4. n = [q EXCEPT !.result = r, !.pending_shadow = None,
                    !.pending_termination = None, !.continuation_requested = FALSE]
  BY DEF finish_path, r
<1>5. /\ n.initialized = q.initialized /\ n.beta = q.beta /\ n.radiance = q.radiance
      /\ n.depth_counters = q.depth_counters /\ n.delta_flags = q.delta_flags
      /\ n.result = r
  BY <1>1, <1>4 DEF RuntimePath
<1> HIDE DEF n
<1>6. scalar_of(s, n) = call("returned", q.beta, q.radiance, q.depth_counters, q.delta_flags,
                             None, r)
  BY <1>1, <1>2, <1>5, CallFinished
<1>7. QED BY <1>3, <1>6 DEF n

(* Routing slots behind a barrier moves no call, when those it ends are
   ending. *)
LEMMA RouteStays ==
  ASSUME NEW k, NEW q, NEW finishing, NEW unrouted, route(k, q, finishing, unrouted),
         \A s \in finishing : ending(path[s])
  PROVE  scalar' = scalar
<1> DEFINE end(s) == finish_path(path[s], path[s].pending_termination.reason,
                                          path[s].pending_termination.blocked)
<1>1. path' = [s \in Slot |-> IF s \in finishing THEN end(s) ELSE path[s]]
  BY DEF route
<1>2. \A s \in Slot : s \in finishing => scalar_of(s, end(s)) = scalar_of(s, path[s])
  BY EndingStays
<1>3. scalar' = [s \in Slot |-> scalar_of(s, path'[s])]
  BY DEF scalar, scalar_path
<1>4. scalar = [s \in Slot |-> scalar_of(s, path[s])] BY DEF scalar, scalar_path
<1>5. \A s \in Slot : scalar_of(s, path'[s]) = scalar_of(s, path[s])
  <2> HIDE DEF end
  <2>1. QED BY <1>1, <1>2
<1>6. QED BY <1>3, <1>4, <1>5

(* Behind a barrier, what the caller finishes is ending. *)
LEMMA FinishedEnd ==
  ASSUME IInv, NEW k \in {"shade", "shadow"}, NEW ends, NEW q, NEW unrouted,
         route(k, q, ToSet(filtered(queue[k], ends)), unrouted),
         \A s \in ends : /\ ~path[s].continuation_requested
                         /\ k = "shade" => path[s].pending_shadow = None
  PROVE  scalar' = scalar
<1>1. k \in Kind /\ stage = k /\ running /\ stage_complete /\ failure = "none"
  BY DEF route, Kind
<1>2. \A s \in ToSet(queue[k]) : left(k, path[s]) BY <1>1, BehindBarrier
<1>3. ToSet(filtered(queue[k], ends)) = ToSet(queue[k]) \cap ends
  BY <1>1, Selected
<1>4. ASSUME NEW s \in ToSet(queue[k]) \cap ends PROVE ending(path[s])
  <2>1. left(k, path[s]) /\ ~path[s].continuation_requested
        /\ (k = "shade" => path[s].pending_shadow = None)
    BY <1>2
  <2>2. ~bouncing(path[s]) /\ (k = "shade" => ~lit(path[s]))
    BY <2>1 DEF bouncing, lit
  <2>3. QED BY <2>1, <2>2 DEF left
<1>5. QED BY <1>3, <1>4, RouteStays

(* No step of the calling thread moves a call. *)
LEMMA CallerStays == ASSUME IInv, Caller PROVE scalar' = scalar
<1>0. ASSUME path' = path PROVE scalar' = scalar
  BY <1>0 DEF scalar, scalar_path
<1>1. CASE \/ refuse_batch \/ begin_batch \/ skip_stage \/ execute_queue
           \/ scheduler_unavailable \/ stage_failed \/ collect
  BY <1>0, <1>1 DEF refuse_batch, begin_batch, skip_stage, execute_queue,
    scheduler_unavailable, stage_failed, collect
<1>2. CASE \/ after_camera \/ after_ray \/ after_miss \/ after_hit \/ after_continuation
  <2>1. \E k, q : route(k, q, {}, {})
    BY <1>2 DEF after_camera, after_ray, after_miss, after_hit, after_continuation
  <2>2. QED BY <2>1, RouteStays
<1>3. CASE after_shade
  <2> DEFINE ends == {s \in Slot : wants_finish(path[s])}
  <2>1. \E q, unrouted : route("shade", q, ToSet(filtered(queue["shade"], ends)), unrouted)
    BY <1>3 DEF after_shade, select
  <2>2. \A s \in ends : ~path[s].continuation_requested /\ path[s].pending_shadow = None
    BY DEF wants_finish, wants_shadow
  <2> HIDE DEF ends
  <2>3. QED BY <2>1, <2>2, FinishedEnd
<1>4. CASE after_shadow
  <2> DEFINE ends == {s \in Slot : /\ ~path[s].continuation_requested
                                   /\ path[s].pending_termination # None}
  <2>1. \E q, unrouted : route("shadow", q, ToSet(filtered(queue["shadow"], ends)), unrouted)
    BY <1>4 DEF after_shadow, select
  <2>2. \A s \in ends : ~path[s].continuation_requested OBVIOUS
  <2> HIDE DEF ends
  <2>3. QED BY <2>1, <2>2, FinishedEnd
<1>5. QED BY <1>1, <1>2, <1>3, <1>4 DEF Caller

(* A step of a kernel is a step of the scalar loop, or none. *)
LEMMA KernelSteps ==
  ASSUME IInv, NEW s \in Slot, Kernel(s)
  PROVE  Scalar!Next \/ scalar' = scalar
<1> DEFINE q == path[s]
<1>0. ASSUME NEW k \in Kind, runs(k, s) PROVE found(k, q)
  BY <1>0, WhereKernelRuns DEF runs
<1>a. scalar[s] = scalar_of(s, q) /\ scalar = [x \in Slot |-> scalar_of(x, path[x])]
  BY DEF scalar, scalar_path
<1>b. ASSUME NEW n, leave(s, n), scalar_of(s, n) = scalar_of(s, q) PROVE scalar' = scalar
  <2>1. scalar' = [scalar EXCEPT ![s] = scalar[s]] BY <1>a, <1>b, LaneMoves
  <2>2. QED BY <1>a, <2>1
<1>c. ASSUME NEW n, leave(s, n), moves(scalar_of(s, q), scalar_of(s, n)) PROVE Scalar!Next
  BY <1>a, <1>c, LaneMoves, MoveIsStep
<1>1. CASE initialize_runtime_path(s)
  <2>1. q = Runtime BY <1>0, <1>1 DEF initialize_runtime_path, Kind, found
  <2>2. QED BY <1>b, <1>1, <2>1, InitializeStays DEF initialize_runtime_path
<1>2. CASE trace_ray(s)
  <2>1. found("ray", q) BY <1>0, <1>2 DEF trace_ray, Kind
  <2>2. PICK hit \in BOOLEAN : leave(s, [q EXCEPT !.hit = hit, !.surface = None])
    BY <1>2 DEF trace_ray
  <2> DEFINE n == [q EXCEPT !.hit = hit, !.surface = None]
  <2>3. traveling(n) BY <2>1, TraceLeaves DEF left
  <2>4. traveling(q) /\ q \in RuntimePath
    BY <2>1 DEF found, traveling, live, kept
  <2>5. /\ n.beta = q.beta /\ n.radiance = q.radiance
        /\ n.depth_counters = q.depth_counters /\ n.delta_flags = q.delta_flags
    BY <2>4 DEF RuntimePath
  <2> HIDE DEF n, q
  <2>6. scalar_of(s, n) = scalar_of(s, q) BY <2>3, <2>4, <2>5, GoingStays
  <2>7. leave(s, n) BY <2>2 DEF n
  <2>8. QED BY <1>b, <2>6, <2>7
<1>3. CASE accumulate_miss(s)
  <2>1. found("miss", q) BY <1>0, <1>3 DEF accumulate_miss, Kind
  <2> DEFINE n == finish_path(Weigh(q, "environment", q.beta), "escaped_environment", {})
  <2>2. leave(s, n) BY <1>3 DEF accumulate_miss
  <2>3. escapes(scalar_of(s, q), scalar_of(s, n)) BY <2>1, MissMoves
  <2> HIDE DEF n, q
  <2>4. QED BY <1>c, <2>2, <2>3 DEF moves
<1>4. CASE resolve_surface(s)
  <2>1. found("hit", q) BY <1>0, <1>4 DEF resolve_surface, Kind
  <2>2. PICK surface \in Surfaces : leave(s, [q EXCEPT !.surface = surface])
    BY <1>4 DEF resolve_surface
  <2> DEFINE n == [q EXCEPT !.surface = surface]
  <2>3. traveling(n) BY <2>1, ResolveLeaves DEF left, shadable
  <2>4. traveling(q) /\ q \in RuntimePath
    BY <2>1 DEF found, traveling, live, kept
  <2>5. /\ n.beta = q.beta /\ n.radiance = q.radiance
        /\ n.depth_counters = q.depth_counters /\ n.delta_flags = q.delta_flags
    BY <2>4 DEF RuntimePath
  <2> HIDE DEF n, q
  <2>6. scalar_of(s, n) = scalar_of(s, q) BY <2>3, <2>4, <2>5, GoingStays
  <2>7. leave(s, n) BY <2>2 DEF n
  <2>8. QED BY <1>b, <2>6, <2>7
<1>5. CASE shade_terminal(s)
  <2> DEFINE e == emitted(q)
             p == scalar_of(s, q)
             w == Scalar!Weigh(p, "emission")
  <2>1. shadable(q) BY <1>0, <1>5 DEF shade_terminal, Kind, found
  <2>2. /\ q.surface \in Surfaces /\ e.surface = q.surface
        /\ e.beta = q.beta /\ e.depth_counters = q.depth_counters
    BY <2>1, EmittedKeeps DEF shadable
  <2>3. /\ p.at = "closest_hit"
        /\ w = call("closest_hit", q.beta, e.radiance, q.depth_counters, q.delta_flags, None, None)
    BY <2>1, EmissionCall
  <2>4. w.beta = q.beta /\ w.depth_counters = q.depth_counters BY <2>3 DEF call
  <2>5. /\ "zero_throughput" \in Termination /\ "outside_bsdf_support" \in Termination
        /\ "depth_limit" \in Termination /\ {} \in SUBSET Category
        /\ blocked_lobes(q.depth_counters, q.surface) \in SUBSET Category
    BY DEF Termination, blocked_lobes, blocked_limits
  <2>6. \/ q.beta.black /\ leave(s, terminate(e, "zero_throughput", {}))
        \/ /\ ~q.beta.black /\ q.surface = {} /\ ~filter_fails(q.depth_counters, q.surface)
           /\ leave(s, terminate(e, "outside_bsdf_support", {}))
        \/ /\ ~q.beta.black /\ q.surface # {} /\ ~filter_fails(q.depth_counters, q.surface)
           /\ allowed_events(q.depth_counters, q.surface) = {}
           /\ leave(s, terminate(e, "depth_limit", blocked_lobes(q.depth_counters, q.surface)))
    BY <1>5, <2>2 DEF shade_terminal
  <2>7. \A reason \in Termination : \A blocked \in SUBSET Category :
           scalar_of(s, terminate(e, reason, blocked)) = Scalar!finish(w, reason, blocked)
    BY <2>1, TerminalMoves
  <2> HIDE DEF e, p, w, q
  <2>8. \E n : leave(s, n) /\ ends_at(p, q.surface, scalar_of(s, n))
    <3>1. CASE q.beta.black /\ leave(s, terminate(e, "zero_throughput", {}))
      <4>1. ends_at(p, q.surface, scalar_of(s, terminate(e, "zero_throughput", {})))
        BY <2>3, <2>4, <2>5, <2>7, <3>1 DEF ends_at, w
      <4>2. QED BY <3>1, <4>1
    <3>2. CASE /\ ~q.beta.black /\ q.surface = {} /\ ~filter_fails(q.depth_counters, q.surface)
               /\ leave(s, terminate(e, "outside_bsdf_support", {}))
      <4>1. ends_at(p, q.surface, scalar_of(s, terminate(e, "outside_bsdf_support", {})))
        BY <2>3, <2>4, <2>5, <2>7, <3>2, SameScalarBookkeeping DEF ends_at, w
      <4>2. QED BY <3>2, <4>1
    <3>3. CASE /\ ~q.beta.black /\ q.surface # {} /\ ~filter_fails(q.depth_counters, q.surface)
               /\ allowed_events(q.depth_counters, q.surface) = {}
               /\ leave(s, terminate(e, "depth_limit", blocked_lobes(q.depth_counters, q.surface)))
      <4>1. ends_at(p, q.surface, scalar_of(s, terminate(e, "depth_limit",
                                              blocked_lobes(q.depth_counters, q.surface))))
        BY <2>3, <2>4, <2>5, <2>7, <3>3, SameScalarBookkeeping DEF ends_at, w
      <4>2. QED BY <3>3, <4>1
    <3>4. QED BY <2>6, <3>1, <3>2, <3>3
  <2>9. QED BY <1>c, <2>2, <2>8 DEF moves, p
<1>6. CASE shade_scatter(s)
  <2>1. shadable(q) BY <1>0, <1>6 DEF shade_scatter, Kind, found
  <2>2. /\ shadable(emitted(q)) /\ emitted(q).surface = q.surface
        /\ emitted(q).beta = q.beta /\ emitted(q).depth_counters = q.depth_counters
        /\ q.surface \in Surfaces
    BY <2>1, EmittedKeeps DEF shadable
  <2>3. PICK light \in LightSample : \E n : leave(s, n) /\ shaded(emitted(q), light, n)
    BY <1>6, <2>2, ScatterShades
  <2>4. PICK n : leave(s, n) /\ shaded(emitted(q), light, n) BY <2>3
  <2>5. /\ ~q.beta.black /\ ~filter_fails(q.depth_counters, q.surface)
        /\ allowed_events(q.depth_counters, q.surface) # {}
    BY <1>6, <2>2 DEF shade_scatter
  <2> HIDE DEF q
  <2>6. \/ bounces_unlit(scalar_of(s, q), q.surface, scalar_of(s, n))
        \/ asks_for_light(scalar_of(s, q), q.surface, scalar_of(s, n))
    BY <2>1, <2>4, <2>5, ShadedMoves
  <2>7. QED BY <1>c, <2>2, <2>4, <2>6 DEF moves
<1>7. CASE query_shadow(s)
  <2>1. found("shadow", q) BY <1>0, <1>7 DEF query_shadow, Kind
  <2> DEFINE m == [q EXCEPT !.shadow_queries = @ + 1, !.pending_shadow = None]
  <2>2. PICK visible \in BOOLEAN :
           leave(s, IF visible THEN Weigh(m, "direct", q.pending_shadow.beta) ELSE m)
    BY <1>7 DEF query_shadow
  <2> DEFINE n == IF visible THEN Weigh(m, "direct", q.pending_shadow.beta) ELSE m
  <2>3. bounces_lit(scalar_of(s, q), scalar_of(s, n)) BY <2>1, ShadowMoves
  <2>4. leave(s, n) BY <2>2
  <2> HIDE DEF n, q
  <2>5. QED BY <1>c, <2>3, <2>4 DEF moves
<1>8. CASE continue_path(s)
  <2>1. found("continuation", q) BY <1>0, <1>8 DEF continue_path, Kind
  <2> DEFINE n == [q EXCEPT !.continuation_requested = FALSE, !.hit = FALSE, !.surface = None]
  <2>2. leave(s, n) BY <1>8 DEF continue_path
  <2>3. traveling(n) BY <2>1, ContinueLeaves DEF left
  <2>4. bouncing(q) /\ q \in RuntimePath BY <2>1 DEF found, bouncing, live, kept
  <2>5. /\ n.beta = q.beta /\ n.radiance = q.radiance
        /\ n.depth_counters = q.depth_counters /\ n.delta_flags = q.delta_flags
    BY <2>4 DEF RuntimePath
  <2> HIDE DEF n, q
  <2>6. scalar_of(s, n) = scalar_of(s, q) BY <2>3, <2>4, <2>5, GoingStays
  <2>7. QED BY <1>b, <2>2, <2>6
<1>9. CASE lane_error(s)
  BY <1>9 DEF lane_error, scalar, scalar_path
<1>10. QED BY <1>1, <1>2, <1>3, <1>4, <1>5, <1>6, <1>7, <1>8, <1>9 DEF Kernel

(* Each slot of the transport follows the scalar path loop: the wavefront
   kernels, with their queues and barriers, implement SceneMisPathLoop
   (ScalarSpec), so that batches return what integrate returns for the same
   path (CpuWavefrontTransport.cpp against SceneMisPathLoop). *)
THEOREM SpecScalar == Spec => ScalarSpec
<1>1. Init => Scalar!Init
  <2> SUFFICES ASSUME Init PROVE Scalar!Init
    OBVIOUS
  <2>1. \A s \in Slot : scalar_path(s) = Scalar!Initial(s)
    <3> TAKE s \in Slot
    <3>1. path[s] = Runtime BY DEF Init
    <3>2. scalar_path(s)
            = call("closest_hit", [events |-> << >>, black |-> s \in BlackInputs], << >>,
                   NoCounters, {}, None, None)
      BY <3>1, CallNotYet DEF scalar_path
    <3>3. Len(<< >>) = 0 OBVIOUS
    <3>4. QED BY <3>2, <3>3, SameScalarBookkeeping DEF call, Scalar!Initial
  <2>2. QED BY <2>1 DEF Scalar!Init
<1>2. IInv /\ [Next]_vars => [Scalar!Next]_scalar
  <2> SUFFICES ASSUME IInv, [Next]_vars PROVE [Scalar!Next]_scalar
    OBVIOUS
  <2>1. CASE Caller
    BY <2>1, CallerStays
  <2>2. CASE \E s \in Slot : Kernel(s)
    BY <2>2, KernelSteps
  <2>3. CASE UNCHANGED vars
    BY <2>3 DEF vars, scalar, scalar_path
  <2>4. QED BY <2>1, <2>2, <2>3 DEF Next
<1>3. QED BY <1>1, <1>2, SpecIInv, PTL DEF Spec, ScalarSpec, Scalar!Spec, scalar

------------------------------------------------------
(* The device (CudaWavefrontTransport). A workspace serves one trace after
   another, and nothing a trace leaves in it, whether it returned or
   failed, is a contradiction to the next. DeviceInv says what the lanes,
   the queues and the outcomes are; Ready(k, q, n) what a lane q in the
   queue of stage k is when n rays were dispatched, and Leaves what a work
   item leaves. First each kernel is shown to lead from the one to the
   other, then each step of a thread and of the host to keep the invariant.
   A path that uses up the limits of every family can still be counted in
   32 bits. Limits that add up to more are accepted; the shade kernel would
   then refuse to bounce a path that has made 2^32 - 1 bounces already. *)
LimitsCountable ==
    DepthLimits["diffuse"] + DepthLimits["glossy"] + DepthLimits["specular"]
        + DepthLimits["volume"] <= MaxDepth

(* The device counts and masks as the host does: both use PathDepthLimits. *)
LEMMA SameDeviceBookkeeping ==
  /\ Cuda!Category = Category /\ Cuda!Flag = Flag
  /\ Cuda!SurfaceEvent = SurfaceEvent /\ Cuda!NoCounters = NoCounters
  /\ Cuda!Kind = Kind /\ Cuda!Beta = Beta
  /\ \A c : Cuda!path_depth_total(c) = path_depth_total(c)
  /\ \A c, n : Cuda!validate_path_depth_state(c, n) <=> validate_path_depth_state(c, n)
  /\ \A c, e : Cuda!blocked_limits(c, e) = blocked_limits(c, e)
  /\ \A c, e : Cuda!advanced_counters(c, e) = advanced_counters(c, e)
  /\ \A f, e : Cuda!next_delta_flags(f, e) = next_delta_flags(f, e)
  /\ \A c, f : Cuda!path_state_valid(c, f) <=> path_state_valid(c, f)
  /\ \A c, s : Cuda!blocked_lobes(c, s) = blocked_lobes(c, s)
  /\ \A e : Cuda!is_delta_event(e) <=> is_delta_event(e)
<1>1. /\ Cuda!Category = Category /\ Cuda!Flag = Flag
      /\ Cuda!SurfaceEvent = SurfaceEvent /\ Cuda!NoCounters = NoCounters
      /\ Cuda!Kind = Kind /\ Cuda!Beta = Beta
  BY DEF Category, Flag, SurfaceEvent, NoCounters, Family, Direction, Cuda!Category,
    Cuda!Flag, Cuda!SurfaceEvent, Cuda!NoCounters, Cuda!Family, Cuda!Direction, Kind,
    Cuda!Kind, Beta, Cuda!Beta
<1>2. /\ \A c : Cuda!path_depth_total(c) = path_depth_total(c)
      /\ \A c : Cuda!surface_total(c) = surface_total(c)
      /\ \A c : Cuda!non_delta_depth(c) = non_delta_depth(c)
  BY DEF path_depth_total, surface_total, non_delta_depth, Cuda!path_depth_total,
    Cuda!surface_total, Cuda!non_delta_depth
<1>3. \A c : Cuda!validate_path_depth_counters(c) <=> validate_path_depth_counters(c)
  BY <1>2 DEF validate_path_depth_counters, Cuda!validate_path_depth_counters
<1>4. \A c, n : Cuda!validate_path_depth_state(c, n) <=> validate_path_depth_state(c, n)
  BY <1>1, <1>2, <1>3 DEF validate_path_depth_state, Cuda!validate_path_depth_state
<1>5. \A c, e : Cuda!advanced_counters(c, e) = advanced_counters(c, e)
  BY <1>1 DEF advanced_counters, Cuda!advanced_counters
<1>6. \A e : Cuda!is_delta_event(e) <=> is_delta_event(e)
  BY DEF is_delta_event, Cuda!is_delta_event
<1>7. \A f, e : Cuda!next_delta_flags(f, e) = next_delta_flags(f, e)
  BY DEF next_delta_flags, Cuda!next_delta_flags, is_delta_event, Cuda!is_delta_event
<1>8. \A c, f : Cuda!path_state_valid(c, f) <=> path_state_valid(c, f)
  BY <1>2, <1>3 DEF path_state_valid, Cuda!path_state_valid
<1>9. \A c, e : Cuda!blocked_limits(c, e) = blocked_limits(c, e)
  BY <1>1 DEF blocked_limits, Cuda!blocked_limits
<1>10. \A c, s : Cuda!blocked_lobes(c, s) = blocked_lobes(c, s)
  BY <1>9 DEF blocked_lobes, Cuda!blocked_lobes
<1>11. QED BY <1>1, <1>2, <1>4, <1>5, <1>6, <1>7, <1>8, <1>9, <1>10

(* A valid state counts no more in a family than its limit, so as many
   events as the limits of the families allow at most. *)
LEMMA WithinLimits ==
  ASSUME NEW c \in [Category -> Nat], validate_path_depth_state(c, path_depth_total(c))
  PROVE  /\ path_depth_total(c) \in Nat
         /\ path_depth_total(c) <= Cuda!maximum_iterations - 2
         /\ Cuda!maximum_iterations \in Nat
         /\ path_depth_total(c) <= MaxDepth
         /\ \A f \in Family : c[f] < DepthLimits[f]
               => path_depth_total(c) < Cuda!maximum_iterations - 2
<1>1. \A k \in Category : c[k] \in Nat /\ DepthLimits[k] \in Nat /\ c[k] <= DepthLimits[k]
  BY DepthAssumption DEF validate_path_depth_state
<1>2. MaxDepth \in Nat /\ path_depth_total(c) <= MaxDepth
  BY DepthAssumption DEF validate_path_depth_state, validate_path_depth_counters
<1> DEFINE a == c["diffuse"]  b == c["glossy"]  s == c["specular"]  v == c["volume"]
           la == DepthLimits["diffuse"]  lb == DepthLimits["glossy"]
           ls == DepthLimits["specular"] lv == DepthLimits["volume"]
<1>3. /\ a \in Nat /\ b \in Nat /\ s \in Nat /\ v \in Nat
      /\ la \in Nat /\ lb \in Nat /\ ls \in Nat /\ lv \in Nat
      /\ a <= la /\ b <= lb /\ s <= ls /\ v <= lv
  BY <1>1 DEF Category
<1>4. path_depth_total(c) = a + b + s + v BY DEF path_depth_total, surface_total
<1>5. Cuda!maximum_iterations = la + lb + ls + lv + 2
  BY DEF Cuda!maximum_iterations
<1>6. \A f \in Family : c[f] < DepthLimits[f] => a < la \/ b < lb \/ s < ls
  BY DEF Family
<1> HIDE DEF a, b, s, v, la, lb, ls, lv
<1>7. /\ a + b + s + v \in Nat /\ a + b + s + v <= la + lb + ls + lv
      /\ la + lb + ls + lv + 2 \in Nat
      /\ (la + lb + ls + lv + 2) - 2 = la + lb + ls + lv
      /\ (a < la \/ b < lb \/ s < ls => a + b + s + v < la + lb + ls + lv)
  BY <1>3
<1>8. QED BY <1>2, <1>4, <1>5, <1>6, <1>7

(* An event no limit blocks can be counted, and what it leads to is valid. *)
LEMMA UnblockedCounts ==
  ASSUME LimitsCountable, NEW c \in [Category -> Nat],
         validate_path_depth_state(c, path_depth_total(c)),
         NEW event \in SurfaceEvent, blocked_limits(c, event) = {}
  PROVE  /\ ~Cuda!depth_exhausted(c)
         /\ accepted(c, event)
<1>1. PICK f \in Family, d \in Direction : event = {f, d} BY DEF SurfaceEvent
<1>2. \A k \in event \cap Category : c[k] < DepthLimits[k]
  BY DepthAssumption DEF blocked_limits
<1>3. f \in event \cap Category BY <1>1 DEF Family, Category
<1>4. path_depth_total(c) < Cuda!maximum_iterations - 2
  BY <1>2, <1>3, WithinLimits
<1>5. /\ Cuda!maximum_iterations - 2 <= MaxDepth /\ path_depth_total(c) \in Nat
      /\ Cuda!maximum_iterations \in Nat /\ MaxDepth \in Nat
  <2> DEFINE total == DepthLimits["diffuse"] + DepthLimits["glossy"]
                         + DepthLimits["specular"] + DepthLimits["volume"]
  <2>1. Cuda!maximum_iterations = total + 2 /\ total <= MaxDepth
    BY DEF Cuda!maximum_iterations, LimitsCountable
  <2>2. total \in Nat BY DepthAssumption DEF Category
  <2> HIDE DEF total
  <2>3. QED BY <2>1, <2>2, WithinLimits, DepthAssumption
<1>6. path_depth_total(c) # MaxDepth BY <1>4, <1>5
<1> DEFINE n == advanced_counters(c, event)
<1>7. c \in Loop!Counters /\ f \in Loop!Family /\ d \in Loop!Direction
  BY SameBookkeeping DEF Family, Direction, Loop!Family, Loop!Direction
<1>8. /\ n \in [Category -> Nat]
      /\ n["diffuse"] = IF f = "diffuse" THEN c["diffuse"] + 1 ELSE c["diffuse"]
      /\ n["glossy"] = IF f = "glossy" THEN c["glossy"] + 1 ELSE c["glossy"]
      /\ n["specular"] = IF f = "specular" THEN c["specular"] + 1 ELSE c["specular"]
      /\ n["transmission"] = IF d = "transmission" THEN c["transmission"] + 1
                                                   ELSE c["transmission"]
      /\ n["volume"] = c["volume"]
  BY <1>1, <1>7, Loop!Advanced, LoopAssumptions, SameBookkeeping
<1>9. \A k \in Category : n[k] <= DepthLimits[k]
  <2> TAKE k \in Category
  <2>1. c[k] \in Nat /\ DepthLimits[k] \in Nat /\ c[k] <= DepthLimits[k]
    BY DepthAssumption DEF validate_path_depth_state
  <2>2. n[k] = IF k \in event THEN c[k] + 1 ELSE c[k] BY DEF advanced_counters
  <2>3. k \in event => c[k] < DepthLimits[k] BY <1>2
  <2> HIDE DEF n
  <2>4. QED BY <2>1, <2>2, <2>3
<1> HIDE DEF n
<1>10. /\ \A k \in Category : c[k] \in Nat
       /\ c["transmission"] <= surface_total(c)
       /\ f \in {"diffuse", "glossy", "specular"}
  BY DEF validate_path_depth_state, validate_path_depth_counters, Family
<1>11. /\ path_depth_total(n) = path_depth_total(c) + 1
       /\ n["transmission"] <= surface_total(n)
  BY <1>8, <1>10 DEF path_depth_total, surface_total, Category
<1>12. path_depth_total(c) + 1 <= MaxDepth BY <1>4, <1>5
<1>13. validate_path_depth_state(n, path_depth_total(c) + 1)
  BY <1>9, <1>11, <1>12 DEF validate_path_depth_state, validate_path_depth_counters
<1>14. ~depth_exhausted(c) /\ ~Cuda!depth_exhausted(c)
  BY <1>6, SameDeviceBookkeeping DEF depth_exhausted, Cuda!depth_exhausted
<1>15. QED BY <1>13, <1>14 DEF accepted, n

(* The columns of a lane. *)
Columns == {"phase", "termination", "blocked", "flags", "beta", "radiance", "depth_counters",
            "delta_flags", "hit", "previous", "pending", "owner"}

Shape(q) == q = [c \in Columns |-> q[c]]

(* What a trace wrote in the lane of a path that goes on. *)
Written(q) ==
    /\ q.blocked = {}
    /\ q.beta \in Beta
    /\ booked(q.beta.events, q.depth_counters, q.delta_flags)
    /\ Len(q.beta.events) = 0 => ~q.previous

(* A lane in the queue of stage k, n rays after the camera: what the kernel
   of the stage demands, and that the path has bounced at every surface its
   rays have found. *)
Ready(k, q, n) ==
    /\ q.phase = k
    /\ q.blocked = {}
    /\ k # "camera" => Written(q)
    /\ k \in {"ray", "continuation"} => n <= Len(q.beta.events)
    /\ k \in {"miss", "hit", "shade"} => n <= Len(q.beta.events) + 1
    /\ k \in {"hit", "shade"} => q.hit \in Surfaces
    /\ k = "shadow" => /\ Cuda!pending_consistent(q)
                       /\ q.pending.termination # "depth_limit"
                       /\ q.pending.continuation => n <= Len(q.beta.events)

Over(q) == Cuda!canonical(q) /\ path_state_valid(q.depth_counters, q.delta_flags)

(* The outcome o of a work item of stage k, and the lane q it leaves. *)
Routes(k) == ToSet(Cuda!routes(k))

Refused == [route |-> "none", why |-> "data"]
Routed(r) == [route |-> r, why |-> "success"]

Leaves(k, o, q, n) ==
    \/ o = Refused
    \/ \E r \in Routes(k) : o = Routed(r) /\ Ready(r, q, n)
    \/ k \in {"miss", "shade", "shadow"} /\ o = Routed("terminated") /\ Over(q)

(* The rays a lane in the queue of the kernel's stage has been dispatched. *)
passed == IF kernel = "ray" THEN iteration - 1 ELSE iteration

ShapeInv ==
    /\ lane = [s \in Cuda!Slot |-> lane[s]]
    /\ \A s \in Cuda!Slot : Shape(lane[s])

CleanInv ==
    /\ at = "idle" /\ ~dirty =>
          queue = [k \in Kind |-> << >>] /\ rejected = {} /\ kernel = "none"
    /\ at # "idle" =>
          /\ at \in Kind \cup {"camera_seed"}
          /\ rejected = {}
          /\ dirty = TRUE
          /\ kernel \in {"none", at}
          /\ count \in 1 .. Capacity
          /\ iteration \in Nat
          /\ kernel = "ray" => iteration # 0

SeedInv ==
    at = "camera_seed" =>
        /\ queue = [k \in Kind |-> << >>]
        /\ iteration = 0
        /\ kernel = at => /\ outcomes = [i \in 1 .. count |-> outcomes[i]]
                          /\ \A i \in 1 .. count : outcomes[i] \in {Cuda!Unset, Routed("none")}
        /\ \A s \in 0 .. count - 1 :
              /\ lane[s].blocked = {}
              /\ lane[s].phase = IF kernel = at /\ outcomes[s + 1] # Cuda!Unset
                                 THEN "camera" ELSE "empty"

(* Each slot of the trace is in one queue or over. *)
PlaceInv ==
    at \in Kind =>
        /\ queue = [k \in Kind |-> queue[k]]
        /\ \A k \in Kind : queue[k] \in Seq(0 .. count - 1) /\ distinct(queue[k])
        /\ \A k, l \in Kind : k # l => ToSet(queue[k]) \cap ToSet(queue[l]) = {}
        /\ \A k \in Kind \ in_use(at) : queue[k] = << >>
        /\ \A s \in 0 .. count - 1 : Over(lane[s]) \/ \E k \in Kind : s \in ToSet(queue[k])
        /\ at = "camera" => iteration = 0

(* What the lanes in the queues are, and those of the kernel's work items. *)
WorkInv ==
    at \in Kind =>
        /\ \A k \in Kind \ {kernel} : \A s \in ToSet(queue[k]) : Ready(k, lane[s], iteration)
        /\ kernel = at =>
              /\ outcomes = [i \in 1 .. Len(queue[at]) |-> outcomes[i]]
              /\ \A i \in 1 .. Len(queue[at]) :
                    IF outcomes[i] = Cuda!Unset
                    THEN Ready(at, lane[queue[at][i]], passed)
                    ELSE Leaves(at, outcomes[i], lane[queue[at][i]], iteration)

FailureInv == failure \in {"none", "data", "cuda_call"}

DeviceInv == ShapeInv /\ CleanInv /\ SeedInv /\ PlaceInv /\ WorkInv /\ FailureInv

------------------------------------------------------
(* Lanes. *)
LEMMA FinishLane ==
  ASSUME NEW q, Shape(q), NEW phase, NEW termination
  PROVE  LET n == Cuda!finish_phase(q, phase, termination)
         IN  /\ Shape(n)
             /\ n.phase = phase /\ n.termination = termination
             /\ n.blocked = q.blocked /\ n.flags = q.flags /\ n.beta = q.beta
             /\ n.radiance = q.radiance /\ n.depth_counters = q.depth_counters
             /\ n.delta_flags = q.delta_flags /\ n.hit = q.hit
             /\ n.previous = q.previous /\ n.pending = q.pending /\ n.owner = q.owner
  BY DEF Shape, Columns, Cuda!finish_phase

(* A contribution is appended to the radiance of a lane and nothing else. *)
LEMMA WeighLane ==
  ASSUME NEW q, Shape(q), NEW kind, NEW beta
  PROVE  LET n == Cuda!Weigh(q, kind, beta)
         IN  /\ Shape(n)
             /\ n.phase = q.phase /\ n.termination = q.termination
             /\ n.blocked = q.blocked /\ n.flags = q.flags /\ n.beta = q.beta
             /\ n.radiance = Append(q.radiance, <<kind, Len(beta.events)>>)
             /\ n.depth_counters = q.depth_counters
             /\ n.delta_flags = q.delta_flags /\ n.hit = q.hit
             /\ n.previous = q.previous /\ n.pending = q.pending /\ n.owner = q.owner
<1> DEFINE r == Append(q.radiance, <<kind, Len(beta.events)>>)
<1>1. Cuda!Weigh(q, kind, beta) = [q EXCEPT !.radiance = r] BY DEF Cuda!Weigh
<1> HIDE DEF r
<1>2. QED BY <1>1 DEF Shape, Columns, r

(* The end of a path keeps what it counted. *)
LEMMA EndedLane ==
  ASSUME NEW q, Shape(q), NEW termination, NEW blocked
  PROVE  LET n == Cuda!ended(q, termination, blocked)
         IN  /\ Shape(n)
             /\ n.phase = "terminated" /\ n.termination = termination
             /\ n.blocked = blocked /\ n.flags = {}
             /\ n.beta = q.beta /\ n.radiance = q.radiance
             /\ n.depth_counters = q.depth_counters /\ n.delta_flags = q.delta_flags
             /\ n.pending = q.pending /\ n.owner = q.owner
  BY DEF Shape, Columns, Cuda!ended, Cuda!finish_phase

(* The bounce of a lane writes its state and the sample that led there. *)
LEMMA ScatterLane ==
  ASSUME NEW q, Shape(q), NEW event, NEW black
  PROVE  LET n == Cuda!scattered(q, event, black)
         IN  /\ Shape(n)
             /\ n.phase = q.phase /\ n.termination = q.termination
             /\ n.blocked = q.blocked /\ n.flags = q.flags
             /\ n.beta = [events |-> Append(q.beta.events, event), black |-> black]
             /\ n.radiance = q.radiance
             /\ n.depth_counters = advanced_counters(q.depth_counters, event)
             /\ n.delta_flags = next_delta_flags(q.delta_flags, event)
             /\ n.hit = q.hit /\ n.pending = q.pending /\ n.owner = q.owner
<1> DEFINE b == [events |-> Append(q.beta.events, event), black |-> black]
           c == advanced_counters(q.depth_counters, event)
           f == next_delta_flags(q.delta_flags, event)
           p == ~Cuda!is_delta_event(event)
<1>1. Cuda!scattered(q, event, black) =
         [q EXCEPT !.beta = b, !.depth_counters = c, !.delta_flags = f, !.previous = p]
  BY SameDeviceBookkeeping DEF Cuda!scattered
<1> HIDE DEF b, c, f, p
<1>2. QED BY <1>1 DEF Shape, Columns, b, c, f

(* It leaves the lane to the trace that wrote it. *)
LEMMA SameOwner ==
  ASSUME NEW q, Shape(q), NEW event, NEW black
  PROVE  Cuda!scattered(q, event, black).owner = q.owner
<1>1. "owner" \in DOMAIN q BY DEF Shape, Columns
<1>2. QED BY <1>1 DEF Cuda!scattered

(* A lane that goes on keeps what was written of it when only its phase and
   what the next stage asks of it change. *)
LEMMA StillWritten ==
  ASSUME NEW q, Written(q), NEW m, m.blocked = q.blocked, m.beta = q.beta,
         m.depth_counters = q.depth_counters, m.delta_flags = q.delta_flags,
         m.previous = q.previous
  PROVE  Written(m)
  BY DEF Written

(* A written lane has a valid PathState that counts its events. *)
LEMMA WrittenCounts ==
  ASSUME NEW q, Written(q)
  PROVE  /\ q.beta.events \in Seq(SurfaceEvent) /\ Len(q.beta.events) \in Nat
         /\ q.depth_counters \in [Category -> Nat]
         /\ path_depth_total(q.depth_counters) = Len(q.beta.events)
         /\ validate_path_depth_state(q.depth_counters, path_depth_total(q.depth_counters))
         /\ path_state_valid(q.depth_counters, q.delta_flags)
         /\ path_depth_total(q.depth_counters) = 0 => ~q.previous
<1>1. /\ q.beta.events \in Seq(SurfaceEvent)
      /\ q.depth_counters \in [Category -> Nat]
      /\ validate_path_depth_state(q.depth_counters, Len(q.beta.events))
      /\ path_state_valid(q.depth_counters, q.delta_flags)
      /\ Len(q.beta.events) = 0 => ~q.previous
  BY DEF Written, booked, Beta
<1>2. path_depth_total(q.depth_counters) = Len(q.beta.events)
  BY <1>1 DEF validate_path_depth_state
<1>3. Len(q.beta.events) \in Nat BY <1>1, LenProperties
<1>4. QED BY <1>1, <1>2, <1>3

(* camera_stage_kernel: the lane of a path without events, whatever an
   earlier trace left in it. *)
LEMMA CameraLane ==
  ASSUME NEW b \in BOOLEAN, NEW t
  PROVE  LET m == [Cuda!finish_phase(Cuda!Untouched, "ray", "none")
                      EXCEPT !.beta.black = b, !.owner = t]
         IN  /\ Shape(m) /\ Ready("ray", m, 0)
             /\ m.beta = [events |-> << >>, black |-> b] /\ m.radiance = << >>
             /\ m.depth_counters = NoCounters /\ m.delta_flags = {}
             /\ m.pending = None /\ m.owner = t
<1> DEFINE u == Cuda!finish_phase(Cuda!Untouched, "ray", "none")
           e == [events |-> << >>, black |-> b]
           m == [u EXCEPT !.beta.black = b, !.owner = t]
<1>1. Shape(Cuda!Untouched) BY DEF Shape, Columns, Cuda!Untouched
<1>2. /\ Shape(u) /\ u.phase = "ray" /\ u.blocked = Cuda!Untouched.blocked
      /\ u.beta = Cuda!Untouched.beta
      /\ u.depth_counters = Cuda!Untouched.depth_counters
      /\ u.delta_flags = Cuda!Untouched.delta_flags
      /\ u.previous = Cuda!Untouched.previous
      /\ u.radiance = Cuda!Untouched.radiance /\ u.pending = Cuda!Untouched.pending
  BY <1>1, FinishLane
<1>3. /\ ~Cuda!Untouched.previous
      /\ Cuda!Untouched.blocked = {} /\ Cuda!Untouched.delta_flags = {}
      /\ Cuda!Untouched.depth_counters = Cuda!NoCounters
      /\ Cuda!Untouched.radiance = << >> /\ Cuda!Untouched.pending = None
  BY DEF Cuda!Untouched
<1>4. [u.beta EXCEPT !.black = b] = e
  <2>1. Cuda!Untouched.beta = [events |-> << >>, black |-> TRUE]
    BY DEF Cuda!Untouched
  <2>2. QED BY <1>2, <2>1
<1>5. m = [u EXCEPT !.beta = e, !.owner = t] BY <1>4
<1> HIDE DEF u, m
<1>6. /\ Shape(m) /\ m.phase = "ray" /\ m.blocked = {} /\ m.beta = e
      /\ m.depth_counters = NoCounters /\ m.delta_flags = {} /\ m.previous = u.previous
      /\ m.radiance = << >> /\ m.pending = None /\ m.owner = t
  BY <1>2, <1>3, <1>5, SameDeviceBookkeeping DEF Shape, Columns
<1>7. e \in Beta /\ Len(e.events) = 0 /\ e.events = << >> BY DEF Beta
<1> HIDE DEF e
<1>8. ~m.previous BY <1>2, <1>3, <1>6
<1>9. Written(m) BY <1>6, <1>7, <1>8, BookedNothing DEF Written
<1>10. Ready("ray", m, 0) BY <1>6, <1>7, <1>9 DEF Ready
<1>11. QED BY <1>6, <1>10 DEF m, u, e

(* classify_closest_hit_kernel. *)
LEMMA MissedLane ==
  ASSUME NEW q, Shape(q), NEW n \in Nat, Ready("ray", q, n - 1)
  PROVE  LET m == Cuda!finish_phase(q, "miss", "none") IN Shape(m) /\ Ready("miss", m, n)
<1> DEFINE m == Cuda!finish_phase(q, "miss", "none")
<1>1. /\ Shape(m) /\ m.phase = "miss"
      /\ m.blocked = q.blocked /\ m.beta = q.beta
      /\ m.depth_counters = q.depth_counters /\ m.delta_flags = q.delta_flags
      /\ m.previous = q.previous
  BY FinishLane
<1> HIDE DEF m
<1>2. Written(q) /\ q.blocked = {} /\ n - 1 <= Len(q.beta.events) BY DEF Ready
<1>3. Written(m) BY <1>1, <1>2, StillWritten
<1>4. n <= Len(m.beta.events) + 1 BY <1>1, <1>2, WrittenCounts
<1>5. QED BY <1>1, <1>2, <1>3, <1>4 DEF Ready, m

(* The ray of a lane found a surface. *)
LEMMA FoundLane ==
  ASSUME NEW q, Shape(q), NEW n \in Nat, Ready("ray", q, n - 1), NEW surface \in Surfaces
  PROVE  LET m == Cuda!finish_phase([q EXCEPT !.hit = surface], "hit", "none")
         IN  Shape(m) /\ Ready("hit", m, n)
<1> DEFINE h == [q EXCEPT !.hit = surface]
           m == Cuda!finish_phase(h, "hit", "none")
<1>1. /\ Shape(h) /\ h.hit = surface /\ h.blocked = q.blocked /\ h.beta = q.beta
      /\ h.depth_counters = q.depth_counters /\ h.delta_flags = q.delta_flags
      /\ h.previous = q.previous
  BY DEF Shape, Columns
<1> HIDE DEF h
<1>2. /\ Shape(m) /\ m.phase = "hit" /\ m.hit = surface
      /\ m.blocked = q.blocked /\ m.beta = q.beta
      /\ m.depth_counters = q.depth_counters /\ m.delta_flags = q.delta_flags
      /\ m.previous = q.previous
  BY <1>1, FinishLane
<1> HIDE DEF m
<1>3. Written(q) /\ q.blocked = {} /\ n - 1 <= Len(q.beta.events) BY DEF Ready
<1>4. Written(m) BY <1>2, <1>3, StillWritten
<1>5. n <= Len(m.beta.events) + 1 BY <1>2, <1>3, WrittenCounts
<1>6. QED BY <1>2, <1>3, <1>4, <1>5 DEF Ready, m, h

(* hit_stage_kernel and continuation_stage_kernel only move the lane on. *)
LEMMA ShadingLane ==
  ASSUME NEW q, Shape(q), NEW n, Ready("hit", q, n)
  PROVE  LET m == Cuda!finish_phase(q, "shade", "none") IN Shape(m) /\ Ready("shade", m, n)
<1> DEFINE m == Cuda!finish_phase(q, "shade", "none")
<1>1. /\ Shape(m) /\ m.phase = "shade" /\ m.hit = q.hit
      /\ m.blocked = q.blocked /\ m.beta = q.beta
      /\ m.depth_counters = q.depth_counters /\ m.delta_flags = q.delta_flags
      /\ m.previous = q.previous
  BY FinishLane
<1> HIDE DEF m
<1>2. Written(q) /\ q.blocked = {} /\ n <= Len(q.beta.events) + 1 /\ q.hit \in Surfaces
  BY DEF Ready
<1>3. Written(m) BY <1>1, <1>2, StillWritten
<1>4. QED BY <1>1, <1>2, <1>3 DEF Ready, m

(* continuation_stage_kernel sends the lane to its next ray. *)
LEMMA ContinuedLane ==
  ASSUME NEW q, Shape(q), NEW n, Ready("continuation", q, n)
  PROVE  LET m == Cuda!finish_phase(q, "ray", "none") IN Shape(m) /\ Ready("ray", m, n)
<1> DEFINE m == Cuda!finish_phase(q, "ray", "none")
<1>1. /\ Shape(m) /\ m.phase = "ray"
      /\ m.blocked = q.blocked /\ m.beta = q.beta
      /\ m.depth_counters = q.depth_counters /\ m.delta_flags = q.delta_flags
      /\ m.previous = q.previous
  BY FinishLane
<1> HIDE DEF m
<1>2. Written(q) /\ q.blocked = {} /\ n <= Len(q.beta.events) BY DEF Ready
<1>3. Written(m) BY <1>1, <1>2, StillWritten
<1>4. QED BY <1>1, <1>2, <1>3 DEF Ready, m

(* A path that ends is downloaded as it should be. *)
LEMMA EndedOver ==
  ASSUME NEW q, Shape(q), path_state_valid(q.depth_counters, q.delta_flags),
         NEW termination, NEW blocked, termination # "none",
         termination = "depth_limit" <=> blocked # {}
  PROVE  LET m == Cuda!ended(q, termination, blocked) IN Shape(m) /\ Over(m)
<1> DEFINE m == Cuda!ended(q, termination, blocked)
<1>1. /\ Shape(m) /\ m.phase = "terminated" /\ m.termination = termination
      /\ m.blocked = blocked /\ m.flags = {}
      /\ m.depth_counters = q.depth_counters /\ m.delta_flags = q.delta_flags
  BY EndedLane
<1> HIDE DEF m
<1>2. QED BY <1>1 DEF Over, Cuda!canonical, m

(* shade_stage_kernel adds the emission first. *)
LEMMA EmittedLane ==
  ASSUME NEW q, Shape(q), NEW n, Ready("shade", q, n)
  PROVE  LET m == Cuda!emitted(q)
         IN  /\ Shape(m) /\ Written(m)
             /\ m.beta = q.beta /\ m.hit = q.hit
             /\ m.depth_counters = q.depth_counters /\ m.delta_flags = q.delta_flags
             /\ m.previous = q.previous
             /\ n <= Len(m.beta.events) + 1
<1> DEFINE m == Cuda!emitted(q)
<1>1. /\ Shape(m) /\ m.hit = q.hit /\ m.blocked = q.blocked /\ m.beta = q.beta
      /\ m.depth_counters = q.depth_counters /\ m.delta_flags = q.delta_flags
      /\ m.previous = q.previous
  BY WeighLane DEF Cuda!emitted
<1> HIDE DEF m
<1>2. Written(q) /\ n <= Len(q.beta.events) + 1 BY DEF Ready
<1>3. Written(m) BY <1>1, <1>2, StillWritten
<1>4. QED BY <1>1, <1>2, <1>3 DEF m

Ends == {"none", "outside_bsdf_support", "zero_throughput", "russian_roulette"}

(* The bounce of a written lane by an event the limits allow is written. *)
LEMMA BouncedLane ==
  ASSUME LimitsCountable, NEW q, Shape(q), Written(q), NEW event \in SurfaceEvent,
         blocked_limits(q.depth_counters, event) = {}, NEW black \in BOOLEAN
  PROVE  LET m == Cuda!scattered(q, event, black)
         IN  /\ Shape(m) /\ Written(m)
             /\ Len(m.beta.events) = Len(q.beta.events) + 1
<1> DEFINE m == Cuda!scattered(q, event, black)
           b == [events |-> Append(q.beta.events, event), black |-> black]
<1>1. /\ Shape(m) /\ m.blocked = q.blocked /\ m.beta = b
      /\ m.depth_counters = advanced_counters(q.depth_counters, event)
      /\ m.delta_flags = next_delta_flags(q.delta_flags, event)
  BY ScatterLane
<1> HIDE DEF m
<1>2. /\ q.beta.events \in Seq(SurfaceEvent)
      /\ q.depth_counters \in [Category -> Nat]
      /\ validate_path_depth_state(q.depth_counters, path_depth_total(q.depth_counters))
      /\ booked(q.beta.events, q.depth_counters, q.delta_flags)
      /\ q.blocked = {}
  BY WrittenCounts DEF Written
<1>3. accepted(q.depth_counters, event) BY <1>2, UnblockedCounts
<1>4. booked(Append(q.beta.events, event), m.depth_counters, m.delta_flags)
  BY <1>1, <1>2, <1>3, BookedScatter
<1>5. /\ b \in Beta /\ b.events = Append(q.beta.events, event)
      /\ Len(b.events) = Len(q.beta.events) + 1 /\ Len(b.events) # 0
  BY <1>2, AppendProperties, LenProperties DEF Beta
<1> HIDE DEF b
<1>6. Written(m) BY <1>1, <1>2, <1>4, <1>5 DEF Written
<1>7. QED BY <1>1, <1>5, <1>6 DEF m

(* A lane that waits for its shadow ray keeps what happens next. *)
LEMMA WaitingLane ==
  ASSUME Cuda!CudaTransportAssumption, NEW q, Shape(q), Written(q), NEW b \in Beta,
         NEW t \in Ends, NEW c \in BOOLEAN, c <=> t = "none",
         NEW n, c => n <= Len(q.beta.events)
  PROVE  LET p == [beta |-> b, continuation |-> c, termination |-> t]
             m == Cuda!finish_phase(
                      [q EXCEPT !.pending = p,
                                !.flags = {"shadow"} \cup (IF c THEN {"continuation"} ELSE {})],
                      "shadow", "none")
         IN  Shape(m) /\ Ready("shadow", m, n)
<1> DEFINE p == [beta |-> b, continuation |-> c, termination |-> t]
           f == {"shadow"} \cup (IF c THEN {"continuation"} ELSE {})
           w == [q EXCEPT !.pending = p, !.flags = f]
           m == Cuda!finish_phase(w, "shadow", "none")
<1>1. /\ p \in Cuda!Pending /\ (p.continuation <=> c) /\ p.termination = t
  <2>1. p \in Cuda!Pending BY SameDeviceBookkeeping DEF Cuda!Pending, Ends
  <2>2. p.continuation = c /\ p.termination = t OBVIOUS
  <2> HIDE DEF p
  <2>3. QED BY <2>1, <2>2
<1>2. p # None BY <1>1 DEF Cuda!CudaTransportAssumption
<1>3. "shadow" \in f /\ ("continuation" \in f <=> c) OBVIOUS
<1> HIDE DEF p, f
<1>4. /\ Shape(w) /\ w.pending = p /\ w.flags = f /\ w.blocked = q.blocked
      /\ w.beta = q.beta /\ w.depth_counters = q.depth_counters
      /\ w.delta_flags = q.delta_flags /\ w.previous = q.previous
  BY DEF Shape, Columns
<1> HIDE DEF w
<1>5. /\ Shape(m) /\ m.phase = "shadow" /\ m.pending = p /\ m.flags = f
      /\ m.blocked = q.blocked /\ m.beta = q.beta /\ m.depth_counters = q.depth_counters
      /\ m.delta_flags = q.delta_flags /\ m.previous = q.previous
  BY <1>4, FinishLane
<1> HIDE DEF m
<1>6. Written(m) /\ m.blocked = {} BY <1>5, StillWritten DEF Written
<1>7. Cuda!pending_consistent(m)
  BY <1>1, <1>2, <1>3, <1>5 DEF Cuda!pending_consistent
<1>8. m.pending.termination # "depth_limit" /\ (m.pending.continuation => n <= Len(m.beta.events))
  BY <1>1, <1>5 DEF Ends
<1>9. Ready("shadow", m, n) BY <1>5, <1>6, <1>7, <1>8 DEF Ready
<1>10. QED BY <1>5, <1>9 DEF m, w, p, f

(* A thread leaves lane m and outcome o, and touches nothing else. *)
Step(i, m, o) ==
    /\ lane' = [lane EXCEPT ![Cuda!work_slot(i)] = m]
    /\ outcomes' = [outcomes EXCEPT ![i] = o]
    /\ UNCHANGED <<queue, rejected, kernel, at, count, iteration, failure, dirty, poisoned, trace>>

(* A thread that leaves its lane with a route makes such a step. *)
LEMMA LeaveStep ==
  ASSUME NEW i, NEW m, NEW r, Cuda!leave(i, m, r)
  PROVE  Step(i, m, Routed(r))
  BY DEF Cuda!leave, Step, Routed

(* The end of the shade stage: on to the shadow stage, to the continuation,
   or over. *)
LEMMA RouteShaded ==
  ASSUME Cuda!CudaTransportAssumption, NEW i, NEW q, Shape(q), Written(q),
         lane[Cuda!work_slot(i)].beta \in Beta,
         NEW light \in BOOLEAN, NEW t \in Ends,
         NEW n, t = "none" => n <= Len(q.beta.events),
         Cuda!route_shaded(i, q, light, t)
  PROVE  \E m, o : Step(i, m, o) /\ Shape(m) /\ Leaves("shade", o, m, n)
<1> DEFINE b == lane[Cuda!work_slot(i)].beta
           onward == t = "none"
           p == [beta |-> b, continuation |-> onward, termination |-> t]
           ms == Cuda!finish_phase(
                     [q EXCEPT !.pending = p,
                               !.flags = {"shadow"} \cup (IF onward THEN {"continuation"} ELSE {})],
                     "shadow", "none")
           mc == Cuda!finish_phase([q EXCEPT !.pending = None, !.flags = {}],
                                   "continuation", "none")
           me == Cuda!ended([q EXCEPT !.pending = None], t, {})
<1>0. Routes("shade") = {"shadow", "continuation"}
  BY DEF Routes, Cuda!routes, ToSet
<1>1. \/ light /\ Cuda!leave(i, ms, "shadow")
      \/ ~light /\ onward /\ Cuda!leave(i, mc, "continuation")
      \/ ~light /\ ~onward /\ Cuda!leave(i, me, "terminated")
  BY DEF Cuda!route_shaded
<1>2. Shape(ms) /\ Ready("shadow", ms, n)
  <2>1. onward \in BOOLEAN /\ (onward <=> t = "none") /\ (onward => n <= Len(q.beta.events))
        /\ b \in Beta
    OBVIOUS
  <2> HIDE DEF onward, b
  <2>2. QED BY <2>1, WaitingLane
<1>3. onward => Shape(mc) /\ Ready("continuation", mc, n)
  <2> DEFINE w == [q EXCEPT !.pending = None, !.flags = {}]
  <2>1. /\ Shape(w) /\ w.blocked = q.blocked
        /\ w.beta = q.beta /\ w.depth_counters = q.depth_counters
        /\ w.delta_flags = q.delta_flags /\ w.previous = q.previous
    BY DEF Shape, Columns
  <2>0. mc = Cuda!finish_phase(w, "continuation", "none") OBVIOUS
  <2> HIDE DEF w, mc
  <2>2. /\ Shape(mc) /\ mc.phase = "continuation"
        /\ mc.blocked = q.blocked /\ mc.beta = q.beta /\ mc.depth_counters = q.depth_counters
        /\ mc.delta_flags = q.delta_flags /\ mc.previous = q.previous
    BY <2>0, <2>1, FinishLane
  <2>3. Written(mc) /\ mc.blocked = {} BY <2>2, StillWritten DEF Written
  <2>4. QED BY <2>2, <2>3 DEF Ready
<1>4. ~onward => Shape(me) /\ Over(me)
  <2> DEFINE w == [q EXCEPT !.pending = None]
  <2>1. /\ Shape(w) /\ w.depth_counters = q.depth_counters /\ w.delta_flags = q.delta_flags
    BY DEF Shape, Columns
  <2> HIDE DEF w
  <2>2. path_state_valid(w.depth_counters, w.delta_flags) BY <2>1, WrittenCounts
  <2>3. t # "depth_limit" BY DEF Ends
  <2>4. QED BY <2>1, <2>2, <2>3, EndedOver DEF w
<1> HIDE DEF ms, mc, me
<1>5. CASE light /\ Cuda!leave(i, ms, "shadow")
  <2>1. Step(i, ms, Routed("shadow")) BY <1>5, LeaveStep
  <2>2. Leaves("shade", Routed("shadow"), ms, n) BY <1>0, <1>2 DEF Leaves
  <2>3. QED BY <1>2, <2>1, <2>2
<1>6. CASE ~light /\ onward /\ Cuda!leave(i, mc, "continuation")
  <2>1. Step(i, mc, Routed("continuation")) BY <1>6, LeaveStep
  <2>2. Leaves("shade", Routed("continuation"), mc, n)
    BY <1>0, <1>3, <1>6 DEF Leaves
  <2>3. QED BY <1>3, <1>6, <2>1, <2>2
<1>7. CASE ~light /\ ~onward /\ Cuda!leave(i, me, "terminated")
  <2>1. Step(i, me, Routed("terminated")) BY <1>7, LeaveStep
  <2>2. Leaves("shade", Routed("terminated"), me, n) BY <1>4, <1>7 DEF Leaves
  <2>3. QED BY <1>4, <1>7, <2>1, <2>2
<1>8. QED BY <1>1, <1>5, <1>6, <1>7

(* shade_stage_kernel, up to the depth filter. *)
LEMMA TerminalShades ==
  ASSUME NEW i, NEW n, Shape(lane[Cuda!work_slot(i)]),
         Ready("shade", lane[Cuda!work_slot(i)], n), Cuda!shade_terminal(i)
  PROVE  \E m, o : Step(i, m, o) /\ Shape(m) /\ Leaves("shade", o, m, n)
<1> DEFINE q == Cuda!emitted(lane[Cuda!work_slot(i)])
           s == lane[Cuda!work_slot(i)].hit
           over(t, b) == Cuda!ended(q, t, b)
<1>1. \/ Cuda!leave(i, over("zero_throughput", {}), "terminated")
      \/ /\ Cuda!unblocked_events(q.depth_counters, s) = {}
         /\ \/ s = {} /\ Cuda!leave(i, over("outside_bsdf_support", {}), "terminated")
            \/ /\ s # {}
               /\ Cuda!leave(i, over("depth_limit", Cuda!blocked_lobes(q.depth_counters, s)),
                             "terminated")
  BY DEF Cuda!shade_terminal
<1>2. Shape(q) /\ Written(q) BY EmittedLane
<1> HIDE DEF q
<1>3. path_state_valid(q.depth_counters, q.delta_flags) BY <1>2, WrittenCounts
<1>4. ASSUME NEW t, NEW b, Cuda!leave(i, over(t, b), "terminated"),
             t # "none", t = "depth_limit" <=> b # {}
      PROVE  \E m, o : Step(i, m, o) /\ Shape(m) /\ Leaves("shade", o, m, n)
  <2>1. Shape(over(t, b)) /\ Over(over(t, b)) BY <1>2, <1>3, <1>4, EndedOver
  <2>2. Step(i, over(t, b), Routed("terminated")) BY <1>4, LeaveStep
  <2> HIDE DEF over
  <2>3. Leaves("shade", Routed("terminated"), over(t, b), n) BY <2>1 DEF Leaves
  <2>4. QED BY <2>1, <2>2, <2>3
<1>5. ASSUME Cuda!unblocked_events(q.depth_counters, s) = {}, s # {}
      PROVE  Cuda!blocked_lobes(q.depth_counters, s) # {}
  BY <1>5 DEF Cuda!unblocked_events, Cuda!blocked_lobes
<1> HIDE DEF over, s
<1>6. CASE Cuda!leave(i, over("zero_throughput", {}), "terminated")
  BY <1>4, <1>6
<1>7. CASE Cuda!leave(i, over("outside_bsdf_support", {}), "terminated")
  BY <1>4, <1>7
<1>8. CASE /\ Cuda!unblocked_events(q.depth_counters, s) = {}
           /\ s # {}
           /\ Cuda!leave(i, over("depth_limit", Cuda!blocked_lobes(q.depth_counters, s)),
                         "terminated")
  BY <1>4, <1>5, <1>8
<1>9. QED BY <1>1, <1>6, <1>7, <1>8

(* shade_stage_kernel, from the light sample on. *)
LEMMA SampledShades ==
  ASSUME Cuda!CudaTransportAssumption, LimitsCountable, NEW i, NEW n \in Nat,
         Shape(lane[Cuda!work_slot(i)]),
         Ready("shade", lane[Cuda!work_slot(i)], n), Cuda!shade_scatter(i)
  PROVE  \E m, o : Step(i, m, o) /\ Shape(m) /\ Leaves("shade", o, m, n)
<1> DEFINE q == Cuda!emitted(lane[Cuda!work_slot(i)])
           s == lane[Cuda!work_slot(i)].hit
<1>0. /\ Shape(q) /\ Written(q) /\ n <= Len(q.beta.events) + 1
      /\ lane[Cuda!work_slot(i)].beta \in Beta
      /\ s \in Surfaces
  BY EmittedLane DEF Ready, Written
<1>1. PICK light \in BOOLEAN :
         \/ Cuda!route_shaded(i, q, light, "outside_bsdf_support")
         \/ \E event \in Cuda!unblocked_events(q.depth_counters, s), black \in BOOLEAN :
               \E t \in Ends :
                  Cuda!route_shaded(i, Cuda!scattered(q, event, black), light, t)
  <2>1. "zero_throughput" \in Ends /\ "none" \in Ends /\ "russian_roulette" \in Ends
    BY DEF Ends
  <2>2. PICK light \in BOOLEAN :
           \/ Cuda!route_shaded(i, q, light, "outside_bsdf_support")
           \/ \E event \in Cuda!unblocked_events(q.depth_counters, s), black \in BOOLEAN :
                 \/ Cuda!route_shaded(i, Cuda!scattered(q, event, black), light, "zero_throughput")
                 \/ Cuda!route_shaded(i, Cuda!scattered(q, event, black), light, "none")
                 \/ Cuda!route_shaded(i, Cuda!scattered(q, event, black), light,
                                       "russian_roulette")
    BY DEF Cuda!shade_scatter
  <2> HIDE DEF q, s
  <2>3. QED BY <2>1, <2>2
<1> HIDE DEF q, s
<1>2. CASE Cuda!route_shaded(i, q, light, "outside_bsdf_support")
  <2>1. "outside_bsdf_support" \in Ends BY DEF Ends
  <2>2. QED BY <1>0, <1>2, <2>1, RouteShaded
<1>3. ASSUME NEW event \in Cuda!unblocked_events(q.depth_counters, s), NEW black \in BOOLEAN,
             NEW t \in Ends,
             Cuda!route_shaded(i, Cuda!scattered(q, event, black), light, t)
      PROVE  \E m, o : Step(i, m, o) /\ Shape(m) /\ Leaves("shade", o, m, n)
  <2>1. event \in SurfaceEvent /\ blocked_limits(q.depth_counters, event) = {}
    BY <1>0, SameDeviceBookkeeping, TransportAssumption DEF Cuda!unblocked_events
  <2> DEFINE w == Cuda!scattered(q, event, black)
  <2>2. Shape(w) /\ Written(w) /\ Len(w.beta.events) = Len(q.beta.events) + 1
    BY <1>0, <2>1, BouncedLane
  <2> HIDE DEF w
  <2>3. n <= Len(w.beta.events) BY <1>0, <2>2
  <2>4. QED BY <1>0, <1>3, <2>2, <2>3, RouteShaded DEF w
<1>5. CASE \E event \in Cuda!unblocked_events(q.depth_counters, s), black \in BOOLEAN :
              \E t \in Ends :
                 Cuda!route_shaded(i, Cuda!scattered(q, event, black), light, t)
  BY <1>3, <1>5
<1>6. QED BY <1>1, <1>2, <1>5

(* process_shadow_kernel: what was kept for it says where the lane goes. *)
LEMMA ShadowResolved ==
  ASSUME NEW i, NEW n, Shape(lane[Cuda!work_slot(i)]),
         Ready("shadow", lane[Cuda!work_slot(i)], n), Cuda!process_shadow(i)
  PROVE  \E m, o : Step(i, m, o) /\ Shape(m) /\ Leaves("shadow", o, m, n)
<1> DEFINE q == lane[Cuda!work_slot(i)]
<1>0. /\ Written(q) /\ q.blocked = {} /\ Cuda!pending_consistent(q)
      /\ q.pending.termination # "depth_limit"
      /\ q.pending.continuation => n <= Len(q.beta.events)
  BY DEF Ready
<1>1. PICK visible \in BOOLEAN :
         LET m == [(IF visible THEN Cuda!Weigh(q, "direct", q.pending.beta) ELSE q)
                      EXCEPT !.pending = None, !.flags = {}]
         IN  IF q.pending.continuation
             THEN Cuda!leave(i, Cuda!finish_phase(m, "continuation", "none"), "continuation")
             ELSE Cuda!leave(i, Cuda!finish_phase(m, "terminated", q.pending.termination),
                             "terminated")
  BY DEF Cuda!process_shadow
<1> DEFINE v == IF visible THEN Cuda!Weigh(q, "direct", q.pending.beta) ELSE q
           m == [v EXCEPT !.pending = None, !.flags = {}]
           mc == Cuda!finish_phase(m, "continuation", "none")
           mt == Cuda!finish_phase(m, "terminated", q.pending.termination)
<1>2. \/ q.pending.continuation /\ Cuda!leave(i, mc, "continuation")
      \/ ~q.pending.continuation /\ Cuda!leave(i, mt, "terminated")
  BY <1>1
<1> HIDE DEF q
<1>3. /\ Shape(v) /\ v.blocked = q.blocked /\ v.beta = q.beta
      /\ v.depth_counters = q.depth_counters /\ v.delta_flags = q.delta_flags
      /\ v.previous = q.previous
  <2>1. CASE visible
    BY <2>1, WeighLane DEF q
  <2>2. CASE ~visible
    BY <2>2 DEF q
  <2>3. QED BY <2>1, <2>2
<1> HIDE DEF v
<1>4. /\ Shape(m) /\ m.flags = {} /\ m.blocked = q.blocked /\ m.beta = q.beta
      /\ m.depth_counters = q.depth_counters /\ m.delta_flags = q.delta_flags
      /\ m.previous = q.previous
  BY <1>3 DEF Shape, Columns
<1> HIDE DEF m
<1>5. /\ Shape(mc) /\ mc.phase = "continuation" /\ mc.blocked = q.blocked /\ mc.beta = q.beta
      /\ mc.depth_counters = q.depth_counters /\ mc.delta_flags = q.delta_flags
      /\ mc.previous = q.previous
  BY <1>4, FinishLane
<1>6. /\ Shape(mt) /\ mt.phase = "terminated" /\ mt.termination = q.pending.termination
      /\ mt.flags = {} /\ mt.blocked = q.blocked
      /\ mt.depth_counters = q.depth_counters /\ mt.delta_flags = q.delta_flags
  BY <1>4, FinishLane
<1> HIDE DEF mc, mt
<1>7. Routes("shadow") = {"continuation"} BY DEF Routes, Cuda!routes, ToSet
<1>8. CASE q.pending.continuation /\ Cuda!leave(i, mc, "continuation")
  <2>1. Written(mc) BY <1>0, <1>5, StillWritten
  <2>2. Ready("continuation", mc, n) BY <1>0, <1>5, <1>8, <2>1 DEF Ready
  <2>3. Step(i, mc, Routed("continuation")) BY <1>8, LeaveStep
  <2>4. Leaves("shadow", Routed("continuation"), mc, n) BY <1>7, <2>2 DEF Leaves
  <2>5. QED BY <1>5, <2>3, <2>4
<1>9. CASE ~q.pending.continuation /\ Cuda!leave(i, mt, "terminated")
  <2>1. q.pending.termination # "none" BY <1>0, <1>9 DEF Cuda!pending_consistent
  <2>2. Over(mt) BY <1>0, <1>6, <2>1, WrittenCounts DEF Over, Cuda!canonical
  <2>3. Step(i, mt, Routed("terminated")) BY <1>9, LeaveStep
  <2>4. Leaves("shadow", Routed("terminated"), mt, n) BY <2>2 DEF Leaves
  <2>5. QED BY <1>6, <2>3, <2>4
<1>10. QED BY <1>2, <1>8, <1>9

(* Nothing in a lane that is ready contradicts the kernel that takes it. *)
LEMMA NothingContradicts ==
  ASSUME LimitsCountable, kernel \in Kind, NEW q, NEW n, Ready(kernel, q, n)
  PROVE  /\ Cuda!claims(q, Cuda!claimed_phase) /\ Cuda!demands(q)
         /\ ~Cuda!beyond_limits(q) /\ ~Cuda!uncountable(q)
<1>1. /\ q.phase = kernel /\ q.blocked = {} /\ kernel # "camera_seed"
      /\ kernel # "camera" => Written(q)
      /\ kernel \in {"hit", "shade"} => q.hit \in Surfaces
      /\ kernel = "shadow" => Cuda!pending_consistent(q)
  BY DEF Ready, Kind
<1>2. Cuda!claims(q, Cuda!claimed_phase)
  BY <1>1 DEF Cuda!claims, Cuda!claimed_phase
<1>3. ASSUME kernel # "camera"
      PROVE  /\ q.depth_counters \in [Category -> Nat]
             /\ validate_path_depth_state(q.depth_counters, path_depth_total(q.depth_counters))
             /\ path_state_valid(q.depth_counters, q.delta_flags)
             /\ Cuda!lane_valid(q)
  BY <1>1, <1>3, WrittenCounts, SameDeviceBookkeeping DEF Cuda!lane_valid
<1>4. Cuda!demands(q)
  <2>1. kernel \in {"hit", "shade"} => q.hit # None BY <1>1, TransportAssumption
  <2>2. kernel # "camera" => /\ Cuda!lane_valid(q)
                             /\ Cuda!path_state_valid(q.depth_counters, q.delta_flags)
    BY <1>3, SameDeviceBookkeeping
  <2>3. QED BY <1>1, <2>1, <2>2 DEF Cuda!demands
<1>5. ~Cuda!beyond_limits(q)
  <2> SUFFICES ASSUME kernel = "shade" PROVE ~Cuda!beyond_limits(q)
    BY DEF Cuda!beyond_limits
  <2>1. Cuda!valid_depth_state(q)
    BY <1>3, SameDeviceBookkeeping DEF Cuda!valid_depth_state, validate_path_depth_state
  <2>2. Cuda!validate_path_depth_state(q.depth_counters, Cuda!path_depth_total(q.depth_counters))
    BY <1>3, SameDeviceBookkeeping
  <2>3. QED BY <2>1, <2>2 DEF Cuda!beyond_limits
<1>6. ~Cuda!uncountable(q)
  <2> SUFFICES ASSUME kernel = "shade", Cuda!unblocked_events(q.depth_counters, q.hit) # {}
               PROVE  ~Cuda!depth_exhausted(q.depth_counters)
    BY DEF Cuda!uncountable
  <2>1. PICK event \in q.hit : blocked_limits(q.depth_counters, event) = {}
    BY SameDeviceBookkeeping DEF Cuda!unblocked_events
  <2>2. event \in SurfaceEvent BY <1>1, TransportAssumption
  <2>3. QED BY <1>3, <2>1, <2>2, UnblockedCounts
<1>7. QED BY <1>2, <1>4, <1>5, <1>6

(* The work items of a kernel are as many as the slots of its queue. *)
LEMMA WorkItems ==
  ASSUME NEW n \in Nat, outcomes = [i \in 1 .. n |-> outcomes[i]]
  PROVE  Len(outcomes) = n /\ DOMAIN outcomes = 1 .. n
<1> DEFINE S == {outcomes[i] : i \in 1 .. n}
<1>1. outcomes \in [1 .. n -> S] OBVIOUS
<1>2. outcomes \in Seq(S) BY <1>1, IsASeq
<1>3. Len(outcomes) \in Nat /\ DOMAIN outcomes = 1 .. Len(outcomes)
  BY <1>2, LenProperties
<1>4. QED BY <1>1, <1>3

(* A thread takes its lane from its queue and leaves it where a route of
   its outcome puts it, or refuses the data. *)
LEMMA ThreadStep ==
  ASSUME Cuda!CudaTransportAssumption, LimitsCountable, DeviceInv, at \in Kind, kernel = at,
         NEW i \in 1 .. Len(queue[at]), outcomes[i] = Cuda!Unset, Cuda!Thread(i)
  PROVE  \E m, o : Step(i, m, o) /\ Shape(m) /\ Leaves(at, o, m, iteration)
<1> DEFINE s == Cuda!work_slot(i)
           q == lane[s]
<1>1. /\ queue[at] \in Seq(0 .. count - 1) /\ rejected = {} /\ iteration \in Nat
      /\ kernel = "ray" => iteration # 0
      /\ at = "camera" => iteration = 0
      /\ count \in 1 .. Capacity /\ kernel # "camera_seed"
      /\ at # "idle"
  BY DEF DeviceInv, PlaceInv, CleanInv, Kind
<1>2. s = queue[at][i] /\ s \in 0 .. count - 1 /\ s \in Cuda!Slot /\ Len(queue[at]) \in Nat
  <2>1. s = queue[at][i] BY <1>1 DEF Cuda!work_slot
  <2>2. s \in 0 .. count - 1 /\ Len(queue[at]) \in Nat
    BY <1>1, <2>1, ElementOfSeq, LenProperties
  <2>3. Capacity \in Nat BY DEF Cuda!CudaTransportAssumption
  <2> HIDE DEF s
  <2>4. s \in Cuda!Slot BY <1>1, <2>2, <2>3 DEF Cuda!Slot
  <2>5. QED BY <2>1, <2>2, <2>4
<1> HIDE DEF s
<1>3. Shape(q) BY <1>2 DEF DeviceInv, ShapeInv
<1>4. Ready(at, q, passed) BY <1>2 DEF DeviceInv, WorkInv
<1>5. Cuda!queue_refuses(i) = "none"
  <2>1. outcomes = [j \in 1 .. Len(queue[at]) |-> outcomes[j]]
    BY DEF DeviceInv, WorkInv
  <2>2. Len(outcomes) = Len(queue[at]) BY <1>2, <2>1, WorkItems
  <2>3. QED BY <1>1, <2>2 DEF Cuda!queue_refuses
<1>6. /\ Cuda!claims(q, Cuda!claimed_phase) /\ Cuda!demands(q)
      /\ ~Cuda!beyond_limits(q) /\ ~Cuda!uncountable(q)
  BY <1>4, NothingContradicts
<1>7. passed \in Nat /\ (kernel # "ray" => passed = iteration)
      /\ (kernel = "ray" => passed = iteration - 1)
  BY <1>1 DEF passed
<1>8. CASE Cuda!refuse_work(i)
  <2> DEFINE m == Cuda!finish_phase(q, "terminated", "none")
  <2>1. Cuda!refusals(i) \subseteq {"data"} BY <1>5, <1>6 DEF Cuda!refusals, s
  <2>2. Step(i, m, Refused)
    BY <1>5, <1>6, <1>8, <2>1 DEF Cuda!refuse_work, Step, Refused, s
  <2>3. Shape(m) BY <1>3, FinishLane
  <2>4. Leaves(at, Refused, m, iteration) BY DEF Leaves
  <2>5. QED BY <2>2, <2>3, <2>4
<1>9. CASE Cuda!seed_camera(i)
  BY <1>1, <1>9 DEF Cuda!seed_camera, Cuda!runs
<1>10. CASE Cuda!camera_stage(i)
  <2> DEFINE b == s \in BlackInputs
             m == [Cuda!finish_phase(Cuda!Untouched, "ray", "none")
                      EXCEPT !.beta.black = b, !.owner = trace]
  <2>1. Cuda!leave(i, m, "ray") /\ at = "camera"
    BY <1>10 DEF Cuda!camera_stage, Cuda!runs, s
  <2>2. Shape(m) /\ Ready("ray", m, 0)
    <3>1. b \in BOOLEAN OBVIOUS
    <3> HIDE DEF b
    <3>2. QED BY <3>1, CameraLane
  <2> HIDE DEF m
  <2>3. Step(i, m, Routed("ray")) BY <2>1, LeaveStep
  <2>4. Routes("camera") = {"ray"} BY DEF Routes, Cuda!routes, ToSet
  <2>5. Leaves(at, Routed("ray"), m, iteration)
    BY <1>1, <2>1, <2>2, <2>4 DEF Leaves
  <2>6. QED BY <2>2, <2>3, <2>5
<1>11. CASE Cuda!classify_closest_hit(i)
  <2>1. at = "ray" /\ Ready("ray", q, iteration - 1)
    BY <1>4, <1>7, <1>11 DEF Cuda!classify_closest_hit, Cuda!runs
  <2>2. Routes("ray") = {"hit", "miss"} BY DEF Routes, Cuda!routes, ToSet
  <2>3. PICK m : /\ Shape(m)
                 /\ \/ Cuda!leave(i, m, "miss") /\ Ready("miss", m, iteration)
                    \/ Cuda!leave(i, m, "hit") /\ Ready("hit", m, iteration)
    <3>1. CASE Cuda!leave(i, Cuda!finish_phase(q, "miss", "none"), "miss")
      BY <1>1, <1>3, <2>1, <3>1, MissedLane
    <3>2. ASSUME NEW surface \in Surfaces,
                 Cuda!leave(i, Cuda!finish_phase([q EXCEPT !.hit = surface], "hit", "none"), "hit")
          PROVE  \E m : Shape(m) /\ Cuda!leave(i, m, "hit") /\ Ready("hit", m, iteration)
      BY <1>1, <1>3, <2>1, <3>2, FoundLane
    <3>3. QED BY <1>11, <3>1, <3>2 DEF Cuda!classify_closest_hit, s
  <2>4. QED BY <2>1, <2>2, <2>3, LeaveStep DEF Leaves
<1>12. CASE Cuda!miss_stage(i)
  <2> DEFINE w == Cuda!Weigh(q, "environment", q.beta)
             m == Cuda!ended(w, "escaped_environment", {})
  <2>1. Cuda!leave(i, m, "terminated") /\ at = "miss"
    BY <1>12 DEF Cuda!miss_stage, Cuda!runs, s
  <2>2. Written(q) BY <1>4, <2>1 DEF Ready
  <2>3. Shape(w) /\ w.depth_counters = q.depth_counters /\ w.delta_flags = q.delta_flags
    BY <1>3, WeighLane
  <2> HIDE DEF w
  <2>4. Shape(m) /\ Over(m) BY <2>2, <2>3, WrittenCounts, EndedOver
  <2> HIDE DEF m
  <2>5. Leaves(at, Routed("terminated"), m, iteration) BY <2>1, <2>4 DEF Leaves
  <2>6. QED BY <2>1, <2>4, <2>5, LeaveStep
<1>13. CASE Cuda!hit_stage(i)
  <2> DEFINE m == Cuda!finish_phase(q, "shade", "none")
  <2>1. Cuda!leave(i, m, "shade") /\ at = "hit" /\ Ready("hit", q, iteration)
    BY <1>4, <1>7, <1>13 DEF Cuda!hit_stage, Cuda!runs, s
  <2>2. Shape(m) /\ Ready("shade", m, iteration) BY <1>3, <2>1, ShadingLane
  <2> HIDE DEF m
  <2>3. Routes("hit") = {"shade"} BY DEF Routes, Cuda!routes, ToSet
  <2>4. Leaves(at, Routed("shade"), m, iteration) BY <2>1, <2>2, <2>3 DEF Leaves
  <2>5. QED BY <2>1, <2>2, <2>4, LeaveStep
<1>14. CASE Cuda!shade_terminal(i)
  <2>1. at = "shade" /\ Ready("shade", q, iteration)
    BY <1>4, <1>7, <1>14 DEF Cuda!shade_terminal, Cuda!runs
  <2>2. QED BY <1>3, <1>14, <2>1, TerminalShades DEF s
<1>15. CASE Cuda!shade_scatter(i)
  <2>1. at = "shade" /\ Ready("shade", q, iteration)
    BY <1>4, <1>7, <1>15 DEF Cuda!shade_scatter, Cuda!runs
  <2>2. QED BY <1>1, <1>3, <1>15, <2>1, SampledShades DEF s
<1>16. CASE Cuda!process_shadow(i)
  <2>1. at = "shadow" /\ Ready("shadow", q, iteration)
    BY <1>4, <1>7, <1>16 DEF Cuda!process_shadow, Cuda!runs
  <2>2. QED BY <1>3, <1>16, <2>1, ShadowResolved DEF s
<1>17. CASE Cuda!continuation_stage(i)
  <2> DEFINE m == Cuda!finish_phase(q, "ray", "none")
  <2>1. Cuda!leave(i, m, "ray") /\ at = "continuation" /\ Ready("continuation", q, iteration)
    BY <1>4, <1>7, <1>17 DEF Cuda!continuation_stage, Cuda!runs, s
  <2>2. Shape(m) /\ Ready("ray", m, iteration) BY <1>3, <2>1, ContinuedLane
  <2> HIDE DEF m
  <2>3. Routes("continuation") = {"ray"} BY DEF Routes, Cuda!routes, ToSet
  <2>4. Leaves(at, Routed("ray"), m, iteration) BY <2>1, <2>2, <2>3 DEF Leaves
  <2>5. QED BY <2>1, <2>2, <2>4, LeaveStep
<1>18. QED BY <1>8, <1>9, <1>10, <1>11, <1>12, <1>13, <1>14, <1>15, <1>16, <1>17 DEF Cuda!Thread

(* A thread has work its kernel was launched for. *)
LEMMA ThreadWorks ==
  ASSUME NEW i, Cuda!Thread(i)
  PROVE  i \in DOMAIN outcomes /\ outcomes[i] = Cuda!Unset /\ kernel # "none"
  BY DEF Cuda!Thread, Cuda!refuse_work, Cuda!seed_camera, Cuda!camera_stage,
    Cuda!classify_closest_hit, Cuda!miss_stage, Cuda!hit_stage, Cuda!shade_terminal,
    Cuda!shade_scatter, Cuda!process_shadow, Cuda!continuation_stage, Cuda!runs,
    Cuda!pending_thread

(* The end of the shade stage writes the columns of the lane. *)
LEMMA RoutedShape ==
  ASSUME NEW i, NEW q, Shape(q), NEW light \in BOOLEAN, NEW t, Cuda!route_shaded(i, q, light, t)
  PROVE  \E m, o : Step(i, m, o) /\ Shape(m) /\ m.owner = q.owner
<1> DEFINE p == [beta |-> lane[Cuda!work_slot(i)].beta,
                 continuation |-> t = "none", termination |-> t]
           f == {"shadow"} \cup (IF t = "none" THEN {"continuation"} ELSE {})
           w1 == [q EXCEPT !.pending = p, !.flags = f]
           w2 == [q EXCEPT !.pending = None, !.flags = {}]
           w3 == [q EXCEPT !.pending = None]
<1>1. \/ Cuda!leave(i, Cuda!finish_phase(w1, "shadow", "none"), "shadow")
      \/ Cuda!leave(i, Cuda!finish_phase(w2, "continuation", "none"), "continuation")
      \/ Cuda!leave(i, Cuda!ended(w3, t, {}), "terminated")
  BY DEF Cuda!route_shaded
<1> HIDE DEF p, f
<1>2. /\ Shape(w1) /\ Shape(w2) /\ Shape(w3)
      /\ w1.owner = q.owner /\ w2.owner = q.owner /\ w3.owner = q.owner
  BY DEF Shape, Columns
<1> HIDE DEF w1, w2, w3
<1>3. QED BY <1>1, <1>2, FinishLane, EndedLane, LeaveStep

(* Whatever it finds, a thread writes the columns of its lane, and only
   the camera stage makes it the trace's own. *)
LEMMA ThreadShapes ==
  ASSUME NEW i, Cuda!Thread(i), Shape(lane[Cuda!work_slot(i)])
  PROVE  \E m, o : /\ Step(i, m, o) /\ Shape(m)
                   /\ kernel # "camera" => m.owner = lane[Cuda!work_slot(i)].owner
<1> DEFINE s == Cuda!work_slot(i)
           q == lane[s]
<1>0. kernel = "camera_seed" => s = i - 1 BY DEF Cuda!work_slot
<1>1. CASE Cuda!refuse_work(i)
  <2> DEFINE m == IF Cuda!queue_refuses(i) = "none" /\ Cuda!claims(q, Cuda!claimed_phase)
                  THEN Cuda!finish_phase(q, "terminated", "none") ELSE q
  <2>1. \E o : Step(i, m, o) BY <1>1 DEF Cuda!refuse_work, Step
  <2>2. Shape(m) /\ m.owner = q.owner BY FinishLane
  <2>3. QED BY <2>1, <2>2
<1>2. CASE Cuda!seed_camera(i)
  <2> DEFINE w == [q EXCEPT !.flags = {}]
  <2>1. Cuda!leave(i, Cuda!finish_phase(w, "camera", "none"), "none")
    BY <1>0, <1>2 DEF Cuda!seed_camera, Cuda!runs
  <2>2. Shape(w) /\ w.owner = q.owner BY DEF Shape, Columns
  <2> HIDE DEF w
  <2>3. QED BY <2>1, <2>2, FinishLane, LeaveStep
<1>3. CASE Cuda!camera_stage(i)
  <2> DEFINE b == s \in BlackInputs
             m == [Cuda!finish_phase(Cuda!Untouched, "ray", "none")
                      EXCEPT !.beta.black = b, !.owner = trace]
  <2>1. Cuda!leave(i, m, "ray") /\ kernel = "camera"
    BY <1>3 DEF Cuda!camera_stage, Cuda!runs
  <2>2. Shape(m)
    <3>1. b \in BOOLEAN OBVIOUS
    <3> HIDE DEF b
    <3>2. QED BY <3>1, CameraLane
  <2> HIDE DEF m
  <2>3. QED BY <2>1, <2>2, LeaveStep
<1>4. CASE Cuda!classify_closest_hit(i)
  <2>1. CASE Cuda!leave(i, Cuda!finish_phase(q, "miss", "none"), "miss")
    BY <2>1, FinishLane, LeaveStep
  <2>2. ASSUME NEW surface,
               Cuda!leave(i, Cuda!finish_phase([q EXCEPT !.hit = surface], "hit", "none"), "hit")
        PROVE  \E m, o : Step(i, m, o) /\ Shape(m) /\ m.owner = q.owner
    <3> DEFINE w == [q EXCEPT !.hit = surface]
    <3>1. Cuda!leave(i, Cuda!finish_phase(w, "hit", "none"), "hit") BY <2>2
    <3>2. Shape(w) /\ w.owner = q.owner BY DEF Shape, Columns
    <3> HIDE DEF w
    <3>3. QED BY <3>1, <3>2, FinishLane, LeaveStep
  <2>3. QED BY <1>4, <2>1, <2>2 DEF Cuda!classify_closest_hit
<1>5. CASE Cuda!miss_stage(i)
  <2> DEFINE w == Cuda!Weigh(q, "environment", q.beta)
  <2>1. Cuda!leave(i, Cuda!ended(w, "escaped_environment", {}), "terminated")
    BY <1>5 DEF Cuda!miss_stage
  <2>2. Shape(w) /\ w.owner = q.owner BY WeighLane
  <2> HIDE DEF w
  <2>3. QED BY <2>1, <2>2, EndedLane, LeaveStep
<1>6. CASE Cuda!hit_stage(i)
  BY <1>6, FinishLane, LeaveStep DEF Cuda!hit_stage
<1>7. Shape(Cuda!emitted(q)) /\ Cuda!emitted(q).owner = q.owner
  BY WeighLane DEF Cuda!emitted
<1>8. CASE Cuda!shade_terminal(i)
  <2>1. \E t, b : Cuda!leave(i, Cuda!ended(Cuda!emitted(q), t, b), "terminated")
    BY <1>8 DEF Cuda!shade_terminal
  <2>2. QED BY <1>7, <2>1, EndedLane, LeaveStep
<1>9. CASE Cuda!shade_scatter(i)
  <2> DEFINE e == Cuda!emitted(q)
  <2>1. \E light \in BOOLEAN : \E t :
           \/ Cuda!route_shaded(i, e, light, t)
           \/ \E event, black : Cuda!route_shaded(i, Cuda!scattered(e, event, black), light, t)
    BY <1>9 DEF Cuda!shade_scatter
  <2> HIDE DEF e
  <2>2. Shape(e) /\ e.owner = q.owner BY <1>7 DEF e
  <2> HIDE DEF q
  <2>3. \A event, black : /\ Shape(Cuda!scattered(e, event, black))
                          /\ Cuda!scattered(e, event, black).owner = e.owner
    <3>1. Shape(e) BY <2>2
    <3>2. ASSUME NEW event, NEW black
          PROVE  Shape(Cuda!scattered(e, event, black))
      BY <3>1, ScatterLane
    <3>3. ASSUME NEW event, NEW black
          PROVE  Cuda!scattered(e, event, black).owner = e.owner
      BY <3>1, SameOwner
    <3>4. QED BY <3>2, <3>3
  <2>4. \E m, o : Step(i, m, o) /\ Shape(m) /\ m.owner = e.owner
    BY <2>1, <2>2, <2>3, RoutedShape
  <2>5. QED BY <2>2, <2>4 DEF q
<1>10. CASE Cuda!process_shadow(i)
  <2>1. PICK visible \in BOOLEAN :
           LET m == [(IF visible THEN Cuda!Weigh(q, "direct", q.pending.beta) ELSE q)
                        EXCEPT !.pending = None, !.flags = {}]
           IN  IF q.pending.continuation
               THEN Cuda!leave(i, Cuda!finish_phase(m, "continuation", "none"), "continuation")
               ELSE Cuda!leave(i, Cuda!finish_phase(m, "terminated", q.pending.termination),
                               "terminated")
    BY <1>10 DEF Cuda!process_shadow
  <2> DEFINE v == IF visible THEN Cuda!Weigh(q, "direct", q.pending.beta) ELSE q
             m == [v EXCEPT !.pending = None, !.flags = {}]
  <2>2. \E p, t, r : Cuda!leave(i, Cuda!finish_phase(m, p, t), r) BY <2>1
  <2>3. Shape(v) /\ v.owner = q.owner BY WeighLane
  <2> HIDE DEF v
  <2>4. Shape(m) /\ m.owner = q.owner BY <2>3 DEF Shape, Columns
  <2> HIDE DEF m
  <2>5. QED BY <2>2, <2>4, FinishLane, LeaveStep
<1>11. CASE Cuda!continuation_stage(i)
  BY <1>11, FinishLane, LeaveStep DEF Cuda!continuation_stage
<1>12. QED BY <1>1, <1>2, <1>3, <1>4, <1>5, <1>6, <1>8, <1>9, <1>10, <1>11 DEF Cuda!Thread

(* A step of a thread whose kernel the host waits for. *)
LEMMA WorkKeeps ==
  ASSUME Cuda!CudaTransportAssumption, DeviceInv, at \in Kind, kernel = at,
         NEW i \in 1 .. Len(queue[at]), outcomes[i] = Cuda!Unset,
         NEW m, NEW o, Step(i, m, o), Shape(m), Leaves(at, o, m, iteration)
  PROVE  DeviceInv'
<1> DEFINE s == queue[at][i]
<1>1. /\ \A k \in Kind : queue[k] \in Seq(0 .. count - 1) /\ distinct(queue[k])
      /\ \A k, l \in Kind : k # l => ToSet(queue[k]) \cap ToSet(queue[l]) = {}
      /\ at # "camera_seed" /\ at # "idle" /\ kernel # "camera_seed"
  BY DEF DeviceInv, PlaceInv, Kind
<1>2. /\ s \in ToSet(queue[at]) /\ DOMAIN queue[at] = 1 .. Len(queue[at])
      /\ Len(queue[at]) \in Nat
  BY <1>1, LenProperties DEF ToSet
<1>3. /\ lane' = [lane EXCEPT ![s] = m] /\ outcomes' = [outcomes EXCEPT ![i] = o]
      /\ queue' = queue /\ rejected' = rejected /\ kernel' = kernel /\ at' = at
      /\ count' = count /\ iteration' = iteration /\ failure' = failure /\ dirty' = dirty
  BY <1>1 DEF Step, Cuda!work_slot
<1>4. o # Cuda!Unset BY DEF Leaves, Refused, Routed, Cuda!Unset
<1>5. s \in 0 .. count - 1 BY <1>1, <1>2, ElementOfSeq
<1> HIDE DEF s
<1>6. \A x : x # s => lane'[x] = lane[x] BY <1>3 DEF DeviceInv, ShapeInv
<1>7. s \in Cuda!Slot
  <2>1. count \in 1 .. Capacity /\ Capacity \in Nat
    BY <1>1 DEF DeviceInv, CleanInv, Cuda!CudaTransportAssumption
  <2>2. QED BY <1>5, <2>1 DEF Cuda!Slot
<1>8. lane'[s] = m BY <1>3, <1>7 DEF DeviceInv, ShapeInv
<1>9. ShapeInv'
  <2>1. lane = [x \in Cuda!Slot |-> lane[x]] /\ \A x \in Cuda!Slot : Shape(lane[x])
    BY DEF DeviceInv, ShapeInv
  <2>2. lane' = [x \in Cuda!Slot |-> lane'[x]] BY <1>3, <2>1
  <2>3. \A x \in Cuda!Slot : Shape(lane'[x]) BY <1>6, <1>8, <2>1
  <2>4. QED BY <2>2, <2>3 DEF ShapeInv, Shape
<1>10. CleanInv' /\ SeedInv' /\ FailureInv'
  BY <1>1, <1>3 DEF DeviceInv, CleanInv, SeedInv, FailureInv
<1>11. PlaceInv'
  <2>1. ASSUME NEW x \in 0 .. count - 1
        PROVE  Over(lane'[x]) \/ \E k \in Kind : x \in ToSet(queue[k])
    <3>1. CASE x = s
      BY <1>2, <3>1
    <3>2. CASE x # s
      BY <1>6, <3>2 DEF DeviceInv, PlaceInv
    <3>3. QED BY <3>1, <3>2
  <2>2. QED BY <1>3, <2>1 DEF DeviceInv, PlaceInv, Over
<1>12. WorkInv'
  <2>1. ASSUME NEW k \in Kind \ {kernel}, NEW x \in ToSet(queue[k])
        PROVE  Ready(k, lane'[x], iteration)
    <3>1. x # s BY <1>1, <1>2
    <3>2. Ready(k, lane[x], iteration) BY DEF DeviceInv, WorkInv
    <3>3. QED BY <1>6, <3>1, <3>2
  <2>2. outcomes = [j \in 1 .. Len(queue[at]) |-> outcomes[j]]
    BY DEF DeviceInv, WorkInv
  <2>3. outcomes' = [j \in 1 .. Len(queue[at]) |-> outcomes'[j]] BY <1>3, <2>2
  <2>4. outcomes'[i] = o /\ \A j \in 1 .. Len(queue[at]) : j # i => outcomes'[j] = outcomes[j]
    BY <1>3, <2>2
  <2>5. ASSUME NEW j \in 1 .. Len(queue[at])
        PROVE  IF outcomes'[j] = Cuda!Unset
               THEN Ready(at, lane'[queue[at][j]], passed)
               ELSE Leaves(at, outcomes'[j], lane'[queue[at][j]], iteration)
    <3>1. CASE j = i
      BY <1>4, <1>8, <2>4, <3>1 DEF s
    <3>2. CASE j # i
      <4>1. queue[at][j] # s BY <1>1, <1>2, <3>2 DEF s, distinct
      <4>2. lane'[queue[at][j]] = lane[queue[at][j]] /\ outcomes'[j] = outcomes[j]
        BY <1>6, <2>4, <3>2, <4>1
      <4>3. IF outcomes[j] = Cuda!Unset
            THEN Ready(at, lane[queue[at][j]], passed)
            ELSE Leaves(at, outcomes[j], lane[queue[at][j]], iteration)
        BY DEF DeviceInv, WorkInv
      <4>4. QED BY <4>2, <4>3
    <3>3. QED BY <3>1, <3>2
  <2>6. passed' = passed BY <1>3 DEF passed
  <2> DEFINE others == \A k \in Kind \ {kernel} : \A x \in ToSet(queue[k]) :
                          Ready(k, lane'[x], iteration)
  <2>7. others BY <2>1
  <2>8. WorkInv' <=>
           (at' \in Kind =>
              /\ \A k \in Kind \ {kernel'} : \A x \in ToSet(queue'[k]) : Ready(k, lane'[x], iteration')
              /\ kernel' = at' =>
                    /\ outcomes' = [j \in 1 .. Len(queue'[at']) |-> outcomes'[j]]
                    /\ \A j \in 1 .. Len(queue'[at']) :
                          IF outcomes'[j] = Cuda!Unset
                          THEN Ready(at', lane'[queue'[at'][j]], passed')
                          ELSE Leaves(at', outcomes'[j], lane'[queue'[at'][j]], iteration'))
    BY DEF WorkInv, Ready, Leaves, Over, Written, booked
  <2>9. QED BY <1>3, <2>3, <2>5, <2>6, <2>7, <2>8
<1>13. QED BY <1>9, <1>10, <1>11, <1>12 DEF DeviceInv

(* A thread writes its lane and its outcome only. *)
LEMMA ThreadWrites ==
  ASSUME NEW i, Cuda!Thread(i)
  PROVE  \E m, o : Step(i, m, o)
<1>1. ASSUME NEW q, NEW light, NEW t, Cuda!route_shaded(i, q, light, t), light \in BOOLEAN
      PROVE  \E m, r : Cuda!leave(i, m, r)
  <2>1. CASE light
    BY <1>1, <2>1 DEF Cuda!route_shaded
  <2>2. CASE ~light /\ t = "none"
    BY <1>1, <2>2 DEF Cuda!route_shaded
  <2>3. CASE ~light /\ t # "none"
    BY <1>1, <2>3 DEF Cuda!route_shaded
  <2>4. QED BY <2>1, <2>2, <2>3
<1>2. CASE Cuda!refuse_work(i)
  BY <1>2 DEF Cuda!refuse_work, Step
<1>3. CASE \/ Cuda!seed_camera(i) \/ Cuda!camera_stage(i) \/ Cuda!classify_closest_hit(i)
           \/ Cuda!miss_stage(i) \/ Cuda!hit_stage(i) \/ Cuda!shade_terminal(i)
           \/ Cuda!continuation_stage(i)
  <2>1. \E m, r : Cuda!leave(i, m, r)
    BY <1>3 DEF Cuda!seed_camera, Cuda!camera_stage, Cuda!classify_closest_hit,
      Cuda!miss_stage, Cuda!hit_stage, Cuda!shade_terminal, Cuda!continuation_stage
  <2>2. QED BY <2>1, LeaveStep
<1>4. CASE Cuda!shade_scatter(i)
  <2>1. \E light \in BOOLEAN : \E q, t : Cuda!route_shaded(i, q, light, t)
    BY <1>4 DEF Cuda!shade_scatter
  <2>2. QED BY <1>1, <2>1, LeaveStep
<1>5. CASE Cuda!process_shadow(i)
  <2>1. \E m, r : Cuda!leave(i, m, r) BY <1>5 DEF Cuda!process_shadow
  <2>2. QED BY <2>1, LeaveStep
<1>6. QED BY <1>2, <1>3, <1>4, <1>5 DEF Cuda!Thread

(* What a failed trace left on the device still runs. *)
LEMMA LeftBehindKeeps ==
  ASSUME DeviceInv, at = "idle", NEW i, Cuda!Thread(i)
  PROVE  DeviceInv'
<1> DEFINE s == Cuda!work_slot(i)
<1>1. PICK m, o : Step(i, m, o) /\ (Shape(lane[s]) => Shape(m))
  BY ThreadWrites, ThreadShapes
<1>2. /\ lane' = [lane EXCEPT ![s] = m]
      /\ queue' = queue /\ rejected' = rejected /\ kernel' = kernel /\ at' = at
      /\ count' = count /\ iteration' = iteration /\ failure' = failure /\ dirty' = dirty
  BY <1>1 DEF Step
<1> HIDE DEF s
<1>3. ShapeInv'
  <2>1. lane = [x \in Cuda!Slot |-> lane[x]] /\ \A x \in Cuda!Slot : Shape(lane[x])
    BY DEF DeviceInv, ShapeInv
  <2>2. lane' = [x \in Cuda!Slot |-> lane'[x]] BY <1>2, <2>1
  <2>3. ASSUME NEW x \in Cuda!Slot PROVE Shape(lane'[x])
    <3>1. CASE x = s
      BY <1>1, <1>2, <2>1, <3>1
    <3>2. CASE x # s
      <4>1. lane'[x] = lane[x] BY <1>2, <2>1, <3>2
      <4>2. QED BY <2>1, <4>1
    <3>3. QED BY <3>1, <3>2
  <2>4. QED BY <2>2, <2>3 DEF ShapeInv, Shape
<1>4. kernel # "none" BY ThreadWorks
<1>5. CleanInv' /\ SeedInv' /\ FailureInv' /\ PlaceInv' /\ WorkInv'
  BY <1>2, <1>4 DEF DeviceInv, CleanInv, SeedInv, FailureInv, PlaceInv, WorkInv, Kind
<1>6. QED BY <1>3, <1>5 DEF DeviceInv

(* The seed kernel finds the controls of its paths zeroed. *)
LEMMA SeedThreadKeeps ==
  ASSUME Cuda!CudaTransportAssumption, DeviceInv, at = "camera_seed", NEW i, Cuda!Thread(i)
  PROVE  DeviceInv'
<1> DEFINE s == i - 1
           q == lane[s]
           w == [q EXCEPT !.flags = {}]
           m == Cuda!finish_phase(w, "camera", "none")
<1>1. /\ kernel = "camera_seed" /\ outcomes = [j \in 1 .. count |-> outcomes[j]]
      /\ i \in 1 .. count /\ outcomes[i] = Cuda!Unset
      /\ count \in 1 .. Capacity /\ Capacity \in Nat
      /\ queue = [k \in Kind |-> << >>] /\ rejected = {}
  <2>1. kernel = "camera_seed" /\ outcomes = [j \in 1 .. count |-> outcomes[j]]
    BY ThreadWorks DEF DeviceInv, CleanInv, SeedInv
  <2>2. DOMAIN outcomes = 1 .. count BY <2>1
  <2>3. QED
    BY <2>1, <2>2, ThreadWorks DEF DeviceInv, CleanInv, SeedInv, Cuda!CudaTransportAssumption
<1>2. s \in 0 .. count - 1 /\ s + 1 = i /\ s \in Cuda!Slot /\ Cuda!work_slot(i) = s
  BY <1>1 DEF Cuda!Slot, Cuda!work_slot
<1>3. /\ \A x \in 0 .. count - 1 :
            /\ lane[x].blocked = {}
            /\ lane[x].phase = IF outcomes[x + 1] # Cuda!Unset THEN "camera" ELSE "empty"
      /\ \A j \in 1 .. count : outcomes[j] \in {Cuda!Unset, Routed("none")}
      /\ iteration = 0
  BY <1>1 DEF DeviceInv, SeedInv
<1>4. q.phase = "empty" /\ q.blocked = {} BY <1>1, <1>2, <1>3
<1>5. lane = [x \in Cuda!Slot |-> lane[x]] /\ \A x \in Cuda!Slot : Shape(lane[x])
  BY DEF DeviceInv, ShapeInv
<1>6. Shape(m) /\ m.phase = "camera" /\ m.blocked = {}
  <2>1. Shape(w) /\ w.blocked = {} BY <1>2, <1>4, <1>5 DEF Shape, Columns
  <2> HIDE DEF w
  <2>2. QED BY <2>1, FinishLane
<1>7. Step(i, m, Routed("none"))
  <2>1. ~Cuda!refuse_work(i)
    <3>1. Cuda!queue_refuses(i) = "none" BY <1>1 DEF Cuda!queue_refuses
    <3>2. Cuda!claims(q, Cuda!claimed_phase)
      BY <1>1, <1>4 DEF Cuda!claims, Cuda!claimed_phase
    <3>3. Cuda!demands(q) BY <1>1 DEF Cuda!demands, Kind
    <3>4. ~Cuda!beyond_limits(q) /\ ~Cuda!uncountable(q)
      BY <1>1 DEF Cuda!beyond_limits, Cuda!uncountable
    <3>5. Cuda!refusals(i) = {}
      BY <1>1, <1>2, <3>1, <3>2, <3>3, <3>4 DEF Cuda!refusals
    <3>6. QED BY <3>5 DEF Cuda!refuse_work
  <2>2. Cuda!seed_camera(i)
    BY <1>1, <2>1 DEF Cuda!Thread, Cuda!runs, Cuda!camera_stage, Cuda!classify_closest_hit,
      Cuda!miss_stage, Cuda!hit_stage, Cuda!shade_terminal, Cuda!shade_scatter,
      Cuda!process_shadow, Cuda!continuation_stage
  <2>3. Cuda!leave(i, m, "none") BY <2>2 DEF Cuda!seed_camera
  <2>4. QED BY <2>3, LeaveStep
<1>8. /\ lane' = [lane EXCEPT ![s] = m] /\ outcomes' = [outcomes EXCEPT ![i] = Routed("none")]
      /\ queue' = queue /\ rejected' = rejected /\ kernel' = kernel /\ at' = at
      /\ count' = count /\ iteration' = iteration /\ failure' = failure /\ dirty' = dirty
  BY <1>2, <1>7 DEF Step
<1>9. Routed("none") # Cuda!Unset BY DEF Routed, Cuda!Unset
<1> HIDE DEF m
<1>10. ShapeInv'
  <2>1. lane' = [x \in Cuda!Slot |-> lane'[x]] BY <1>5, <1>8
  <2>2. \A x \in Cuda!Slot : Shape(lane'[x]) BY <1>2, <1>5, <1>6, <1>8
  <2>3. QED BY <2>1, <2>2 DEF ShapeInv, Shape
<1>11. CleanInv' /\ FailureInv' /\ PlaceInv' /\ WorkInv'
  BY <1>1, <1>8 DEF DeviceInv, CleanInv, FailureInv, PlaceInv, WorkInv, Kind
<1>12. SeedInv'
  <2>1. outcomes' = [j \in 1 .. count |-> outcomes'[j]] BY <1>1, <1>8
  <2>2. outcomes'[i] = Routed("none")
        /\ \A j \in 1 .. count : j # i => outcomes'[j] = outcomes[j]
    BY <1>1, <1>8
  <2>3. \A j \in 1 .. count : outcomes'[j] \in {Cuda!Unset, Routed("none")}
    BY <1>3, <2>2
  <2>4. ASSUME NEW x \in 0 .. count - 1
        PROVE  /\ lane'[x].blocked = {}
               /\ lane'[x].phase = IF outcomes'[x + 1] # Cuda!Unset THEN "camera" ELSE "empty"
    <3>1. CASE x = s
      <4>1. lane'[x] = m /\ outcomes'[x + 1] = Routed("none")
        BY <1>2, <1>5, <1>8, <2>2, <3>1
      <4>2. QED BY <1>6, <1>9, <4>1
    <3>2. CASE x # s
      <4>1. lane'[x] = lane[x] BY <1>5, <1>8, <3>2
      <4>2. x + 1 \in 1 .. count /\ x + 1 # i BY <1>1, <1>2, <3>2
      <4>3. outcomes'[x + 1] = outcomes[x + 1] BY <2>2, <4>2
      <4>4. QED BY <1>3, <4>1, <4>3
    <3>3. QED BY <3>1, <3>2
  <2>5. QED BY <1>1, <1>3, <1>8, <2>1, <2>3, <2>4, Zenon DEF SeedInv, Routed, Cuda!Unset
<1>13. QED BY <1>10, <1>11, <1>12 DEF DeviceInv

(* No thread of a kernel breaks the invariant of the workspace. *)
LEMMA ThreadKeeps ==
  ASSUME Cuda!CudaTransportAssumption, LimitsCountable, DeviceInv, NEW i, Cuda!Thread(i)
  PROVE  DeviceInv'
<1>1. i \in DOMAIN outcomes /\ outcomes[i] = Cuda!Unset /\ kernel # "none"
  BY ThreadWorks
<1>2. at = "idle" \/ (kernel = at /\ at \in Kind \cup {"camera_seed"})
  BY <1>1 DEF DeviceInv, CleanInv
<1>3. CASE kernel = at /\ at \in Kind
  <2>1. outcomes = [j \in 1 .. Len(queue[at]) |-> outcomes[j]]
    BY <1>3 DEF DeviceInv, WorkInv
  <2>2. i \in 1 .. Len(queue[at]) BY <1>1, <2>1
  <2>3. PICK m, o : Step(i, m, o) /\ Shape(m) /\ Leaves(at, o, m, iteration)
    BY <1>1, <1>3, <2>2, ThreadStep
  <2>4. QED BY <1>1, <1>3, <2>2, <2>3, WorkKeeps
<1>4. QED BY <1>2, <1>3, LeftBehindKeeps, SeedThreadKeeps

(* The work items with route r, and the slots they are for. *)
routed(r) == {queue[kernel][i] : i \in {j \in 1 .. Len(queue[kernel]) : outcomes[j].route = r}}

(* compact_routes collects the slots of a route, each once. *)
LEMMA SelectedEntries ==
  ASSUME NEW S, queue[kernel] \in Seq(S), distinct(queue[kernel]),
         outcomes = [i \in 1 .. Len(queue[kernel]) |-> outcomes[i]], NEW r
  PROVE  /\ Cuda!selected(r) \in Seq(S)
         /\ distinct(Cuda!selected(r))
         /\ ToSet(Cuda!selected(r)) = routed(r)
<1> DEFINE e == queue[kernel]
           N == Len(e)
           fills(f) == f = [n \in 0 .. N |-> IF n = 0 THEN << >>
                                             ELSE IF outcomes[n].route = r
                                                  THEN Append(f[n - 1], e[n])
                                             ELSE f[n - 1]]
           F == CHOOSE f : fills(f)
<1>1. N \in Nat /\ DOMAIN e = 1 .. N BY LenProperties
<1>2. Len(outcomes) = N
  <2> HIDE DEF N
  <2>1. outcomes = [i \in 1 .. N |-> outcomes[i]] BY DEF N
  <2>2. QED BY <1>1, <2>1, WorkItems
<1>3. Cuda!selected(r) = F[N] BY <1>2 DEF Cuda!selected
<1>4. \A n \in 1 .. N : e[n] \in routed(r) <=> outcomes[n].route = r
  <2> TAKE n \in 1 .. N
  <2>1. ASSUME e[n] \in routed(r) PROVE outcomes[n].route = r
    <3>1. PICK i \in 1 .. N : outcomes[i].route = r /\ e[i] = e[n]
      BY <2>1 DEF routed
    <3>2. i = n BY <1>1, <3>1 DEF distinct
    <3>3. QED BY <3>1, <3>2
  <2>2. ASSUME outcomes[n].route = r PROVE e[n] \in routed(r)
    BY <2>2 DEF routed
  <2>3. QED BY <2>1, <2>2
<1> HIDE DEF e, N
<1>5. ASSUME NEW f PROVE fills(f) <=> filters(e, routed(r), N, f)
  <2> DEFINE a(n) == IF n = 0 THEN << >>
                     ELSE IF outcomes[n].route = r THEN Append(f[n - 1], e[n]) ELSE f[n - 1]
             b(n) == IF n = 0 THEN << >>
                     ELSE IF e[n] \in routed(r) THEN Append(f[n - 1], e[n]) ELSE f[n - 1]
  <2>1. \A n \in 0 .. N : n # 0 => n \in 1 .. N BY <1>1
  <2>2. \A n \in 0 .. N : a(n) = b(n) BY <1>4, <2>1
  <2> HIDE DEF a, b
  <2>3. [n \in 0 .. N |-> a(n)] = [n \in 0 .. N |-> b(n)] BY <2>2
  <2>4. QED BY <2>3 DEF a, b, filters
<1> HIDE DEF fills
<1>6. filters(e, routed(r), N, F)
  <2>1. \E f : fills(f) BY <1>1, <1>5, FilterExists
  <2>2. fills(F) BY <2>1
  <2>3. QED BY <1>5, <2>2
<1> HIDE DEF F
<1>7. /\ F[N] \in Seq(S) /\ ToSet(F[N]) = ToSet(e) \cap routed(r) /\ distinct(F[N])
  BY <1>6, FilledEntries DEF e, N
<1>8. routed(r) \subseteq ToSet(e) BY <1>1 DEF routed, e, N, ToSet
<1>9. QED BY <1>3, <1>7, <1>8

(* Behind the audit of a stage without a failed work item. *)
Audited ==
    /\ DeviceInv /\ at \in Kind /\ kernel = at
    /\ Cuda!executed /\ Cuda!failed_items = {}

(* Behind the audit the work items have routes, and their lanes are ready
   for them. *)
LEMMA AuditedItems ==
  ASSUME Audited
  PROVE  /\ \A k \in Kind : queue[k] \in Seq(0 .. count - 1) /\ distinct(queue[k])
         /\ \A k, l \in Kind : k # l => ToSet(queue[k]) \cap ToSet(queue[l]) = {}
         /\ queue = [k \in Kind |-> queue[k]]
         /\ outcomes = [i \in 1 .. Len(queue[kernel]) |-> outcomes[i]]
         /\ Len(queue[kernel]) \in Nat
         /\ Len(outcomes) = Len(queue[kernel])
         /\ ToSet(queue[kernel]) = {queue[kernel][i] : i \in 1 .. Len(queue[kernel])}
         /\ \A i \in 1 .. Len(queue[kernel]) :
               \/ \E r \in Routes(kernel) : /\ outcomes[i] = Routed(r)
                                            /\ Ready(r, lane[queue[kernel][i]], iteration)
               \/ /\ kernel \in {"miss", "shade", "shadow"}
                  /\ outcomes[i] = Routed("terminated")
                  /\ Over(lane[queue[kernel][i]])
<1>1. /\ \A k \in Kind : queue[k] \in Seq(0 .. count - 1) /\ distinct(queue[k])
      /\ \A k, l \in Kind : k # l => ToSet(queue[k]) \cap ToSet(queue[l]) = {}
      /\ queue = [k \in Kind |-> queue[k]]
      /\ outcomes = [i \in 1 .. Len(queue[kernel]) |-> outcomes[i]]
  BY DEF Audited, DeviceInv, PlaceInv, WorkInv
<1>2. Len(queue[kernel]) \in Nat /\ DOMAIN queue[kernel] = 1 .. Len(queue[kernel])
  BY <1>1, LenProperties DEF Audited
<1>3. Len(outcomes) = Len(queue[kernel]) /\ DOMAIN outcomes = 1 .. Len(queue[kernel])
  BY <1>1, <1>2, WorkItems
<1>4. ASSUME NEW i \in 1 .. Len(queue[kernel])
      PROVE  outcomes[i] # Cuda!Unset /\ outcomes[i].why = "success"
  BY <1>3 DEF Audited, Cuda!executed, Cuda!failed_items, Cuda!pending_thread
<1>5. \A i \in 1 .. Len(queue[kernel]) :
         outcomes[i] # Refused /\ Leaves(kernel, outcomes[i], lane[queue[kernel][i]], iteration)
  BY <1>4 DEF Refused, Audited, DeviceInv, WorkInv
<1>6. ToSet(queue[kernel]) = {queue[kernel][i] : i \in 1 .. Len(queue[kernel])}
  BY <1>2 DEF ToSet
<1>7. QED BY <1>1, <1>2, <1>3, <1>5, <1>6 DEF Leaves

(* A slot is selected for one route only. *)
LEMMA RoutedOnce ==
  ASSUME Audited, NEW r, NEW t, r # t
  PROVE  routed(r) \cap routed(t) = {} /\ routed(r) \subseteq ToSet(queue[kernel])
<1>1. routed(r) \subseteq ToSet(queue[kernel]) BY AuditedItems DEF routed
<1>2. ASSUME NEW x \in routed(r), x \in routed(t) PROVE FALSE
  <2>1. PICK i \in 1 .. Len(queue[kernel]) : outcomes[i].route = r /\ queue[kernel][i] = x
    BY DEF routed
  <2>2. PICK j \in 1 .. Len(queue[kernel]) : outcomes[j].route = t /\ queue[kernel][j] = x
    BY <1>2 DEF routed
  <2>3. i = j
    <3>1. distinct(queue[kernel]) /\ DOMAIN queue[kernel] = 1 .. Len(queue[kernel])
      BY AuditedItems, LenProperties DEF Audited
    <3>2. QED BY <2>1, <2>2, <3>1 DEF distinct
  <2>4. QED BY <2>1, <2>2, <2>3
<1>3. QED BY <1>1, <1>2

(* A queue behind its compactions. *)
LEMMA CompactedQueue ==
  ASSUME Audited, NEW k \in Kind
  PROVE  /\ Cuda!compacted[k] \in Seq(0 .. count - 1)
         /\ distinct(Cuda!compacted[k])
         /\ ToSet(Cuda!compacted[k]) =
               ToSet(queue[k]) \cup (IF k \in Routes(kernel) THEN routed(k) ELSE {})
         /\ k \notin Routes(kernel) => Cuda!compacted[k] = queue[k]
         /\ k \in Routes(kernel) => k # kernel
         /\ queue[k] = << >> /\ k \in Routes(kernel)
               => Cuda!compacted[k] = Cuda!selected(k)
<1>1. Cuda!compacted[k] = IF k \in Routes(kernel) THEN queue[k] \o Cuda!selected(k) ELSE queue[k]
  <2>1. \A s : Cuda!ToSet(s) = ToSet(s) BY DEF ToSet, Cuda!ToSet
  <2>2. QED BY <2>1, SameDeviceBookkeeping DEF Cuda!compacted, Routes
<1>2. queue[k] \in Seq(0 .. count - 1) /\ distinct(queue[k]) BY AuditedItems
<1>3. CASE k \notin Routes(kernel)
  BY <1>1, <1>2, <1>3
<1>4. CASE k \in Routes(kernel)
  <2>1. k # kernel BY <1>4 DEF Audited, Routes, Cuda!routes, ToSet, Kind
  <2>2. kernel \in Kind BY DEF Audited
  <2>3. /\ Cuda!selected(k) \in Seq(0 .. count - 1) /\ distinct(Cuda!selected(k))
        /\ ToSet(Cuda!selected(k)) = routed(k)
    BY <2>2, AuditedItems, SelectedEntries
  <2>4. ToSet(queue[k]) \cap routed(k) = {}
    <3>1. routed(k) \subseteq ToSet(queue[kernel]) BY AuditedItems DEF routed
    <3>2. ToSet(queue[k]) \cap ToSet(queue[kernel]) = {}
      BY <2>1, <2>2, AuditedItems
    <3>3. QED BY <3>1, <3>2
  <2>5. /\ queue[k] \o Cuda!selected(k) \in Seq(0 .. count - 1)
        /\ distinct(queue[k] \o Cuda!selected(k))
        /\ ToSet(queue[k] \o Cuda!selected(k)) = ToSet(queue[k]) \cup routed(k)
    BY <1>2, <2>3, <2>4, Joined
  <2>6. queue[k] = << >> => queue[k] \o Cuda!selected(k) = Cuda!selected(k)
    BY <2>3
  <2>7. QED BY <1>1, <1>4, <2>1, <2>5, <2>6
<1>5. QED BY <1>3, <1>4

(* No append of the compactions is rejected. *)
LEMMA NothingRejected ==
  ASSUME Cuda!CudaTransportAssumption, Audited
  PROVE  Cuda!overfull = {}
<1>1. count \in 1 .. Capacity /\ Capacity \in Nat
  BY DEF Audited, DeviceInv, CleanInv, Kind, Cuda!CudaTransportAssumption
<1>2. count \in Nat /\ count <= Capacity BY <1>1
<1>3. ASSUME NEW k \in Kind PROVE ~(Len(Cuda!compacted[k]) > Capacity)
  <2> DEFINE e == Cuda!compacted[k]
  <2>1. e \in Seq(0 .. count - 1) /\ distinct(e) BY CompactedQueue
  <2> HIDE DEF e
  <2>2. Len(e) \in Nat /\ Len(e) <= count BY <1>2, <2>1, FitsIn
  <2>3. QED BY <1>1, <1>2, <2>2 DEF e
<1>4. QED BY <1>3, SameDeviceBookkeeping DEF Cuda!overfull

(* The queues a stage routes to hold every lane it took. *)
LEMMA NothingLost ==
  ASSUME Audited
  PROVE  ~Cuda!lost_lanes(Cuda!consumed)
<1> DEFINE N == Len(queue[kernel])
           e == queue[kernel]
<1>1. /\ e \in Seq(0 .. count - 1) /\ distinct(e) /\ N \in Nat /\ Len(outcomes) = N
      /\ kernel \in Kind
  BY AuditedItems DEF Audited
<1>2. \A k \in Kind \ {kernel} : Cuda!consumed[k] = Cuda!compacted[k]
  BY SameDeviceBookkeeping DEF Cuda!consumed, Cuda!compacted
<1>3. CASE kernel = "ray"
  <2> DEFINE h == Cuda!selected("hit")
             m == Cuda!selected("miss")
  <2>1. Routes("ray") = {"hit", "miss"} /\ in_use("ray") = {"ray"}
    BY DEF Routes, Cuda!routes, ToSet, in_use
  <2>2. queue["hit"] = << >> /\ queue["miss"] = << >>
    BY <1>3, <2>1 DEF Audited, DeviceInv, PlaceInv, Kind
  <2>3. /\ "hit" \in Kind \ {kernel} /\ "miss" \in Kind \ {kernel}
        /\ "hit" \in Kind /\ "miss" \in Kind
    BY <1>3 DEF Kind
  <2>4. /\ Cuda!consumed["hit"] = h /\ Cuda!consumed["miss"] = m
    BY <1>2, <1>3, <2>1, <2>2, <2>3, CompactedQueue
  <2>5. /\ h \in Seq(0 .. count - 1) /\ distinct(h) /\ ToSet(h) = routed("hit")
        /\ m \in Seq(0 .. count - 1) /\ distinct(m) /\ ToSet(m) = routed("miss")
    BY <1>1, AuditedItems, SelectedEntries
  <2> HIDE DEF h, m
  <2>6. routed("hit") \cap routed("miss") = {} BY RoutedOnce
  <2>7. /\ h \o m \in Seq(0 .. count - 1) /\ distinct(h \o m)
        /\ ToSet(h \o m) = routed("hit") \cup routed("miss")
        /\ Len(h \o m) = Len(h) + Len(m)
    BY <2>5, <2>6, Joined
  <2>8. routed("hit") \cup routed("miss") = ToSet(e)
    <3>1. ASSUME NEW i \in 1 .. N PROVE e[i] \in routed("hit") \cup routed("miss")
      <4>1. outcomes[i] = Routed("hit") \/ outcomes[i] = Routed("miss")
        BY <1>3, <2>1, AuditedItems
      <4>2. QED BY <4>1 DEF routed, Routed
    <3>2. ToSet(e) \subseteq routed("hit") \cup routed("miss")
      BY <3>1, AuditedItems
    <3>3. routed("hit") \cup routed("miss") \subseteq ToSet(e) BY RoutedOnce
    <3>4. QED BY <3>2, <3>3
  <2>9. Len(h) + Len(m) = N
    <3>1. Cardinality(ToSet(e)) = N BY <1>1, Counted
    <3>2. Cardinality(ToSet(h \o m)) = Len(h \o m) BY <2>7, Counted
    <3>3. QED BY <2>7, <2>8, <3>1, <3>2
  <2>10. QED BY <1>1, <1>3, <2>4, <2>9 DEF Cuda!lost_lanes
<1>4. CASE kernel = "hit"
  <2> DEFINE h == Cuda!selected("shade")
  <2>1. Routes("hit") = {"shade"} /\ in_use("hit") = {"hit"}
    BY DEF Routes, Cuda!routes, ToSet, in_use
  <2>2. queue["shade"] = << >>
    BY <1>4, <2>1 DEF Audited, DeviceInv, PlaceInv, Kind
  <2>3. "shade" \in Kind \ {kernel} /\ "shade" \in Kind BY <1>4 DEF Kind
  <2>4. Cuda!consumed["shade"] = h
    BY <1>2, <1>4, <2>1, <2>2, <2>3, CompactedQueue
  <2>5. /\ h \in Seq(0 .. count - 1) /\ distinct(h) /\ ToSet(h) = routed("shade")
    BY <1>1, AuditedItems, SelectedEntries
  <2> HIDE DEF h
  <2>6. routed("shade") = ToSet(e)
    <3>1. ASSUME NEW i \in 1 .. N PROVE e[i] \in routed("shade")
      <4>1. outcomes[i] = Routed("shade") BY <1>4, <2>1, AuditedItems
      <4>2. QED BY <4>1 DEF routed, Routed
    <3>2. ToSet(e) \subseteq routed("shade") BY <3>1, AuditedItems
    <3>3. routed("shade") \subseteq ToSet(e) BY RoutedOnce
    <3>4. QED BY <3>2, <3>3
  <2>7. Len(h) = N BY <1>1, <2>5, <2>6, Counted
  <2>8. QED BY <1>1, <1>4, <2>4, <2>7 DEF Cuda!lost_lanes
<1>5. QED BY <1>3, <1>4 DEF Cuda!lost_lanes

(* What stays in use behind a stage, and what it routes to, is in use then. *)
LEMMA AfterStage ==
  ASSUME NEW k \in Kind
  PROVE  /\ Cuda!after(k) \in Kind /\ Cuda!after(k) # "camera"
         /\ (in_use(k) \ {k}) \cup Routes(k) \subseteq in_use(Cuda!after(k))
         /\ Routes(k) \subseteq Kind
<1>1. /\ Cuda!after("camera") = "ray" /\ Cuda!after("ray") = "miss"
      /\ Cuda!after("miss") = "hit" /\ Cuda!after("hit") = "shade"
      /\ Cuda!after("shade") = "shadow" /\ Cuda!after("shadow") = "continuation"
      /\ Cuda!after("continuation") = "ray"
  BY DEF Cuda!after
<1>2. /\ in_use("camera") = {"camera"} /\ in_use("ray") = {"ray"}
      /\ in_use("miss") = {"miss", "hit"} /\ in_use("hit") = {"hit"}
      /\ in_use("shade") = {"shade"} /\ in_use("shadow") = {"shadow", "continuation"}
      /\ in_use("continuation") = {"continuation"}
  BY DEF in_use
<1>3. Routes("camera") = {"ray"} /\ Routes("continuation") = {"ray"}
  BY DEF Routes, Cuda!routes, ToSet
<1>4. Routes("ray") = {"hit", "miss"} /\ Routes("hit") = {"shade"}
  BY DEF Routes, Cuda!routes, ToSet
<1>5. Routes("shade") = {"shadow", "continuation"} /\ Routes("shadow") = {"continuation"}
  BY DEF Routes, Cuda!routes, ToSet
<1>6. Routes("miss") = {}
  <2>1. Cuda!routes("miss") = << >> BY DEF Cuda!routes
  <2>2. QED BY <2>1 DEF Routes, ToSet
<1>7. QED BY <1>1, <1>2, <1>3, <1>4, <1>5, <1>6 DEF Kind

(* An empty queue repeats nothing. *)
LEMMA EmptyQueue ==
  ASSUME NEW S
  PROVE  << >> \in Seq(S) /\ distinct(<< >>) /\ ToSet(<< >>) = {}
  BY DEF distinct, ToSet

(* The audited lanes go where their outcomes say. *)
LEMMA CompactKeeps ==
  ASSUME Cuda!CudaTransportAssumption, DeviceInv, Cuda!compact_routes
  PROVE  DeviceInv'
<1> DEFINE q == Cuda!consumed
<1>1. Audited BY SameDeviceBookkeeping DEF Cuda!compact_routes, Audited
<1>2. /\ queue' = q /\ rejected' = {} /\ kernel' = "none" /\ at' = Cuda!after(at)
      /\ lane' = lane /\ iteration' = iteration /\ count' = count /\ failure' = failure
      /\ dirty' = dirty
  <2>1. rejected = {} BY <1>1 DEF Audited, DeviceInv, CleanInv, Kind
  <2>2. QED BY <1>1, <2>1, NothingRejected, NothingLost DEF Cuda!compact_routes
<1>3. /\ at \in Kind /\ kernel = at /\ at' \in Kind /\ at' # "camera"
      /\ (in_use(at) \ {at}) \cup Routes(at) \subseteq in_use(at')
      /\ Routes(at) \subseteq Kind
  BY <1>1, <1>2, AfterStage DEF Audited
<1>4. /\ q = [k \in Kind |-> IF k = at THEN << >> ELSE Cuda!compacted[k]]
  BY <1>3, SameDeviceBookkeeping DEF Cuda!consumed, Cuda!compacted
<1> HIDE DEF q
<1>5. /\ q[at] = << >> /\ ToSet(q[at]) = {}
      /\ \A k \in Kind \ {at} :
            /\ q[k] \in Seq(0 .. count - 1) /\ distinct(q[k])
            /\ ToSet(q[k]) = ToSet(queue[k]) \cup (IF k \in Routes(at) THEN routed(k) ELSE {})
            /\ k \notin Routes(at) => q[k] = queue[k]
  <2>1. q[at] = << >> /\ \A k \in Kind \ {at} : q[k] = Cuda!compacted[k]
    BY <1>3, <1>4
  <2>2. ToSet(<< >>) = {} BY DEF ToSet
  <2>3. QED BY <1>1, <1>3, <2>1, <2>2, CompactedQueue
<1>6. /\ \A k \in Kind : queue[k] \in Seq(0 .. count - 1) /\ distinct(queue[k])
      /\ \A k, l \in Kind : k # l => ToSet(queue[k]) \cap ToSet(queue[l]) = {}
  BY <1>1, AuditedItems
<1>7. ShapeInv' /\ CleanInv' /\ SeedInv' /\ FailureInv'
  BY <1>2, <1>3 DEF DeviceInv, ShapeInv, CleanInv, SeedInv, FailureInv, Shape, Kind
<1>8. PlaceInv'
  <2>1. \A k \in Kind : q[k] \in Seq(0 .. count - 1) /\ distinct(q[k])
    BY <1>5, EmptyQueue
  <2>2. ASSUME NEW k \in Kind, NEW l \in Kind, k # l
        PROVE  ToSet(q[k]) \cap ToSet(q[l]) = {}
    <3>1. CASE k = at \/ l = at
      BY <1>5, <3>1
    <3>2. CASE k # at /\ l # at
      <4>1. ToSet(queue[k]) \cap ToSet(queue[l]) = {} BY <1>6, <2>2
      <4>2. /\ ToSet(queue[k]) \cap ToSet(queue[at]) = {}
            /\ ToSet(queue[l]) \cap ToSet(queue[at]) = {}
        BY <1>3, <1>6, <3>2
      <4>3. /\ routed(k) \cap routed(l) = {}
            /\ routed(k) \subseteq ToSet(queue[at]) /\ routed(l) \subseteq ToSet(queue[at])
        BY <1>1, <1>3, <2>2, RoutedOnce
      <4>4. /\ ToSet(q[k]) \subseteq ToSet(queue[k]) \cup routed(k)
            /\ ToSet(q[l]) \subseteq ToSet(queue[l]) \cup routed(l)
        BY <1>5, <3>2
      <4>5. QED BY <4>1, <4>2, <4>3, <4>4
    <3>3. QED BY <3>1, <3>2
  <2>3. ASSUME NEW k \in Kind \ in_use(at') PROVE q[k] = << >>
    <3>1. k \notin Routes(at) /\ (k # at => k \notin in_use(at)) BY <1>3
    <3>2. k # at => queue[k] = << >> BY <1>3, <3>1 DEF DeviceInv, PlaceInv
    <3>3. QED BY <1>5, <3>1, <3>2
  <2>4. ASSUME NEW s \in 0 .. count - 1
        PROVE  Over(lane[s]) \/ \E k \in Kind : s \in ToSet(q[k])
    <3>1. Over(lane[s]) \/ \E k \in Kind : s \in ToSet(queue[k])
      BY <1>3 DEF DeviceInv, PlaceInv
    <3>2. ASSUME NEW k \in Kind \ {at}, s \in ToSet(queue[k])
          PROVE  \E l \in Kind : s \in ToSet(q[l])
      BY <1>5, <3>2
    <3>3. ASSUME s \in ToSet(queue[at])
          PROVE  Over(lane[s]) \/ \E k \in Kind : s \in ToSet(q[k])
      <4>1. PICK i \in 1 .. Len(queue[at]) : queue[at][i] = s
        BY <1>1, <1>3, <3>3, AuditedItems
      <4>2. CASE Over(lane[s])
        BY <4>2
      <4>3. ASSUME NEW r \in Routes(at), outcomes[i] = Routed(r)
            PROVE  \E k \in Kind : s \in ToSet(q[k])
        <5>1. s \in routed(r) BY <1>3, <4>1, <4>3 DEF routed, Routed
        <5>2. r \in Kind \ {at} BY <1>1, <1>3, CompactedQueue
        <5>3. QED BY <1>5, <5>1, <5>2
      <4>4. QED BY <1>1, <1>3, <4>1, <4>2, <4>3, AuditedItems
    <3>4. QED BY <3>1, <3>2, <3>3
  <2>5. q = [k \in Kind |-> q[k]] BY <1>4
  <2>6. PlaceInv' <=>
           (at' \in Kind =>
              /\ queue' = [k \in Kind |-> queue'[k]]
              /\ \A k \in Kind : queue'[k] \in Seq(0 .. count' - 1) /\ distinct(queue'[k])
              /\ \A k, l \in Kind : k # l => ToSet(queue'[k]) \cap ToSet(queue'[l]) = {}
              /\ \A k \in Kind \ in_use(at') : queue'[k] = << >>
              /\ \A s \in 0 .. count' - 1 :
                    Over(lane'[s]) \/ \E k \in Kind : s \in ToSet(queue'[k])
              /\ at' = "camera" => iteration' = 0)
    BY DEF PlaceInv, Over
  <2>7. QED BY <1>2, <1>3, <2>1, <2>2, <2>3, <2>4, <2>5, <2>6
<1>9. WorkInv'
  <2>1. ASSUME NEW k \in Kind, NEW s \in ToSet(q[k])
        PROVE  Ready(k, lane[s], iteration)
    <3>0. k # at BY <1>5
    <3>1. CASE s \in ToSet(queue[k])
      BY <1>3, <3>0, <3>1 DEF DeviceInv, WorkInv
    <3>2. CASE k \in Routes(at) /\ s \in routed(k)
      <4>1. PICK i \in 1 .. Len(queue[at]) : outcomes[i].route = k /\ queue[at][i] = s
        BY <1>3, <3>2 DEF routed
      <4>2. k # "terminated" BY DEF Kind
      <4>3. QED BY <1>1, <1>3, <4>1, <4>2, AuditedItems DEF Routed
    <3>3. QED BY <1>5, <3>0, <3>1, <3>2
  <2>2. "none" \notin Kind BY DEF Kind
  <2>3. (kernel' # at' /\ \A k \in Kind \ {kernel'} : \A s \in ToSet(queue'[k]) :
              Ready(k, lane'[s], iteration')) => WorkInv'
    BY DEF WorkInv, Ready, Written, booked
  <2>4. QED BY <1>2, <1>3, <2>1, <2>2, <2>3
<1>10. QED BY <1>7, <1>8, <1>9 DEF DeviceInv

(* The seed puts every path of the trace in the camera queue. *)
LEMMA SeedKeeps ==
  ASSUME Cuda!CudaTransportAssumption, DeviceInv, Cuda!publish_seed
  PROVE  DeviceInv'
<1> DEFINE e == [i \in 1 .. count |-> i - 1]
<1>1. /\ kernel = "camera_seed" /\ at = "camera_seed" /\ count \in 1 .. Capacity
      /\ Capacity \in Nat
      /\ outcomes = [i \in 1 .. count |-> outcomes[i]]
      /\ queue = [k \in Kind |-> << >>] /\ iteration = 0 /\ rejected = {}
  BY DEF Cuda!publish_seed, DeviceInv, CleanInv, SeedInv, Cuda!CudaTransportAssumption
<1>2. DOMAIN outcomes = 1 .. count /\ count \in Nat BY <1>1
<1>3. queue' = [k \in Kind |-> IF k = "camera" THEN e ELSE << >>]
  BY <1>1, <1>2 DEF Cuda!publish_seed, Cuda!seeded, Kind
<1>4. /\ rejected' = {} /\ kernel' = "none" /\ at' = "camera" /\ lane' = lane
      /\ iteration' = 0 /\ count' = count /\ failure' = failure /\ dirty' = dirty
  BY <1>1 DEF Cuda!publish_seed, Cuda!after
<1>5. /\ e \in Seq(0 .. count - 1) /\ distinct(e) /\ ToSet(e) = 0 .. count - 1
  <2>1. e \in [1 .. count -> 0 .. count - 1] /\ DOMAIN e = 1 .. count BY <1>2
  <2>2. e \in Seq(0 .. count - 1) BY <1>2, <2>1, IsASeq
  <2>3. distinct(e) BY <1>2 DEF distinct
  <2>4. \A s \in 0 .. count - 1 : s + 1 \in 1 .. count /\ e[s + 1] = s BY <1>2
  <2>5. ToSet(e) = 0 .. count - 1
    <3>1. ToSet(e) = {e[i] : i \in 1 .. count} BY <2>1 DEF ToSet
    <3>2. \A i \in 1 .. count : e[i] \in 0 .. count - 1 BY <2>1
    <3> HIDE DEF e
    <3>3. QED BY <2>4, <3>1, <3>2
  <2>6. QED BY <2>2, <2>3, <2>5
<1> HIDE DEF e
<1>6. /\ "camera" \in Kind /\ in_use("camera") = {"camera"} /\ "none" \notin Kind
      /\ "idle" \notin Kind /\ "camera_seed" \notin Kind
  BY DEF in_use, Kind
<1>7. \A s \in 0 .. count - 1 : lane[s].blocked = {} /\ lane[s].phase = "camera"
  <2>1. \A i \in 1 .. count : outcomes[i] # Cuda!Unset
    BY <1>2 DEF Cuda!publish_seed, Cuda!executed, Cuda!pending_thread
  <2>2. ASSUME NEW s \in 0 .. count - 1 PROVE s + 1 \in 1 .. count
    BY <1>2
  <2>3. QED BY <1>1, <2>1, <2>2 DEF DeviceInv, SeedInv
<1>8. ShapeInv' /\ CleanInv' /\ SeedInv' /\ FailureInv'
  BY <1>1, <1>4, <1>6 DEF DeviceInv, ShapeInv, CleanInv, SeedInv, FailureInv, Shape
<1>9. /\ queue'["camera"] = e
      /\ \A k \in Kind : k # "camera" => queue'[k] = << >> /\ ToSet(queue'[k]) = {}
  BY <1>3, <1>6 DEF ToSet
<1>10. PlaceInv'
  <2>1. queue' = [k \in Kind |-> queue'[k]] BY <1>3
  <2>2. \A k \in Kind : queue'[k] \in Seq(0 .. count - 1) /\ distinct(queue'[k])
    BY <1>5, <1>9, EmptyQueue
  <2>3. \A k, l \in Kind : k # l => ToSet(queue'[k]) \cap ToSet(queue'[l]) = {}
    BY <1>9
  <2>4. \A s \in 0 .. count - 1 : s \in ToSet(queue'["camera"]) BY <1>5, <1>9
  <2>5. QED BY <1>4, <1>6, <1>9, <2>1, <2>2, <2>3, <2>4 DEF PlaceInv
<1>11. WorkInv'
  <2>1. \A s \in ToSet(queue'["camera"]) : Ready("camera", lane[s], 0)
    BY <1>5, <1>7, <1>9 DEF Ready
  <2>2. (kernel' # at' /\ \A k \in Kind \ {kernel'} : \A s \in ToSet(queue'[k]) :
              Ready(k, lane'[s], iteration')) => WorkInv'
    BY DEF WorkInv, Ready, Written, booked
  <2>3. QED BY <1>4, <1>9, <2>1, <2>2
<1>12. QED BY <1>8, <1>10, <1>11 DEF DeviceInv

(* A trace finds the queues empty, or clears them, and its controls zeroed. *)
LEMMA BeginTraceKeeps ==
  ASSUME Cuda!CudaTransportAssumption, DeviceInv, Cuda!begin_trace
  PROVE  DeviceInv'
<1> DEFINE zeroed(q) == [q EXCEPT !.phase = "empty", !.termination = "none",
                                  !.blocked = {}, !.flags = {}]
<1>1. PICK n \in 1 .. Capacity :
         /\ count' = n
         /\ lane' = [s \in Cuda!Slot |-> IF s < n THEN zeroed(lane[s]) ELSE lane[s]]
  BY DEF Cuda!begin_trace
<1>2. /\ kernel' = "none" /\ outcomes' = << >> /\ at' = "camera_seed"
      /\ iteration' = 0 /\ failure' = "none" /\ dirty' = TRUE /\ at = "idle"
  BY DEF Cuda!begin_trace
<1>3. queue' = [k \in Kind |-> << >>] /\ rejected' = {}
  BY SameDeviceBookkeeping DEF Cuda!begin_trace, Cuda!clean_queues, DeviceInv, CleanInv
<1>4. \A s \in Cuda!Slot : /\ Shape(zeroed(lane[s]))
                           /\ zeroed(lane[s]).phase = "empty" /\ zeroed(lane[s]).blocked = {}
  BY DEF DeviceInv, ShapeInv, Shape, Columns
<1> HIDE DEF zeroed
<1>5. ShapeInv'
  <2>1. \A s \in Cuda!Slot : Shape(lane'[s])
    BY <1>1, <1>4 DEF DeviceInv, ShapeInv
  <2>2. lane' = [s \in Cuda!Slot |-> lane'[s]] BY <1>1
  <2>3. QED BY <2>1, <2>2 DEF ShapeInv, Shape
<1>6. \A s \in 0 .. count' - 1 : lane'[s].phase = "empty" /\ lane'[s].blocked = {}
  <2>1. ASSUME NEW s \in 0 .. n - 1 PROVE s \in Cuda!Slot /\ s < n
    BY DEF Cuda!Slot, Cuda!CudaTransportAssumption
  <2>2. QED BY <1>1, <1>4, <2>1
<1>7. "camera_seed" \notin Kind BY DEF Kind
<1>8. CleanInv' /\ SeedInv' /\ PlaceInv' /\ WorkInv' /\ FailureInv'
  BY <1>1, <1>2, <1>3, <1>6, <1>7 DEF CleanInv, SeedInv, PlaceInv, WorkInv, FailureInv
<1>9. QED BY <1>5, <1>8 DEF DeviceInv

(* A trace that fails leaves the workspace dirty. *)
LEMMA FailKeeps ==
  ASSUME DeviceInv, at # "idle", NEW why \in {"data", "cuda_call"}, Cuda!fails(why)
  PROVE  DeviceInv'
<1>1. /\ lane' = lane /\ dirty' = dirty /\ dirty = TRUE /\ at' = "idle" /\ failure' = why
      /\ "idle" \notin Kind
  BY DEF Cuda!fails, DeviceInv, CleanInv, Kind
<1>2. ShapeInv' BY <1>1 DEF DeviceInv, ShapeInv, Shape
<1>3. CleanInv' /\ SeedInv' /\ PlaceInv' /\ WorkInv' /\ FailureInv'
  BY <1>1 DEF CleanInv, SeedInv, PlaceInv, WorkInv, FailureInv
<1>4. QED BY <1>2, <1>3 DEF DeviceInv

(* The first failing work item, the audit's, was refused its data. *)
LEMMA AuditKeeps ==
  ASSUME DeviceInv, Cuda!audit_failure
  PROVE  DeviceInv'
<1> DEFINE bad == Cuda!failed_items
           first == CHOOSE i \in bad : \A j \in bad : i <= j
<1>1. \A i \in bad : i \in DOMAIN outcomes /\ outcomes[i] # Cuda!Unset
                     /\ outcomes[i].why # "success"
  BY DEF Cuda!audit_failure, Cuda!failed_items, Cuda!executed, Cuda!pending_thread
<1>2. bad \subseteq Nat /\ \A i \in bad : outcomes[i].why = "data"
  <2>1. CASE at = "camera_seed"
    <3>1. /\ outcomes = [i \in 1 .. count |-> outcomes[i]]
          /\ \A i \in 1 .. count : outcomes[i] \in {Cuda!Unset, Routed("none")}
      BY <2>1 DEF DeviceInv, SeedInv, Cuda!audit_failure
    <3>2. DOMAIN outcomes = 1 .. count BY <3>1
    <3>3. bad = {} BY <1>1, <3>1, <3>2 DEF Routed
    <3>4. QED BY <3>3
  <2>2. CASE at \in Kind
    <3>1. /\ outcomes = [i \in 1 .. Len(queue[at]) |-> outcomes[i]]
          /\ \A i \in 1 .. Len(queue[at]) :
                outcomes[i] # Cuda!Unset
                   => Leaves(at, outcomes[i], lane[queue[at][i]], iteration)
      BY <2>2 DEF DeviceInv, WorkInv, Cuda!audit_failure
    <3>2. DOMAIN outcomes = 1 .. Len(queue[at]) BY <3>1
    <3>3. queue[at] \in Seq(0 .. count - 1) BY <2>2 DEF DeviceInv, PlaceInv
    <3>4. Len(queue[at]) \in Nat BY <3>3, LenProperties
    <3> HIDE DEF bad
    <3>5. \A i \in bad : outcomes[i] = Refused
      <4> TAKE i \in bad
      <4>1. /\ outcomes[i].why # "success"
            /\ Leaves(at, outcomes[i], lane[queue[at][i]], iteration)
        BY <1>1, <3>1, <3>2
      <4>2. \A r : Routed(r).why = "success" BY DEF Routed
      <4>3. QED BY <4>1, <4>2 DEF Leaves
    <3>6. QED BY <1>1, <3>2, <3>4, <3>5 DEF Refused
  <2>3. QED BY <2>1, <2>2 DEF DeviceInv, CleanInv, Cuda!audit_failure
<1>3. bad # {} BY DEF Cuda!audit_failure
<1>4. Cuda!fails(outcomes[first].why) /\ at # "idle" BY DEF Cuda!audit_failure
<1> HIDE DEF bad
<1>5. first \in bad BY <1>2, <1>3, LeastElement
<1>6. outcomes[first].why = "data" BY <1>2, <1>5
<1>7. QED BY <1>4, <1>6, FailKeeps

(* A stage with an empty queue is passed over. *)
LEMMA SkipStageKeeps == ASSUME DeviceInv, Cuda!skip_stage PROVE DeviceInv'
<1>1. /\ at \in Kind /\ kernel = "none" /\ queue[at] = << >> /\ at' = Cuda!after(at)
      /\ lane' = lane /\ queue' = queue /\ rejected' = rejected /\ kernel' = kernel
      /\ outcomes' = outcomes /\ count' = count /\ iteration' = iteration
      /\ failure' = failure /\ dirty' = dirty
  BY DEF Cuda!skip_stage, Cuda!device, Kind
<1>2. /\ at' \in Kind /\ at' # "camera" /\ "none" \notin Kind /\ "idle" \notin Kind
      /\ "camera_seed" \notin Kind
      /\ in_use(at) \ {at} \subseteq in_use(at')
  BY <1>1, AfterStage DEF Kind
<1>3. ShapeInv' /\ CleanInv' /\ SeedInv' /\ FailureInv'
  BY <1>1, <1>2 DEF DeviceInv, ShapeInv, CleanInv, SeedInv, FailureInv, Shape
<1>4. PlaceInv'
  <2>1. \A k \in Kind \ in_use(at') : queue[k] = << >>
    BY <1>1, <1>2 DEF DeviceInv, PlaceInv
  <2>2. QED BY <1>1, <1>2, <2>1 DEF DeviceInv, PlaceInv, Over
<1>5. WorkInv' BY <1>1, <1>2 DEF DeviceInv, WorkInv, Ready, Written, booked
<1>6. QED BY <1>3, <1>4, <1>5 DEF DeviceInv

(* A kernel is launched over its queue. The bound on the rays is never
   reached with a path left: its events would be more than its limits. *)
LEMMA LaunchKeeps ==
  ASSUME Cuda!CudaTransportAssumption, DeviceInv, Cuda!launch
  PROVE  DeviceInv'
<1>1. /\ at # "idle" /\ kernel = "none" /\ at \in Kind \cup {"camera_seed"}
      /\ iteration \in Nat /\ count \in 1 .. Capacity /\ Capacity \in Nat
      /\ at # "camera_seed" => queue[at] # << >>
  BY DEF Cuda!launch, DeviceInv, CleanInv, Cuda!CudaTransportAssumption
<1>2. ASSUME at = "ray" PROVE ~(iteration >= Cuda!maximum_iterations)
  <2>1. "ray" \in Kind /\ "none" \notin Kind BY DEF Kind
  <2>2. queue["ray"] \in Seq(0 .. count - 1) /\ queue["ray"] # << >>
    BY <1>1, <1>2, <2>1 DEF DeviceInv, PlaceInv
  <2>3. PICK s : s \in ToSet(queue["ray"])
    <3>1. Len(queue["ray"]) \in Nat /\ DOMAIN queue["ray"] = 1 .. Len(queue["ray"])
      BY <2>2, LenProperties
    <3>2. 1 \in DOMAIN queue["ray"] BY <2>2, <3>1, EmptySeq
    <3>3. QED BY <3>2 DEF ToSet
  <2>4. Ready("ray", lane[s], iteration)
    BY <1>1, <1>2, <2>1, <2>3 DEF DeviceInv, WorkInv
  <2> DEFINE q == lane[s]
  <2>5. Written(q) /\ iteration <= Len(q.beta.events) BY <2>4 DEF Ready
  <2> HIDE DEF q
  <2>6. /\ q.depth_counters \in [Category -> Nat]
        /\ path_depth_total(q.depth_counters) = Len(q.beta.events)
        /\ validate_path_depth_state(q.depth_counters, path_depth_total(q.depth_counters))
    BY <2>5, WrittenCounts
  <2>7. /\ path_depth_total(q.depth_counters) <= Cuda!maximum_iterations - 2
        /\ Cuda!maximum_iterations \in Nat /\ path_depth_total(q.depth_counters) \in Nat
    BY <2>6, WithinLimits
  <2>8. QED BY <1>1, <2>5, <2>6, <2>7
<1> DEFINE N == IF at = "camera_seed" THEN count ELSE Len(queue[at])
<1>3. /\ kernel' = at /\ outcomes' = [i \in 1 .. N |-> Cuda!Unset]
      /\ iteration' = IF at = "ray" THEN iteration + 1 ELSE iteration
      /\ queue' = queue /\ rejected' = rejected /\ lane' = lane /\ at' = at
      /\ count' = count /\ failure' = failure /\ dirty' = dirty
  BY <1>2 DEF Cuda!launch
<1>4. /\ outcomes' = [i \in 1 .. N |-> outcomes'[i]]
      /\ \A i \in 1 .. N : outcomes'[i] = Cuda!Unset
  BY <1>3
<1>5. "camera_seed" \notin Kind /\ "idle" \notin Kind /\ "none" \notin Kind
  BY DEF Kind
<1>6. ShapeInv' /\ FailureInv'
  BY <1>3 DEF DeviceInv, ShapeInv, FailureInv, Shape
<1>7. CleanInv' BY <1>1, <1>3 DEF DeviceInv, CleanInv
<1>8. SeedInv'
  <2> SUFFICES ASSUME at = "camera_seed" PROVE SeedInv'
    BY <1>3 DEF SeedInv
  <2>1. /\ queue = [k \in Kind |-> << >>] /\ iteration = 0
        /\ \A s \in 0 .. count - 1 : lane[s].blocked = {} /\ lane[s].phase = "empty"
    BY <1>1 DEF DeviceInv, SeedInv
  <2>2. \A s \in 0 .. count - 1 : s + 1 \in 1 .. count BY <1>1
  <2>3. N = count OBVIOUS
  <2> HIDE DEF N
  <2>4. \A s \in 0 .. count - 1 : outcomes'[s + 1] = Cuda!Unset
    BY <1>4, <2>2, <2>3
  <2>5. QED BY <1>3, <1>4, <2>1, <2>3, <2>4 DEF SeedInv
<1>9. PlaceInv'
  <2>1. at = "camera" => iteration' = iteration BY <1>3
  <2>2. QED BY <1>3, <2>1 DEF DeviceInv, PlaceInv, Over
<1>10. WorkInv'
  <2> SUFFICES ASSUME at \in Kind PROVE WorkInv'
    BY <1>3 DEF WorkInv
  <2>1. /\ \A k \in Kind : \A s \in ToSet(queue[k]) : Ready(k, lane[s], iteration)
        /\ queue[at] \in Seq(0 .. count - 1)
        /\ at # "camera_seed"
    BY <1>1, <1>5 DEF DeviceInv, WorkInv, PlaceInv
  <2>2. passed' = iteration BY <1>1, <1>3 DEF passed
  <2>3. ASSUME NEW k \in Kind \ {at}, NEW s \in ToSet(queue[k])
        PROVE  Ready(k, lane[s], iteration')
    <3>1. CASE at = "ray"
      <4>1. in_use("ray") = {"ray"} /\ ToSet(<< >>) = {} BY DEF in_use, ToSet
      <4>2. queue[k] = << >> BY <3>1, <4>1 DEF DeviceInv, PlaceInv
      <4>3. QED BY <4>1, <4>2
    <3>2. CASE at # "ray"
      BY <1>3, <2>1, <3>2
    <3>3. QED BY <3>1, <3>2
  <2>4. N = Len(queue[at]) /\ Len(queue[at]) \in Nat /\ DOMAIN queue[at] = 1 .. Len(queue[at])
    BY <2>1, LenProperties
  <2> HIDE DEF N
  <2>5. ASSUME NEW i \in 1 .. Len(queue[at])
        PROVE  outcomes'[i] = Cuda!Unset /\ Ready(at, lane[queue[at][i]], iteration)
    <3>1. queue[at][i] \in ToSet(queue[at]) BY <2>4 DEF ToSet
    <3>2. QED BY <1>4, <2>1, <2>4, <3>1
  <2>6. WorkInv' <=>
           (at' \in Kind =>
              /\ \A k \in Kind \ {kernel'} : \A x \in ToSet(queue'[k]) : Ready(k, lane'[x], iteration')
              /\ kernel' = at' =>
                    /\ outcomes' = [j \in 1 .. Len(queue'[at']) |-> outcomes'[j]]
                    /\ \A j \in 1 .. Len(queue'[at']) :
                          IF outcomes'[j] = Cuda!Unset
                          THEN Ready(at', lane'[queue'[at'][j]], passed')
                          ELSE Leaves(at', outcomes'[j], lane'[queue'[at'][j]], iteration'))
    BY DEF WorkInv, Ready, Leaves, Over, Written, booked
  <2>7. QED BY <1>3, <1>4, <2>2, <2>3, <2>4, <2>5, <2>6
<1>11. QED BY <1>6, <1>7, <1>8, <1>9, <1>10 DEF DeviceInv

(* No ray left, every path is over, and the workspace is clean. *)
LEMMA CollectKept == ASSUME DeviceInv, Cuda!collect PROVE DeviceInv'
<1>1. /\ at = "ray" /\ kernel = "none" /\ queue["ray"] = << >>
      /\ queue' = queue /\ rejected' = rejected /\ kernel' = kernel /\ outcomes' = outcomes
      /\ iteration' = iteration
  BY DEF Cuda!collect
<1>2. "ray" \in Kind /\ "idle" \notin Kind /\ in_use("ray") = {"ray"} /\ ToSet(<< >>) = {}
  BY DEF Kind, in_use, ToSet
<1>3. queue = [k \in Kind |-> << >>]
  <2>1. queue = [k \in Kind |-> queue[k]] /\ \A k \in Kind \ {"ray"} : queue[k] = << >>
    BY <1>1, <1>2 DEF DeviceInv, PlaceInv
  <2>2. QED BY <1>1, <2>1
<1>4. \A s \in 0 .. count - 1 : Over(lane[s])
  BY <1>1, <1>2, <1>3 DEF DeviceInv, PlaceInv
<1>5. /\ at' = "idle" /\ dirty' = FALSE /\ lane' = lane /\ failure' = failure
  <2>1. \A s \in 0 .. count - 1 :
           /\ Cuda!canonical(lane[s])
           /\ Cuda!path_state_valid(lane[s].depth_counters, lane[s].delta_flags)
    BY <1>4, SameDeviceBookkeeping DEF Over
  <2>2. QED BY <2>1 DEF Cuda!collect
<1>6. rejected = {} BY <1>1 DEF DeviceInv, CleanInv
<1>7. ShapeInv' /\ FailureInv'
  BY <1>5 DEF DeviceInv, ShapeInv, FailureInv, Shape
<1>8. CleanInv' /\ SeedInv' /\ PlaceInv' /\ WorkInv'
  BY <1>1, <1>2, <1>3, <1>5, <1>6 DEF CleanInv, SeedInv, PlaceInv, WorkInv
<1>9. QED BY <1>7, <1>8 DEF DeviceInv

(* No step of the host breaks the invariant of the workspace. *)
LEMMA HostKeeps ==
  ASSUME Cuda!CudaTransportAssumption, DeviceInv, Cuda!Host
  PROVE  DeviceInv'
<1>1. CASE Cuda!call_fails
  BY <1>1, FailKeeps DEF Cuda!call_fails
<1>2. QED
  BY <1>1, BeginTraceKeeps, LaunchKeeps, SkipStageKeeps, AuditKeeps, SeedKeeps, CompactKeeps,
    CollectKept DEF Cuda!Host

(* A new workspace satisfies it. *)
LEMMA DeviceStarts == Cuda!Init => DeviceInv
<1> SUFFICES ASSUME Cuda!Init PROVE DeviceInv
  OBVIOUS
<1>1. /\ lane = [s \in Cuda!Slot |-> Cuda!Untouched] /\ queue = [k \in Kind |-> << >>]
      /\ rejected = {} /\ kernel = "none" /\ at = "idle" /\ failure = "none"
      /\ "idle" \notin Kind
  BY SameDeviceBookkeeping DEF Cuda!Init, Kind
<1>2. Shape(Cuda!Untouched) BY DEF Shape, Columns, Cuda!Untouched
<1>3. ShapeInv BY <1>1, <1>2 DEF ShapeInv
<1>4. CleanInv /\ SeedInv /\ PlaceInv /\ WorkInv /\ FailureInv
  BY <1>1 DEF CleanInv, SeedInv, PlaceInv, WorkInv, FailureInv
<1>5. QED BY <1>3, <1>4 DEF DeviceInv

(* What changes no variable keeps it. *)
LEMMA DeviceStutters == ASSUME DeviceInv, UNCHANGED Cuda!vars PROVE DeviceInv'
<1>1. /\ lane' = lane /\ queue' = queue /\ rejected' = rejected /\ kernel' = kernel
      /\ outcomes' = outcomes /\ at' = at /\ count' = count /\ iteration' = iteration
      /\ failure' = failure /\ dirty' = dirty
  BY DEF Cuda!vars, Cuda!device
<1>2. ShapeInv' /\ CleanInv' /\ SeedInv' /\ FailureInv'
  BY <1>1 DEF DeviceInv, ShapeInv, CleanInv, SeedInv, FailureInv, Shape
<1>3. PlaceInv' BY <1>1 DEF DeviceInv, PlaceInv, Over
<1>4. WorkInv'
  <2>1. passed' = passed BY <1>1 DEF passed
  <2>2. WorkInv' <=>
           (at' \in Kind =>
              /\ \A k \in Kind \ {kernel'} : \A x \in ToSet(queue'[k]) : Ready(k, lane'[x], iteration')
              /\ kernel' = at' =>
                    /\ outcomes' = [j \in 1 .. Len(queue'[at']) |-> outcomes'[j]]
                    /\ \A j \in 1 .. Len(queue'[at']) :
                          IF outcomes'[j] = Cuda!Unset
                          THEN Ready(at', lane'[queue'[at'][j]], passed')
                          ELSE Leaves(at', outcomes'[j], lane'[queue'[at'][j]], iteration'))
    BY DEF WorkInv, Ready, Leaves, Over, Written, booked
  <2>3. QED BY <1>1, <2>1, <2>2 DEF DeviceInv, WorkInv
<1>5. QED BY <1>2, <1>3, <1>4 DEF DeviceInv

(* Whatever the traces before left in the workspace, while a trace runs
   each of its paths is over or in one queue, its lane is what the stage of
   that queue demands, and no more rays were dispatched than the path has
   found surfaces for. *)
THEOREM DeviceConsistent ==
  ASSUME Cuda!CudaTransportAssumption, LimitsCountable
  PROVE  Cuda!Spec => []DeviceInv
<1>1. DeviceInv /\ [Cuda!Next]_(Cuda!vars) => DeviceInv'
  BY HostKeeps, ThreadKeeps, DeviceStutters DEF Cuda!Next
<1>2. QED BY <1>1, DeviceStarts, PTL DEF Cuda!Spec

(* A trace on the device fails only for what a calculation, the scene or a
   call answers, whatever the traces before it left in the workspace: no
   lane is in another phase than that of its queue, no append is rejected,
   no lane is lost, no path is left behind, and the dispatch bound is never
   reached. *)
THEOREM DeviceOnlyOutsideFailures ==
  ASSUME Cuda!CudaTransportAssumption, LimitsCountable
  PROVE  Cuda!Spec => []OnlyOutsideFailures
<1>1. DeviceInv => OnlyOutsideFailures
  BY DEF DeviceInv, FailureInv, OnlyOutsideFailures, Cuda!OnlyOutsideFailures
<1>2. QED BY <1>1, DeviceConsistent, PTL

------------------------------------------------------
(* The device's traces are those of the scalar loop (ScalarTraces). Where a
   slot's call is (device_call) is read off its lane once the trace owns
   it, and off nothing before. TracedInv says what the lanes the trace owns
   are, by their phase, and that a lane it does not own yet is in no phase
   a kernel after the camera's claims: what earlier traces left, failed or
   not, is never taken for a path of this one. Each thread then makes one
   step of its slot's call, or none, also a thread a failed trace left on
   the device. *)

(* The loop of a slot's path on the device is the loop of the host's. *)
LEMMA SameDeviceScalar ==
  /\ \A q, kind : Cuda!Scalar!Weigh(q, kind) = Scalar!Weigh(q, kind)
  /\ \A q, reason, blocked :
        Cuda!Scalar!finish(q, reason, blocked) = Scalar!finish(q, reason, blocked)
  /\ \A q, event, black :
        Cuda!Scalar!scattered(q, event, black) = Scalar!scattered(q, event, black)
  /\ \A c, surface : Cuda!Scalar!allowed_events(c, surface) = Scalar!allowed_events(c, surface)
  /\ \A c, surface : Cuda!Scalar!filter_fails(c, surface) <=> Scalar!filter_fails(c, surface)
  /\ \A c, surface : Cuda!Scalar!blocked_lobes(c, surface) = Scalar!blocked_lobes(c, surface)
  /\ \A d : Cuda!Scalar!eligible(d) <=> Scalar!eligible(d)
  /\ \A q, surface : Cuda!Scalar!can_sample(q, surface) <=> Scalar!can_sample(q, surface)
  /\ Cuda!Scalar!NoCounters = Scalar!NoCounters
<1>1. Cuda!Scalar!Category = Scalar!Category /\ Cuda!Scalar!NoCounters = Scalar!NoCounters
  BY DEF Cuda!Scalar!Category, Cuda!Scalar!NoCounters, Scalar!Category, Scalar!NoCounters
<1>2. /\ \A c : Cuda!Scalar!path_depth_total(c) = Scalar!path_depth_total(c)
      /\ \A c : Cuda!Scalar!surface_total(c) = Scalar!surface_total(c)
      /\ \A c : Cuda!Scalar!non_delta_depth(c) = Scalar!non_delta_depth(c)
  BY DEF Scalar!path_depth_total, Scalar!surface_total, Scalar!non_delta_depth,
    Cuda!Scalar!path_depth_total, Cuda!Scalar!surface_total, Cuda!Scalar!non_delta_depth
<1>3. \A c : Cuda!Scalar!validate_path_depth_counters(c)
               <=> Scalar!validate_path_depth_counters(c)
  BY <1>2 DEF Scalar!validate_path_depth_counters, Cuda!Scalar!validate_path_depth_counters
<1>4. \A c, n : Cuda!Scalar!validate_path_depth_state(c, n)
                  <=> Scalar!validate_path_depth_state(c, n)
  BY <1>1, <1>2, <1>3 DEF Scalar!validate_path_depth_state,
    Cuda!Scalar!validate_path_depth_state
<1>5. \A c, e : Cuda!Scalar!advanced_counters(c, e) = Scalar!advanced_counters(c, e)
  BY <1>1 DEF Scalar!advanced_counters, Cuda!Scalar!advanced_counters
<1>6. \A f, e : Cuda!Scalar!next_delta_flags(f, e) = Scalar!next_delta_flags(f, e)
  BY DEF Scalar!next_delta_flags, Cuda!Scalar!next_delta_flags, Scalar!is_delta_event,
    Cuda!Scalar!is_delta_event
<1>7. \A c, f : Cuda!Scalar!path_state_valid(c, f) <=> Scalar!path_state_valid(c, f)
  BY <1>2, <1>3 DEF Scalar!path_state_valid, Cuda!Scalar!path_state_valid
<1>8. \A c, e : Cuda!Scalar!blocked_limits(c, e) = Scalar!blocked_limits(c, e)
  BY <1>1 DEF Scalar!blocked_limits, Cuda!Scalar!blocked_limits
<1>9. \A c, e : Cuda!Scalar!accepted(c, e) <=> Scalar!accepted(c, e)
  BY <1>2, <1>4, <1>5, <1>8 DEF Scalar!accepted, Cuda!Scalar!accepted, Scalar!depth_exhausted,
    Cuda!Scalar!depth_exhausted
<1>10. \A c, surface : /\ Cuda!Scalar!allowed_events(c, surface) = Scalar!allowed_events(c, surface)
                       /\ Cuda!Scalar!blocked_lobes(c, surface) = Scalar!blocked_lobes(c, surface)
  BY <1>8, <1>9 DEF Scalar!allowed_events, Cuda!Scalar!allowed_events, Scalar!blocked_lobes,
    Cuda!Scalar!blocked_lobes
<1>11. \A c, surface : Cuda!Scalar!filter_fails(c, surface) <=> Scalar!filter_fails(c, surface)
  BY <1>2, <1>4, <1>8, <1>9 DEF Scalar!filter_fails, Cuda!Scalar!filter_fails
<1>12. \A d : Cuda!Scalar!eligible(d) <=> Scalar!eligible(d)
  BY DEF Scalar!eligible, Cuda!Scalar!eligible
<1>13. \A q, surface : Cuda!Scalar!can_sample(q, surface) <=> Scalar!can_sample(q, surface)
  BY <1>10, <1>11 DEF Scalar!can_sample, Cuda!Scalar!can_sample
<1>14. \A q : Cuda!Scalar!representable(q) <=> Scalar!representable(q)
  BY <1>4, <1>7 DEF Scalar!representable, Cuda!Scalar!representable
<1>15. \A q, reason, blocked :
          Cuda!Scalar!finish(q, reason, blocked) = Scalar!finish(q, reason, blocked)
  BY <1>14 DEF Scalar!finish, Cuda!Scalar!finish
<1>16. \A q, event, black :
          Cuda!Scalar!scattered(q, event, black) = Scalar!scattered(q, event, black)
  BY <1>2, <1>5, <1>6 DEF Scalar!scattered, Cuda!Scalar!scattered
<1>17. \A q, kind : Cuda!Scalar!Weigh(q, kind) = Scalar!Weigh(q, kind)
  BY DEF Scalar!Weigh, Cuda!Scalar!Weigh
<1>18. QED BY <1>1, <1>10, <1>11, <1>12, <1>13, <1>15, <1>16, <1>17

(* Both count the events of a path in the same way. *)
LEMMA SameDeviceEvents ==
  ASSUME NEW events
  PROVE  /\ Cuda!counters_of(events) = counters_of(events)
         /\ Cuda!flags_of(events) = flags_of(events)
<1>1. Cuda!counters_of(events) = counters_of(events)
  <2>1. Cuda!Category = Category BY SameDeviceBookkeeping
  <2>2. QED BY <2>1 DEF Cuda!counters_of, counters_of, Cuda!Cardinality, Cardinality
<1>2. Cuda!Last(events) = Last(events) BY DEF Cuda!Last, Last
<1>3. Cuda!flags_of(events) = flags_of(events)
  BY <1>2, SameDeviceBookkeeping DEF Cuda!flags_of, flags_of
<1>4. QED BY <1>1, <1>3

(* The locals the scalar loop has on the device for a slot s whose lane is
   q: those of its lane once the trace owns it, the initial ones before. *)
mine(q) == trace # 0 /\ q.owner = trace

device_call(s, q) ==
    LET n     == IF mine(q) THEN q
                 ELSE [Cuda!Untouched EXCEPT !.beta.black = s \in BlackInputs, !.phase = q.phase]
        waits == n.pending # None
        over  == n.phase = "terminated" /\ s < count
        beta  == IF waits THEN n.pending.beta ELSE n.beta
    IN  [at             |-> IF over THEN "returned" ELSE IF waits THEN "occluded" ELSE "closest_hit",
         beta           |-> beta,
         radiance       |-> n.radiance,
         depth          |-> Len(beta.events),
         depth_counters |-> IF waits THEN Cuda!counters_of(beta.events) ELSE n.depth_counters,
         delta_flags    |-> IF waits THEN Cuda!flags_of(beta.events) ELSE n.delta_flags,
         surface        |-> IF waits /\ ~over THEN n.hit ELSE None,
         result         |-> IF ~over THEN None
                            ELSE IF n.termination = "none"
                            THEN [termination |-> "error", blocked |-> {}]
                            ELSE [termination |-> n.termination, blocked |-> n.blocked]]

(* The state of the scalar loop the workspace stands for. *)
device_scalar == [s \in Cuda!Slot |-> Cuda!scalar_path(s)]

(* The call of a slot is read off its own lane. *)
LEMMA DeviceCall == ASSUME NEW s PROVE Cuda!scalar_path(s) = device_call(s, lane[s])
  BY DEF Cuda!scalar_path, device_call, mine

(* A lane of the trace that is neither over nor waits for its shadow ray
   has a call at the head of its loop. *)
LEMMA DeviceGoing ==
  ASSUME NEW s, NEW q, mine(q), q.pending = None, q.phase # "terminated"
  PROVE  device_call(s, q) = call("closest_hit", q.beta, q.radiance, q.depth_counters,
                                  q.delta_flags, None, None)
  BY DEF device_call, call

(* One that waits has a call at its light query. *)
LEMMA DeviceWaiting ==
  ASSUME NEW s, NEW q, mine(q), q.pending # None, q.phase # "terminated"
  PROVE  LET b == q.pending.beta
         IN  device_call(s, q) = call("occluded", b, q.radiance, counters_of(b.events),
                                      flags_of(b.events), q.hit, None)
  BY SameDeviceEvents DEF device_call, call

(* One that is over has a call that returned the lane's result. *)
LEMMA DeviceOver ==
  ASSUME NEW s, s < count, NEW q, mine(q), q.pending = None, q.phase = "terminated",
         q.termination # "none"
  PROVE  device_call(s, q) = call("returned", q.beta, q.radiance, q.depth_counters,
                                  q.delta_flags, None,
                                  [termination |-> q.termination, blocked |-> q.blocked])
  BY DEF device_call, call

(* A slot the trace has not written has a call that has not begun. *)
LEMMA DeviceNotYet ==
  ASSUME NEW s, NEW q, ~mine(q), q.phase = "terminated" => ~(s < count)
  PROVE  device_call(s, q)
           = call("closest_hit", [events |-> << >>, black |-> s \in BlackInputs], << >>,
                  NoCounters, {}, None, None)
<1> DEFINE b == [events |-> << >>, black |-> s \in BlackInputs]
           n == [Cuda!Untouched EXCEPT !.beta.black = s \in BlackInputs, !.phase = q.phase]
<1>1. /\ n.pending = None /\ n.radiance = << >> /\ n.depth_counters = NoCounters
      /\ n.delta_flags = {} /\ n.phase = q.phase
  BY SameDeviceBookkeeping DEF Cuda!Untouched
<1>2. n.beta = b BY DEF Cuda!Untouched
<1> HIDE DEF n, b
<1>3. device_call(s, q) = call("closest_hit", b, << >>, NoCounters, {}, None, None)
  BY <1>1, <1>2 DEF device_call, call, n
<1>4. QED BY <1>3 DEF b

(* What fails a call, in the loop and on the device. *)
gives_up(p, r) ==
    /\ p.at # "returned"
    /\ r = [p EXCEPT !.at = "returned", !.surface = None,
                     !.result = [termination |-> "error", blocked |-> {}]]

(* refuse_work terminates a lane without a termination: its call failed. *)
LEMMA DeviceRefused ==
  ASSUME NEW s, s < count, NEW q, Shape(q), q.phase # "terminated"
  PROVE  gives_up(device_call(s, q),
                  device_call(s, Cuda!finish_phase(q, "terminated", "none")))
<1> DEFINE m == Cuda!finish_phase(q, "terminated", "none")
           e == [termination |-> "error", blocked |-> {}]
<1>1. /\ m.phase = "terminated" /\ m.termination = "none"
      /\ m.beta = q.beta /\ m.radiance = q.radiance /\ m.depth_counters = q.depth_counters
      /\ m.delta_flags = q.delta_flags /\ m.pending = q.pending /\ m.owner = q.owner
  BY FinishLane
<1> SUFFICES gives_up(device_call(s, q), device_call(s, m))
  OBVIOUS
<1> HIDE DEF m, e
<1>2. ASSUME NEW point, NEW beta, NEW radiance, NEW c, NEW f, NEW surface,
             point # "returned",
             device_call(s, q) = call(point, beta, radiance, c, f, surface, None),
             device_call(s, m) = call("returned", beta, radiance, c, f, None, e)
      PROVE  gives_up(device_call(s, q), device_call(s, m))
  <2> DEFINE p == call(point, beta, radiance, c, f, surface, None)
             r == [p EXCEPT !.at = "returned", !.surface = None, !.result = e]
  <2>1. r \in Locals("returned", beta, radiance, Len(beta.events), c, f, None, e)
    BY DEF call, Locals
  <2>2. r = call("returned", beta, radiance, c, f, None, e) BY <2>1, OneCall
  <2>3. p.at # "returned" BY <1>2 DEF call
  <2> HIDE DEF p
  <2>4. QED BY <1>2, <2>2, <2>3 DEF gives_up, p, e
<1>3. CASE mine(q) /\ q.pending = None
  <2>1. device_call(s, q) = call("closest_hit", q.beta, q.radiance, q.depth_counters,
                                 q.delta_flags, None, None)
    BY <1>3, DeviceGoing
  <2>2. device_call(s, m) = call("returned", q.beta, q.radiance, q.depth_counters,
                                 q.delta_flags, None, e)
    BY <1>1, <1>3 DEF device_call, call, mine, e
  <2>3. QED BY <1>2, <2>1, <2>2
<1>4. CASE mine(q) /\ q.pending # None
  <2> DEFINE b == q.pending.beta
  <2>1. device_call(s, q) = call("occluded", b, q.radiance, counters_of(b.events),
                                 flags_of(b.events), q.hit, None)
    BY <1>4, DeviceWaiting
  <2>2. device_call(s, m) = call("returned", b, q.radiance, counters_of(b.events),
                                 flags_of(b.events), None, e)
    BY <1>1, <1>4, SameDeviceEvents DEF device_call, call, mine, e
  <2>3. QED BY <1>2, <2>1, <2>2
<1>5. CASE ~mine(q)
  <2> DEFINE b == [events |-> << >>, black |-> s \in BlackInputs]
             n == [Cuda!Untouched EXCEPT !.beta.black = s \in BlackInputs, !.phase = m.phase]
  <2>1. device_call(s, q) = call("closest_hit", b, << >>, NoCounters, {}, None, None)
    BY <1>5, DeviceNotYet
  <2>2. /\ n.pending = None /\ n.radiance = << >> /\ n.depth_counters = NoCounters
        /\ n.delta_flags = {} /\ n.phase = m.phase /\ n.termination = "none"
    BY SameDeviceBookkeeping DEF Cuda!Untouched
  <2>3. n.beta = b BY DEF Cuda!Untouched
  <2>4. ~mine(m) BY <1>1, <1>5 DEF mine
  <2> HIDE DEF n, b
  <2>5. device_call(s, m) = call("returned", b, << >>, NoCounters, {}, None, e)
    BY <1>1, <2>2, <2>3, <2>4 DEF device_call, call, n, e
  <2>6. QED BY <1>2, <2>1, <2>5
<1>6. QED BY <1>3, <1>4, <1>5 DEF m

(* What the end of a bounce at a surface makes of a path that arrived there
   with the throughput b: nothing, and t is why it ends, or the events,
   counters and flags of a bounce the limits allow, and t says what is next. *)
Onward(q, b, surface, t) ==
    LET c == counters_of(b.events)
        f == flags_of(b.events)
    IN  \/ /\ t = "outside_bsdf_support"
           /\ q.beta = b /\ q.depth_counters = c /\ q.delta_flags = f
        \/ \E event \in allowed_events(c, surface) :
              /\ q.beta.events = Append(b.events, event)
              /\ q.depth_counters = advanced_counters(c, event)
              /\ q.delta_flags = next_delta_flags(f, event)
              /\ \/ t = "zero_throughput" /\ q.beta.black
                 \/ t = "none" /\ ~q.beta.black
                 \/ /\ t = "russian_roulette" /\ ~q.beta.black
                    /\ eligible(path_depth_total(q.depth_counters))

(* The call of a lane that goes onward. *)
onward_call(q, R, t) ==
    IF t = "none"
    THEN call("closest_hit", q.beta, R, q.depth_counters, q.delta_flags, None, None)
    ELSE call("returned", q.beta, R, q.depth_counters, q.delta_flags, None,
              [termination |-> t, blocked |-> {}])

(* It is the end of a bounce in the scalar loop. *)
LEMMA OnwardScatters ==
  ASSUME NEW q, Written(q), NEW b \in Beta,
         booked(b.events, counters_of(b.events), flags_of(b.events)),
         NEW surface \in Surfaces, NEW t, Onward(q, b, surface, t),
         NEW point, NEW held, NEW R
  PROVE  scatters(call(point, b, R, counters_of(b.events), flags_of(b.events), held, None),
                  surface, onward_call(q, R, t))
<1> DEFINE c == counters_of(b.events)
           f == flags_of(b.events)
           p == call(point, b, R, c, f, held, None)
           r == onward_call(q, R, t)
<1>1. p.depth_counters = c BY DEF call
<1>2. CASE /\ t = "outside_bsdf_support"
           /\ q.beta = b /\ q.depth_counters = c /\ q.delta_flags = f
  <2>1. r = call("returned", b, R, c, f, None,
                 [termination |-> "outside_bsdf_support", blocked |-> {}])
    BY <1>2 DEF onward_call
  <2>2. Scalar!finish(p, "outside_bsdf_support", {})
          = call("returned", b, R, c, f, None,
                 [termination |-> "outside_bsdf_support", blocked |-> {}])
    BY FinishedCall
  <2>3. QED BY <2>1, <2>2 DEF scatters
<1>3. ASSUME NEW event \in allowed_events(c, surface),
             q.beta.events = Append(b.events, event),
             q.depth_counters = advanced_counters(c, event),
             q.delta_flags = next_delta_flags(f, event),
             \/ t = "zero_throughput" /\ q.beta.black
             \/ t = "none" /\ ~q.beta.black
             \/ /\ t = "russian_roulette" /\ ~q.beta.black
                /\ eligible(path_depth_total(q.depth_counters))
      PROVE  scatters(p, surface, r)
  <2> DEFINE black == q.beta.black
             es == Append(b.events, event)
             nc == advanced_counters(c, event)
             nf == next_delta_flags(f, event)
             m == Scalar!scattered(p, event, black)
  <2>1. /\ q.beta = [events |-> es, black |-> black] /\ black \in BOOLEAN
        /\ q.depth_counters = nc /\ q.delta_flags = nf
    <3>1. q.beta = [events |-> q.beta.events, black |-> q.beta.black] /\ black \in BOOLEAN
      BY DEF Written, Beta
    <3>2. QED BY <1>3, <3>1
  <2>2. path_depth_total(nc) = Len(es)
    <3>1. event \in SurfaceEvent /\ accepted(c, event) BY AllowedEvent
    <3>2. b.events \in Seq(SurfaceEvent) BY DEF Beta
    <3>3. QED BY <3>1, <3>2, BookedScatter
  <2>3. m = call("closest_hit", q.beta, R, nc, nf, None, None)
    BY <2>1, <2>2, ScatteredCall
  <2>4. m.depth = path_depth_total(q.depth_counters)
    BY <2>1, <2>2, <2>3 DEF call
  <2>5. event \in Scalar!allowed_events(p.depth_counters, surface)
    BY <1>1, SameScalarBookkeeping
  <2>6. booked(q.beta.events, nc, nf) BY <2>1 DEF Written
  <2> HIDE DEF black, m, p, es, nc, nf
  <2>7. \A reason : Scalar!finish(m, reason, {})
           = call("returned", q.beta, R, nc, nf, None, [termination |-> reason, blocked |-> {}])
    BY <2>3, <2>6, FinishedCall
  <2>8. t # "none" => r = Scalar!finish(m, t, {}) BY <2>1, <2>7 DEF onward_call
  <2>9. t = "none" => r = m BY <2>1, <2>3 DEF onward_call
  <2> HIDE DEF r
  <2>10. \/ black /\ r = Scalar!finish(m, "zero_throughput", {})
         \/ ~black /\ r = m
         \/ ~black /\ Scalar!eligible(m.depth) /\ r = Scalar!finish(m, "russian_roulette", {})
    <3>1. CASE t = "zero_throughput" /\ q.beta.black
      BY <2>8, <3>1 DEF black
    <3>2. CASE t = "none" /\ ~q.beta.black
      BY <2>9, <3>2 DEF black
    <3>3. CASE /\ t = "russian_roulette" /\ ~q.beta.black
               /\ eligible(path_depth_total(q.depth_counters))
      <4>1. Scalar!eligible(m.depth) BY <2>4, <3>3, SameScalarBookkeeping
      <4>2. QED BY <2>8, <3>3, <4>1 DEF black
    <3>4. QED BY <1>3, <3>1, <3>2, <3>3
  <2>11. QED BY <2>1, <2>5, <2>10 DEF scatters, m
<1>4. QED BY <1>2, <1>3 DEF Onward

------------------------------------------------------
(* What a lane of the running trace is, by its phase: one that waits for
   its shadow ray keeps the throughput it arrived with, and has gone onward
   from there. *)
Waiting(q) ==
    LET b == q.pending.beta
    IN  /\ Written(q)
        /\ q.hit \in Surfaces
        /\ b \in Beta
        /\ booked(b.events, counters_of(b.events), flags_of(b.events))
        /\ Onward(q, b, q.hit, q.pending.termination)

Underway(q) ==
    /\ q.phase \notin {"empty", "camera"}
    /\ q.phase \in {"ray", "miss", "hit", "shade", "continuation"} =>
          Written(q) /\ q.pending = None
    /\ q.phase \in {"hit", "shade"} => q.hit \in Surfaces
    /\ q.phase = "shadow" => Waiting(q)

(* A slot of the trace is written before any kernel but the first two takes
   it; the other slots were never written by the trace. *)
Traced(s, q) ==
    /\ q.owner \in 0 .. trace
    /\ mine(q) => s < count /\ Underway(q)
    /\ ~mine(q) /\ s < count => q.phase \in {"empty", "camera", "terminated"}

(* What a thread makes of the call of its slot: nothing, a step of the
   loop, or the error of a calculation that cannot be represented. *)
follows(p, r) == r = p \/ moves(p, r) \/ gives_up(p, r)

(* A stage that only passes the lane on leaves the call where it is. *)
LEMMA PassedOn ==
  ASSUME NEW s, NEW q, mine(q), Traced(s, q), Written(q), q.pending = None,
         q.phase # "terminated",
         NEW m, m.phase \in {"ray", "miss", "hit", "shade", "continuation"},
         m.phase \in {"hit", "shade"} => m.hit \in Surfaces,
         m.blocked = q.blocked, m.beta = q.beta, m.radiance = q.radiance,
         m.depth_counters = q.depth_counters, m.delta_flags = q.delta_flags,
         m.previous = q.previous, m.pending = q.pending, m.owner = q.owner
  PROVE  Traced(s, m) /\ follows(device_call(s, q), device_call(s, m))
<1>1. Written(m) BY StillWritten
<1>2. mine(m) BY DEF mine
<1>3. Traced(s, m) BY <1>1, <1>2 DEF Traced, Underway
<1>4. device_call(s, m) = device_call(s, q) BY <1>2, DeviceGoing
<1>5. QED BY <1>3, <1>4 DEF follows

(* A lane that is over stays what it is. *)
LEMMA TracedOver ==
  ASSUME NEW s, NEW q, mine(q), Traced(s, q), NEW m, m.phase = "terminated", m.owner = q.owner
  PROVE  Traced(s, m) /\ mine(m) /\ s < count
  BY DEF Traced, Underway, mine

(* miss_stage_kernel is the scalar loop's escape. *)
LEMMA MissEscapes ==
  ASSUME NEW s, NEW q, Shape(q), mine(q), Traced(s, q), q.phase = "miss"
  PROVE  LET m == Cuda!ended(Cuda!Weigh(q, "environment", q.beta), "escaped_environment", {})
         IN  Traced(s, m) /\ follows(device_call(s, q), device_call(s, m))
<1> DEFINE w == Cuda!Weigh(q, "environment", q.beta)
           m == Cuda!ended(w, "escaped_environment", {})
           R == Append(q.radiance, <<"environment", Len(q.beta.events)>>)
           p == call("closest_hit", q.beta, q.radiance, q.depth_counters, q.delta_flags, None, None)
           t == [termination |-> "escaped_environment", blocked |-> {}]
<1>1. Written(q) /\ q.pending = None BY DEF Traced, Underway
<1>2. /\ Shape(w) /\ w.beta = q.beta /\ w.radiance = R
      /\ w.depth_counters = q.depth_counters /\ w.delta_flags = q.delta_flags
      /\ w.pending = q.pending /\ w.owner = q.owner
  BY WeighLane
<1> HIDE DEF w
<1>3. /\ m.phase = "terminated" /\ m.termination = "escaped_environment" /\ m.blocked = {}
      /\ m.beta = q.beta /\ m.radiance = R
      /\ m.depth_counters = q.depth_counters /\ m.delta_flags = q.delta_flags
      /\ m.pending = None /\ m.owner = q.owner
  BY <1>1, <1>2, EndedLane
<1> HIDE DEF m, R
<1>4. Traced(s, m) /\ mine(m) /\ s < count BY <1>3, TracedOver
<1>5. device_call(s, q) = p BY <1>1, DeviceGoing
<1>6. device_call(s, m) = call("returned", q.beta, R, q.depth_counters, q.delta_flags, None, t)
  BY <1>3, <1>4, DeviceOver
<1>7. Scalar!Weigh(p, "environment")
        = call("closest_hit", q.beta, R, q.depth_counters, q.delta_flags, None, None)
  BY WeighedCall DEF R
<1>8. booked(q.beta.events, q.depth_counters, q.delta_flags) BY <1>1 DEF Written
<1>9. Scalar!finish(Scalar!Weigh(p, "environment"), "escaped_environment", {})
        = call("returned", q.beta, R, q.depth_counters, q.delta_flags, None, t)
  BY <1>7, <1>8, FinishedCall
<1>10. p.at = "closest_hit" BY DEF call
<1> HIDE DEF p
<1>11. escapes(device_call(s, q), device_call(s, m))
  BY <1>5, <1>6, <1>9, <1>10 DEF escapes
<1>12. QED BY <1>4, <1>11 DEF follows, moves, m, w

(* On a written lane the device's depth filter is the one of the loop. *)
LEMMA SameFilter ==
  ASSUME LimitsCountable, NEW q, Written(q), NEW surface \in Surfaces
  PROVE  /\ ~Scalar!filter_fails(q.depth_counters, surface)
         /\ Scalar!allowed_events(q.depth_counters, surface)
              = Cuda!unblocked_events(q.depth_counters, surface)
         /\ allowed_events(q.depth_counters, surface)
              = Cuda!unblocked_events(q.depth_counters, surface)
         /\ Scalar!blocked_lobes(q.depth_counters, surface)
              = Cuda!blocked_lobes(q.depth_counters, surface)
<1> DEFINE c == q.depth_counters
<1>1. c \in [Category -> Nat] /\ validate_path_depth_state(c, path_depth_total(c))
  BY WrittenCounts
<1> HIDE DEF c
<1>2. \A e \in surface : accepted(c, e) <=> blocked_limits(c, e) = {}
  <2> TAKE e \in surface
  <2>1. e \in SurfaceEvent BY TransportAssumption
  <2>2. blocked_limits(c, e) = {} => accepted(c, e)
    BY <1>1, <2>1, UnblockedCounts
  <2>3. QED BY <2>2 DEF accepted
<1>3. ~filter_fails(c, surface) BY <1>1, <1>2 DEF filter_fails
<1>4. allowed_events(c, surface) = Cuda!unblocked_events(c, surface)
  BY <1>2, SameDeviceBookkeeping DEF allowed_events, Cuda!unblocked_events
<1>5. QED BY <1>3, <1>4, SameScalarBookkeeping, SameDeviceBookkeeping DEF c

(* The scalar call of a lane at a surface, with its emission. *)
LEMMA EmittedCall ==
  ASSUME NEW s, NEW q, Shape(q), mine(q), Traced(s, q), q.phase = "shade"
  PROVE  LET p == device_call(s, q)
             e == Cuda!emitted(q)
         IN  /\ Shape(e) /\ Written(e) /\ Written(q) /\ q.pending = None /\ q.hit \in Surfaces
             /\ e.beta = q.beta /\ e.hit = q.hit /\ e.owner = q.owner /\ e.pending = None
             /\ e.depth_counters = q.depth_counters /\ e.delta_flags = q.delta_flags
             /\ p.at = "closest_hit" /\ p.beta = q.beta /\ p.depth_counters = q.depth_counters
             /\ Scalar!Weigh(p, "emission")
                  = call("closest_hit", q.beta, e.radiance, q.depth_counters, q.delta_flags,
                         None, None)
<1> DEFINE e == Cuda!emitted(q)
           p == call("closest_hit", q.beta, q.radiance, q.depth_counters, q.delta_flags, None, None)
<1>1. Written(q) /\ q.pending = None /\ q.hit \in Surfaces
  BY DEF Traced, Underway
<1>2. /\ Shape(e) /\ e.hit = q.hit /\ e.owner = q.owner /\ e.pending = q.pending
      /\ e.blocked = q.blocked /\ e.beta = q.beta /\ e.previous = q.previous
      /\ e.radiance = Append(q.radiance, <<"emission", Len(q.beta.events)>>)
      /\ e.depth_counters = q.depth_counters /\ e.delta_flags = q.delta_flags
  BY WeighLane DEF Cuda!emitted
<1> HIDE DEF e
<1>3. Written(e) BY <1>1, <1>2, StillWritten
<1>4. device_call(s, q) = p BY <1>1, DeviceGoing
<1>5. p.at = "closest_hit" /\ p.beta = q.beta /\ p.depth_counters = q.depth_counters
  BY DEF call
<1>6. Scalar!Weigh(p, "emission")
        = call("closest_hit", q.beta, e.radiance, q.depth_counters, q.delta_flags, None, None)
  BY <1>2, WeighedCall
<1> HIDE DEF p
<1>7. QED BY <1>1, <1>2, <1>3, <1>4, <1>5, <1>6 DEF e

(* shade_stage_kernel up to the depth filter ends the path as the loop does. *)
LEMMA TerminalEnds ==
  ASSUME LimitsCountable, NEW i, NEW s, s = Cuda!work_slot(i), Shape(lane[s]), mine(lane[s]),
         Traced(s, lane[s]), lane[s].phase = "shade", Cuda!shade_terminal(i)
  PROVE  \E m, o : /\ Step(i, m, o) /\ Traced(s, m)
                   /\ follows(device_call(s, lane[s]), device_call(s, m))
<1> DEFINE q == lane[s]
           e == Cuda!emitted(q)
           p == device_call(s, q)
           w == Scalar!Weigh(p, "emission")
           over(t, b) == Cuda!ended(e, t, b)
<1>1. \/ q.beta.black /\ Cuda!leave(i, over("zero_throughput", {}), "terminated")
      \/ /\ ~q.beta.black
         /\ Cuda!unblocked_events(e.depth_counters, q.hit) = {}
         /\ \/ q.hit = {} /\ Cuda!leave(i, over("outside_bsdf_support", {}), "terminated")
            \/ /\ q.hit # {}
               /\ Cuda!leave(i, over("depth_limit", Cuda!blocked_lobes(e.depth_counters, q.hit)),
                             "terminated")
  <2>1. e.beta = q.beta BY EmittedCall
  <2> HIDE DEF e
  <2>2. QED BY <2>1 DEF Cuda!shade_terminal, e
<1>2. /\ Shape(e) /\ Written(e) /\ Written(q) /\ q.hit \in Surfaces
      /\ e.beta = q.beta /\ e.owner = q.owner /\ e.pending = None
      /\ e.depth_counters = q.depth_counters /\ e.delta_flags = q.delta_flags
      /\ p.at = "closest_hit"
      /\ w = call("closest_hit", q.beta, e.radiance, q.depth_counters, q.delta_flags, None, None)
  BY EmittedCall
<1> HIDE DEF e, p, w
<1>3. w.beta = q.beta /\ w.depth_counters = q.depth_counters BY <1>2 DEF call
<1>4. ASSUME NEW t, t # "none", NEW b, Cuda!leave(i, over(t, b), "terminated"),
             Scalar!finish(w, t, b) = device_call(s, over(t, b))
                => ends_at(p, q.hit, device_call(s, over(t, b)))
      PROVE  \E m, o : Step(i, m, o) /\ Traced(s, m) /\ follows(p, device_call(s, m))
  <2> DEFINE m == over(t, b)
  <2>1. /\ m.phase = "terminated" /\ m.termination = t /\ m.blocked = b
        /\ m.beta = q.beta /\ m.radiance = e.radiance
        /\ m.depth_counters = q.depth_counters /\ m.delta_flags = q.delta_flags
        /\ m.pending = None /\ m.owner = q.owner
    BY <1>2, EndedLane
  <2>2. Step(i, m, Routed("terminated")) BY <1>4, LeaveStep
  <2> HIDE DEF over
  <2>3. Traced(s, m) /\ mine(m) /\ s < count BY <2>1, TracedOver
  <2>4. device_call(s, m)
          = call("returned", q.beta, e.radiance, q.depth_counters, q.delta_flags, None,
                 [termination |-> t, blocked |-> b])
    BY <1>4, <2>1, <2>3, DeviceOver
  <2>5. booked(q.beta.events, q.depth_counters, q.delta_flags)
    BY <1>2 DEF Written
  <2>6. Scalar!finish(w, t, b) = device_call(s, m)
    BY <1>2, <2>4, <2>5, FinishedCall
  <2>7. follows(p, device_call(s, m)) BY <1>2, <1>4, <2>6 DEF follows, moves
  <2>8. QED BY <2>2, <2>3, <2>7
<1>5. /\ ~Scalar!filter_fails(w.depth_counters, q.hit)
      /\ Scalar!allowed_events(w.depth_counters, q.hit)
           = Cuda!unblocked_events(e.depth_counters, q.hit)
      /\ Scalar!blocked_lobes(w.depth_counters, q.hit)
           = Cuda!blocked_lobes(e.depth_counters, q.hit)
  BY <1>2, <1>3, SameFilter
<1>6. \E m, o : Step(i, m, o) /\ Traced(s, m) /\ follows(p, device_call(s, m))
  <2> HIDE DEF over, q
  <2>1. CASE q.beta.black /\ Cuda!leave(i, over("zero_throughput", {}), "terminated")
    <3>1. ASSUME NEW r, Scalar!finish(w, "zero_throughput", {}) = r PROVE ends_at(p, q.hit, r)
      BY <1>2, <1>3, <2>1, <3>1 DEF ends_at, w
    <3>2. QED BY <1>4, <2>1, <3>1
  <2>2. CASE /\ ~q.beta.black
             /\ q.hit = {} /\ Cuda!leave(i, over("outside_bsdf_support", {}), "terminated")
    <3>1. ASSUME NEW r, Scalar!finish(w, "outside_bsdf_support", {}) = r
          PROVE  ends_at(p, q.hit, r)
      BY <1>2, <1>3, <1>5, <2>2, <3>1 DEF ends_at, w
    <3>2. QED BY <1>4, <2>2, <3>1
  <2>3. CASE /\ ~q.beta.black
             /\ Cuda!unblocked_events(e.depth_counters, q.hit) = {}
             /\ q.hit # {}
             /\ Cuda!leave(i, over("depth_limit", Cuda!blocked_lobes(e.depth_counters, q.hit)),
                           "terminated")
    <3> DEFINE b == Cuda!blocked_lobes(e.depth_counters, q.hit)
    <3>1. ASSUME NEW r, Scalar!finish(w, "depth_limit", b) = r PROVE ends_at(p, q.hit, r)
      BY <1>2, <1>3, <1>5, <2>3, <3>1 DEF ends_at, w
    <3> HIDE DEF b
    <3>2. QED BY <1>4, <2>3, <3>1 DEF b
  <2>4. QED BY <1>1, <2>1, <2>2, <2>3
<1>7. QED BY <1>6 DEF p

(* The end of the shade stage. With a light sample the call is at its light
   query and the lane holds what the loop decides after it; without one the
   call bounces. *)
LEMMA RoutedFollows ==
  ASSUME Cuda!CudaTransportAssumption, LimitsCountable,
         NEW i, NEW s, s = Cuda!work_slot(i), Shape(lane[s]), mine(lane[s]),
         Traced(s, lane[s]), lane[s].phase = "shade", ~lane[s].beta.black,
         Cuda!unblocked_events(lane[s].depth_counters, lane[s].hit) # {},
         NEW q, Shape(q), Written(q), q.radiance = Cuda!emitted(lane[s]).radiance,
         q.hit = lane[s].hit, q.owner = lane[s].owner,
         NEW t \in Ends, Onward(q, lane[s].beta, lane[s].hit, t),
         NEW light \in BOOLEAN, Cuda!route_shaded(i, q, light, t)
  PROVE  \E m, o : /\ Step(i, m, o) /\ Traced(s, m)
                   /\ follows(device_call(s, lane[s]), device_call(s, m))
<1> DEFINE l == lane[s]
           b == l.beta
           R == Cuda!emitted(l).radiance
           c == l.depth_counters
           f == l.delta_flags
           p == device_call(s, l)
           w == Scalar!Weigh(p, "emission")
           onward == t = "none"
           k == [beta |-> b, continuation |-> onward, termination |-> t]
           ws == [q EXCEPT !.pending = k,
                           !.flags = {"shadow"} \cup (IF onward THEN {"continuation"} ELSE {})]
           wc == [q EXCEPT !.pending = None, !.flags = {}]
           we == [q EXCEPT !.pending = None]
           ms == Cuda!finish_phase(ws, "shadow", "none")
           mc == Cuda!finish_phase(wc, "continuation", "none")
           me == Cuda!ended(we, t, {})
<1>1. \/ light /\ Cuda!leave(i, ms, "shadow")
      \/ ~light /\ onward /\ Cuda!leave(i, mc, "continuation")
      \/ ~light /\ ~onward /\ Cuda!leave(i, me, "terminated")
  BY DEF Cuda!route_shaded
<1>2. /\ Written(l) /\ l.hit \in Surfaces /\ p.at = "closest_hit"
      /\ p.beta = b /\ p.depth_counters = c
      /\ w = call("closest_hit", b, R, c, f, None, None)
  BY EmittedCall
<1>3. /\ b \in Beta /\ c = counters_of(b.events) /\ f = flags_of(b.events)
      /\ booked(b.events, c, f)
  BY <1>2 DEF Written, booked
<1>4. k \in Cuda!Pending /\ k # None /\ k.beta = b /\ k.termination = t
  <2>1. k \in Cuda!Pending /\ k.beta = b /\ k.termination = t
    BY <1>3, SameDeviceBookkeeping DEF Cuda!Pending, Ends
  <2> HIDE DEF k
  <2>2. QED BY <2>1 DEF Cuda!CudaTransportAssumption
<1>5. /\ Shape(ws) /\ ws.pending = k
      /\ ws.hit = q.hit /\ ws.blocked = q.blocked /\ ws.beta = q.beta /\ ws.radiance = q.radiance
      /\ ws.depth_counters = q.depth_counters /\ ws.delta_flags = q.delta_flags
      /\ ws.previous = q.previous /\ ws.owner = q.owner
  <2> HIDE DEF k
  <2>1. QED BY DEF Shape, Columns
<1>6. /\ Shape(wc) /\ wc.pending = None
      /\ wc.hit = q.hit /\ wc.blocked = q.blocked /\ wc.beta = q.beta /\ wc.radiance = q.radiance
      /\ wc.depth_counters = q.depth_counters /\ wc.delta_flags = q.delta_flags
      /\ wc.previous = q.previous /\ wc.owner = q.owner
  BY DEF Shape, Columns
<1>7. /\ Shape(we) /\ we.pending = None /\ we.beta = q.beta /\ we.radiance = q.radiance
      /\ we.depth_counters = q.depth_counters /\ we.delta_flags = q.delta_flags
      /\ we.owner = q.owner
  BY DEF Shape, Columns
<1> HIDE DEF ws, wc, we
<1>8. /\ ms.phase = "shadow" /\ ms.pending = k /\ ms.hit = q.hit
      /\ ms.blocked = q.blocked /\ ms.beta = q.beta /\ ms.radiance = q.radiance
      /\ ms.depth_counters = q.depth_counters /\ ms.delta_flags = q.delta_flags
      /\ ms.previous = q.previous /\ ms.owner = q.owner
  BY <1>5, FinishLane
<1>9. /\ mc.phase = "continuation" /\ mc.pending = None
      /\ mc.blocked = q.blocked /\ mc.beta = q.beta /\ mc.radiance = q.radiance
      /\ mc.depth_counters = q.depth_counters /\ mc.delta_flags = q.delta_flags
      /\ mc.previous = q.previous /\ mc.owner = q.owner
  BY <1>6, FinishLane
<1>10. /\ me.phase = "terminated" /\ me.termination = t /\ me.blocked = {}
       /\ me.pending = None /\ me.beta = q.beta /\ me.radiance = q.radiance
       /\ me.depth_counters = q.depth_counters /\ me.delta_flags = q.delta_flags
       /\ me.owner = q.owner
  BY <1>7, EndedLane
<1> HIDE DEF ms, mc, me, k
<1>11. Scalar!can_sample(p, l.hit)
  <2>1. /\ ~Scalar!filter_fails(c, l.hit)
        /\ Scalar!allowed_events(c, l.hit) = Cuda!unblocked_events(c, l.hit)
    BY <1>2, SameFilter
  <2> HIDE DEF p
  <2>2. QED BY <1>2, <2>1 DEF Scalar!can_sample
<1>12. scatters(w, l.hit, onward_call(q, R, t)) BY <1>2, <1>3, OnwardScatters
<1> HIDE DEF R, p, w
<1>13. CASE light /\ Cuda!leave(i, ms, "shadow")
  <2>1. Step(i, ms, Routed("shadow")) BY <1>13, LeaveStep
  <2>2. Written(ms) BY <1>8, StillWritten
  <2>3. Onward(ms, b, l.hit, t) BY <1>8 DEF Onward
  <2>4. Waiting(ms) BY <1>2, <1>3, <1>4, <1>8, <2>2, <2>3 DEF Waiting
  <2>5. Traced(s, ms) /\ mine(ms) BY <1>8, <2>4 DEF Traced, Underway, mine
  <2>6. device_call(s, ms) = call("occluded", b, R, c, f, l.hit, None)
    BY <1>3, <1>4, <1>8, <2>5, DeviceWaiting DEF R
  <2>7. [w EXCEPT !.at = "occluded", !.surface = l.hit]
          = call("occluded", b, R, c, f, l.hit, None)
    <3>1. [w EXCEPT !.at = "occluded", !.surface = l.hit]
            \in Locals("occluded", b, R, Len(b.events), c, f, l.hit, None)
      BY <1>2 DEF call, Locals
    <3>2. QED BY <3>1, OneCall
  <2>8. asks_for_light(p, l.hit, device_call(s, ms))
    BY <1>11, <2>6, <2>7 DEF asks_for_light, w
  <2>9. follows(p, device_call(s, ms)) BY <1>2, <2>8 DEF follows, moves
  <2>10. QED BY <2>1, <2>5, <2>9 DEF p
<1>14. ASSUME NEW m, NEW o, Step(i, m, o), Traced(s, m),
              device_call(s, m) = onward_call(q, R, t)
       PROVE  \E n, r : /\ Step(i, n, r) /\ Traced(s, n)
                        /\ follows(device_call(s, lane[s]), device_call(s, n))
  <2>1. bounces_unlit(p, l.hit, device_call(s, m))
    BY <1>11, <1>12, <1>14 DEF bounces_unlit, w
  <2>2. follows(p, device_call(s, m)) BY <1>2, <2>1 DEF follows, moves
  <2>3. QED BY <1>14, <2>2 DEF p
<1>15. CASE ~light /\ onward /\ Cuda!leave(i, mc, "continuation")
  <2>1. Step(i, mc, Routed("continuation")) BY <1>15, LeaveStep
  <2>2. Written(mc) BY <1>9, StillWritten
  <2>3. Traced(s, mc) /\ mine(mc) BY <1>9, <2>2 DEF Traced, Underway, mine
  <2>4. device_call(s, mc) = onward_call(q, R, t)
    BY <1>9, <1>15, <2>3, DeviceGoing DEF onward_call, R
  <2>5. QED BY <1>14, <2>1, <2>3, <2>4
<1>16. CASE ~light /\ ~onward /\ Cuda!leave(i, me, "terminated")
  <2>1. Step(i, me, Routed("terminated")) BY <1>16, LeaveStep
  <2>2. Traced(s, me) /\ mine(me) /\ s < count BY <1>10, TracedOver
  <2>3. device_call(s, me) = onward_call(q, R, t)
    BY <1>10, <1>16, <2>2, DeviceOver DEF onward_call, R
  <2>4. QED BY <1>14, <2>1, <2>2, <2>3
<1>17. QED BY <1>1, <1>13, <1>15, <1>16

(* shade_stage_kernel, from the light sample on. *)
LEMMA SampledFollows ==
  ASSUME Cuda!CudaTransportAssumption, LimitsCountable,
         NEW i, NEW s, s = Cuda!work_slot(i), Shape(lane[s]), mine(lane[s]),
         Traced(s, lane[s]), lane[s].phase = "shade", Cuda!shade_scatter(i)
  PROVE  \E m, o : /\ Step(i, m, o) /\ Traced(s, m)
                   /\ follows(device_call(s, lane[s]), device_call(s, m))
<1> DEFINE l == lane[s]
           e == Cuda!emitted(l)
           b == l.beta
           c == counters_of(b.events)
           f == flags_of(b.events)
           goal == \E m, o : /\ Step(i, m, o) /\ Traced(s, m)
                             /\ follows(device_call(s, lane[s]), device_call(s, m))
<1>1. /\ Shape(e) /\ Written(e) /\ Written(l) /\ l.hit \in Surfaces
      /\ e.beta = l.beta /\ e.hit = l.hit /\ e.owner = l.owner
      /\ e.depth_counters = l.depth_counters /\ e.delta_flags = l.delta_flags
  BY EmittedCall
<1>2. l.depth_counters = c /\ l.delta_flags = f BY <1>1 DEF Written, booked
<1> HIDE DEF e, l, goal
<1>3. ~b.black BY <1>1 DEF Cuda!shade_scatter, e, l
<1>4. PICK light \in BOOLEAN :
         \/ /\ Cuda!unblocked_events(c, l.hit) # {}
            /\ Cuda!route_shaded(i, e, light, "outside_bsdf_support")
         \/ \E event \in Cuda!unblocked_events(c, l.hit), black \in BOOLEAN :
               LET n == Cuda!scattered(e, event, black)
               IN  \/ black /\ Cuda!route_shaded(i, n, light, "zero_throughput")
                   \/ ~black /\ Cuda!route_shaded(i, n, light, "none")
                   \/ /\ ~black /\ Cuda!eligible(Cuda!path_depth_total(n.depth_counters))
                      /\ Cuda!route_shaded(i, n, light, "russian_roulette")
  BY <1>1, <1>2 DEF Cuda!shade_scatter, e, l
<1>5. CASE /\ Cuda!unblocked_events(c, l.hit) # {}
           /\ Cuda!route_shaded(i, e, light, "outside_bsdf_support")
  <2>1. "outside_bsdf_support" \in Ends BY DEF Ends
  <2>2. Onward(e, b, l.hit, "outside_bsdf_support") BY <1>1, <1>2 DEF Onward
  <2>3. goal BY <1>1, <1>2, <1>3, <1>5, <2>1, <2>2, RoutedFollows DEF goal, e, l
  <2>4. QED BY <2>3 DEF goal
<1>6. ASSUME NEW event \in Cuda!unblocked_events(c, l.hit), NEW black \in BOOLEAN,
             NEW t \in Ends, Cuda!route_shaded(i, Cuda!scattered(e, event, black), light, t),
             \/ t = "zero_throughput" /\ black
             \/ t = "none" /\ ~black
             \/ /\ t = "russian_roulette" /\ ~black
                /\ Cuda!eligible(Cuda!path_depth_total(
                                    Cuda!scattered(e, event, black).depth_counters))
      PROVE  goal
  <2> DEFINE n == Cuda!scattered(e, event, black)
  <2>1. /\ event \in SurfaceEvent /\ blocked_limits(c, event) = {}
        /\ event \in allowed_events(c, l.hit)
    <3>1. event \in allowed_events(c, l.hit) BY <1>1, <1>2, SameFilter
    <3>2. QED BY <1>1, <3>1, AllowedEvent DEF accepted
  <2>2. /\ n.beta = [events |-> Append(b.events, event), black |-> black]
        /\ n.radiance = e.radiance /\ n.hit = l.hit /\ n.owner = l.owner
        /\ n.depth_counters = advanced_counters(c, event)
        /\ n.delta_flags = next_delta_flags(f, event)
    BY <1>1, <1>2, ScatterLane
  <2>3. Shape(n) /\ Written(n) BY <1>1, <1>2, <2>1, BouncedLane
  <2>4. \/ t = "zero_throughput" /\ black
        \/ t = "none" /\ ~black
        \/ /\ t = "russian_roulette" /\ ~black
           /\ eligible(path_depth_total(n.depth_counters))
    BY <1>6, SameDeviceBookkeeping DEF Cuda!eligible, eligible
  <2>5. Cuda!route_shaded(i, n, light, t) BY <1>6
  <2> HIDE DEF n, c, f
  <2>6. n.beta.events = Append(b.events, event) /\ n.beta.black = black BY <2>2
  <2>7. Onward(n, b, l.hit, t) BY <2>1, <2>2, <2>4, <2>6 DEF Onward, c, f
  <2>8. Cuda!unblocked_events(l.depth_counters, l.hit) # {} BY <1>2
  <2>9. QED BY <1>1, <1>3, <2>2, <2>3, <2>5, <2>7, <2>8, RoutedFollows DEF goal, e, l
<1>7. CASE \E event \in Cuda!unblocked_events(c, l.hit), black \in BOOLEAN :
              LET n == Cuda!scattered(e, event, black)
              IN  \/ black /\ Cuda!route_shaded(i, n, light, "zero_throughput")
                  \/ ~black /\ Cuda!route_shaded(i, n, light, "none")
                  \/ /\ ~black /\ Cuda!eligible(Cuda!path_depth_total(n.depth_counters))
                     /\ Cuda!route_shaded(i, n, light, "russian_roulette")
  <2>1. "zero_throughput" \in Ends /\ "none" \in Ends /\ "russian_roulette" \in Ends
    BY DEF Ends
  <2> HIDE DEF c
  <2>2. goal BY <1>6, <1>7, <2>1
  <2>3. QED BY <2>2 DEF goal
<1>8. QED BY <1>4, <1>5, <1>7

(* process_shadow_kernel: the answer of the shadow ray, and what the lane
   holds of the bounce. *)
LEMMA ShadowFollows ==
  ASSUME NEW i, NEW s, s = Cuda!work_slot(i), Shape(lane[s]), mine(lane[s]),
         Traced(s, lane[s]), lane[s].phase = "shadow",
         Cuda!pending_consistent(lane[s]), Cuda!process_shadow(i)
  PROVE  \E m, o : /\ Step(i, m, o) /\ Traced(s, m)
                   /\ follows(device_call(s, lane[s]), device_call(s, m))
<1> DEFINE q == lane[s]
           b == q.pending.beta
           t == q.pending.termination
           c == counters_of(b.events)
           f == flags_of(b.events)
           p == call("occluded", b, q.radiance, c, f, q.hit, None)
<1>1. /\ Written(q) /\ q.hit \in Surfaces /\ b \in Beta /\ booked(b.events, c, f)
      /\ Onward(q, b, q.hit, t)
      /\ q.pending # None /\ (q.pending.continuation <=> t = "none")
  BY DEF Traced, Underway, Waiting, Cuda!pending_consistent
<1>2. PICK visible \in BOOLEAN :
         LET m == [(IF visible THEN Cuda!Weigh(q, "direct", b) ELSE q)
                      EXCEPT !.pending = None, !.flags = {}]
         IN  IF q.pending.continuation
             THEN Cuda!leave(i, Cuda!finish_phase(m, "continuation", "none"), "continuation")
             ELSE Cuda!leave(i, Cuda!finish_phase(m, "terminated", t), "terminated")
  BY DEF Cuda!process_shadow
<1> DEFINE v == IF visible THEN Cuda!Weigh(q, "direct", b) ELSE q
           m == [v EXCEPT !.pending = None, !.flags = {}]
           mc == Cuda!finish_phase(m, "continuation", "none")
           mt == Cuda!finish_phase(m, "terminated", t)
           R == v.radiance
           w == IF visible THEN Scalar!Weigh(p, "direct") ELSE p
<1>3. \/ t = "none" /\ Cuda!leave(i, mc, "continuation")
      \/ t # "none" /\ Cuda!leave(i, mt, "terminated")
  BY <1>1, <1>2
<1>4. device_call(s, q) = p BY <1>1, DeviceWaiting
<1> HIDE DEF q
<1>5. /\ Shape(v) /\ v.blocked = q.blocked /\ v.beta = q.beta
      /\ v.depth_counters = q.depth_counters /\ v.delta_flags = q.delta_flags
      /\ v.previous = q.previous /\ v.owner = q.owner
      /\ w = call("occluded", b, R, c, f, q.hit, None)
  <2>0. Shape(q) BY DEF q
  <2>1. CASE visible
    <3>1. Scalar!Weigh(p, "direct")
            = call("occluded", b, Append(q.radiance, <<"direct", Len(b.events)>>), c, f,
                   q.hit, None)
      BY WeighedCall
    <3>2. v = Cuda!Weigh(q, "direct", b) /\ w = Scalar!Weigh(p, "direct")
      BY <2>1
    <3> HIDE DEF v, w, p
    <3>3. /\ Shape(v) /\ v.blocked = q.blocked /\ v.beta = q.beta
          /\ v.radiance = Append(q.radiance, <<"direct", Len(b.events)>>)
          /\ v.depth_counters = q.depth_counters /\ v.delta_flags = q.delta_flags
          /\ v.previous = q.previous /\ v.owner = q.owner
      BY <2>0, <3>2, WeighLane
    <3>4. QED BY <3>1, <3>2, <3>3
  <2>2. CASE ~visible
    BY <2>0, <2>2
  <2>3. QED BY <2>1, <2>2
<1>6. p.at = "occluded" /\ p.surface = q.hit BY DEF call
<1> HIDE DEF v
<1>7. /\ Shape(m) /\ m.pending = None /\ m.blocked = q.blocked /\ m.beta = q.beta
      /\ m.radiance = R
      /\ m.depth_counters = q.depth_counters /\ m.delta_flags = q.delta_flags
      /\ m.previous = q.previous /\ m.owner = q.owner
  BY <1>5 DEF Shape, Columns
<1> HIDE DEF m, R
<1>8. /\ mc.phase = "continuation" /\ mc.pending = None
      /\ mc.blocked = q.blocked /\ mc.beta = q.beta /\ mc.radiance = R
      /\ mc.depth_counters = q.depth_counters /\ mc.delta_flags = q.delta_flags
      /\ mc.previous = q.previous /\ mc.owner = q.owner
  BY <1>7, FinishLane
<1>9. /\ mt.phase = "terminated" /\ mt.termination = t /\ mt.blocked = {}
      /\ mt.pending = None /\ mt.beta = q.beta /\ mt.radiance = R
      /\ mt.depth_counters = q.depth_counters /\ mt.delta_flags = q.delta_flags
      /\ mt.owner = q.owner
  BY <1>1, <1>7, FinishLane DEF Written
<1> HIDE DEF mc, mt
<1>10. scatters(w, q.hit, onward_call(q, R, t)) BY <1>1, <1>5, OnwardScatters
<1> HIDE DEF w, p
<1>11. ASSUME NEW n, NEW o, Step(i, n, o), Traced(s, n), device_call(s, n) = onward_call(q, R, t)
       PROVE  \E x, y : /\ Step(i, x, y) /\ Traced(s, x)
                        /\ follows(device_call(s, lane[s]), device_call(s, x))
  <2>1. bounces_lit(p, device_call(s, n))
    BY <1>6, <1>10, <1>11 DEF bounces_lit, w
  <2>2. follows(p, device_call(s, n)) BY <2>1 DEF follows, moves
  <2>3. QED BY <1>4, <1>11, <2>2 DEF q
<1>12. mine(q) /\ Traced(s, q) BY DEF q
<1>13. CASE t = "none" /\ Cuda!leave(i, mc, "continuation")
  <2>1. Step(i, mc, Routed("continuation")) BY <1>13, LeaveStep
  <2>2. Written(mc) BY <1>1, <1>8, StillWritten
  <2>3. Traced(s, mc) /\ mine(mc)
    BY <1>8, <1>12, <2>2 DEF Traced, Underway, mine
  <2>4. device_call(s, mc) = onward_call(q, R, t)
    BY <1>8, <1>13, <2>3, DeviceGoing DEF onward_call
  <2>5. QED BY <1>11, <2>1, <2>3, <2>4
<1>14. CASE t # "none" /\ Cuda!leave(i, mt, "terminated")
  <2>1. Step(i, mt, Routed("terminated")) BY <1>14, LeaveStep
  <2>2. Traced(s, mt) /\ mine(mt) /\ s < count BY <1>9, <1>12, TracedOver
  <2>3. device_call(s, mt) = onward_call(q, R, t)
    BY <1>9, <1>14, <2>2, DeviceOver DEF onward_call
  <2>4. QED BY <1>11, <2>1, <2>2, <2>3
<1>15. QED BY <1>3, <1>13, <1>14

(* The lanes while the traces run: only a trace that began has a kernel, the
   camera kernel only takes slots of its paths, and each lane is what its
   phase says when the trace owns it. *)
TracedInv ==
    /\ trace \in Nat /\ count \in Nat
    /\ kernel \in Kind \cup {"none", "camera_seed"}
    /\ trace = 0 => at = "idle" /\ kernel = "none"
    /\ kernel = "camera" => \A i \in DOMAIN outcomes : queue["camera"][i] \in 0 .. count - 1
    /\ \A s \in Cuda!Slot : Traced(s, lane[s])

(* A kernel past the camera stage finds only what the trace wrote in the
   slots of its paths; what it finds beyond them is of no call. *)
LEMMA BeyondTrace ==
  ASSUME NEW s, NEW q, ~mine(q), Traced(s, q), ~(s < count), NEW m, m.owner = q.owner
  PROVE  Traced(s, m) /\ follows(device_call(s, q), device_call(s, m))
<1>1. ~mine(m) BY DEF mine
<1>2. Traced(s, m) BY <1>1 DEF Traced
<1>3. device_call(s, m) = device_call(s, q) BY <1>1, DeviceNotYet
<1>4. QED BY <1>2, <1>3 DEF follows

(* The step of a thread, whether the host waits for it or not. *)
LEMMA ThreadFollows ==
  ASSUME Cuda!CudaTransportAssumption, LimitsCountable, TracedInv, NEW i, Cuda!Thread(i),
         NEW s \in Cuda!Slot, s = Cuda!work_slot(i), Shape(lane[s])
  PROVE  \E m, o : /\ Step(i, m, o) /\ Traced(s, m)
                   /\ follows(device_call(s, lane[s]), device_call(s, m))
<1> DEFINE q == lane[s]
           goal == \E m, o : /\ Step(i, m, o) /\ Traced(s, m)
                             /\ follows(device_call(s, q), device_call(s, m))
<1>1. /\ trace # 0 /\ trace \in Nat /\ Traced(s, q) /\ Shape(q) /\ i \in DOMAIN outcomes
      /\ kernel # "none"
  BY ThreadWorks DEF TracedInv
<1>2. \A k : Cuda!runs(k, i) => kernel = k /\ q.phase = Cuda!claimed_phase /\ Cuda!demands(q)
  BY DEF Cuda!runs, Cuda!claims
<1> SUFFICES goal
  OBVIOUS
<1>3. CASE Cuda!refuse_work(i)
  <2> DEFINE f == Cuda!finish_phase(q, "terminated", "none")
             m == IF Cuda!queue_refuses(i) = "none" /\ Cuda!claims(q, Cuda!claimed_phase)
                  THEN f ELSE q
  <2>1. PICK o : Step(i, m, o) BY <1>3 DEF Cuda!refuse_work, Step
  <2>2. f.phase = "terminated" /\ f.owner = q.owner BY <1>1, FinishLane
  <2>3. CASE ~(Cuda!queue_refuses(i) = "none" /\ Cuda!claims(q, Cuda!claimed_phase))
    <3>1. m = q BY <2>3
    <3>2. follows(device_call(s, q), device_call(s, q)) BY DEF follows
    <3>3. QED BY <1>1, <2>1, <3>1, <3>2
  <2>4. CASE Cuda!queue_refuses(i) = "none" /\ Cuda!claims(q, Cuda!claimed_phase)
    <3>1. m = f BY <2>4
    <3>2. q.phase # "terminated"
      <4>1. kernel # "terminated" BY DEF TracedInv, Kind
      <4>2. QED BY <2>4, <4>1 DEF Cuda!claims, Cuda!claimed_phase
    <3> HIDE DEF f, m
    <3>3. CASE s < count
      <4>1. Traced(s, f) BY <1>1, <2>2, <3>3 DEF Traced, Underway, mine
      <4>2. gives_up(device_call(s, q), device_call(s, f))
        BY <1>1, <3>2, <3>3, DeviceRefused DEF f
      <4>3. QED BY <2>1, <3>1, <4>1, <4>2 DEF follows
    <3>4. CASE ~(s < count)
      <4>1. ~mine(q) BY <1>1, <3>4 DEF Traced
      <4>2. Traced(s, f) /\ follows(device_call(s, q), device_call(s, f))
        BY <1>1, <2>2, <3>4, <4>1, BeyondTrace
      <4>3. QED BY <2>1, <3>1, <4>2
    <3>5. QED BY <3>3, <3>4
  <2>5. QED BY <2>3, <2>4
<1>4. CASE Cuda!seed_camera(i)
  <2> DEFINE w == [q EXCEPT !.flags = {}]
             m == Cuda!finish_phase(w, "camera", "none")
  <2>1. /\ kernel = "camera_seed" /\ q.phase = "empty"
        /\ Cuda!leave(i, m, "none")
    BY <1>2, <1>4 DEF Cuda!seed_camera, Cuda!claimed_phase, Cuda!work_slot, Cuda!runs
  <2>2. Shape(w) /\ w.owner = q.owner BY <1>1 DEF Shape, Columns
  <2> HIDE DEF w
  <2>3. m.phase = "camera" /\ m.owner = q.owner BY <2>2, FinishLane
  <2>4. Step(i, m, Routed("none")) BY <2>1, LeaveStep
  <2> HIDE DEF m
  <2>5. ~mine(q) /\ ~mine(m) BY <1>1, <2>1, <2>3 DEF Traced, Underway, mine
  <2>6. Traced(s, m) BY <1>1, <2>3, <2>5 DEF Traced
  <2>7. device_call(s, m) = device_call(s, q) BY <2>1, <2>3, <2>5, DeviceNotYet
  <2>8. QED BY <2>4, <2>6, <2>7 DEF follows
<1>5. CASE Cuda!camera_stage(i)
  <2> DEFINE b == s \in BlackInputs
             m == [Cuda!finish_phase(Cuda!Untouched, "ray", "none")
                      EXCEPT !.beta.black = b, !.owner = trace]
  <2>1. kernel = "camera" /\ q.phase = "camera" /\ Cuda!leave(i, m, "ray")
    BY <1>2, <1>5 DEF Cuda!camera_stage, Cuda!claimed_phase, Cuda!runs
  <2>2. /\ Ready("ray", m, 0) /\ m.beta = [events |-> << >>, black |-> b] /\ m.radiance = << >>
        /\ m.depth_counters = NoCounters /\ m.delta_flags = {}
        /\ m.pending = None /\ m.owner = trace
    <3>1. b \in BOOLEAN OBVIOUS
    <3> HIDE DEF q
    <3>2. QED BY <3>1, CameraLane
  <2>3. Step(i, m, Routed("ray")) BY <2>1, LeaveStep
  <2> HIDE DEF m
  <2>4. mine(m) /\ ~mine(q) BY <1>1, <2>1, <2>2 DEF mine, Traced, Underway
  <2>5. s < count
    <3>1. s = queue["camera"][i] BY <2>1 DEF Cuda!work_slot
    <3>2. s \in 0 .. count - 1 BY <1>1, <2>1, <3>1 DEF TracedInv
    <3>3. count \in Nat BY DEF TracedInv
    <3>4. QED BY <3>2, <3>3
  <2>6. Written(m) /\ m.phase = "ray" BY <2>2 DEF Ready
  <2>7. Traced(s, m) BY <1>1, <2>2, <2>4, <2>5, <2>6 DEF Traced, Underway
  <2>8. device_call(s, m) = call("closest_hit", m.beta, << >>, NoCounters, {}, None, None)
    BY <2>2, <2>4, <2>6, DeviceGoing
  <2>9. device_call(s, q) = call("closest_hit", [events |-> << >>, black |-> s \in BlackInputs],
                                 << >>, NoCounters, {}, None, None)
    BY <2>1, <2>4, DeviceNotYet
  <2>10. QED BY <2>2, <2>3, <2>7, <2>8, <2>9 DEF follows
<1>6. ASSUME ~Cuda!refuse_work(i), ~Cuda!seed_camera(i), ~Cuda!camera_stage(i), ~mine(q)
      PROVE  goal
  <2>1. kernel \in {"ray", "miss", "hit", "shade", "shadow", "continuation"} /\ q.phase = kernel
    <3>1. \E k \in {"ray", "miss", "hit", "shade", "shadow", "continuation"} : Cuda!runs(k, i)
      BY <1>6 DEF Cuda!Thread, Cuda!classify_closest_hit, Cuda!miss_stage, Cuda!hit_stage,
        Cuda!shade_terminal, Cuda!shade_scatter, Cuda!process_shadow, Cuda!continuation_stage
    <3>2. QED BY <1>2, <3>1 DEF Cuda!claimed_phase
  <2>2. ~(s < count) BY <1>1, <1>6, <2>1 DEF Traced
  <2>3. PICK m, o : Step(i, m, o) /\ m.owner = q.owner
    BY <1>1, <2>1, ThreadShapes
  <2>4. Traced(s, m) /\ follows(device_call(s, q), device_call(s, m))
    BY <1>1, <1>6, <2>2, <2>3, BeyondTrace
  <2>5. QED BY <2>3, <2>4
<1>7. ASSUME mine(q), Written(q), q.pending = None, q.phase # "terminated",
             NEW w, Shape(w), NEW phase \in {"ray", "miss", "hit", "shade", "continuation"},
             phase \in {"hit", "shade"} => w.hit \in Surfaces,
             w.blocked = q.blocked, w.beta = q.beta, w.radiance = q.radiance,
             w.depth_counters = q.depth_counters, w.delta_flags = q.delta_flags,
             w.previous = q.previous, w.pending = q.pending, w.owner = q.owner,
             NEW r, Cuda!leave(i, Cuda!finish_phase(w, phase, "none"), r)
      PROVE  goal
  <2> DEFINE m == Cuda!finish_phase(w, phase, "none")
  <2>1. /\ m.phase = phase /\ m.hit = w.hit
        /\ m.blocked = w.blocked /\ m.beta = w.beta /\ m.radiance = w.radiance
        /\ m.depth_counters = w.depth_counters /\ m.delta_flags = w.delta_flags
        /\ m.previous = w.previous /\ m.pending = w.pending /\ m.owner = w.owner
    BY <1>7, FinishLane
  <2>2. Step(i, m, Routed(r)) BY <1>7, LeaveStep
  <2> HIDE DEF m, q
  <2>3. Traced(s, q) BY <1>1 DEF q
  <2>4. Traced(s, m) /\ follows(device_call(s, q), device_call(s, m))
    BY <1>7, <2>1, <2>3, PassedOn
  <2>5. QED BY <2>2, <2>4
<1>8. CASE mine(q) /\ Cuda!classify_closest_hit(i)
  <2>1. q.phase = "ray"
    BY <1>2, <1>8 DEF Cuda!classify_closest_hit, Cuda!claimed_phase
  <2>2. Written(q) /\ q.pending = None BY <1>1, <1>8, <2>1 DEF Traced, Underway
  <2>3. CASE Cuda!leave(i, Cuda!finish_phase(q, "miss", "none"), "miss")
    BY <1>1, <1>7, <1>8, <2>1, <2>2, <2>3
  <2>4. ASSUME NEW surface \in Surfaces,
               Cuda!leave(i, Cuda!finish_phase([q EXCEPT !.hit = surface], "hit", "none"), "hit")
        PROVE  goal
    <3> DEFINE w == [q EXCEPT !.hit = surface]
    <3>1. /\ Shape(w) /\ w.hit = surface
          /\ w.blocked = q.blocked /\ w.beta = q.beta /\ w.radiance = q.radiance
          /\ w.depth_counters = q.depth_counters /\ w.delta_flags = q.delta_flags
          /\ w.previous = q.previous /\ w.pending = q.pending /\ w.owner = q.owner
      BY <1>1 DEF Shape, Columns
    <3>2. Cuda!leave(i, Cuda!finish_phase(w, "hit", "none"), "hit") BY <2>4
    <3> HIDE DEF w
    <3>3. QED BY <1>7, <1>8, <2>1, <2>2, <3>1, <3>2
  <2>5. QED BY <1>8, <2>3, <2>4 DEF Cuda!classify_closest_hit
<1>9. CASE mine(q) /\ Cuda!hit_stage(i)
  <2>1. q.phase = "hit" /\ Cuda!leave(i, Cuda!finish_phase(q, "shade", "none"), "shade")
    BY <1>2, <1>9 DEF Cuda!hit_stage, Cuda!claimed_phase
  <2>2. Written(q) /\ q.pending = None /\ q.hit \in Surfaces
    BY <1>1, <1>9, <2>1 DEF Traced, Underway
  <2>3. QED BY <1>1, <1>7, <1>9, <2>1, <2>2
<1>10. CASE mine(q) /\ Cuda!continuation_stage(i)
  <2>1. /\ q.phase = "continuation"
        /\ Cuda!leave(i, Cuda!finish_phase(q, "ray", "none"), "ray")
    BY <1>2, <1>10 DEF Cuda!continuation_stage, Cuda!claimed_phase
  <2>2. Written(q) /\ q.pending = None BY <1>1, <1>10, <2>1 DEF Traced, Underway
  <2>3. QED BY <1>1, <1>7, <1>10, <2>1, <2>2
<1>11. CASE mine(q) /\ Cuda!miss_stage(i)
  <2> DEFINE m == Cuda!ended(Cuda!Weigh(q, "environment", q.beta), "escaped_environment", {})
  <2>1. q.phase = "miss" /\ Cuda!leave(i, m, "terminated")
    BY <1>2, <1>11 DEF Cuda!miss_stage, Cuda!claimed_phase
  <2>2. Traced(s, m) /\ follows(device_call(s, q), device_call(s, m))
    BY <1>1, <1>11, <2>1, MissEscapes
  <2> HIDE DEF m
  <2>3. QED BY <2>1, <2>2, LeaveStep
<1>12. CASE mine(q) /\ Cuda!shade_terminal(i)
  <2>1. q.phase = "shade"
    BY <1>2, <1>12 DEF Cuda!shade_terminal, Cuda!claimed_phase
  <2>2. QED BY <1>1, <1>12, <2>1, TerminalEnds
<1>13. CASE mine(q) /\ Cuda!shade_scatter(i)
  <2>1. q.phase = "shade"
    BY <1>2, <1>13 DEF Cuda!shade_scatter, Cuda!claimed_phase
  <2>2. QED BY <1>1, <1>13, <2>1, SampledFollows
<1>14. CASE mine(q) /\ Cuda!process_shadow(i)
  <2>1. q.phase = "shadow" /\ Cuda!pending_consistent(q)
    BY <1>2, <1>14 DEF Cuda!process_shadow, Cuda!claimed_phase, Cuda!demands
  <2>2. QED BY <1>1, <1>14, <2>1, ShadowFollows
<1>15. QED
  BY <1>3, <1>4, <1>5, <1>6, <1>8, <1>9, <1>10, <1>11, <1>12, <1>13, <1>14 DEF Cuda!Thread

(* While the trace and its paths stay, only the lanes matter. *)
LEMMA TracedNext ==
  ASSUME trace' = trace, count' = count
  PROVE  /\ TracedInv' <=>
              /\ trace \in Nat /\ count \in Nat
              /\ kernel' \in Kind \cup {"none", "camera_seed"}
              /\ trace = 0 => at' = "idle" /\ kernel' = "none"
              /\ kernel' = "camera" =>
                    \A i \in DOMAIN outcomes' : queue'["camera"][i] \in 0 .. count - 1
              /\ \A s \in Cuda!Slot : Traced(s, lane'[s])
         /\ device_scalar' = [s \in Cuda!Slot |-> device_call(s, lane'[s])]
         /\ device_scalar = [s \in Cuda!Slot |-> device_call(s, lane[s])]
<1>1. TracedInv' <=>
         /\ trace \in Nat /\ count \in Nat
         /\ kernel' \in Kind \cup {"none", "camera_seed"}
         /\ trace = 0 => at' = "idle" /\ kernel' = "none"
         /\ kernel' = "camera" =>
               \A i \in DOMAIN outcomes' : queue'["camera"][i] \in 0 .. count - 1
         /\ \A s \in Cuda!Slot : Traced(s, lane'[s])
  BY DEF TracedInv, Traced, mine, Underway, Waiting, Onward, Written, booked, Kind
<1>2. \A s : Cuda!scalar_path(s)' = device_call(s, lane'[s])
  BY DEF Cuda!scalar_path, device_call, mine
<1>3. QED BY <1>1, <1>2, DeviceCall DEF device_scalar

(* A step of a thread makes at most a step of the call of its own slot. *)
LEMMA ThreadTraced ==
  ASSUME Cuda!CudaTransportAssumption, LimitsCountable, DeviceInv, TracedInv,
         NEW i, Cuda!Thread(i)
  PROVE  /\ TracedInv'
         /\ \/ device_scalar' = device_scalar
            \/ \E s \in Cuda!Slot : \E r :
                  /\ follows(device_scalar[s], r)
                  /\ device_scalar' = [device_scalar EXCEPT ![s] = r]
<1> DEFINE s == Cuda!work_slot(i)
<1>1. /\ lane = [x \in Cuda!Slot |-> lane[x]] /\ \A x \in Cuda!Slot : Shape(lane[x])
      /\ \A x \in Cuda!Slot : Traced(x, lane[x])
      /\ i \in DOMAIN outcomes /\ kernel # "none"
  BY ThreadWorks DEF DeviceInv, ShapeInv, TracedInv
<1>2. PICK m, o : /\ Step(i, m, o)
                  /\ s \in Cuda!Slot => /\ Traced(s, m)
                                        /\ follows(device_call(s, lane[s]), device_call(s, m))
  <2>1. CASE s \in Cuda!Slot
    BY <1>1, <2>1, ThreadFollows
  <2>2. CASE s \notin Cuda!Slot
    BY <2>2, ThreadWrites
  <2>3. QED BY <2>1, <2>2
<1>3. /\ lane' = [lane EXCEPT ![s] = m] /\ outcomes' = [outcomes EXCEPT ![i] = o]
      /\ queue' = queue /\ kernel' = kernel /\ at' = at /\ count' = count /\ trace' = trace
  BY <1>2 DEF Step
<1> HIDE DEF s
<1>4. \A x \in Cuda!Slot : lane'[x] = IF x = s THEN m ELSE lane[x] BY <1>1, <1>3
<1>5. DOMAIN outcomes' = DOMAIN outcomes BY <1>3
<1>6. TracedInv'
  <2>1. \A x \in Cuda!Slot : Traced(x, lane'[x]) BY <1>1, <1>2, <1>4
  <2>2. QED BY <1>3, <1>5, <2>1, TracedNext DEF TracedInv
<1>7. /\ device_scalar' = [x \in Cuda!Slot |-> device_call(x, lane'[x])]
      /\ device_scalar = [x \in Cuda!Slot |-> device_call(x, lane[x])]
  BY <1>3, TracedNext
<1>8. CASE s \in Cuda!Slot
  <2> DEFINE r == device_call(s, m)
  <2>1. device_scalar' = [device_scalar EXCEPT ![s] = r] BY <1>4, <1>7, <1>8
  <2>2. follows(device_scalar[s], r) BY <1>2, <1>7, <1>8
  <2>3. QED BY <1>6, <1>8, <2>1, <2>2
<1>9. CASE s \notin Cuda!Slot
  <2>1. device_scalar' = device_scalar BY <1>4, <1>7, <1>9
  <2>2. QED BY <1>6, <2>1
<1>10. QED BY <1>8, <1>9

(* A slot that no lane of the trace stands for is at the start of its call. *)
LEMMA FreshScalar ==
  \A s : Cuda!Scalar!Initial(s)
           = call("closest_hit", [events |-> << >>, black |-> s \in BlackInputs], << >>,
                  NoCounters, {}, None, None)
<1>1. Len(<< >>) = 0 OBVIOUS
<1>2. QED BY <1>1, SameScalarBookkeeping, SameDeviceScalar DEF call, Cuda!Scalar!Initial

(* A new trace owns none of the lanes yet: every call is at its start. *)
LEMMA TraceStarts ==
  ASSUME Cuda!CudaTransportAssumption, DeviceInv, TracedInv, Cuda!begin_trace
  PROVE  TracedInv' /\ Cuda!Scalar!Init'
<1> DEFINE zeroed(q) == [q EXCEPT !.phase = "empty", !.termination = "none",
                                  !.blocked = {}, !.flags = {}]
<1>1. PICK n \in 1 .. Capacity :
         /\ count' = n
         /\ lane' = [s \in Cuda!Slot |-> IF s < n THEN zeroed(lane[s]) ELSE lane[s]]
  BY DEF Cuda!begin_trace
<1>2. /\ kernel' = "none" /\ at' = "camera_seed" /\ trace' = trace + 1
      /\ trace \in Nat /\ count' \in Nat
  <2>1. n \in Nat BY DEF Cuda!CudaTransportAssumption
  <2>2. QED BY <1>1, <2>1 DEF Cuda!begin_trace, TracedInv
<1>3. \A s \in Cuda!Slot : /\ zeroed(lane[s]).phase = "empty"
                           /\ zeroed(lane[s]).owner = lane[s].owner
                           /\ lane[s].owner \in 0 .. trace
  BY DEF DeviceInv, ShapeInv, Shape, Columns, TracedInv, Traced
<1> HIDE DEF zeroed
<1>4. ASSUME NEW s \in Cuda!Slot
      PROVE  /\ lane'[s].owner \in 0 .. trace' /\ lane'[s].owner # trace'
             /\ s < count' => lane'[s].phase = "empty"
  <2>1. lane'[s].owner = lane[s].owner BY <1>1, <1>3
  <2>2. s < count' => lane'[s].phase = "empty" BY <1>1, <1>3
  <2>3. QED BY <1>2, <1>3, <2>1, <2>2
<1>5. TracedInv'
  <2>1. \A s \in Cuda!Slot : Traced(s, lane[s])' BY <1>4 DEF Traced, mine
  <2>2. trace' \in Nat /\ trace' # 0 BY <1>2
  <2>3. QED BY <1>2, <2>1, <2>2 DEF TracedInv
<1>6. ASSUME NEW s \in Cuda!Slot
      PROVE  Cuda!scalar_path(s)'
               = call("closest_hit", [events |-> << >>, black |-> s \in BlackInputs], << >>,
                      NoCounters, {}, None, None)
  <2> DEFINE b == [events |-> << >>, black |-> s \in BlackInputs]
             q == [Cuda!Untouched EXCEPT !.beta.black = s \in BlackInputs,
                                         !.phase = lane'[s].phase]
  <2>1. /\ q.pending = None /\ q.radiance = << >> /\ q.depth_counters = NoCounters
        /\ q.delta_flags = {} /\ q.phase = lane'[s].phase
    BY SameDeviceBookkeeping DEF Cuda!Untouched
  <2>2. q.beta = b BY DEF Cuda!Untouched
  <2>3. ~(lane'[s].phase = "terminated" /\ s < count') BY <1>4
  <2> HIDE DEF q, b
  <2>4. Cuda!scalar_path(s)' = call("closest_hit", b, << >>, NoCounters, {}, None, None)
    BY <1>4, <2>1, <2>2, <2>3 DEF Cuda!scalar_path, call, q
  <2>5. QED BY <2>4 DEF b
<1>7. Cuda!Scalar!Init' BY <1>6, FreshScalar DEF Cuda!Scalar!Init
<1>8. QED BY <1>5, <1>7

(* The host touches no lane of a trace that runs, and so no call. *)
LEMMA HostTraced ==
  ASSUME Cuda!CudaTransportAssumption, DeviceInv, TracedInv, Cuda!Host, ~Cuda!begin_trace
  PROVE  TracedInv' /\ device_scalar' = device_scalar
<1>1. /\ lane' = lane /\ count' = count /\ trace' = trace /\ at # "idle"
      /\ kernel' \in {kernel, "none", at}
  BY DEF Cuda!Host, Cuda!launch, Cuda!skip_stage, Cuda!audit_failure, Cuda!publish_seed,
    Cuda!compact_routes, Cuda!call_fails, Cuda!collect, Cuda!fails, Cuda!device, Kind,
    Cuda!Kind
<1>2. trace # 0 /\ at \in Kind \cup {"camera_seed"}
  BY <1>1 DEF TracedInv, DeviceInv, CleanInv
<1>3. ASSUME kernel' = "camera"
      PROVE  \A i \in DOMAIN outcomes' : queue'["camera"][i] \in 0 .. count - 1
  <2>1. CASE Cuda!launch /\ kernel = "none"
    <3>1. /\ at = "camera" /\ queue' = queue
          /\ outcomes' = [i \in 1 .. Len(queue["camera"]) |-> Cuda!Unset]
      BY <1>3, <2>1 DEF Cuda!launch
    <3>2. queue["camera"] \in Seq(0 .. count - 1)
      BY <3>1 DEF DeviceInv, PlaceInv, Kind
    <3>3. \A i \in 1 .. Len(queue["camera"]) : queue["camera"][i] \in 0 .. count - 1
      BY <3>2, ElementOfSeq
    <3>4. QED BY <3>1, <3>3
  <2>2. CASE Cuda!call_fails
    <3>1. kernel = "camera" /\ outcomes' = outcomes
      BY <1>3, <2>2 DEF Cuda!call_fails
    <3>2. queue'["camera"] = queue["camera"]
      <4>1. "camera" \in Cuda!Kind /\ "camera" \notin Cuda!ToSet(Cuda!routes("camera"))
        BY DEF Cuda!Kind, Cuda!routes, Cuda!ToSet
      <4>2. Cuda!compacted["camera"]
              = IF "camera" \in Cuda!ToSet(Cuda!routes(kernel))
                THEN queue["camera"] \o Cuda!selected("camera") ELSE queue["camera"]
        BY <4>1 DEF Cuda!compacted
      <4>3. QED BY <2>2, <3>1, <4>1, <4>2 DEF Cuda!call_fails
    <3>3. QED BY <3>1, <3>2 DEF TracedInv
  <2>3. CASE ~Cuda!launch /\ ~Cuda!call_fails
    <3>1. kernel' = "none"
      BY <2>3 DEF Cuda!Host, Cuda!skip_stage, Cuda!audit_failure, Cuda!publish_seed,
        Cuda!compact_routes, Cuda!collect, Cuda!device
    <3>2. QED BY <1>3, <3>1
  <2>4. QED BY <2>1, <2>2, <2>3 DEF Cuda!launch
<1>4. TracedInv' BY <1>1, <1>2, <1>3, TracedNext DEF TracedInv
<1>5. device_scalar' = device_scalar BY <1>1, TracedNext
<1>6. QED BY <1>4, <1>5

(* The end of a bounce of a slot's call is a step of the scalar loop's. *)
LEMMA DeviceScatterStep ==
  ASSUME NEW s \in Cuda!Slot, NEW q, NEW surface, NEW r, scatters(q, surface, r),
         device_scalar' = [device_scalar EXCEPT ![s] = r]
  PROVE  Cuda!Scalar!scatter(s, q, surface)
  BY SameDeviceScalar DEF scatters, device_scalar, Cuda!Scalar!scatter

(* What a thread makes of the call of its slot is a step of the scalar loop. *)
LEMMA FollowsIsStep ==
  ASSUME NEW s \in Cuda!Slot, NEW r, follows(device_scalar[s], r),
         device_scalar' = [device_scalar EXCEPT ![s] = r]
  PROVE  device_scalar' = device_scalar \/ Cuda!Scalar!Next
<1>1. CASE r = device_scalar[s]
  BY <1>1 DEF device_scalar
<1>2. CASE gives_up(device_scalar[s], r)
  <2>1. Cuda!Scalar!fail(s)
    BY <1>2 DEF gives_up, device_scalar, Cuda!Scalar!fail
  <2>2. QED BY <2>1 DEF Cuda!Scalar!Next
<1>3. CASE escapes(device_scalar[s], r)
  <2>1. Cuda!Scalar!escape(s)
    BY <1>3, SameDeviceScalar DEF escapes, device_scalar, Cuda!Scalar!escape
  <2>2. QED BY <2>1 DEF Cuda!Scalar!Next
<1>4. ASSUME NEW surface \in Surfaces, ends_at(device_scalar[s], surface, r)
      PROVE  Cuda!Scalar!Next
  <2>1. Cuda!Scalar!end_at_surface(s, surface)
    BY <1>4, SameDeviceScalar DEF ends_at, device_scalar, Cuda!Scalar!end_at_surface
  <2>2. QED BY <2>1 DEF Cuda!Scalar!Next
<1>5. ASSUME NEW surface \in Surfaces, bounces_unlit(device_scalar[s], surface, r)
      PROVE  Cuda!Scalar!Next
  <2>1. Cuda!Scalar!scatter(s, Scalar!Weigh(device_scalar[s], "emission"), surface)
    BY <1>5, DeviceScatterStep DEF bounces_unlit
  <2>2. Cuda!Scalar!bounce_unlit(s, surface)
    BY <1>5, <2>1, SameDeviceScalar DEF bounces_unlit, device_scalar, Cuda!Scalar!bounce_unlit
  <2>3. QED BY <2>2 DEF Cuda!Scalar!Next
<1>6. ASSUME NEW surface \in Surfaces, asks_for_light(device_scalar[s], surface, r)
      PROVE  Cuda!Scalar!Next
  <2>1. Cuda!Scalar!query_light(s, surface)
    BY <1>6, SameDeviceScalar DEF asks_for_light, device_scalar, Cuda!Scalar!query_light
  <2>2. QED BY <2>1 DEF Cuda!Scalar!Next
<1>7. CASE bounces_lit(device_scalar[s], r)
  <2>1. PICK visible \in BOOLEAN :
           scatters(IF visible THEN Scalar!Weigh(device_scalar[s], "direct")
                               ELSE device_scalar[s], device_scalar[s].surface, r)
    BY <1>7 DEF bounces_lit
  <2>2. Cuda!Scalar!scatter(s, IF visible THEN Scalar!Weigh(device_scalar[s], "direct")
                                          ELSE device_scalar[s], device_scalar[s].surface)
    BY <2>1, DeviceScatterStep
  <2>3. Cuda!Scalar!bounce_lit(s)
    BY <1>7, <2>2, SameDeviceScalar DEF bounces_lit, device_scalar, Cuda!Scalar!bounce_lit
  <2>4. QED BY <2>3 DEF Cuda!Scalar!Next
<1>8. QED BY <1>1, <1>2, <1>3, <1>4, <1>5, <1>6, <1>7 DEF follows, moves

(* A new workspace has no trace: every call is at its start. *)
LEMMA NothingTraced ==
  ASSUME Cuda!CudaTransportAssumption, Cuda!Init
  PROVE  TracedInv /\ Cuda!Scalar!Init
<1>1. /\ lane = [s \in Cuda!Slot |-> Cuda!Untouched] /\ kernel = "none" /\ at = "idle"
      /\ count = 0 /\ trace = 0
  BY DEF Cuda!Init
<1>2. ~(\E q : mine(q)) BY <1>1 DEF mine
<1>3. \A s \in Cuda!Slot : ~(s < count)
  BY <1>1 DEF Cuda!Slot, Cuda!CudaTransportAssumption
<1>4. \A s \in Cuda!Slot : lane[s].owner = 0 BY <1>1 DEF Cuda!Untouched
<1>5. TracedInv BY <1>1, <1>2, <1>3, <1>4 DEF TracedInv, Traced
<1>6. \A s \in Cuda!Slot : Cuda!scalar_path(s) = Cuda!Scalar!Initial(s)
  BY <1>2, <1>3, DeviceCall, DeviceNotYet, FreshScalar
<1>7. QED BY <1>5, <1>6 DEF Cuda!Scalar!Init

(* Each trace makes, for each of its slots, the steps of the scalar loop on
   that slot's path: the kernels, with their queues and the workspace that
   earlier traces left, implement SceneMisPathLoop once per trace. *)
THEOREM DeviceScalarTraces ==
  ASSUME Cuda!CudaTransportAssumption, LimitsCountable
  PROVE  Cuda!Spec => ScalarTraces
<1> DEFINE again == at = "idle" /\ trace' # trace /\ Cuda!Scalar!Init'
<1>1. Cuda!Init => TracedInv /\ Cuda!Scalar!Init BY NothingTraced
<1>2. DeviceInv /\ TracedInv /\ [Cuda!Next]_(Cuda!vars)
         => TracedInv' /\ [Cuda!Scalar!Next \/ again]_device_scalar
  <2> SUFFICES ASSUME DeviceInv, TracedInv, [Cuda!Next]_(Cuda!vars)
               PROVE  TracedInv' /\ [Cuda!Scalar!Next \/ again]_device_scalar
    OBVIOUS
  <2>1. CASE Cuda!begin_trace
    <3>1. at = "idle" /\ trace' = trace + 1 BY <2>1 DEF Cuda!begin_trace
    <3>2. trace \in Nat BY DEF TracedInv
    <3>3. TracedInv' /\ Cuda!Scalar!Init' BY <2>1, TraceStarts
    <3>4. QED BY <3>1, <3>2, <3>3
  <2>2. CASE Cuda!Host /\ ~Cuda!begin_trace
    BY <2>2, HostTraced
  <2>3. ASSUME NEW i, Cuda!Thread(i)
        PROVE  TracedInv' /\ (Cuda!Scalar!Next \/ device_scalar' = device_scalar)
    BY <2>3, ThreadTraced, FollowsIsStep
  <2>4. CASE UNCHANGED Cuda!vars
    <3>1. /\ lane' = lane /\ queue' = queue /\ kernel' = kernel /\ outcomes' = outcomes
          /\ at' = at /\ count' = count /\ trace' = trace
      BY <2>4 DEF Cuda!vars, Cuda!device
    <3>2. TracedInv' BY <3>1, TracedNext DEF TracedInv
    <3>3. QED BY <3>1, <3>2, TracedNext
  <2>5. QED BY <2>1, <2>2, <2>3, <2>4 DEF Cuda!Next
<1>3. QED BY <1>1, <1>2, DeviceConsistent, PTL DEF Cuda!Spec, ScalarTraces, Cuda!ScalarTraces,
    device_scalar
===============================================================================
