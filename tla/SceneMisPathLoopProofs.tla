------------------------- MODULE SceneMisPathLoopProofs -------------------------
(***************************************************************************)
(* The scalar MIS loop keeps its bookkeeping consistent for every limit,    *)
(* every maximal depth and every scene: each event the filter lets through  *)
(* leads from a state PathState::create accepts to another.                 *)
(***************************************************************************)
EXTENDS SceneMisPathLoop, SequenceTheorems, FiniteSetTheorems, TLAPS

Counters == [Category -> Nat]

(* What an event of family f and direction d adds to each counter. *)
LEMMA Advanced ==
  ASSUME NEW c \in Counters, NEW f \in Family, NEW d \in Direction
  PROVE  /\ advanced_counters(c, {f, d}) \in Counters
         /\ advanced_counters(c, {f, d})["diffuse"]
              = IF f = "diffuse" THEN c["diffuse"] + 1 ELSE c["diffuse"]
         /\ advanced_counters(c, {f, d})["glossy"]
              = IF f = "glossy" THEN c["glossy"] + 1 ELSE c["glossy"]
         /\ advanced_counters(c, {f, d})["specular"]
              = IF f = "specular" THEN c["specular"] + 1 ELSE c["specular"]
         /\ advanced_counters(c, {f, d})["transmission"]
              = IF d = "transmission" THEN c["transmission"] + 1 ELSE c["transmission"]
         /\ advanced_counters(c, {f, d})["volume"] = c["volume"]
  BY DEF Counters, advanced_counters, Category, Family, Direction

(* An accepted event takes a valid state to a valid state, one deeper, and
   within the limits: PathState::create cannot refuse the end of a path
   because of the bounces before it. *)
LEMMA AcceptedKeepsState ==
  ASSUME NEW c \in Counters, NEW flags \in SUBSET Flag, NEW event \in SurfaceEvent,
         path_state_valid(c, flags), accepted(c, event)
  PROVE  /\ advanced_counters(c, event) \in Counters
         /\ path_depth_total(advanced_counters(c, event)) = path_depth_total(c) + 1
         /\ validate_path_depth_state(advanced_counters(c, event), path_depth_total(c) + 1)
         /\ next_delta_flags(flags, event) \in SUBSET Flag
         /\ path_state_valid(advanced_counters(c, event), next_delta_flags(flags, event))
<1>1. PICK f \in Family, d \in Direction : event = {f, d} BY DEF SurfaceEvent
<1>2. validate_path_depth_state(advanced_counters(c, event), path_depth_total(c) + 1)
  BY DEF accepted
<1>3. /\ advanced_counters(c, event) \in Counters
      /\ path_depth_total(advanced_counters(c, event)) = path_depth_total(c) + 1
  <2>1. advanced_counters(c, event) \in Counters BY <1>1, Advanced
  <2>2. QED BY <1>2, <2>1 DEF validate_path_depth_state
<1>4. next_delta_flags(flags, event) \in SUBSET Flag
  BY DEF next_delta_flags, Flag
<1>5. path_state_valid(advanced_counters(c, event), next_delta_flags(flags, event))
  <2> DEFINE a == advanced_counters(c, event)
             n == next_delta_flags(flags, event)
  <2>1. /\ c["diffuse"] \in Nat /\ c["glossy"] \in Nat /\ c["specular"] \in Nat
        /\ c["transmission"] \in Nat /\ c["volume"] \in Nat
    BY DEF Counters, Category
  <2>2. /\ a["diffuse"] = IF f = "diffuse" THEN c["diffuse"] + 1 ELSE c["diffuse"]
        /\ a["glossy"] = IF f = "glossy" THEN c["glossy"] + 1 ELSE c["glossy"]
        /\ a["specular"] = IF f = "specular" THEN c["specular"] + 1 ELSE c["specular"]
        /\ a["volume"] = c["volume"]
    BY <1>1, Advanced
  <2>3. /\ ("previous_bounce_was_delta" \in n) <=> (f = "specular")
        /\ ("any_non_delta_bounces" \in n)
              <=> (f # "specular" \/ "any_non_delta_bounces" \in flags)
    BY <1>1 DEF next_delta_flags, is_delta_event, Family, Direction
  <2>4. /\ (non_delta_depth(c) # 0) <=> ("any_non_delta_bounces" \in flags)
        /\ path_depth_total(c) = 0
              => "previous_bounce_was_delta" \notin flags /\ "any_non_delta_bounces" \notin flags
    BY DEF path_state_valid
  <2>5. validate_path_depth_counters(a) BY <1>2 DEF validate_path_depth_state
  <2> SUFFICES path_state_valid(a, n)
    OBVIOUS
  <2> HIDE DEF a, n
  <2>6. /\ path_depth_total(a) = a["diffuse"] + a["glossy"] + a["specular"] + a["volume"]
        /\ path_depth_total(c) = c["diffuse"] + c["glossy"] + c["specular"] + c["volume"]
        /\ non_delta_depth(a) = a["diffuse"] + a["glossy"] + a["volume"]
        /\ non_delta_depth(c) = c["diffuse"] + c["glossy"] + c["volume"]
    BY DEF path_depth_total, surface_total, non_delta_depth
  <2>7. CASE f = "specular"
    <3>1. /\ a["specular"] = c["specular"] + 1
          /\ non_delta_depth(a) = non_delta_depth(c)
          /\ path_depth_total(a) = path_depth_total(c) + 1
      BY <2>1, <2>2, <2>6, <2>7
    <3>2. /\ "previous_bounce_was_delta" \in n
          /\ ("any_non_delta_bounces" \in n) <=> ("any_non_delta_bounces" \in flags)
      BY <2>3, <2>7
    <3>3. path_depth_total(a) = 1
            => a["specular"] = 1 /\ "any_non_delta_bounces" \notin flags
      BY <2>1, <2>4, <2>6, <3>1
    <3>4. path_depth_total(a) # 0 /\ a["specular"] # 0 BY <2>1, <2>6, <3>1
    <3>5. QED BY <2>4, <2>5, <3>1, <3>2, <3>3, <3>4 DEF path_state_valid
  <2>8. CASE f # "specular"
    <3>1. /\ a["specular"] = c["specular"]
          /\ non_delta_depth(a) # 0
          /\ path_depth_total(a) = path_depth_total(c) + 1
      BY <2>1, <2>2, <2>6, <2>8 DEF Family
    <3>2. "previous_bounce_was_delta" \notin n /\ "any_non_delta_bounces" \in n
      BY <2>3, <2>8
    <3>3. ASSUME path_depth_total(a) = 1
          PROVE  a["specular"] = 0
      <4>1. c["diffuse"] + c["glossy"] + c["specular"] + c["volume"] = 0
        BY <2>1, <2>6, <3>1, <3>3
      <4>2. QED BY <2>1, <3>1, <4>1
    <3>4. path_depth_total(a) # 0 BY <2>1, <2>6, <3>1
    <3>5. QED BY <2>5, <3>1, <3>2, <3>3, <3>4 DEF path_state_valid
  <2>9. QED BY <2>7, <2>8
<1>6. QED BY <1>2, <1>3, <1>4, <1>5

------------------------------------------------------
(* One call at a time: the invariant of the locals of a call, and that each
   way the loop rebuilds them keeps it. *)

Going(q) ==
    /\ q \in Call
    /\ q.at # "returned"
    /\ q.result = None
    /\ q.at = "occluded" => q.surface \in Surfaces
    /\ representable(q)

Ended(q) ==
    /\ q \in Call
    /\ q.at = "returned"
    /\ representable(q)
    /\ q.result.termination = "depth_limit" <=> q.result.blocked # {}
    /\ \A k \in q.result.blocked : q.depth_counters[k] = DepthLimits[k]

Contribution == {"environment", "emission", "direct"} \X Nat

LEMMA WeighKeeps ==
  ASSUME NEW q, Going(q), NEW kind \in {"environment", "emission", "direct"}
  PROVE  /\ Going(Weigh(q, kind))
         /\ Weigh(q, kind).at = q.at
         /\ Weigh(q, kind).beta = q.beta
         /\ Weigh(q, kind).surface = q.surface
         /\ Weigh(q, kind).depth = q.depth
         /\ Weigh(q, kind).depth_counters = q.depth_counters
         /\ Weigh(q, kind).delta_flags = q.delta_flags
<1> DEFINE r == Append(q.radiance, <<kind, Len(q.beta.events)>>)
<1>0. /\ q \in Call
      /\ q.radiance \in Seq(Contribution)
      /\ q.beta.events \in Seq(SurfaceEvent)
  BY DEF Going, Call, Contribution
<1>1. Len(q.beta.events) \in Nat BY <1>0, LenProperties
<1>2. r \in Seq(Contribution) BY <1>0, <1>1 DEF Contribution
<1>3. Weigh(q, kind) = [q EXCEPT !.radiance = r] BY <1>0 DEF Weigh, Call
<1> HIDE DEF r
<1>4. Weigh(q, kind) \in Call BY <1>0, <1>2, <1>3 DEF Call, Contribution
<1>5. QED BY <1>0, <1>3, <1>4 DEF Going, representable, Call

LEMMA FinishEnds ==
  ASSUME NEW q, Going(q), NEW reason \in Termination, NEW blocked \in SUBSET Category,
         reason = "depth_limit" <=> blocked # {},
         \A k \in blocked : q.depth_counters[k] = DepthLimits[k]
  PROVE  /\ Ended(finish(q, reason, blocked))
         /\ finish(q, reason, blocked).beta = q.beta
         /\ finish(q, reason, blocked).depth_counters = q.depth_counters
         /\ finish(q, reason, blocked).delta_flags = q.delta_flags
<1> DEFINE e == [termination |-> reason, blocked |-> blocked]
<1>0. q \in Call /\ representable(q) BY DEF Going
<1>1. finish(q, reason, blocked) = [q EXCEPT !.at = "returned", !.surface = None, !.result = e]
  BY <1>0 DEF finish
<1>2. finish(q, reason, blocked) \in Call
  <2>1. e \in [termination : Termination \cup {"error"}, blocked : SUBSET Category]
    OBVIOUS
  <2> HIDE DEF e
  <2>2. QED BY <1>0, <1>1, <2>1 DEF Call
<1>3. QED BY <1>0, <1>1, <1>2 DEF Ended, representable, Call

LEMMA ScatteredKeeps ==
  ASSUME NEW q, Going(q), NEW black \in BOOLEAN,
         NEW event \in SurfaceEvent, accepted(q.depth_counters, event)
  PROVE  /\ Going(scattered(q, event, black))
         /\ scattered(q, event, black).beta.events = Append(q.beta.events, event)
         /\ scattered(q, event, black).depth_counters = advanced_counters(q.depth_counters, event)
         /\ scattered(q, event, black).delta_flags = next_delta_flags(q.delta_flags, event)
<1> DEFINE c == q.depth_counters
           a == advanced_counters(c, event)
           n == next_delta_flags(q.delta_flags, event)
           b == [events |-> Append(q.beta.events, event), black |-> black]
           s == scattered(q, event, black)
<1>0. /\ q \in Call
      /\ c \in [Category -> 0 .. MaxDepth]
      /\ q.delta_flags \in SUBSET Flag
      /\ q.beta.events \in Seq(SurfaceEvent)
      /\ path_state_valid(c, q.delta_flags)
  BY DEF Going, Call, representable
<1>1. c \in Counters BY <1>0, DepthAssumption DEF Counters
<1>2. /\ a \in Counters
      /\ path_depth_total(a) = path_depth_total(c) + 1
      /\ validate_path_depth_state(a, path_depth_total(c) + 1)
      /\ n \in SUBSET Flag
      /\ path_state_valid(a, n)
  BY <1>0, <1>1, AcceptedKeepsState
<1>3. /\ validate_path_depth_state(a, path_depth_total(a))
      /\ a \in [Category -> 0 .. MaxDepth]
      /\ path_depth_total(a) \in 0 .. MaxDepth
  <2>1. validate_path_depth_state(a, path_depth_total(a)) BY <1>2
  <2>2. ASSUME NEW k \in Category
        PROVE  a[k] \in 0 .. MaxDepth
    <3>1. a[k] \in Nat /\ a[k] <= DepthLimits[k]
      BY <1>2 DEF Counters, validate_path_depth_state
    <3>2. MaxDepth \in Nat /\ DepthLimits[k] \in 0 .. MaxDepth
      BY DepthAssumption
    <3>3. QED BY <3>1, <3>2
  <2>3. a = [k \in Category |-> a[k]] BY <1>2 DEF Counters
  <2>4. path_depth_total(a) \in 0 .. MaxDepth
    <3>1. /\ a["diffuse"] \in Nat /\ a["glossy"] \in Nat /\ a["specular"] \in Nat
          /\ a["volume"] \in Nat
      BY <1>2 DEF Counters, Category
    <3>2. path_depth_total(a) <= MaxDepth
      BY <2>1 DEF validate_path_depth_state, validate_path_depth_counters
    <3>3. path_depth_total(a) \in Nat
      BY <3>1 DEF path_depth_total, surface_total
    <3>4. QED BY <3>2, <3>3, DepthAssumption
  <2>5. QED
    <3> HIDE DEF a
    <3> QED BY <2>1, <2>2, <2>3, <2>4
<1>4. b \in [events : Seq(SurfaceEvent), black : BOOLEAN] BY <1>0
<1>5. s = [q EXCEPT !.at = "closest_hit", !.surface = None, !.beta = b,
                    !.depth = path_depth_total(a), !.depth_counters = a, !.delta_flags = n]
  BY <1>0 DEF scattered, Call
<1> HIDE DEF a, n, b, s
<1>6. /\ s.at = "closest_hit" /\ s.result = q.result /\ s.beta = b
      /\ s.depth = path_depth_total(a) /\ s.depth_counters = a /\ s.delta_flags = n
      /\ s \in Call
  BY <1>0, <1>2, <1>3, <1>4, <1>5 DEF Call
<1>7. q.result = None BY DEF Going
<1>8. representable(s) BY <1>2, <1>3, <1>6 DEF representable
<1>9. Going(s) BY <1>6, <1>7, <1>8 DEF Going
<1>10. b.events = Append(q.beta.events, event) BY DEF b
<1>11. QED BY <1>6, <1>9, <1>10 DEF a, n, s

------------------------------------------------------
(* The counters and flags as a summary of the events. *)

LEMMA NothingYet == agree(<< >>, NoCounters, {})
<1>1. \A k \in Category : {i \in DOMAIN << >> : k \in << >>[i]} = {} OBVIOUS
<1>2. Cardinality({}) = 0 BY FS_EmptySet
<1>3. QED BY <1>1, <1>2 DEF agree, NoCounters

LEMMA OneMore ==
  ASSUME NEW es \in Seq(SurfaceEvent), NEW event \in SurfaceEvent,
         NEW c \in Counters, NEW flags \in SUBSET Flag, agree(es, c, flags)
  PROVE  agree(Append(es, event), advanced_counters(c, event), next_delta_flags(flags, event))
<1> DEFINE m  == Len(es)
           ns == Append(es, event)
           Of(s, k) == {i \in DOMAIN s : k \in s[i]}
<1>1. /\ m \in Nat
      /\ DOMAIN es = 1 .. m
      /\ DOMAIN ns = 1 .. (m + 1)
      /\ Len(ns) = m + 1
      /\ ns[m + 1] = event
      /\ \A i \in 1 .. m : ns[i] = es[i]
  BY LenProperties, AppendProperties
<1> HIDE DEF m, ns
<1>2. ASSUME NEW k \in Category
      PROVE  advanced_counters(c, event)[k] = Cardinality(Of(ns, k))
  <2>1. c[k] = Cardinality(Of(es, k)) /\ c[k] \in Nat BY DEF agree, Counters
  <2>2. IsFiniteSet(Of(es, k))
    <3>1. Of(es, k) \subseteq 1 .. m BY <1>1
    <3>2. IsFiniteSet(1 .. m) BY <1>1, FS_Interval
    <3>3. QED BY <3>1, <3>2, FS_Subset
  <2>3. CASE k \in event
    <3>1. Of(ns, k) = Of(es, k) \cup {m + 1} BY <1>1, <2>3
    <3>2. m + 1 \notin Of(es, k) BY <1>1
    <3>3. Cardinality(Of(ns, k)) = Cardinality(Of(es, k)) + 1
      <4> HIDE DEF Of
      <4> QED BY <2>2, <3>1, <3>2, FS_AddElement
    <3>4. QED BY <2>1, <2>3, <3>3 DEF advanced_counters
  <2>4. CASE k \notin event
    <3>1. Of(ns, k) = Of(es, k) BY <1>1, <2>4
    <3>2. QED BY <2>1, <2>4, <3>1 DEF advanced_counters
  <2>5. QED BY <2>3, <2>4
<1>3. "previous_bounce_was_delta" \in next_delta_flags(flags, event) <=>
         ns # << >> /\ is_delta_event(ns[Len(ns)])
  <2>1. ns # << >> BY <1>1
  <2>2. "previous_bounce_was_delta" \in next_delta_flags(flags, event) <=> is_delta_event(event)
    BY DEF next_delta_flags
  <2>3. QED BY <1>1, <2>1, <2>2
<1>4. "any_non_delta_bounces" \in next_delta_flags(flags, event) <=>
         \E i \in DOMAIN ns : ~is_delta_event(ns[i])
  <2>1. "any_non_delta_bounces" \in next_delta_flags(flags, event) <=>
           "any_non_delta_bounces" \in flags \/ ~is_delta_event(event)
    BY DEF next_delta_flags
  <2>2. "any_non_delta_bounces" \in flags <=> \E i \in 1 .. m : ~is_delta_event(es[i])
    BY <1>1 DEF agree
  <2>3. (\E i \in 1 .. (m + 1) : ~is_delta_event(ns[i])) <=>
           (\E i \in 1 .. m : ~is_delta_event(es[i])) \/ ~is_delta_event(event)
    BY <1>1
  <2>4. QED BY <1>1, <2>1, <2>2, <2>3
<1>5. QED BY <1>2, <1>3, <1>4 DEF agree, ns

------------------------------------------------------
(* The invariant, call by call. *)

Kept(q) ==
    /\ Going(q) \/ Ended(q)
    /\ agree(q.beta.events, q.depth_counters, q.delta_flags)

LEMMA KeptInit == ASSUME NEW p \in Paths PROVE Kept(Initial(p))
<1> DEFINE q == Initial(p)
<1>1. /\ NoCounters \in [Category -> 0 .. MaxDepth]
      /\ \A k \in Category : NoCounters[k] = 0 /\ DepthLimits[k] \in 0 .. MaxDepth
      /\ MaxDepth \in Nat
  BY DepthAssumption DEF NoCounters
<1>2. /\ path_depth_total(NoCounters) = 0
      /\ surface_total(NoCounters) = 0
      /\ non_delta_depth(NoCounters) = 0
      /\ NoCounters["transmission"] = 0
  BY <1>1 DEF path_depth_total, surface_total, non_delta_depth, Category
<1>3. validate_path_depth_state(NoCounters, 0)
  BY <1>1, <1>2 DEF validate_path_depth_state, validate_path_depth_counters
<1>4. path_state_valid(NoCounters, {})
  BY <1>1, <1>2 DEF path_state_valid, validate_path_depth_counters
<1>5. << >> \in Seq(SurfaceEvent) /\ << >> \in Seq({"environment", "emission", "direct"} \X Nat)
  OBVIOUS
<1>6. /\ q.beta.events = << >> /\ q.depth_counters = NoCounters /\ q.delta_flags = {}
      /\ q.depth = 0 /\ q.at = "closest_hit" /\ q.result = None
  BY DEF Initial
<1>7. q \in Call BY <1>1, <1>5 DEF Initial, Call
<1>8. QED
  <2> HIDE DEF q
  <2> SUFFICES Kept(q)
    BY DEF q
  <2>1. representable(q) BY <1>3, <1>4, <1>6 DEF representable
  <2>2. QED BY <2>1, <1>6, <1>7, NothingYet DEF Kept, Going

LEMMA KeptNow ==
  ASSUME IInv, NEW p \in Paths, path[p].at # "returned"
  PROVE  /\ Going(path[p])
         /\ agree(path[p].beta.events, path[p].depth_counters, path[p].delta_flags)
  BY DEF IInv, TypeOK, Representable, HistoryAgrees, Going

LEMMA KeptStep ==
  ASSUME IInv, NEW p \in Paths, NEW n, Kept(n), path' = [path EXCEPT ![p] = n]
  PROVE  IInv'
<1>1. /\ path \in [Paths -> Call]
      /\ \A r \in Paths : path'[r] = IF r = p THEN n ELSE path[r]
      /\ n \in Call
  BY DEF IInv, TypeOK, Kept, Going, Ended
<1>2. TypeOK' BY <1>1 DEF TypeOK
<1>3. Representable' BY <1>1 DEF Representable, IInv, Kept, Going, Ended
<1>4. HistoryAgrees' BY <1>1 DEF HistoryAgrees, IInv, Kept
<1>5. LimitNamed' BY <1>1 DEF LimitNamed, IInv, Kept, Going, Ended
<1>6. \A r \in Paths : /\ path'[r].at # "returned" => path'[r].result = None
                       /\ path'[r].at = "occluded" => path'[r].surface \in Surfaces
  BY <1>1 DEF IInv, Kept, Going, Ended
<1>7. QED BY <1>2, <1>3, <1>4, <1>5, <1>6 DEF IInv

(* The three outcomes of a bounce. *)
LEMMA KeptScatter ==
  ASSUME IInv, NEW p \in Paths, NEW q, NEW surface \in Surfaces, scatter(p, q, surface),
         Going(q), agree(q.beta.events, q.depth_counters, q.delta_flags)
  PROVE  IInv'
<1>1. ASSUME path' = [path EXCEPT ![p] = finish(q, "outside_bsdf_support", {})]
      PROVE  IInv'
  <2>1. Kept(finish(q, "outside_bsdf_support", {}))
    BY FinishEnds DEF Kept, Termination
  <2>2. QED BY <1>1, <2>1, KeptStep
<1>2. ASSUME NEW event \in allowed_events(q.depth_counters, surface), NEW black \in BOOLEAN,
             \/ path' = [path EXCEPT ![p] = scattered(q, event, black)]
             \/ \E reason \in {"zero_throughput", "russian_roulette"} :
                   path' = [path EXCEPT ![p] = finish(scattered(q, event, black), reason, {})]
      PROVE  IInv'
  <2> DEFINE s == scattered(q, event, black)
  <2>1. event \in SurfaceEvent /\ accepted(q.depth_counters, event)
    BY LoopAssumption DEF allowed_events
  <2>2. /\ q.beta.events \in Seq(SurfaceEvent) /\ q.depth_counters \in Counters
        /\ q.delta_flags \in SUBSET Flag
    BY DepthAssumption DEF Going, Call, Counters
  <2>3. /\ Going(s)
        /\ agree(s.beta.events, s.depth_counters, s.delta_flags)
    BY <2>1, <2>2, ScatteredKeeps, OneMore
  <2> HIDE DEF s
  <2>4. Kept(s) BY <2>3 DEF Kept
  <2>5. ASSUME NEW reason \in {"zero_throughput", "russian_roulette"}
        PROVE  Kept(finish(s, reason, {}))
    <3>1. reason \in Termination /\ (reason = "depth_limit" <=> {} # {})
      BY DEF Termination
    <3>2. QED BY <2>3, <3>1, FinishEnds DEF Kept
  <2>6. QED BY <1>2, <2>4, <2>5, KeptStep DEF s
<1>3. QED BY <1>1, <1>2 DEF scatter

------------------------------------------------------
(* The actions. *)

LEMMA KeptEscape == ASSUME IInv, NEW p \in Paths, escape(p) PROVE IInv'
<1> DEFINE q == Weigh(path[p], "environment")
<1>0. /\ path[p].at # "returned"
      /\ path' = [path EXCEPT ![p] = finish(q, "escaped_environment", {})]
  BY DEF escape
<1>1. /\ Going(q)
      /\ agree(q.beta.events, q.depth_counters, q.delta_flags)
  BY <1>0, KeptNow, WeighKeeps
<1> HIDE DEF q
<1>2. Kept(finish(q, "escaped_environment", {}))
  BY <1>1, FinishEnds DEF Kept, Termination
<1>3. QED BY <1>0, <1>2, KeptStep

(* What the filter names when it leaves nothing to sample. *)
LEMMA BlockedAreUsedUp ==
  ASSUME NEW c \in Counters, NEW surface \in SUBSET SurfaceEvent, surface # {},
         ~filter_fails(c, surface), allowed_events(c, surface) = {}
  PROVE  /\ blocked_lobes(c, surface) \in SUBSET Category
         /\ blocked_lobes(c, surface) # {}
         /\ \A k \in blocked_lobes(c, surface) : c[k] = DepthLimits[k]
<1>1. validate_path_depth_state(c, path_depth_total(c)) BY DEF filter_fails
<1>2. \A e \in surface : blocked_limits(c, e) # {}
  BY DEF filter_fails, allowed_events
<1>3. ASSUME NEW e \in surface, NEW k \in blocked_limits(c, e)
      PROVE  k \in Category /\ c[k] = DepthLimits[k]
  <2>1. k \in Category /\ c[k] >= DepthLimits[k] BY DEF blocked_limits
  <2>2. c[k] <= DepthLimits[k] BY <1>1, <2>1 DEF validate_path_depth_state
  <2>3. c[k] \in Nat /\ DepthLimits[k] \in 0 .. MaxDepth /\ MaxDepth \in Nat
    BY <2>1, DepthAssumption DEF Counters
  <2>4. QED BY <2>1, <2>2, <2>3
<1>4. QED BY <1>2, <1>3 DEF blocked_lobes

LEMMA KeptEndAtSurface ==
  ASSUME IInv, NEW p \in Paths, NEW surface \in Surfaces, end_at_surface(p, surface)
  PROVE  IInv'
<1> DEFINE q == Weigh(path[p], "emission")
           b == blocked_lobes(q.depth_counters, surface)
<1>0. /\ path[p].at # "returned"
      /\ \/ \E reason \in {"zero_throughput", "outside_bsdf_support"} :
               path' = [path EXCEPT ![p] = finish(q, reason, {})]
         \/ /\ surface # {}
            /\ ~filter_fails(q.depth_counters, surface)
            /\ allowed_events(q.depth_counters, surface) = {}
            /\ path' = [path EXCEPT ![p] = finish(q, "depth_limit", b)]
  BY DEF end_at_surface
<1>1. /\ Going(q)
      /\ agree(q.beta.events, q.depth_counters, q.delta_flags)
  BY <1>0, KeptNow, WeighKeeps
<1>2. q.depth_counters \in Counters
  BY <1>1, DepthAssumption DEF Going, Call, Counters
<1> HIDE DEF q
<1>3. ASSUME NEW reason \in {"zero_throughput", "outside_bsdf_support"},
             path' = [path EXCEPT ![p] = finish(q, reason, {})]
      PROVE  IInv'
  <2>1. reason \in Termination /\ (reason = "depth_limit" <=> {} # {})
    BY DEF Termination
  <2>2. Kept(finish(q, reason, {})) BY <1>1, <2>1, FinishEnds DEF Kept
  <2>3. QED BY <1>3, <2>2, KeptStep
<1>4. ASSUME surface # {}, ~filter_fails(q.depth_counters, surface),
             allowed_events(q.depth_counters, surface) = {},
             path' = [path EXCEPT ![p] = finish(q, "depth_limit", b)]
      PROVE  IInv'
  <2>1. /\ b \in SUBSET Category /\ b # {}
        /\ \A k \in b : q.depth_counters[k] = DepthLimits[k]
    BY <1>2, <1>4, LoopAssumption, BlockedAreUsedUp
  <2> HIDE DEF b
  <2>2. Kept(finish(q, "depth_limit", b))
    BY <1>1, <2>1, FinishEnds DEF Kept, Termination
  <2>3. QED BY <1>4, <2>2, KeptStep
<1>5. QED BY <1>0, <1>3, <1>4

LEMMA KeptBounceUnlit ==
  ASSUME IInv, NEW p \in Paths, NEW surface \in Surfaces, bounce_unlit(p, surface)
  PROVE  IInv'
<1> DEFINE q == Weigh(path[p], "emission")
<1>0. path[p].at # "returned" /\ scatter(p, q, surface)
  BY DEF bounce_unlit, can_sample
<1>1. Going(q) /\ agree(q.beta.events, q.depth_counters, q.delta_flags)
  BY <1>0, KeptNow, WeighKeeps
<1> HIDE DEF q
<1>2. QED BY <1>0, <1>1, KeptScatter

LEMMA KeptQueryLight ==
  ASSUME IInv, NEW p \in Paths, NEW surface \in Surfaces, query_light(p, surface)
  PROVE  IInv'
<1> DEFINE q == Weigh(path[p], "emission")
           n == [q EXCEPT !.at = "occluded", !.surface = surface]
<1>0. path[p].at # "returned" /\ path' = [path EXCEPT ![p] = n]
  BY DEF query_light, can_sample
<1>1. Going(q) /\ agree(q.beta.events, q.depth_counters, q.delta_flags)
  BY <1>0, KeptNow, WeighKeeps
<1>2. Kept(n)
  <2> HIDE DEF q
  <2>1. /\ n \in Call
        /\ n.at = "occluded" /\ n.surface = surface /\ n.result = q.result /\ n.beta = q.beta /\ n.depth = q.depth
        /\ n.depth_counters = q.depth_counters /\ n.delta_flags = q.delta_flags
    BY <1>1 DEF Going, Call
  <2>2. QED BY <1>1, <2>1 DEF Kept, Going, representable
<1>3. QED BY <1>0, <1>2, KeptStep

LEMMA KeptBounceLit == ASSUME IInv, NEW p \in Paths, bounce_lit(p) PROVE IInv'
<1>0. path[p].at = "occluded" BY DEF bounce_lit
<1>1. PICK visible \in BOOLEAN :
         scatter(p, IF visible THEN Weigh(path[p], "direct") ELSE path[p], path[p].surface)
  BY DEF bounce_lit
<1> DEFINE q == IF visible THEN Weigh(path[p], "direct") ELSE path[p]
<1>2. Going(q) /\ agree(q.beta.events, q.depth_counters, q.delta_flags)
  BY <1>0, KeptNow, WeighKeeps
<1>3. path[p].surface \in Surfaces BY <1>0 DEF IInv
<1> HIDE DEF q
<1>4. QED BY <1>1, <1>2, <1>3, KeptScatter DEF q
LEMMA KeptFail == ASSUME IInv, NEW p \in Paths, fail(p) PROVE IInv'
<1> DEFINE q == path[p]
           e == [termination |-> "error", blocked |-> {}]
           n == [q EXCEPT !.at = "returned", !.surface = None, !.result = e]
<1>0. q.at # "returned" /\ path' = [path EXCEPT ![p] = n] BY DEF fail
<1>1. Going(q) /\ agree(q.beta.events, q.depth_counters, q.delta_flags)
  BY <1>0, KeptNow
<1>2. Kept(n)
  <2>1. e \in [termination : Termination \cup {"error"}, blocked : SUBSET Category]
    OBVIOUS
  <2>2. "depth_limit" # e.termination /\ e.blocked = {} OBVIOUS
  <2> HIDE DEF q, e
  <2>3. /\ n \in Call
        /\ n.at = "returned" /\ n.result = e /\ n.beta = q.beta /\ n.depth = q.depth
        /\ n.depth_counters = q.depth_counters /\ n.delta_flags = q.delta_flags
    BY <1>1, <2>1 DEF Going, Call
  <2> HIDE DEF n
  <2> SUFFICES Kept(n)
    OBVIOUS
  <2>4. QED BY <1>1, <2>2, <2>3 DEF Kept, Going, Ended, representable
<1>3. QED BY <1>0, <1>2, KeptStep

------------------------------------------------------
(* The inductive invariant of the loop holds for all limits and scenes. *)
THEOREM SpecIInv == Spec => []IInv
<1>1. Init => IInv
  <2> SUFFICES ASSUME Init PROVE IInv
    OBVIOUS
  <2>1. /\ path = [p \in Paths |-> Initial(p)]
        /\ \A p \in Paths : path[p] = Initial(p) /\ Kept(Initial(p))
    BY KeptInit DEF Init
  <2>2. \A p \in Paths : path[p] \in Call /\ path[p].at = "closest_hit"
                          /\ path[p].result = None
    BY <2>1 DEF Initial, Kept, Going, Ended
  <2>3. QED
    BY <2>1, <2>2 DEF IInv, TypeOK, Representable, HistoryAgrees, LimitNamed, Kept, Going,
      Ended
<1>2. IInv /\ [Next]_path => IInv'
  <2> SUFFICES ASSUME IInv, [Next]_path PROVE IInv'
    OBVIOUS
  <2>1. CASE UNCHANGED path
    BY <2>1 DEF IInv, TypeOK, Representable, HistoryAgrees, LimitNamed
  <2>2. ASSUME NEW p \in Paths, escape(p) PROVE IInv'
    BY <2>2, KeptEscape
  <2>3. ASSUME NEW p \in Paths, NEW surface \in Surfaces, end_at_surface(p, surface)
        PROVE  IInv'
    BY <2>3, KeptEndAtSurface
  <2>4. ASSUME NEW p \in Paths, NEW surface \in Surfaces, bounce_unlit(p, surface)
        PROVE  IInv'
    BY <2>4, KeptBounceUnlit
  <2>5. ASSUME NEW p \in Paths, NEW surface \in Surfaces, query_light(p, surface)
        PROVE  IInv'
    BY <2>5, KeptQueryLight
  <2>6. ASSUME NEW p \in Paths, bounce_lit(p) PROVE IInv'
    BY <2>6, KeptBounceLit
  <2>7. ASSUME NEW p \in Paths, fail(p) PROVE IInv'
    BY <2>7, KeptFail
  <2>8. QED BY <2>1, <2>2, <2>3, <2>4, <2>5, <2>6, <2>7 DEF Next
<1>3. QED BY <1>1, <1>2, PTL DEF Spec

(* Type correctness of the locals of every call. *)
THEOREM SpecTypeOK == Spec => []TypeOK
<1>1. IInv => TypeOK BY DEF IInv
<1>2. QED BY <1>1, SpecIInv, PTL

(* The separate locals of an iteration always form a state that
   PathState::create accepts: make_result never refuses a path. *)
THEOREM SpecRepresentable == Spec => []Representable
<1>1. IInv => Representable BY DEF IInv
<1>2. QED BY <1>1, SpecIInv, PTL

(* The incremental counters and delta flags say what the path went through. *)
THEOREM SpecHistoryAgrees == Spec => []HistoryAgrees
<1>1. IInv => HistoryAgrees BY DEF IInv
<1>2. QED BY <1>1, SpecIInv, PTL

(* The locals of an iteration always form the state the bounces led to. *)
THEOREM SpecLocalsConsistent == Spec => []LocalsConsistent
<1>1. IInv => LocalsConsistent BY DEF IInv, LocalsConsistent
<1>2. QED BY <1>1, SpecIInv, PTL

(* A path ended by a limit names limits it used up, and only those. *)
THEOREM SpecLimitNamed == Spec => []LimitNamed
<1>1. IInv => LimitNamed BY DEF IInv
<1>2. QED BY <1>1, SpecIInv, PTL

------------------------------------------------------
(* Every contribution once. While a call goes on, what it has collected
   came from vertices before the one it is at, except that a call waiting
   for its shadow ray has already added the emission there. *)

once(r) ==
    \A i \in DOMAIN r, j \in DOMAIN r : i < j =>
        /\ r[i][2] <= r[j][2]
        /\ r[i] # r[j]
        /\ r[i][1] # "environment"

upto(q) ==
    \A i \in DOMAIN q.radiance : /\ q.radiance[i][1] # "environment"
                                 /\ q.radiance[i][2] <= Len(q.beta.events)

before(q) ==
    \A i \in DOMAIN q.radiance : q.radiance[i][2] < Len(q.beta.events)

unlit(q) ==
    \A i \in DOMAIN q.radiance : q.radiance[i] # <<"direct", Len(q.beta.events)>>

Collected(q) ==
    /\ once(q.radiance)
    /\ q.at = "closest_hit" => upto(q) /\ before(q)
    /\ q.at = "occluded" => upto(q) /\ unlit(q)

LightInv == \A p \in Paths : Collected(path[p])

LEMMA AppendOnce ==
  ASSUME NEW r \in Seq(Contribution), once(r), NEW c \in Contribution,
         \A i \in DOMAIN r : r[i][1] # "environment" /\ r[i][2] <= c[2] /\ r[i] # c
  PROVE  once(Append(r, c))
<1> DEFINE m == Len(r)
           s == Append(r, c)
<1>1. /\ m \in Nat
      /\ DOMAIN r = 1 .. m
      /\ DOMAIN s = 1 .. (m + 1)
      /\ s[m + 1] = c
      /\ \A i \in 1 .. m : s[i] = r[i]
  BY LenProperties, AppendProperties
<1> HIDE DEF m, s
<1>2. ASSUME NEW i \in DOMAIN s, NEW j \in DOMAIN s, i < j
      PROVE  s[i][2] <= s[j][2] /\ s[i] # s[j] /\ s[i][1] # "environment"
  <2>1. i \in DOMAIN r /\ s[i] = r[i] BY <1>1, <1>2
  <2>2. CASE j = m + 1
    BY <1>1, <2>1, <2>2
  <2>3. CASE j # m + 1
    <3>1. j \in DOMAIN r /\ s[j] = r[j] BY <1>1, <2>3
    <3>2. QED BY <1>2, <2>1, <3>1 DEF once
  <2>4. QED BY <2>2, <2>3
<1>3. QED BY <1>2 DEF once, s

(* One more contribution of a kind this vertex has not given yet. *)
LEMMA WeighOnce ==
  ASSUME NEW q \in Call, once(q.radiance), upto(q),
         NEW kind \in {"environment", "emission", "direct"},
         \A i \in DOMAIN q.radiance : q.radiance[i] # <<kind, Len(q.beta.events)>>
  PROVE  /\ once(Weigh(q, kind).radiance)
         /\ kind # "environment" => upto(Weigh(q, kind))
         /\ kind = "emission" /\ unlit(q) => unlit(Weigh(q, kind))
         /\ Weigh(q, kind) \in Call
         /\ Weigh(q, kind).at = q.at
<1> DEFINE r == q.radiance
           m == Len(r)
           n == Len(q.beta.events)
           c == <<kind, n>>
           s == Append(r, c)
<1>1. r \in Seq(Contribution) /\ q.beta.events \in Seq(SurfaceEvent)
  BY DEF Call, Contribution
<1>2. n \in Nat /\ c \in Contribution /\ c[1] = kind /\ c[2] = n
  BY <1>1, LenProperties DEF Contribution
<1>3. once(s) BY <1>1, <1>2, AppendOnce DEF upto
<1>4. /\ m \in Nat
      /\ DOMAIN r = 1 .. m
      /\ DOMAIN s = 1 .. (m + 1)
      /\ s[m + 1] = c
      /\ \A i \in 1 .. m : s[i] = r[i]
      /\ s \in Seq(Contribution)
  BY <1>1, <1>2, LenProperties, AppendProperties
<1>5. /\ Weigh(q, kind) = [q EXCEPT !.radiance = s]
      /\ Weigh(q, kind).radiance = s
      /\ Weigh(q, kind).beta = q.beta
      /\ Weigh(q, kind).at = q.at
  BY DEF Weigh, Call
<1>6. Weigh(q, kind) \in Call
  <2> HIDE DEF s
  <2> QED BY <1>4, <1>5 DEF Call, Contribution
<1>7. \A i \in 1 .. (m + 1) : i \in 1 .. m \/ i = m + 1 BY <1>4
<1>8. kind # "environment" => upto(Weigh(q, kind))
  <2> HIDE DEF s, m
  <2> QED BY <1>2, <1>4, <1>5, <1>7 DEF upto
<1>9. ASSUME kind = "emission", unlit(q)
      PROVE  unlit(Weigh(q, kind))
  <2>1. c # <<"direct", n>> BY <1>9
  <2>2. \A i \in DOMAIN r : r[i] # <<"direct", n>> BY <1>9 DEF unlit
  <2> HIDE DEF s, m, c, r
  <2>3. \A i \in DOMAIN s : s[i] # <<"direct", n>> BY <1>4, <1>7, <2>1, <2>2
  <2>4. QED BY <1>5, <2>3 DEF unlit
<1>10. QED BY <1>3, <1>5, <1>6, <1>8, <1>9

(* The next vertex lies beyond everything collected so far. *)
LEMMA ScatteredCollected ==
  ASSUME NEW q \in Call, once(q.radiance), upto(q), NEW event \in SurfaceEvent,
         NEW black \in BOOLEAN
  PROVE  /\ Collected(scattered(q, event, black))
         /\ scattered(q, event, black).radiance = q.radiance
<1> DEFINE s == scattered(q, event, black)
           n == Len(q.beta.events)
           b == [events |-> Append(q.beta.events, event), black |-> black]
<1>1. /\ q.beta.events \in Seq(SurfaceEvent)
      /\ q.radiance \in Seq(Contribution)
  BY DEF Call, Contribution
<1>2. n \in Nat /\ Len(b.events) = n + 1
  BY <1>1, LenProperties, AppendProperties
<1>3. s.radiance = q.radiance /\ s.at = "closest_hit" /\ s.beta = b
  BY DEF scattered, Call
<1>4. \A i \in DOMAIN q.radiance : q.radiance[i][2] \in Nat
  BY <1>1, ElementOfSeq, LenProperties DEF Contribution
<1> HIDE DEF s, n, b
<1>5. \A i \in DOMAIN q.radiance : /\ q.radiance[i][1] # "environment"
                                   /\ q.radiance[i][2] <= n
  BY DEF upto, n
<1>6. \A i \in DOMAIN q.radiance : q.radiance[i][2] <= n + 1 /\ q.radiance[i][2] < n + 1
  BY <1>2, <1>4, <1>5
<1>7. upto(s) /\ before(s) BY <1>2, <1>3, <1>5, <1>6 DEF upto, before
<1>8. QED BY <1>3, <1>7 DEF Collected, s

LEMMA FinishCollected ==
  ASSUME NEW q \in Call, once(q.radiance), NEW reason, NEW blocked
  PROVE  Collected(finish(q, reason, blocked))
<1> DEFINE f == finish(q, reason, blocked)
<1>1. f.at = "returned" /\ f.radiance = q.radiance BY DEF finish, Call
<1> HIDE DEF f
<1>2. QED BY <1>1 DEF Collected, f

LEMMA LightStep ==
  ASSUME TypeOK, LightInv, NEW p \in Paths, NEW n, Collected(n), path' = [path EXCEPT ![p] = n]
  PROVE  LightInv'
<1>1. \A r \in Paths : path'[r] = IF r = p THEN n ELSE path[r] BY DEF TypeOK
<1>2. QED BY <1>1 DEF LightInv

LEMMA LightScatter ==
  ASSUME TypeOK, LightInv, NEW p \in Paths, NEW surface \in Surfaces,
         NEW q \in Call, once(q.radiance), upto(q), scatter(p, q, surface)
  PROVE  LightInv'
<1>1. ASSUME path' = [path EXCEPT ![p] = finish(q, "outside_bsdf_support", {})]
      PROVE  LightInv'
  BY <1>1, FinishCollected, LightStep
<1>2. ASSUME NEW event \in allowed_events(q.depth_counters, surface), NEW black \in BOOLEAN,
             \/ path' = [path EXCEPT ![p] = scattered(q, event, black)]
             \/ \E reason \in {"zero_throughput", "russian_roulette"} :
                   path' = [path EXCEPT ![p] = finish(scattered(q, event, black), reason, {})]
      PROVE  LightInv'
  <2> DEFINE s == scattered(q, event, black)
  <2>1. event \in SurfaceEvent BY LoopAssumption DEF allowed_events
  <2>2. Collected(s) /\ s.radiance = q.radiance BY <2>1, ScatteredCollected
  <2>3. ASSUME NEW reason PROVE Collected(finish(s, reason, {}))
    <3> DEFINE f == finish(s, reason, {})
    <3>1. f.at = "returned" /\ f.radiance = q.radiance
      BY DEF finish, scattered, Call
    <3> HIDE DEF f, s
    <3>2. QED BY <3>1 DEF Collected, f
  <2> HIDE DEF s
  <2>4. QED BY <1>2, <2>2, <2>3, LightStep DEF s
<1>3. QED BY <1>1, <1>2 DEF scatter

(* What a call at a vertex has collected once the emission there is added. *)
LEMMA EmissionOnce ==
  ASSUME TypeOK, LightInv, NEW p \in Paths, path[p].at = "closest_hit",
         NEW kind \in {"environment", "emission"}
  PROVE  /\ Weigh(path[p], kind) \in Call
         /\ once(Weigh(path[p], kind).radiance)
         /\ kind = "emission" => upto(Weigh(path[p], kind)) /\ unlit(Weigh(path[p], kind))
<1> DEFINE q == path[p]
<1>1. q \in Call /\ once(q.radiance) /\ upto(q) /\ before(q)
  BY DEF TypeOK, LightInv, Collected
<1> HIDE DEF q
<1>2. Len(q.beta.events) \in Nat
  <2>1. q.beta.events \in Seq(SurfaceEvent) BY <1>1 DEF Call
  <2>2. QED BY <2>1, LenProperties
<1>3. \A i \in DOMAIN q.radiance, k \in {"environment", "emission", "direct"} :
         q.radiance[i] # <<k, Len(q.beta.events)>>
  BY <1>1, <1>2 DEF before
<1>4. unlit(q) BY <1>3 DEF unlit
<1>5. QED BY <1>1, <1>3, <1>4, WeighOnce DEF q

LEMMA LightNext == ASSUME IInv, LightInv, [Next]_path PROVE LightInv'
<1>0. TypeOK BY DEF IInv
<1>1. CASE UNCHANGED path
  BY <1>1 DEF LightInv
<1>2. ASSUME NEW p \in Paths, escape(p) PROVE LightInv'
  <2>1. /\ path[p].at = "closest_hit"
        /\ path' = [path EXCEPT ![p] =
                      finish(Weigh(path[p], "environment"), "escaped_environment", {})]
    BY <1>2 DEF escape
  <2>2. QED BY <2>1, <1>0, EmissionOnce, FinishCollected, LightStep
<1>3. ASSUME NEW p \in Paths, NEW surface \in Surfaces, end_at_surface(p, surface)
      PROVE  LightInv'
  <2>1. PICK reason, blocked :
           path' = [path EXCEPT ![p] = finish(Weigh(path[p], "emission"), reason, blocked)]
    BY <1>3 DEF end_at_surface
  <2>2. path[p].at = "closest_hit" BY <1>3 DEF end_at_surface
  <2>3. QED BY <2>1, <2>2, <1>0, EmissionOnce, FinishCollected, LightStep
<1>4. ASSUME NEW p \in Paths, NEW surface \in Surfaces, bounce_unlit(p, surface)
      PROVE  LightInv'
  <2>1. path[p].at = "closest_hit" /\ scatter(p, Weigh(path[p], "emission"), surface)
    BY <1>4 DEF bounce_unlit, can_sample
  <2>2. QED BY <2>1, <1>0, EmissionOnce, LightScatter
<1>5. ASSUME NEW p \in Paths, NEW surface \in Surfaces, query_light(p, surface)
      PROVE  LightInv'
  <2> DEFINE q == Weigh(path[p], "emission")
             n == [q EXCEPT !.at = "occluded", !.surface = surface]
  <2>1. path[p].at = "closest_hit" /\ path' = [path EXCEPT ![p] = n]
    BY <1>5 DEF query_light, can_sample
  <2>2. q \in Call /\ once(q.radiance) /\ upto(q) /\ unlit(q)
    BY <1>0, <2>1, EmissionOnce
  <2> HIDE DEF q
  <2>3. n.at = "occluded" /\ n.radiance = q.radiance /\ n.beta = q.beta
    BY <2>2 DEF Call
  <2>4. Collected(n) BY <2>2, <2>3 DEF Collected, upto, unlit
  <2>5. QED BY <1>0, <2>1, <2>4, LightStep
<1>6. ASSUME NEW p \in Paths, bounce_lit(p) PROVE LightInv'
  <2>1. path[p].at = "occluded" BY <1>6 DEF bounce_lit
  <2>2. PICK visible \in BOOLEAN :
           scatter(p, IF visible THEN Weigh(path[p], "direct") ELSE path[p], path[p].surface)
    BY <1>6 DEF bounce_lit
  <2>3. path[p] \in Call /\ once(path[p].radiance) /\ upto(path[p]) /\ unlit(path[p])
    BY <1>0, <2>1 DEF TypeOK, LightInv, Collected
  <2>4. /\ Weigh(path[p], "direct") \in Call
        /\ once(Weigh(path[p], "direct").radiance)
        /\ upto(Weigh(path[p], "direct"))
    BY <2>3, WeighOnce DEF unlit
  <2>5. path[p].surface \in Surfaces BY <2>1 DEF IInv
  <2>6. QED BY <1>0, <2>2, <2>3, <2>4, <2>5, LightScatter
<1>7. ASSUME NEW p \in Paths, fail(p) PROVE LightInv'
  <2> DEFINE q == path[p]
             n == [q EXCEPT !.at = "returned", !.surface = None,
                            !.result = [termination |-> "error", blocked |-> {}]]
  <2>1. path' = [path EXCEPT ![p] = n] BY <1>7 DEF fail
  <2>2. q \in Call /\ once(q.radiance) BY <1>0 DEF TypeOK, LightInv, Collected
  <2>3. n.at = "returned" /\ n.radiance = q.radiance BY <2>2 DEF Call
  <2> HIDE DEF n
  <2>4. Collected(n) BY <2>2, <2>3 DEF Collected
  <2>5. QED BY <1>0, <2>1, <2>4, LightStep DEF n
<1>8. QED BY <1>1, <1>2, <1>3, <1>4, <1>5, <1>6, <1>7 DEF Next

(* No light reaches the radiance of a path twice from one vertex, nor out
   of order, nor after the environment, whatever the scene answers and
   however long the path. *)
THEOREM SpecNothingCountedTwice == Spec => []NothingCountedTwice
<1>1. Init => LightInv
  <2> SUFFICES ASSUME Init, NEW p \in Paths PROVE Collected(path[p])
    BY DEF LightInv
  <2>1. path[p].radiance = << >> /\ path[p].beta.events = << >>
    BY DEF Init, Initial
  <2>2. path[p].at = "closest_hit" BY DEF Init, Initial
  <2>3. DOMAIN << >> = {} OBVIOUS
  <2>4. QED BY <2>1, <2>2, <2>3 DEF Collected, once, upto, before
<1>2. IInv /\ LightInv /\ [Next]_path => LightInv' BY LightNext
<1>3. LightInv => NothingCountedTwice
  BY DEF LightInv, Collected, once, NothingCountedTwice
<1>4. QED BY <1>1, <1>2, <1>3, SpecIInv, PTL DEF Spec
=============================================================================
