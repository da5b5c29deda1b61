--------------------------- MODULE SceneMisPathLoop ---------------------------
(***************************************************************************)
(* The scalar MIS loop of Engine/Source/SceneMisPathLoop.cpp, one call of   *)
(* trace_scene_mis for each member of Paths. An iteration of its loop calls *)
(* the acceleration backend at two places, closest_hit and, when the light  *)
(* sample needs it, occluded; an action runs from one such call to the      *)
(* next.                                                                   *)
(*                                                                         *)
(* beta is the sequence of events whose factors it has been multiplied by   *)
(* and whether the product is black. radiance is the sequence of its        *)
(* contributions, each with the number of events in the beta that weights   *)
(* it: floating-point addition does not commute with rounding, so their     *)
(* order is part of the result. The scene answers nondeterministically.     *)
(***************************************************************************)
EXTENDS PathDepthLimits, Sequences

CONSTANTS
    Paths,               \* the independent calls
    BlackInputs,         \* the calls whose initial throughput is zero
    Surfaces,            \* what a hit can resolve to: the events of its closures
    FirstEligibleDepth,  \* of the roulette policy; 0 is the disabled policy
    None                 \* std::nullopt

ASSUME LoopAssumption ==
    /\ BlackInputs \subseteq Paths
    /\ Surfaces \subseteq SUBSET SurfaceEvent
    /\ FirstEligibleDepth \in 0 .. MaxDepth
    /\ None \notin Surfaces

VARIABLE path  \* the locals of each call

Termination == {"escaped_environment", "outside_bsdf_support", "depth_limit",
                "zero_throughput", "russian_roulette"}

Initial(p) == [at             |-> "closest_hit",
               beta           |-> [events |-> << >>, black |-> p \in BlackInputs],
               radiance       |-> << >>,
               depth          |-> 0,
               depth_counters |-> NoCounters,
               delta_flags    |-> {},
               surface        |-> None,
               result         |-> None]

eligible(depth) == FirstEligibleDepth # 0 /\ depth >= FirstEligibleDepth

Weigh(q, kind) ==
    [q EXCEPT !.radiance = Append(@, <<kind, Len(q.beta.events)>>)]

representable(q) ==
    /\ validate_path_depth_state(q.depth_counters, q.depth)
    /\ path_state_valid(q.depth_counters, q.delta_flags)

finish(q, reason, blocked) ==
    [q EXCEPT !.at = "returned", !.surface = None,
              !.result = IF representable(q) THEN [termination |-> reason, blocked |-> blocked]
                                             ELSE [termination |-> "error", blocked |-> {}]]

(* A plausible slip: the continuation is traced with the old throughput. *)
scattered_old_beta(q, event, black) ==
    [q EXCEPT !.at             = "closest_hit",
              !.surface        = None,
              !.depth          = path_depth_total(advanced_counters(q.depth_counters, event)),
              !.depth_counters = advanced_counters(@, event),
              !.delta_flags    = next_delta_flags(@, event)]

scattered(q, event, black) ==
    [q EXCEPT !.at             = "closest_hit",
              !.surface        = None,
              !.beta           = [events |-> Append(@.events, event), black |-> black],
              !.depth          = path_depth_total(advanced_counters(q.depth_counters, event)),
              !.depth_counters = advanced_counters(@, event),
              !.delta_flags    = next_delta_flags(@, event)]

(* The part of an iteration after direct lighting: no closure sample, or a
   shading normal correction of zero, ends the path; an accepted event
   updates it, and a black product or the roulette may end it. *)
scatter(p, q, surface) ==
    \/ path' = [path EXCEPT ![p] = finish(q, "outside_bsdf_support", {})]
    \/ \E event \in allowed_events(q.depth_counters, surface), black \in BOOLEAN :
          LET n == scattered(q, event, black)
          IN  \/ /\ black
                 /\ path' = [path EXCEPT ![p] = finish(n, "zero_throughput", {})]
              \/ /\ ~black
                 /\ path' = [path EXCEPT ![p] = n]
              \/ /\ ~black
                 /\ eligible(n.depth)
                 /\ path' = [path EXCEPT ![p] = finish(n, "russian_roulette", {})]

------------------------------------------------------
Init == path = [p \in Paths |-> Initial(p)]

escape(p) ==
    /\ path[p].at = "closest_hit"
    /\ path' = [path EXCEPT ![p] =
                  finish(Weigh(path[p], "environment"), "escaped_environment", {})]

(* A hit adds the weighted emission; a black beta or a surface with no
   event left to sample ends the path. *)
end_at_surface(p, surface) ==
    LET q == Weigh(path[p], "emission")
    IN  /\ path[p].at = "closest_hit"
        /\ \/ /\ q.beta.black
              /\ path' = [path EXCEPT ![p] = finish(q, "zero_throughput", {})]
           \/ /\ ~q.beta.black
              /\ surface = {}
              /\ ~filter_fails(q.depth_counters, surface)
              /\ path' = [path EXCEPT ![p] = finish(q, "outside_bsdf_support", {})]
           \/ /\ ~q.beta.black
              /\ surface # {}
              /\ ~filter_fails(q.depth_counters, surface)
              /\ allowed_events(q.depth_counters, surface) = {}
              /\ path' = [path EXCEPT ![p] =
                            finish(q, "depth_limit", blocked_lobes(q.depth_counters, surface))]

can_sample(q, surface) ==
    /\ q.at = "closest_hit"
    /\ ~q.beta.black
    /\ ~filter_fails(q.depth_counters, surface)
    /\ allowed_events(q.depth_counters, surface) # {}

(* No light sample carries energy towards the surface: no shadow ray. *)
bounce_unlit(p, surface) ==
    /\ can_sample(path[p], surface)
    /\ scatter(p, Weigh(path[p], "emission"), surface)

query_light(p, surface) ==
    /\ can_sample(path[p], surface)
    /\ path' = [path EXCEPT ![p] =
                  [Weigh(path[p], "emission") EXCEPT !.at = "occluded", !.surface = surface]]

(* The answer of the shadow ray, weighted by the beta of this iteration. *)
bounce_lit(p) ==
    /\ path[p].at = "occluded"
    /\ \E visible \in BOOLEAN :
          scatter(p, IF visible THEN Weigh(path[p], "direct") ELSE path[p], path[p].surface)

(* Any calculation may turn out not to be representable. *)
fail(p) ==
    /\ path[p].at # "returned"
    /\ path' = [path EXCEPT ![p] = [@ EXCEPT !.at = "returned", !.surface = None,
                  !.result = [termination |-> "error", blocked |-> {}]]]

Next == \E p \in Paths :
           \/ escape(p)
           \/ \E surface \in Surfaces : end_at_surface(p, surface)
           \/ \E surface \in Surfaces : bounce_unlit(p, surface)
           \/ \E surface \in Surfaces : query_light(p, surface)
           \/ bounce_lit(p)
           \/ fail(p)

Spec == Init /\ [][Next]_path

------------------------------------------------------
Call == [at             : {"closest_hit", "occluded", "returned"},
         beta           : [events : Seq(SurfaceEvent), black : BOOLEAN],
         radiance       : Seq({"environment", "emission", "direct"} \X Nat),
         depth          : 0 .. MaxDepth,
         depth_counters : [Category -> 0 .. MaxDepth],
         delta_flags    : SUBSET Flag,
         surface        : Surfaces \cup {None},
         result         : [termination : Termination \cup {"error"},
                           blocked     : SUBSET Category] \cup {None}]

(* Type invariant of the locals of a call. *)
TypeOK == path \in [Paths -> Call]

(* The loop keeps depth, counters and delta flags in separate locals that
   only make_result brings together. At every iteration they form a state
   PathState::create accepts, within the limits: no path is lost at its end
   because its own bookkeeping is inconsistent. *)
Representable == \A p \in Paths : representable(path[p])

agree(events, c, flags) ==
    /\ \A k \in Category : c[k] = Cardinality({i \in DOMAIN events : k \in events[i]})
    /\ "previous_bounce_was_delta" \in flags <=>
          events # << >> /\ is_delta_event(events[Len(events)])
    /\ "any_non_delta_bounces" \in flags <=>
          \E i \in DOMAIN events : ~is_delta_event(events[i])

(* The counters and the flags, updated incrementally at each bounce, say
   what the events the throughput went through say: how many were of each
   category, whether the last was a delta event, whether any was not. *)
HistoryAgrees ==
    \A p \in Paths : agree(path[p].beta.events, path[p].depth_counters, path[p].delta_flags)

(* What make_result relies on when it brings the locals together: they form
   a PathState, and the one the accepted bounces led to. *)
LocalsConsistent == Representable /\ HistoryAgrees

(* The limits a path reports as the reason of its end (BsdfOnlyPathResult
   blocked_depth_limits) are exactly limits it has used up, at least one,
   and no other termination reports any. *)
LimitNamed ==
    \A p \in Paths : LET q == path[p] IN
        q.result # None =>
            /\ q.result.termination = "depth_limit" <=> q.result.blocked # {}
            /\ \A k \in q.result.blocked : q.depth_counters[k] = DepthLimits[k]

(* A source of light reaches the radiance at most once with the throughput
   of each vertex, never after one of a later vertex, and the environment
   only as the last. *)
NothingCountedTwice ==
    \A p \in Paths : LET r == path[p].radiance IN
        \A i \in DOMAIN r, j \in DOMAIN r : i < j =>
            /\ r[i][2] <= r[j][2]
            /\ r[i] # r[j]
            /\ r[i][1] # "environment"

(* The inductive invariant behind the first four: a call that has not
   returned has no result yet, and waits for a shadow ray at a surface. *)
IInv ==
    /\ TypeOK
    /\ Representable
    /\ HistoryAgrees
    /\ LimitNamed
    /\ \A p \in Paths : /\ path[p].at # "returned" => path[p].result = None
                        /\ path[p].at = "occluded" => path[p].surface \in Surfaces
=============================================================================
