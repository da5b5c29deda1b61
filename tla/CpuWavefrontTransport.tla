------------------------- MODULE CpuWavefrontTransport -------------------------
(***************************************************************************)
(* trace_cpu_wavefront_mis of WavefrontMisTransport.cpp: a batch of paths   *)
(* driven through the seven stage queues. The calling thread fills a queue, *)
(* hands it to the scheduler, waits for the barrier, and routes the slots   *)
(* to the queues of the next stages. Within a stage the kernel runs once    *)
(* for each lane, in any order (StageBarrier); a kernel only writes the     *)
(* runtime of its own slot, so running it is one step.                      *)
(*                                                                         *)
(* beta and radiance are abstracted as in SceneMisPathLoop. ray and cone    *)
(* are set together by the camera kernel and never reset: initialized       *)
(* stands for the three. What any arithmetic or a query of the acceleration *)
(* backend may refuse is the lane_error of that stage.                      *)
(***************************************************************************)
EXTENDS PathDepthLimits, SequencesExt

CONSTANTS
    PathCount,           \* the size of the batch
    BlackInputs,         \* the slots whose initial throughput is zero
    Surfaces,            \* what a hit can resolve to: the events of its closures
    FirstEligibleDepth,  \* of the roulette policy; 0 is the disabled policy
    None                 \* an empty std::optional

Termination == {"escaped_environment", "outside_bsdf_support", "depth_limit",
                "zero_throughput", "russian_roulette"}
Beta        == [events : Seq(SurfaceEvent), black : BOOLEAN]
Shadow      == [beta : Beta]
Ending      == [reason : Termination, blocked : SUBSET Category]
Result      == [termination : Termination, blocked : SUBSET Category]

ASSUME TransportAssumption ==
    /\ PathCount \in Nat
    /\ BlackInputs \subseteq 0 .. PathCount - 1
    /\ Surfaces \subseteq SUBSET SurfaceEvent
    /\ FirstEligibleDepth \in 0 .. MaxDepth
    /\ None \notin Surfaces \cup Shadow \cup Ending \cup Result

VARIABLES
    path,      \* RuntimePath of each slot
    queue,     \* the entries of each stage queue
    stage,     \* the stage the caller is at, or "begin", "returned", "failed"
    running,   \* the stage has been handed to the scheduler
    lanes,     \* the slots whose kernel has not run yet
    failure,   \* why the batch fails, "none" while it does not
    stats      \* CpuWavefrontMisQueueStatistics of each stage, and its stage_lanes

vars == <<path, queue, stage, running, lanes, failure, stats>>

Slot  == 0 .. PathCount - 1
Kind  == {"camera", "ray", "hit", "miss", "shade", "shadow", "continuation"}

Runtime == [initialized            |-> FALSE,
            beta                   |-> [events |-> << >>, black |-> TRUE],
            radiance               |-> << >>,
            depth_counters         |-> NoCounters,
            delta_flags            |-> {},
            hit                    |-> FALSE,
            surface                |-> None,
            pending_shadow         |-> None,
            pending_termination    |-> None,
            continuation_requested |-> FALSE,
            result                 |-> None,
            closure_samples        |-> 0,
            light_samples          |-> 0,
            shadow_queries         |-> 0]

Init ==
    /\ path = [s \in Slot |-> Runtime]
    /\ queue = [k \in Kind |-> << >>]
    /\ stage = "begin"
    /\ running = FALSE
    /\ lanes = {}
    /\ failure = "none"
    /\ stats = [k \in Kind |-> [peak_size |-> 0, dispatch_count |-> 0,
                                input_lanes |-> 0, stage_lanes |-> 0]]

------------------------------------------------------
(* Queues and their statistics. *)

overflows(q) == \E k \in Kind : Len(q[k]) > PathCount

record_queue_size(s, sizes) ==
    [k \in Kind |-> [s[k] EXCEPT !.peak_size = IF sizes[k] > @ THEN sizes[k] ELSE @]]

lengths(q) == [k \in Kind |-> Len(q[k])]

record_stage_dispatch(k) ==
    [stats EXCEPT ![k].dispatch_count = @ + 1,
                  ![k].input_lanes    = @ + Len(queue[k]),
                  ![k].stage_lanes    = @ + Len(queue[k])]

validate_queue_statistics ==
    \A k \in Kind :
        /\ stats[k].peak_size <= PathCount
        /\ stats[k].input_lanes = stats[k].stage_lanes
        /\ stats[k].dispatch_count = 0 => stats[k].input_lanes = 0
        /\ stats[k].input_lanes <= PathCount * stats[k].dispatch_count

after(k) ==
    CASE k = "camera"       -> "ray"
      [] k = "ray"          -> "miss"
      [] k = "miss"         -> "hit"
      [] k = "hit"          -> "shade"
      [] k = "shade"        -> "shadow"
      [] k = "shadow"       -> "continuation"
      [] k = "continuation" -> "ray"

(* The queues the loop clears on its way to a stage, before it looks at it. *)
cleared_before(k) ==
    CASE k = "ray"   -> {"hit", "miss"}
      [] k = "hit"   -> {"shade"}
      [] k = "shade" -> {"shadow", "continuation"}
      [] OTHER       -> {}

------------------------------------------------------
(* What the kernels do to a runtime. *)

Weigh(q, kind, beta) ==
    [q EXCEPT !.radiance = Append(@, <<kind, Len(beta.events)>>)]

finishable(q) == q.initialized /\ q.result = None

finish_path(q, reason, blocked) ==
    [q EXCEPT !.result                 = [termination |-> reason, blocked |-> blocked],
              !.pending_shadow         = None,
              !.pending_termination    = None,
              !.continuation_requested = FALSE]

terminate(q, reason, blocked) ==
    [q EXCEPT !.pending_termination = [reason |-> reason, blocked |-> blocked]]

eligible(depth) == FirstEligibleDepth # 0 /\ depth >= FirstEligibleDepth

emitted(q) ==
    Weigh([q EXCEPT !.pending_shadow = None, !.pending_termination = None,
                    !.continuation_requested = FALSE], "emission", q.beta)

(* The closure sample and WavefrontDirectLighting::prepare: no light
   sampled, one that needs no shadow ray, or one that does. *)
prepared(q, light) ==
    [q EXCEPT !.closure_samples = @ + 1,
              !.light_samples   = IF light = "unsampled" THEN @ ELSE @ + 1,
              !.pending_shadow  = IF light = "shadow" THEN [beta |-> q.beta] ELSE None]

scattered(q, event, black) ==
    [q EXCEPT !.beta           = [events |-> Append(@.events, event), black |-> black],
              !.depth_counters = advanced_counters(@, event),
              !.delta_flags    = next_delta_flags(@, event)]

(* A path whose runtime the kernel of stage k refuses as contradictory. *)
contradicts(k, q) ==
    \/ q.result # None
    \/ k # "camera" /\ ~q.initialized
    \/ k = "camera" /\ q.initialized
    \/ k = "miss" /\ q.hit
    \/ k = "hit" /\ ~q.hit
    \/ k = "shade" /\ (~q.hit \/ q.surface = None)
    \/ k = "shadow" /\ q.pending_shadow = None
    \/ k = "continuation" /\ \/ ~q.continuation_requested
                             \/ q.pending_termination # None
                             \/ q.pending_shadow # None

(* The stages whose kernel rebuilds the PathState of the path. *)
refuses_state(k, q) ==
    /\ k \in {"miss", "continuation"}
    /\ ~path_state_valid(q.depth_counters, q.delta_flags)

runs(k, s) ==
    /\ stage = k
    /\ running
    /\ s \in lanes
    /\ ~contradicts(k, path[s])
    /\ ~refuses_state(k, path[s])

leave(s, q) ==
    /\ path' = [path EXCEPT ![s] = q]
    /\ lanes' = lanes \ {s}
    /\ UNCHANGED <<queue, stage, running, failure, stats>>

initialize_runtime_path(s) ==
    /\ runs("camera", s)
    /\ leave(s, [path[s] EXCEPT !.initialized = TRUE,
                                !.beta = [events |-> << >>, black |-> s \in BlackInputs]])

trace_ray(s) ==
    /\ runs("ray", s)
    /\ \E hit \in BOOLEAN : leave(s, [path[s] EXCEPT !.hit = hit, !.surface = None])

accumulate_miss(s) ==
    /\ runs("miss", s)
    /\ leave(s, finish_path(Weigh(path[s], "environment", path[s].beta),
                            "escaped_environment", {}))

resolve_surface(s) ==
    /\ runs("hit", s)
    /\ \E surface \in Surfaces : leave(s, [path[s] EXCEPT !.surface = surface])

(* shade_path up to the closure sample: a black throughput, no closure, or
   no closure within the limits. *)
shade_terminal(s) ==
    LET q == emitted(path[s])
    IN  /\ runs("shade", s)
        /\ \/ /\ q.beta.black
              /\ leave(s, terminate(q, "zero_throughput", {}))
           \/ /\ ~q.beta.black
              /\ q.surface = {}
              /\ ~filter_fails(q.depth_counters, q.surface)
              /\ leave(s, terminate(q, "outside_bsdf_support", {}))
           \/ /\ ~q.beta.black
              /\ q.surface # {}
              /\ ~filter_fails(q.depth_counters, q.surface)
              /\ allowed_events(q.depth_counters, q.surface) = {}
              /\ leave(s, terminate(q, "depth_limit", blocked_lobes(q.depth_counters, q.surface)))

(* The rest of shade_path: the light sample is prepared with the throughput
   that arrives, then the closure sample scatters the path, or ends it. *)
shade_scatter(s) ==
    LET e == emitted(path[s])
        allowed == allowed_events(e.depth_counters, e.surface)
    IN  /\ runs("shade", s)
        /\ ~e.beta.black
        /\ ~filter_fails(e.depth_counters, e.surface)
        /\ allowed # {}
        /\ \E light \in {"unsampled", "unshadowed", "shadow"} : LET q == prepared(e, light) IN
              \/ leave(s, terminate(q, "outside_bsdf_support", {}))
              \/ \E event \in allowed, black \in BOOLEAN : LET n == scattered(q, event, black) IN
                    \/ /\ black
                       /\ leave(s, terminate(n, "zero_throughput", {}))
                    \/ /\ ~black
                       /\ leave(s, [n EXCEPT !.continuation_requested = TRUE])
                    \/ /\ ~black
                       /\ eligible(path_depth_total(n.depth_counters))
                       /\ leave(s, terminate(n, "russian_roulette", {}))

(* A plausible slip: the light is weighted by the throughput after the bounce. *)
query_shadow_scattered(s) ==
    /\ runs("shadow", s)
    /\ \E visible \in BOOLEAN :
          LET q == [path[s] EXCEPT !.shadow_queries = @ + 1, !.pending_shadow = None]
          IN  leave(s, IF visible THEN Weigh(q, "direct", q.beta) ELSE q)

query_shadow(s) ==
    /\ runs("shadow", s)
    /\ \E visible \in BOOLEAN :
          LET q == [path[s] EXCEPT !.shadow_queries = @ + 1, !.pending_shadow = None]
          IN  leave(s, IF visible THEN Weigh(q, "direct", path[s].pending_shadow.beta) ELSE q)

continue_path(s) ==
    /\ runs("continuation", s)
    /\ leave(s, [path[s] EXCEPT !.continuation_requested = FALSE,
                                !.hit = FALSE, !.surface = None])

(* A kernel that returns an error; the other lanes still run. What it has
   written of its runtime is never read: the batch is dropped. *)
lane_error(s) ==
    /\ running
    /\ s \in lanes
    /\ lanes' = lanes \ {s}
    /\ failure' = IF contradicts(stage, path[s]) THEN "contradiction"
                  ELSE IF refuses_state(stage, path[s]) THEN "state"
                  ELSE IF failure = "none" THEN "data" ELSE failure
    /\ UNCHANGED <<path, queue, stage, running, stats>>

------------------------------------------------------
(* The calling thread. *)

refuse_batch ==
    /\ stage = "begin"
    /\ stage' = "failed"
    /\ failure' = "refused"
    /\ UNCHANGED <<path, queue, running, lanes, stats>>

begin_batch ==
    LET q == [queue EXCEPT !["camera"] = [i \in 1 .. PathCount |-> i - 1]]
    IN  /\ stage = "begin"
        /\ queue' = q
        /\ stats' = record_queue_size(stats, lengths(q))
        /\ stage' = IF PathCount = 0 THEN "returned" ELSE "camera"
        /\ UNCHANGED <<path, running, lanes, failure>>

cleared == [k \in Kind |-> IF k \in cleared_before(stage) THEN << >> ELSE queue[k]]

skip_stage ==
    /\ stage \in Kind \ {"camera", "ray"}
    /\ ~running
    /\ queue[stage] = << >>
    /\ queue' = cleared
    /\ stage' = after(stage)
    /\ UNCHANGED <<path, running, lanes, failure, stats>>

execute_queue ==
    /\ stage \in Kind
    /\ ~running
    /\ queue[stage] # << >>
    /\ queue' = cleared
    /\ running' = TRUE
    /\ lanes' = ToSet(queue[stage])
    /\ UNCHANGED <<path, stage, failure, stats>>

(* The scheduler is shared: another caller's stage makes it unavailable. *)
scheduler_unavailable ==
    /\ stage \in Kind
    /\ ~running
    /\ queue[stage] # << >>
    /\ queue' = cleared
    /\ stage' = "failed"
    /\ failure' = "unavailable"
    /\ UNCHANGED <<path, running, lanes, stats>>

(* A plausible slip: the barrier waits for a lane of every path. *)
stage_complete_full == lanes = {} /\ Len(queue[stage]) = PathCount

stage_complete == lanes = {}

stage_failed ==
    /\ running
    /\ stage_complete
    /\ failure # "none"
    /\ stage' = "failed"
    /\ running' = FALSE
    /\ UNCHANGED <<path, queue, lanes, failure, stats>>

(* Behind the barrier of stage k: the dispatch is recorded, the slots are
   pushed to the queues q, and the queue of the stage is cleared. A queue
   that would overflow rejects the push and fails the batch. *)
route(k, q, finishing, unrouted) ==
    LET runtimes == [s \in Slot |-> IF s \in finishing
                       THEN finish_path(path[s], path[s].pending_termination.reason,
                                                 path[s].pending_termination.blocked)
                       ELSE path[s]]
        why == IF unrouted # {} \/ \E s \in finishing : ~finishable(path[s])
               THEN "contradiction"
               ELSE IF \E s \in finishing :
                           ~path_state_valid(path[s].depth_counters, path[s].delta_flags)
               THEN "state"
               ELSE IF overflows(q) THEN "overflow" ELSE "none"
    IN  /\ stage = k
        /\ running
        /\ stage_complete
        /\ failure = "none"
        /\ path' = runtimes
        /\ queue' = IF why = "none" THEN [q EXCEPT ![k] = << >>] ELSE queue
        /\ stats' = IF why = "none"
                    THEN record_queue_size(record_stage_dispatch(k), lengths(q)) ELSE stats
        /\ failure' = why
        /\ stage' = IF why = "none" THEN after(k) ELSE "failed"
        /\ running' = FALSE
        /\ UNCHANGED lanes

(* The entries of a queue that are pushed to another one, in their order. *)
filtered(entries, wanted) ==
    LET of_first[n \in 0 .. Len(entries)] ==
            IF n = 0 THEN << >>
            ELSE IF entries[n] \in wanted THEN Append(of_first[n - 1], entries[n])
            ELSE of_first[n - 1]
    IN  of_first[Len(entries)]

select(k, Test(_)) == filtered(queue[k], {s \in Slot : Test(path[s])})

push_batch(to, from) == [queue EXCEPT ![to] = @ \o queue[from]]

after_camera == route("camera", push_batch("ray", "camera"), {}, {})

after_ray ==
    LET traced_hit(q)  == q.hit
        traced_miss(q) == ~q.hit
    IN  route("ray", [queue EXCEPT !["hit"]  = @ \o select("ray", traced_hit),
                                   !["miss"] = @ \o select("ray", traced_miss)], {}, {})

after_miss == route("miss", queue, {}, {})

after_hit == route("hit", push_batch("shade", "hit"), {}, {})

(* A plausible slip: the continuation does not wait for the shadow query. *)
wants_continuation_at_once(q) == q.continuation_requested

wants_shadow(q)       == q.pending_shadow # None
wants_continuation(q) == ~wants_shadow(q) /\ q.continuation_requested
wants_finish(q)       == /\ ~wants_shadow(q)
                         /\ ~q.continuation_requested
                         /\ q.pending_termination # None
has_no_route(q)       == ~wants_shadow(q) /\ ~wants_continuation(q) /\ ~wants_finish(q)

after_shade ==
    route("shade", [queue EXCEPT !["shadow"]       = @ \o select("shade", wants_shadow),
                                 !["continuation"] = @ \o select("shade", wants_continuation)],
          ToSet(select("shade", wants_finish)), ToSet(select("shade", has_no_route)))

after_shadow ==
    LET goes_on(q) == q.continuation_requested
        ends(q)    == ~q.continuation_requested /\ q.pending_termination # None
        neither(q) == ~q.continuation_requested /\ q.pending_termination = None
    IN  route("shadow", [queue EXCEPT !["continuation"] = @ \o select("shadow", goes_on)],
              ToSet(select("shadow", ends)), ToSet(select("shadow", neither)))

after_continuation == route("continuation", push_batch("ray", "continuation"), {}, {})

(* The loop has emptied the ray queue: every runtime must hold a result. *)
collect ==
    /\ stage = "ray"
    /\ ~running
    /\ queue["ray"] = << >>
    /\ failure' = IF \E s \in Slot : path[s].result = None THEN "incomplete"
                  ELSE IF ~validate_queue_statistics THEN "statistics" ELSE "none"
    /\ stage' = IF failure' = "none" THEN "returned" ELSE "failed"
    /\ UNCHANGED <<path, queue, running, lanes, stats>>

Kernel(s) ==
    \/ initialize_runtime_path(s) \/ trace_ray(s) \/ accumulate_miss(s) \/ resolve_surface(s)
    \/ shade_terminal(s) \/ shade_scatter(s) \/ query_shadow(s) \/ continue_path(s)
    \/ lane_error(s)

Caller ==
    \/ refuse_batch \/ begin_batch \/ skip_stage \/ execute_queue \/ scheduler_unavailable
    \/ stage_failed \/ after_camera \/ after_ray \/ after_miss \/ after_hit \/ after_shade
    \/ after_shadow \/ after_continuation \/ collect

Next == Caller \/ \E s \in Slot : Kernel(s)

Spec == Init /\ [][Next]_vars

(* The caller runs until it returns, and the scheduler runs every lane of a
   stage it accepted (CpuWavefrontScheduler, DispatchReturns). *)
FairSpec == Spec /\ WF_vars(Caller) /\ \A s \in Slot : WF_vars(Kernel(s))

------------------------------------------------------
(* Type invariant of the batch. *)
TypeOK ==
    /\ stage \in Kind \cup {"begin", "returned", "failed"}
    /\ running \in BOOLEAN
    /\ lanes \subseteq Slot
    /\ failure \in {"none", "refused", "unavailable", "data", "contradiction", "state",
                    "overflow", "incomplete", "statistics"}
    /\ queue \in [Kind -> Seq(Slot)]
    /\ \A k \in Kind : Len(queue[k]) <= PathCount
    /\ stats \in [Kind -> [peak_size : 0 .. PathCount, dispatch_count : Nat,
                           input_lanes : Nat, stage_lanes : Nat]]
    /\ \A s \in Slot :
          /\ path[s].depth_counters \in [Category -> 0 .. MaxDepth]
          /\ path[s].delta_flags \subseteq Flag
          /\ path[s].surface \in Surfaces \cup {None}

(* The internal errors the code checks for cannot happen: no kernel finds
   its runtime contradictory, no slot is left without a route, no queue
   overflows, no path is missing at the end, and the report satisfies the
   contract validate_queue_statistics checks (CpuWavefrontMisQueueStatistics
   promises zero overflow attempts on success). A batch only fails for a
   refused input, a busy scheduler or a refused calculation. *)
NoInternalError == failure \in {"none", "refused", "unavailable", "data"}

(* Between camera and collection every path that has no result is in
   exactly one queue, once, and a path with a result in none: none is lost,
   none is traced twice. (A miss lane is finished by its kernel, ahead of
   the clear of its queue.) *)
SlotOwned ==
    stage \in Kind =>
        \A s \in Slot :
            LET places == {at \in Kind \X (1 .. PathCount) :
                              at[2] \in DOMAIN queue[at[1]] /\ queue[at[1]][at[2]] = s}
            IN  IF path[s].result = None THEN Cardinality(places) = 1
                ELSE (stage = "miss" /\ running) \/ places = {}

(* The queries a runtime accounts for are the ones it made: a closure
   sample for each bounce and at most one for its end, a light sample at
   most with each of them, a shadow ray at most for each of those, and no
   more direct contributions than shadow rays. *)
SampleAccounting ==
    \A s \in Slot : LET q == path[s] IN
        /\ q.closure_samples - Len(q.beta.events) \in {0, 1}
        /\ q.shadow_queries <= q.light_samples
        /\ q.light_samples <= q.closure_samples
        /\ Cardinality({i \in DOMAIN q.radiance : q.radiance[i][1] = "direct"})
             <= q.shadow_queries

(* What every batch keeps: its types, no internal error, every slot in its
   place, every query accounted for. *)
BatchSound == TypeOK /\ NoInternalError /\ SlotOwned /\ SampleAccounting

(* Every batch returns or fails: the depth limits leave no path with an
   endless continuation, and no stage waits for a lane it was not given. *)
BatchEnds == <>(stage \in {"returned", "failed"})

------------------------------------------------------
(* Each slot makes the steps of the scalar MIS loop on its own path, with
   the same contributions in the same order and the same end, whatever the
   other slots do and in whichever order the lanes run. The wavefront
   scatters before it knows whether the light was visible: until then the
   scalar path is where the throughput kept for the shadow query says. *)

counters_of(events) ==
    [k \in Category |-> Cardinality({i \in DOMAIN events : k \in events[i]})]

flags_of(events) ==
    (IF events # << >> /\ is_delta_event(Last(events)) THEN {"previous_bounce_was_delta"} ELSE {})
    \cup (IF \E i \in DOMAIN events : ~is_delta_event(events[i])
          THEN {"any_non_delta_bounces"} ELSE {})

scalar_of(s, q) ==
    LET lit    == q.pending_shadow # None
        ending == IF lit THEN None
                  ELSE IF q.result # None THEN q.result
                  ELSE IF q.pending_termination = None THEN None
                  ELSE [termination |-> q.pending_termination.reason,
                        blocked     |-> q.pending_termination.blocked]
        beta   == IF lit THEN q.pending_shadow.beta
                  ELSE IF q.initialized THEN q.beta
                  ELSE [events |-> << >>, black |-> s \in BlackInputs]
    IN  [at             |-> IF lit THEN "occluded"
                            ELSE IF ending = None THEN "closest_hit" ELSE "returned",
         beta           |-> beta,
         radiance       |-> q.radiance,
         depth          |-> Len(beta.events),
         depth_counters |-> IF lit THEN counters_of(beta.events) ELSE q.depth_counters,
         delta_flags    |-> IF lit THEN flags_of(beta.events) ELSE q.delta_flags,
         surface        |-> IF lit THEN q.surface ELSE None,
         result         |-> ending]

scalar_path(s) == scalar_of(s, path[s])

Scalar == INSTANCE SceneMisPathLoop WITH
              Paths <- Slot,
              path  <- [s \in Slot |-> scalar_path(s)]

ScalarSpec == Scalar!Spec
=============================================================================
