------------------------ MODULE CudaWavefrontTransport ------------------------
(***************************************************************************)
(* trace_cuda_wavefront_transport of Backends/GPU/CUDA: batches of paths    *)
(* driven through the queues of one reusable workspace. The host launches   *)
(* a stage kernel over the slots of a queue, downloads the audit of its     *)
(* outcomes, compacts the outcomes of each route into that route's queue    *)
(* and clears the queue it consumed. A thread of a kernel claims the lane   *)
(* of its slot with a compare-and-swap of the phase, writes that lane only, *)
(* and leaves an outcome; threads run in any order.                         *)
(*                                                                         *)
(* The device columns are only written by the kernels: what one trace       *)
(* leaves in them, and in the queues when it fails, is what the next trace  *)
(* on the workspace finds. Gathering rays into the compact buffers and      *)
(* tracing them is part of the step of the thread that reads the result:    *)
(* the gather kernels write no lane. Arithmetic, the scene and traversal    *)
(* answer nondeterministically; what they may refuse ends in refuse_work.   *)
(***************************************************************************)
EXTENDS PathDepthLimits, SequencesExt

CONSTANTS
    Capacity,            \* the slots of the workspace
    MaxTraces,           \* bound: the traces of one workspace
    BlackInputs,         \* the slots whose initial throughput is zero
    Surfaces,            \* what a hit can resolve to: the events of its closures
    FirstEligibleDepth,  \* of the roulette policy; 0 is the disabled policy
    None                 \* no hit, no pending shadow sample

Beta    == [events : Seq(SurfaceEvent), black : BOOLEAN]
Pending == [beta : Beta, continuation : BOOLEAN,
            termination : {"none", "outside_bsdf_support", "zero_throughput", "russian_roulette"}]

CudaTransportAssumption ==
    /\ Capacity \in Nat \ {0}
    /\ MaxTraces \in Nat \ {0}
    /\ BlackInputs \subseteq 0 .. Capacity - 1
    /\ Surfaces \subseteq SUBSET SurfaceEvent
    /\ FirstEligibleDepth \in 0 .. MaxDepth
    /\ None \notin Surfaces \cup Pending

VARIABLES
    lane,       \* WavefrontStageDeviceSoa: the columns of each slot
    queue,      \* WavefrontQueueDeviceSoa: the slots of each queue
    rejected,   \* the queues whose header counts a rejected append
    kernel,     \* the stage whose kernel is on the device, "none" once audited
    outcomes,   \* WavefrontStageOutcome of each work item
    at,         \* the stage the host is at, or "idle"
    count,      \* the paths of the trace
    iteration,  \* the intersections dispatched so far
    failure,    \* why the last trace failed, "none" if it returned or still runs
    dirty,      \* Storage.queues_dirty
    poisoned,   \* Storage.poisoned
    trace       \* the number of the trace: how many began

device == <<lane, queue, rejected, kernel, outcomes>>
vars == <<device, at, count, iteration, failure, dirty, poisoned, trace>>

Slot  == 0 .. Capacity - 1
Kind  == {"camera", "ray", "hit", "miss", "shade", "shadow", "continuation"}

Untouched == [phase |-> "empty", termination |-> "none", blocked |-> {}, flags |-> {},
              beta |-> [events |-> << >>, black |-> TRUE], radiance |-> << >>,
              depth_counters |-> NoCounters, delta_flags |-> {},
              hit |-> None, previous |-> FALSE, pending |-> None, owner |-> 0]

Unset == [route |-> "none", why |-> "unset"]

Init ==
    /\ lane = [s \in Slot |-> Untouched]
    /\ queue = [k \in Kind |-> << >>]
    /\ rejected = {}
    /\ kernel = "none"
    /\ outcomes = << >>
    /\ at = "idle"
    /\ count = 0
    /\ iteration = 0
    /\ failure = "none"
    /\ dirty = FALSE
    /\ poisoned = FALSE
    /\ trace = 0

------------------------------------------------------
(* A thread of a kernel. *)

work_slot(i) == IF kernel = "camera_seed" THEN i - 1 ELSE queue[kernel][i]

(* queue_slot: the header must hold the launched work and no lost append. *)
queue_refuses(i) ==
    IF kernel = "camera_seed" THEN "none"
    ELSE IF Len(queue[kernel]) # Len(outcomes) THEN "invalid_contract"
    ELSE IF kernel \in rejected THEN "queue_overflow" ELSE "none"

(* claim_phase: the compare-and-swap fails on any other phase. *)
claims(q, phase) == q.phase = phase /\ q.blocked = {}

finish_phase(q, phase, termination) ==
    [q EXCEPT !.phase = phase, !.termination = termination]

(* What a kernel that reads path state and previous sample demands of them. *)
lane_valid(q) ==
    /\ path_state_valid(q.depth_counters, q.delta_flags)
    /\ path_depth_total(q.depth_counters) = 0 => ~q.previous

leave(i, q, route) ==
    /\ lane' = [lane EXCEPT ![work_slot(i)] = q]
    /\ outcomes' = [outcomes EXCEPT ![i] = [route |-> route, why |-> "success"]]
    /\ UNCHANGED <<queue, rejected, kernel, at, count, iteration, failure, dirty, poisoned, trace>>

valid_depth_state(q) == \A k \in Category : q.depth_counters[k] <= DepthLimits[k]

(* A lane the shade stage refuses before it samples, unless it is black. *)
beyond_limits(q) ==
    /\ kernel = "shade"
    /\ ~q.beta.black
    /\ \/ ~valid_depth_state(q)
       \/ ~validate_path_depth_state(q.depth_counters, path_depth_total(q.depth_counters))

(* filter_closure_mixture_by_depth asks the limits of each event. Unlike
   DepthFilteredClosureMixture it does not ask whether one more can be
   counted: the shade stage does, of the event it sampled. *)
unblocked_events(c, surface) == {e \in surface : blocked_limits(c, e) = {}}

uncountable(q) ==
    /\ kernel = "shade"
    /\ ~q.beta.black
    /\ unblocked_events(q.depth_counters, q.hit) # {}
    /\ depth_exhausted(q.depth_counters)

pending_consistent(q) ==
    /\ q.pending # None
    /\ "shadow" \in q.flags
    /\ "continuation" \in q.flags <=> q.pending.continuation
    /\ q.pending.continuation <=> q.pending.termination = "none"

(* The phase a stage claims, and what it demands of the lane it claimed. *)
claimed_phase == IF kernel = "camera_seed" THEN "empty" ELSE kernel

demands(q) ==
    CASE kernel = "miss"         -> lane_valid(q)
      [] kernel = "hit"          -> q.hit # None
      [] kernel = "shade"        -> lane_valid(q) /\ q.hit # None
      [] kernel = "shadow"       -> pending_consistent(q)
      [] kernel = "continuation" -> path_state_valid(q.depth_counters, q.delta_flags)
      [] kernel = "camera_seed"  -> queue["camera"] = << >> /\ "camera" \notin rejected
      [] OTHER                   -> TRUE

pending_thread(i) == i \in DOMAIN outcomes /\ outcomes[i] = Unset

runs(k, i) ==
    /\ kernel = k
    /\ pending_thread(i)
    /\ queue_refuses(i) = "none"
    /\ claims(lane[work_slot(i)], claimed_phase)
    /\ demands(lane[work_slot(i)])
    /\ ~beyond_limits(lane[work_slot(i)])

(* Why a thread refuses its work: a queue or a lane that is not what its
   stage expects, a depth beyond the limits or what can be counted, or what
   the scene, traversal and arithmetic answer, which the seed and the hit
   stage do not ask. *)
refusals(i) ==
    LET q == lane[work_slot(i)]
    IN  IF queue_refuses(i) # "none" THEN {queue_refuses(i)}
        ELSE IF ~claims(q, claimed_phase) \/ ~demands(q) \/ beyond_limits(q)
        THEN {"invalid_lane_state"}
        ELSE (IF kernel \in {"camera_seed", "hit"} THEN {} ELSE {"data"})
             \cup (IF uncountable(q) THEN {"invalid_lane_state"} ELSE {})

(* Only a lane that was claimed is terminated. What the thread wrote of its
   state before is left out: the lane has no further reader until the
   camera stage of another trace overwrites it. *)
refuse_work(i) ==
    LET q == lane[work_slot(i)]
    IN  /\ kernel # "none"
        /\ pending_thread(i)
        /\ \E why \in refusals(i) :
              outcomes' = [outcomes EXCEPT ![i] = [route |-> "none", why |-> why]]
        /\ lane' = [lane EXCEPT ![work_slot(i)] =
                      IF queue_refuses(i) = "none" /\ claims(q, claimed_phase)
                      THEN finish_phase(q, "terminated", "none") ELSE q]
        /\ UNCHANGED <<queue, rejected, kernel, at, count, iteration, failure, dirty,
                       poisoned, trace>>

seed_camera(i) ==
    /\ runs("camera_seed", i)
    /\ leave(i, finish_phase([lane[i - 1] EXCEPT !.flags = {}], "camera", "none"), "none")

(* Every column of the lane is written, so nothing of an earlier trace is
   left. owner is not of the code: it names the trace that wrote the lane. *)
camera_stage(i) ==
    /\ runs("camera", i)
    /\ leave(i, [finish_phase(Untouched, "ray", "none")
                    EXCEPT !.beta.black = work_slot(i) \in BlackInputs, !.owner = trace], "ray")

classify_closest_hit(i) ==
    LET q == lane[work_slot(i)]
    IN  /\ runs("ray", i)
        /\ \/ leave(i, finish_phase(q, "miss", "none"), "miss")
           \/ \E surface \in Surfaces :
                 leave(i, finish_phase([q EXCEPT !.hit = surface], "hit", "none"), "hit")

Weigh(q, kind, beta) ==
    [q EXCEPT !.radiance = Append(@, <<kind, Len(beta.events)>>)]

ended(q, termination, blocked) ==
    finish_phase([q EXCEPT !.flags = {}, !.blocked = blocked], "terminated", termination)

miss_stage(i) ==
    LET q == lane[work_slot(i)]
    IN  /\ runs("miss", i)
        /\ leave(i, ended(Weigh(q, "environment", q.beta), "escaped_environment", {}),
                 "terminated")

hit_stage(i) ==
    /\ runs("hit", i)
    /\ leave(i, finish_phase(lane[work_slot(i)], "shade", "none"), "shade")

emitted(q) == Weigh(q, "emission", q.beta)

(* shade_stage up to the depth filter: a black throughput ends the path, a
   surface with no closure left within the limits does. *)
shade_terminal(i) ==
    LET s == lane[work_slot(i)].hit
        q == emitted(lane[work_slot(i)])
    IN  /\ runs("shade", i)
        /\ \/ /\ q.beta.black
              /\ leave(i, ended(q, "zero_throughput", {}), "terminated")
           \/ /\ ~q.beta.black
              /\ unblocked_events(q.depth_counters, s) = {}
              /\ IF s = {}
                 THEN leave(i, ended(q, "outside_bsdf_support", {}), "terminated")
                 ELSE leave(i, ended(q, "depth_limit", blocked_lobes(q.depth_counters, s)),
                            "terminated")

(* A plausible slip: the roulette is asked one bounce early. *)
eligible_early(depth) == FirstEligibleDepth # 0 /\ depth + 1 >= FirstEligibleDepth

eligible(depth) == FirstEligibleDepth # 0 /\ depth >= FirstEligibleDepth

(* The end of shade_stage: with a light sample the lane goes to the shadow
   stage and keeps there what happens next, without it goes there itself. *)
route_shaded(i, q, light, termination) ==
    LET onward  == termination = "none"
        pending == [beta |-> lane[work_slot(i)].beta,
                    continuation |-> onward, termination |-> termination]
    IN  CASE light -> leave(i, finish_phase(
                         [q EXCEPT !.pending = pending,
                                   !.flags = {"shadow"} \cup
                                             (IF onward THEN {"continuation"} ELSE {})],
                         "shadow", "none"), "shadow")
          [] ~light /\ onward ->
                leave(i, finish_phase([q EXCEPT !.pending = None, !.flags = {}],
                                      "continuation", "none"), "continuation")
          [] ~light /\ ~onward ->
                leave(i, ended([q EXCEPT !.pending = None], termination, {}), "terminated")

(* The previous sample is kept for the weight of emission unless the bounce
   was a delta event. *)
scattered(q, event, black) ==
    [q EXCEPT !.beta           = [events |-> Append(@.events, event), black |-> black],
              !.depth_counters = advanced_counters(@, event),
              !.delta_flags    = next_delta_flags(@, event),
              !.previous       = ~is_delta_event(event)]

(* The rest of shade_stage: the light sample takes the throughput that
   arrives, then the closure sample scatters the path, or ends it. *)
shade_scatter(i) ==
    LET s == lane[work_slot(i)].hit
        q == emitted(lane[work_slot(i)])
    IN  /\ runs("shade", i)
        /\ ~q.beta.black
        /\ \E light \in BOOLEAN :
              \/ /\ unblocked_events(q.depth_counters, s) # {}
                 /\ route_shaded(i, q, light, "outside_bsdf_support")
              \/ \E event \in unblocked_events(q.depth_counters, s), black \in BOOLEAN :
                    LET n == scattered(q, event, black)
                    IN  /\ ~depth_exhausted(q.depth_counters)
                        /\ \/ /\ black
                              /\ route_shaded(i, n, light, "zero_throughput")
                           \/ /\ ~black
                              /\ route_shaded(i, n, light, "none")
                           \/ /\ ~black
                              /\ eligible(path_depth_total(n.depth_counters))
                              /\ route_shaded(i, n, light, "russian_roulette")

process_shadow(i) ==
    LET q == lane[work_slot(i)]
    IN  /\ runs("shadow", i)
        /\ \E visible \in BOOLEAN :
              LET n == [(IF visible THEN Weigh(q, "direct", q.pending.beta) ELSE q)
                           EXCEPT !.pending = None, !.flags = {}]
              IN  IF q.pending.continuation
                  THEN leave(i, finish_phase(n, "continuation", "none"), "continuation")
                  ELSE leave(i, finish_phase(n, "terminated", q.pending.termination), "terminated")

continuation_stage(i) ==
    /\ runs("continuation", i)
    /\ leave(i, finish_phase(lane[work_slot(i)], "ray", "none"), "ray")

Thread(i) ==
    \/ refuse_work(i) \/ seed_camera(i) \/ camera_stage(i)
    \/ classify_closest_hit(i) \/ miss_stage(i) \/ hit_stage(i) \/ shade_terminal(i)
    \/ shade_scatter(i) \/ process_shadow(i) \/ continuation_stage(i)

------------------------------------------------------
(* The host. *)

executed == \A i \in DOMAIN outcomes : ~pending_thread(i)

(* A poisoned workspace refuses every trace (what refuses a request without
   touching the workspace is left out). A trace begins when the kernels an
   earlier one left behind have run: the drain, or the synchronous clear,
   waits for them (CudaTransferStreams). A dirty workspace has its queues
   cleared and its overflows acknowledged; the controls of the paths are
   zeroed, the other columns keep what they hold.
   A plausible slip: the clear trusts the last trace to have emptied them. *)
clean_queues_trusting == [clear |-> queue, kept |-> rejected]

clean_queues == IF dirty THEN [clear |-> [k \in Kind |-> << >>], kept |-> {}]
                         ELSE [clear |-> queue, kept |-> rejected]

begin_trace ==
    /\ at = "idle"
    /\ ~poisoned
    /\ trace < MaxTraces
    /\ executed
    /\ \E n \in 1 .. Capacity :
          /\ count' = n
          /\ lane' = [s \in Slot |->
                        IF s < n THEN [lane[s] EXCEPT !.phase = "empty", !.termination = "none",
                                                      !.blocked = {}, !.flags = {}]
                                 ELSE lane[s]]
    /\ queue' = clean_queues.clear
    /\ rejected' = clean_queues.kept
    /\ kernel' = "none"
    /\ outcomes' = << >>
    /\ at' = "camera_seed"
    /\ iteration' = 0
    /\ failure' = "none"
    /\ dirty' = TRUE
    /\ trace' = trace + 1
    /\ UNCHANGED poisoned

maximum_iterations ==
    DepthLimits["diffuse"] + DepthLimits["glossy"] + DepthLimits["specular"]
        + DepthLimits["volume"] + 2

after(k) ==
    CASE k = "camera_seed"  -> "camera"
      [] k = "camera"       -> "ray"
      [] k = "ray"          -> "miss"
      [] k = "miss"         -> "hit"
      [] k = "hit"          -> "shade"
      [] k = "shade"        -> "shadow"
      [] k = "shadow"       -> "continuation"
      [] k = "continuation" -> "ray"

(* The end of a trace that fails: the queues keep what they hold. The
   asynchronous drain, or a profiling interval that cannot be closed, may
   poison the workspace. *)
fails(why) ==
    /\ at' = "idle"
    /\ failure' = why
    /\ poisoned' \in BOOLEAN
    /\ UNCHANGED <<lane, count, dirty, trace>>

launch ==
    /\ at # "idle"
    /\ kernel = "none"
    /\ at # "camera_seed" => queue[at] # << >>
    /\ IF at = "ray" /\ iteration >= maximum_iterations
       THEN fails("bound") /\ UNCHANGED <<kernel, outcomes, iteration>>
       ELSE /\ kernel' = at
            /\ outcomes' = [i \in 1 .. (IF at = "camera_seed" THEN count ELSE Len(queue[at]))
                               |-> Unset]
            /\ iteration' = IF at = "ray" THEN iteration + 1 ELSE iteration
            /\ UNCHANGED <<lane, at, count, failure, dirty, poisoned, trace>>
    /\ UNCHANGED <<queue, rejected>>

skip_stage ==
    /\ at \in {"miss", "hit", "shade", "shadow", "continuation"}
    /\ kernel = "none"
    /\ queue[at] = << >>
    /\ at' = after(at)
    /\ UNCHANGED <<device, count, iteration, failure, dirty, poisoned, trace>>

failed_items == {i \in DOMAIN outcomes : outcomes[i].why # "success"}

(* The audit reports the first failing work item, whichever ran first. *)
audit_failure ==
    /\ at # "idle"
    /\ kernel = at
    /\ executed
    /\ failed_items # {}
    /\ fails(outcomes[CHOOSE i \in failed_items : \A j \in failed_items : i <= j].why)
    /\ kernel' = "none"
    /\ UNCHANGED <<queue, rejected, outcomes, iteration>>

(* The queues a stage routes to, in the order of their compactions. *)
routes(k) ==
    CASE k \in {"camera", "continuation"} -> <<"ray">>
      [] k = "ray"                        -> <<"hit", "miss">>
      [] k = "hit"                        -> <<"shade">>
      [] k = "shade"                      -> <<"shadow", "continuation">>
      [] k = "shadow"                     -> <<"continuation">>
      [] OTHER                            -> << >>

(* The slots of the work items with a route, in their order. *)
selected(route) ==
    LET of_first[n \in 0 .. Len(outcomes)] ==
            IF n = 0 THEN << >>
            ELSE IF outcomes[n].route = route THEN Append(of_first[n - 1], queue[kernel][n])
            ELSE of_first[n - 1]
    IN  of_first[Len(outcomes)]

compacted == [k \in Kind |-> IF k \in ToSet(routes(kernel)) THEN queue[k] \o selected(k)
                                                            ELSE queue[k]]

overfull == {k \in Kind : Len(compacted[k]) > Capacity}

(* What the header of the next stage must say of the one that was audited. *)
lost_lanes(q) ==
    \/ kernel = "ray" /\ Len(q["hit"]) + Len(q["miss"]) # Len(outcomes)
    \/ kernel = "hit" /\ Len(q["shade"]) # Len(outcomes)

consumed == [compacted EXCEPT ![kernel] = << >>]

(* The seed publishes the size of its queue once all its threads have run. *)
seeded == [queue EXCEPT !["camera"] = [i \in DOMAIN outcomes |-> i - 1]]

publish_seed ==
    /\ at = "camera_seed"
    /\ kernel = at
    /\ executed
    /\ failed_items = {}
    /\ queue' = seeded
    /\ kernel' = "none"
    /\ outcomes' = << >>
    /\ at' = after(at)
    /\ UNCHANGED <<lane, rejected, count, iteration, failure, dirty, poisoned, trace>>

(* All or nothing: an append beyond the capacity is counted as rejected. *)
compact_routes ==
    LET why == IF overfull # {} THEN "queue_overflow"
               ELSE IF lost_lanes(consumed) THEN "lost_lanes" ELSE "none"
    IN  /\ at \in Kind
        /\ kernel = at
        /\ executed
        /\ failed_items = {}
        /\ queue' = IF overfull = {} THEN consumed
                    ELSE [k \in Kind |-> IF k \in overfull THEN queue[k] ELSE compacted[k]]
        /\ rejected' = rejected \cup overfull
        /\ kernel' = "none"
        /\ outcomes' = << >>
        /\ UNCHANGED iteration
        /\ IF why = "none"
           THEN at' = after(at) /\ UNCHANGED <<lane, count, failure, dirty, poisoned, trace>>
           ELSE fails(why)

(* A CUDA call of the host fails: before the kernel, while its threads run,
   or between the compactions and the clear. *)
call_fails ==
    /\ at # "idle"
    /\ fails("cuda_call")
    /\ \/ UNCHANGED queue
       \/ /\ kernel = at
          /\ executed
          /\ failed_items = {}
          /\ queue' = IF kernel = "camera_seed" THEN seeded ELSE compacted
    /\ UNCHANGED <<rejected, kernel, outcomes, iteration>>

canonical(q) ==
    /\ q.phase = "terminated"
    /\ q.flags = {}
    /\ q.termination # "none"
    /\ q.termination = "depth_limit" <=> q.blocked # {}

(* No ray is left: the lanes are downloaded and converted. *)
collect ==
    /\ at = "ray"
    /\ kernel = "none"
    /\ queue["ray"] = << >>
    /\ IF \A s \in 0 .. count - 1 :
             /\ canonical(lane[s])
             /\ path_state_valid(lane[s].depth_counters, lane[s].delta_flags)
       THEN /\ at' = "idle"
            /\ dirty' = FALSE
            /\ UNCHANGED <<lane, count, failure, poisoned, trace>>
       ELSE fails("incomplete")
    /\ UNCHANGED <<queue, rejected, kernel, outcomes, iteration>>

Host ==
    \/ begin_trace \/ launch \/ skip_stage \/ audit_failure \/ publish_seed
    \/ compact_routes \/ call_fails \/ collect

Next == Host \/ \E i \in 1 .. Capacity : Thread(i)

Spec == Init /\ [][Next]_vars

------------------------------------------------------
(* The workspace of a trace that failed is used again without being torn
   down: whatever the failure left in the queues, the lanes and on the
   device, a later trace finds no contradiction in them. A trace only fails
   for a refused calculation or a failing call, and never because a lane is
   not in the phase of its queue, an append is rejected, a lane is lost,
   a path does not end or the dispatch bound derived from the depth limits
   is too small for a path the limits allow. *)
OnlyOutsideFailures == failure \in {"none", "data", "cuda_call"}

------------------------------------------------------
(* Every trace makes, for each of its slots, the steps of the scalar MIS
   loop on that slot's path, whatever the traces before it did: the same
   contributions in the same order, the same end and the same blocked
   limits. As on the CPU, the scalar path waits where the throughput of the
   pending shadow sample says until the shadow stage has run. *)

counters_of(events) ==
    [k \in Category |-> Cardinality({i \in DOMAIN events : k \in events[i]})]

flags_of(events) ==
    (IF events # << >> /\ is_delta_event(Last(events)) THEN {"previous_bounce_was_delta"} ELSE {})
    \cup (IF \E i \in DOMAIN events : ~is_delta_event(events[i])
          THEN {"any_non_delta_bounces"} ELSE {})

scalar_path(s) ==
    LET q      == IF trace # 0 /\ lane[s].owner = trace THEN lane[s]
                  ELSE [Untouched EXCEPT !.beta.black = s \in BlackInputs,
                                         !.phase = lane[s].phase]
        lit    == q.pending # None
        over   == q.phase = "terminated" /\ s < count
        beta   == IF lit THEN q.pending.beta ELSE q.beta
    IN  [at             |-> IF over THEN "returned" ELSE IF lit THEN "occluded" ELSE "closest_hit",
         beta           |-> beta,
         radiance       |-> q.radiance,
         depth          |-> Len(beta.events),
         depth_counters |-> IF lit THEN counters_of(beta.events) ELSE q.depth_counters,
         delta_flags    |-> IF lit THEN flags_of(beta.events) ELSE q.delta_flags,
         surface        |-> IF lit /\ ~over THEN q.hit ELSE None,
         result         |-> IF ~over THEN None
                            ELSE IF q.termination = "none"
                            THEN [termination |-> "error", blocked |-> {}]
                            ELSE [termination |-> q.termination, blocked |-> q.blocked]]

Scalar == INSTANCE SceneMisPathLoop WITH
              Paths <- Slot,
              path  <- [s \in Slot |-> scalar_path(s)]

ScalarTraces ==
    /\ Scalar!Init
    /\ [][\/ Scalar!Next
          \/ at = "idle" /\ trace' # trace /\ Scalar!Init']_[s \in Slot |-> scalar_path(s)]
=============================================================================
