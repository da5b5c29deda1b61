------------------------- MODULE ClosureMixtureDevice -------------------------
(***************************************************************************)
(* The closure mixture of the CUDA kernels: a record of fixed size that is  *)
(* loaded from the scene, filtered in place by the depth limits of the path *)
(* and then evaluated and sampled. Every operation first checks the whole   *)
(* record again.                                                           *)
(***************************************************************************)
EXTENDS SurfaceLobesDevice, SequencesExt

CONSTANTS MaximumClosureCount, DepthLimits, MaxDepth, Scale

Slots == 1 .. MaximumClosureCount

Sum(s) == FoldLeft(+, 0, s)

ClosureMixtureRecord ==
    [active_count  |-> 0,
     closures      |-> [i \in Slots |-> zero_closure_record],
     probabilities |-> [i \in Slots |-> 0],
     cdf           |-> [i \in 0 .. MaximumClosureCount |-> 0]]

Active(m) == 1 .. m.active_count

valid_closure_mixture_record(m) ==
    /\ m.active_count \in 0 .. MaximumClosureCount
    /\ m.cdf[0] = 0
    /\ \A i \in Active(m) :
         /\ valid_closure_record(m.closures[i])
         /\ m.probabilities[i] \in 1 .. Scale
         /\ m.cdf[i - 1] < m.cdf[i] /\ m.cdf[i] - m.cdf[i - 1] = m.probabilities[i]
    /\ m.active_count > 0 => m.cdf[m.active_count] = Scale
    /\ \A i \in Slots \ Active(m) :
         /\ m.closures[i] = zero_closure_record
         /\ m.probabilities[i] = 0 /\ m.cdf[i] = 0
    /\ m.active_count = 1 => m.probabilities[1] = Scale

(* The CDF of a loaded mixture is summed up on the device. *)
load_material_closure_mixture(closures, probabilities) ==
    LET n      == Len(closures)
        loaded == [active_count  |-> n,
                   closures      |-> [i \in Slots |-> IF i <= n THEN closures[i]
                                                      ELSE zero_closure_record],
                   probabilities |-> [i \in Slots |-> IF i <= n THEN probabilities[i] ELSE 0],
                   cdf           |-> [i \in 0 .. MaximumClosureCount |->
                                        IF i <= n THEN Sum(SubSeq(probabilities, 1, i)) ELSE 0]]
    IN  IF valid_closure_mixture_record(loaded) THEN [status |-> "valid", mixture |-> loaded]
        ELSE [status |-> "invalid_scene", mixture |-> ClosureMixtureRecord]

------------------------------------------------------
(* A mixture and one that was filtered differ in the direction masks. *)

checked_accumulate(values) ==
    IF \E i \in DOMAIN values : values[i] = Refused THEN Refused
    ELSE [l \in Lanes |-> Sum([i \in DOMAIN values |-> values[i][l]])]

weighted_density(m, conditional) ==
    IF \E i \in DOMAIN conditional : conditional[i] < 0 THEN -1
    ELSE IF m.active_count = 1 THEN conditional[1] * Scale
    ELSE Sum([i \in DOMAIN conditional |-> m.probabilities[i] * conditional[i]])

closure_mixture_eval(m, wo, wi) ==
    IF ~valid_closure_mixture_record(m) THEN Refused
    ELSE checked_accumulate([i \in Active(m) |-> eval_closure_record(m.closures[i], wo, wi)])

closure_mixture_pdf(m, wo, wi) ==
    IF ~valid_closure_mixture_record(m) THEN -1
    ELSE IF m.active_count = 0 THEN 0
    ELSE weighted_density(m, [i \in Active(m) |-> pdf_closure_record(m.closures[i], wo, wi)])

is_delta_closure_kind(kind) == kind \in {"specular_reflection", "specular_transmission"}

aggregate_delta_atom(m, wo, wi) ==
    LET matching(i) ==
            /\ is_delta_closure_kind(m.closures[i].kind)
            /\ LET candidate == sample_closure_record(m.closures[i], wo, <<0, 1>>, 1)
               IN  candidate.status = "sampled" /\ candidate.incoming = wi
    IN  [value |-> [l \in Lanes |-> Sum([i \in Active(m) |->
                        IF matching(i) THEN m.closures[i].weight[l] ELSE 0])],
         probability |-> Sum([i \in Active(m) |->
                        IF matching(i) THEN m.probabilities[i] * 2 * Cells ELSE 0])]

selected_component(m, s) ==
    LET reached == {i \in Active(m) : s < 2 * m.cdf[i]}
    IN  IF reached = {} THEN 0 ELSE CHOOSE i \in reached : \A j \in reached : i <= j

local_sample(m, k, s) == <<s - 2 * m.cdf[k - 1], 2 * m.probabilities[k]>>

(* What a sampled lobe is worth in the mixture, given its value and its
   density there. *)
in_the_mixture(m, sampled, value, density, wo) ==
    LET atom == aggregate_delta_atom(m, wo, sampled.incoming)
    IN  IF m.active_count = 1 THEN [sampled EXCEPT !.probability = @ * Scale]
        ELSE IF sampled.measure = "discrete"
             THEN [sampled EXCEPT !.value = atom.value, !.probability = atom.probability]
        ELSE IF value = Refused \/ density < 0 THEN empty_lobe_sample("error")
        ELSE [sampled EXCEPT !.value = value, !.probability = density]

sampled_from(m, wo, k, sampled) ==
    IF ~valid_closure_mixture_record(m) THEN empty_lobe_sample("error")
    ELSE IF m.active_count = 0 THEN empty_lobe_sample("none")
    ELSE IF k = 0 THEN empty_lobe_sample("error")
    ELSE IF sampled.status # "sampled" THEN sampled
    ELSE in_the_mixture(m, sampled, closure_mixture_eval(m, wo, sampled.incoming),
                        closure_mixture_pdf(m, wo, sampled.incoming), wo)

sample_closure_mixture(m, wo, s, u) ==
    LET k == selected_component(m, s)
    IN  sampled_from(m, wo, k,
                     sample_closure_record(m.closures[k], wo, local_sample(m, k, s), u))

------------------------------------------------------
(* The depth filter. *)

valid_surface_scattering_event(lobes) ==
    /\ Cardinality(lobes \cap {"diffuse", "glossy", "specular"}) = 1
    /\ Cardinality(lobes \cap ScatteringDirectionMask) = 1
    /\ Cardinality(lobes) = 2

validate_depth_filter_state(counters, expected_total) ==
    LET surface == counters["diffuse"] + counters["glossy"] + counters["specular"]
        total   == surface + counters["volume"]
    IN  IF total > MaxDepth THEN "not_representable"
        ELSE IF \/ total # expected_total \/ counters["transmission"] > surface
                \/ \E k \in DOMAIN DepthLimits : counters[k] > DepthLimits[k]
             THEN "invalid_argument"
        ELSE "success"

depth_event_filter(counters, event) ==
    {k \in event \cap {"diffuse", "glossy", "specular", "transmission"} :
        counters[k] >= DepthLimits[k]}

Events(closure) ==
    IF closure.kind = "rough_dielectric"
    THEN {{"glossy", d} : d \in ScatteringDirectionMask}
    ELSE {closure.lobes}

allowed_directions(counters, closure) ==
    UNION {event \cap ScatteringDirectionMask :
              event \in {e \in Events(closure) : depth_event_filter(counters, e) = {}}}

(* What is left shares the whole in the proportions it had: rounded down to
   the grid, the largest remainders first. *)
build_filtered_component_distribution(m) ==
    LET total    == Sum(SubSeq(m.probabilities, 1, m.active_count))
        scaled   == [i \in Active(m) |-> Scale * m.probabilities[i]]
        base     == [i \in Active(m) |-> scaled[i] \div total]
        rest     == [i \in Active(m) |-> scaled[i] % total]
        missing  == Scale - Sum(base)
        before(i) == {j \in Active(m) : rest[j] > rest[i] \/ (rest[j] = rest[i] /\ j < i)}
        masses   == [i \in Active(m) |-> IF rest[i] > 0 /\ Cardinality(before(i)) < missing
                                         THEN base[i] + 1 ELSE base[i]]
        refused  == \/ \E i \in Active(m) : m.probabilities[i] = total \/ masses[i] = 0
                    \/ missing \notin 0 .. m.active_count
                    \/ Sum(masses) # Scale
        spread(s) == [m EXCEPT !.probabilities = [i \in Slots |-> IF i \in Active(m) THEN s[i]
                                                                  ELSE @[i]],
                               !.cdf = [i \in 0 .. MaximumClosureCount |->
                                          IF i <= m.active_count THEN Sum(SubSeq(s, 1, i))
                                          ELSE @[i]]]
    IN  IF m.active_count = 0 THEN [built |-> TRUE, mixture |-> m]
        ELSE IF m.active_count = 1 THEN [built |-> TRUE, mixture |-> spread(<<Scale>>)]
        ELSE IF refused THEN [built |-> FALSE, mixture |-> m]
        ELSE [built |-> TRUE, mixture |-> spread(masses)]

(* The closures that stay, moved to the front. The slots behind them keep
   what they held unless something was dropped. *)
kept(m, counters) ==
    SelectSeq([i \in Active(m) |-> i], LAMBDA i : allowed_directions(counters, m.closures[i]) # {})

compacted(m, sources) ==
    LET n == Len(sources)
    IN  [m EXCEPT !.active_count  = n,
                  !.closures      = [i \in Slots |-> IF i <= n THEN @[sources[i]]
                                                     ELSE zero_closure_record],
                  !.probabilities = [i \in Slots |-> IF i <= n THEN @[sources[i]] ELSE 0],
                  !.cdf           = [i \in 0 .. MaximumClosureCount |-> 0]]

(* A plausible slip: what is left keeps the probabilities it had. *)
filter_without_rebuild(m, counters, expected_total) ==
    LET sources == kept(m, counters)
        checked == IF valid_closure_mixture_record(m)
                   THEN validate_depth_filter_state(counters, expected_total)
                   ELSE "invalid_argument"
    IN  [mixture            |-> IF checked # "success" THEN m ELSE compacted(m, sources),
         source_count       |-> m.active_count,
         source_indices     |-> sources,
         allowed_directions |-> [i \in DOMAIN sources |->
                                   allowed_directions(counters, m.closures[sources[i]])],
         blocked_lobes      |-> UNION {depth_event_filter(counters, e) :
                                   e \in UNION {Events(m.closures[i]) : i \in Active(m)}},
         status             |-> checked]

filter_closure_mixture_by_depth(m, counters, expected_total) ==
    LET sources == kept(m, counters)
        rebuilt == build_filtered_component_distribution(compacted(m, sources))
        checked == IF valid_closure_mixture_record(m)
                   THEN validate_depth_filter_state(counters, expected_total)
                   ELSE "invalid_argument"
        events  == UNION {Events(m.closures[i]) : i \in Active(m)}
        result(mixture, status) ==
            [mixture            |-> mixture,
             source_count       |-> m.active_count,
             source_indices     |-> sources,
             allowed_directions |-> [i \in DOMAIN sources |->
                                       allowed_directions(counters, m.closures[sources[i]])],
             blocked_lobes      |-> UNION {depth_event_filter(counters, e) : e \in events},
             status             |-> status]
    IN  IF checked # "success" THEN result(m, checked)
        ELSE IF \E e \in events : ~valid_surface_scattering_event(e)
             THEN result(m, "invalid_argument")
        ELSE IF Len(sources) = m.active_count THEN result(m, "success")
        ELSE IF ~rebuilt.built \/ ~valid_closure_mixture_record(rebuilt.mixture)
             THEN result(rebuilt.mixture, "not_representable")
        ELSE result(rebuilt.mixture, "success")

valid_depth_filtered_closure_mixture(f) ==
    /\ f.status = "success" /\ valid_closure_mixture_record(f.mixture)
    /\ f.mixture.active_count <= f.source_count
    /\ \A i \in Active(f.mixture) :
         /\ f.source_indices[i] <= f.source_count
         /\ valid_rough_dielectric_direction_mask(f.allowed_directions[i])

depth_filtered_closure_mixture_eval(f, wo, wi) ==
    IF ~valid_depth_filtered_closure_mixture(f) THEN Refused
    ELSE checked_accumulate([i \in Active(f.mixture) |->
             eval_closure_record_with_direction_mask(f.mixture.closures[i],
                 f.allowed_directions[i], wo, wi)])

depth_filtered_closure_mixture_pdf(f, wo, wi) ==
    IF ~valid_depth_filtered_closure_mixture(f) THEN -1
    ELSE IF f.mixture.active_count = 0 THEN 0
    ELSE weighted_density(f.mixture, [i \in Active(f.mixture) |->
             pdf_closure_record_with_direction_mask(f.mixture.closures[i],
                 f.allowed_directions[i], wo, wi)])

sampled_from_filtered(f, wo, k, sampled) ==
    IF ~valid_depth_filtered_closure_mixture(f) THEN empty_lobe_sample("error")
    ELSE IF f.mixture.active_count = 0 THEN empty_lobe_sample("none")
    ELSE IF k = 0 THEN empty_lobe_sample("error")
    ELSE IF sampled.status # "sampled" THEN sampled
    ELSE in_the_mixture(f.mixture, sampled,
                        depth_filtered_closure_mixture_eval(f, wo, sampled.incoming),
                        depth_filtered_closure_mixture_pdf(f, wo, sampled.incoming), wo)

sample_depth_filtered_closure_mixture(f, wo, s, u) ==
    LET k == selected_component(f.mixture, s)
    IN  sampled_from_filtered(f, wo, k,
            sample_closure_record_with_direction_mask(f.mixture.closures[k],
                f.allowed_directions[k], wo, local_sample(f.mixture, k, s), u))
===============================================================================
