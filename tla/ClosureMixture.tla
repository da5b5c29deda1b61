---------------------------- MODULE ClosureMixture ----------------------------
(***************************************************************************)
(* How a surface of several lobes is described, sampled and cut down to     *)
(* what the depth limits of a path still accept. A material is described    *)
(* with closures and component probabilities, which are projected onto the  *)
(* grid of the sampler; at a hit the host makes the mixture again from the  *)
(* stored probabilities and the device loads it into a record; for every    *)
(* vertex both drop or mask the closures a limit blocks and share the       *)
(* probability of what was dropped among the rest.                          *)
(*                                                                         *)
(* An estimate is unbiased only if the probability that comes with a sample *)
(* is the one with which it is drawn, whichever closure drew it, and if its *)
(* value is that of every closure that scatters there. Both sides repeat    *)
(* the projection and the filter in code of their own.                      *)
(*                                                                         *)
(* The grid has Scale cells; a component sample is one of 2 * Scale. Given  *)
(* probabilities are in Grains. Densities are in units of the chance of one *)
(* pair of a component sample and a direction sample.                       *)
(***************************************************************************)
EXTENDS SurfaceLobes, FiniteSets, SequencesExt

CONSTANTS
    Surfaces,       \* what materials are described with
    DepthStates,    \* the depth counters a path comes to the surface with
    DepthLimits, MaxDepth,
    Scale, Grain

ClosureMixtureAssumption ==
    /\ Scale \in Nat \ {0} /\ Grain \in Nat \ {0} /\ MaximumClosureCount \in Nat \ {0}


Depth == INSTANCE PathDepthLimits

VARIABLES
    surface,    \* as it is described
    stage,      \* "given", "refused", "described", "resolved", "failed" or "shading"
    material,   \* SceneClosureMixture: closures and projected probabilities
    mixture,    \* the host's ClosureMixture at the hit
    record,     \* the device's ClosureMixtureRecord
    counters, outgoing,     \* of the vertex that is shaded
    filtered,   \* the host's DepthFilteredClosureMixture
    state       \* the device's DepthFilteredClosureMixtureState, its record in place

vars == <<surface, stage, material, mixture, record, counters, outgoing, filtered, state>>

Device == INSTANCE ClosureMixtureDevice

------------------------------------------------------
(* The component distribution. *)

Total(s) == FoldLeft(+, 0, s)
boundaries(masses) == [k \in 1 .. Len(masses) + 1 |-> Total(SubSeq(masses, 1, k - 1))]

Distribution(masses) ==
    [status |-> "success", probabilities |-> masses,
     cdf |-> IF masses = << >> THEN << >> ELSE boundaries(masses)]

(* Probabilities k \div whole on the grid: each rounds down, and the cells
   that are left go to the largest remainders, one each, the first of equal
   ones first. *)
base_masses(given, whole) == [i \in DOMAIN given |-> (Scale * given[i]) \div whole]
remainders(given, whole)  == [i \in DOMAIN given |-> (Scale * given[i]) % whole]

receives(rest, i, missing) ==
    /\ rest[i] > 0
    /\ Cardinality({j \in DOMAIN rest : rest[j] > rest[i] \/ (rest[j] = rest[i] /\ j < i)}) < missing

projected(given, whole) ==
    LET base == base_masses(given, whole)
        rest == remainders(given, whole)
    IN  [i \in DOMAIN given |->
            IF receives(rest, i, Scale - Total(base)) THEN base[i] + 1 ELSE base[i]]

build_component_distribution(given, whole, count, allow_empty) ==
    LET base    == base_masses(given, whole)
        rest    == remainders(given, whole)
        missing == Scale - Total(base)
        off     == Total(rest) - missing * whole
    IN  IF Len(given) # count \/ (given = << >> /\ ~allow_empty) THEN Failed
        ELSE IF given = << >> THEN Distribution(given)
        ELSE IF count = 1 THEN IF given[1] = whole THEN Distribution(<<Scale>>) ELSE Failed
        ELSE IF \/ \E i \in DOMAIN given : given[i] \notin 1 .. whole - 1
                \/ missing < 0 \/ missing > count
                \/ off * 2 > whole \/ -off * 2 > whole
                \/ Cardinality({i \in DOMAIN rest : rest[i] > 0}) < missing
                \/ \E i \in DOMAIN given : projected(given, whole)[i] = 0
             THEN Failed
        ELSE Distribution(projected(given, whole))

(* ClosureMixture::create *)
create(closures, given, whole) ==
    LET distribution == build_component_distribution(given, whole, Len(closures), TRUE)
    IN  IF distribution.status = "error" THEN Failed
        ELSE IF \E i \in DOMAIN closures : ~validate_closure_record(closures[i]) THEN Failed
        ELSE [status |-> "success", closures |-> closures,
              probabilities |-> distribution.probabilities, cdf |-> distribution.cdf]

------------------------------------------------------
(* A mixture. Values add up, densities are weighted once by the component
   probabilities; a single closure answers for itself. *)

add_values(values) ==
    IF \E i \in DOMAIN values : values[i] = Refused THEN Refused
    ELSE [l \in Lanes |-> Total([i \in DOMAIN values |-> values[i][l]])]

mix_probability_densities(masses, conditional) ==
    IF \E i \in DOMAIN conditional : conditional[i] < 0 THEN -1
    ELSE IF Len(conditional) = 1 THEN conditional[1] * Scale
    ELSE Total([i \in DOMAIN conditional |-> masses[i] * conditional[i]])

eval(m, wo, wi) ==
    add_values([i \in DOMAIN m.closures |-> eval_closure_record(m.closures[i], wo, wi)])

pdf(m, wo, wi) ==
    IF m.closures = << >> THEN 0
    ELSE mix_probability_densities(m.probabilities,
             [i \in DOMAIN m.closures |-> pdf_closure_record(m.closures[i], wo, wi)])

(* The first component whose boundary is above the sample, and the place of
   the sample between its boundaries. *)
select_component(cdf, s) == SelectInSeq(Tail(cdf), LAMBDA boundary : s < 2 * boundary)
remap_component_sample(cdf, masses, k, s) == <<s - 2 * cdf[k], 2 * masses[k]>>

(* Delta closures that agree on a direction are one atom. *)
aggregate_delta_atom(closures, masses, wo, wi) ==
    LET hits == {i \in DOMAIN closures :
                    /\ is_delta_closure_kind(closures[i].kind)
                    /\ LET candidate == sample_closure_record(closures[i], wo, <<0, 1>>, 1)
                       IN  candidate.status = "sampled" /\ candidate.incoming = wi}
    IN  [value |-> [l \in Lanes |-> Total([i \in DOMAIN closures |->
                        IF i \in hits THEN closures[i].weight[l] ELSE 0])],
         probability |-> Total([i \in DOMAIN closures |->
                        IF i \in hits THEN masses[i] * Certain ELSE 0])]

(* What a sample of one of several closures is worth in the whole mixture. *)
mixed(sampled, value, probability, closures, masses, wo) ==
    IF Len(closures) = 1 THEN [sampled EXCEPT !.probability = @ * Scale]
    ELSE IF sampled.measure = "solid_angle"
         THEN IF value = Refused \/ probability < 0 THEN Failed
              ELSE [sampled EXCEPT !.value = value, !.probability = probability]
    ELSE LET atom == aggregate_delta_atom(closures, masses, wo, sampled.incoming)
         IN  [sampled EXCEPT !.value = atom.value, !.probability = atom.probability]

in_the_mixture(m, wo, k, sampled) ==
    IF m.closures = << >> THEN Nothing
    ELSE IF k = 0 THEN Failed
    ELSE IF sampled.status # "sampled" THEN sampled
    ELSE mixed(sampled, eval(m, wo, sampled.incoming), pdf(m, wo, sampled.incoming),
               m.closures, m.probabilities, wo)

sample(m, wo, s, u) ==
    LET k == select_component(m.cdf, s)
    IN  in_the_mixture(m, wo, k,
            sample_closure_record(m.closures[k], wo,
                remap_component_sample(m.cdf, m.probabilities, k, s), u))

------------------------------------------------------
(* DepthFilteredClosureMixture: the source stays as it is. *)

Events(closure) ==
    IF closure.kind = "rough_dielectric" THEN {{"glossy", d} : d \in Directions}
    ELSE {closure.lobes}

allowed_directions(c, closure) ==
    UNION {e \cap Directions : e \in {x \in Events(closure) : Depth!accepted(c, x)}}

filter_by_depth(source, c) ==
    LET events  == UNION {Events(source.closures[i]) : i \in DOMAIN source.closures}
        active  == SelectSeq([i \in DOMAIN source.closures |-> i],
                             LAMBDA i : allowed_directions(c, source.closures[i]) # {})
        masses  == [k \in DOMAIN active |-> source.probabilities[active[k]]]
        shared  == build_component_distribution(masses, Total(masses), Len(active), FALSE)
        Filtered(distribution) ==
            IF distribution.status = "error" THEN Failed
            ELSE [status        |-> "success",
                  closures      |-> [k \in DOMAIN active |-> source.closures[active[k]]],
                  probabilities |-> distribution.probabilities,
                  cdf           |-> distribution.cdf,
                  directions    |-> [k \in DOMAIN active |->
                                       allowed_directions(c, source.closures[active[k]])],
                  blocked_lobes |-> Depth!blocked_lobes(c, events)]
    IN  IF Depth!filter_fails(c, events) THEN Failed
        ELSE IF Len(active) \in {0, Len(source.closures)} THEN Filtered(Distribution(masses))
        ELSE IF Len(active) = 1 THEN Filtered(Distribution(<<Scale>>))
        ELSE Filtered(shared)

filtered_eval(f, wo, wi) ==
    add_values([k \in DOMAIN f.closures |->
                  eval_with_direction_mask(f.closures[k], f.directions[k], wo, wi)])

filtered_pdf(f, wo, wi) ==
    IF f.closures = << >> THEN 0
    ELSE mix_probability_densities(f.probabilities, [k \in DOMAIN f.closures |->
             pdf_with_direction_mask(f.closures[k], f.directions[k], wo, wi)])

in_the_filtered(f, wo, k, sampled) ==
    IF f.closures = << >> THEN Nothing
    ELSE IF k = 0 THEN Failed
    ELSE IF sampled.status # "sampled" THEN sampled
    ELSE mixed(sampled, filtered_eval(f, wo, sampled.incoming),
               filtered_pdf(f, wo, sampled.incoming), f.closures, f.probabilities, wo)

filtered_sample(f, wo, s, u) ==
    LET k == select_component(f.cdf, s)
    IN  in_the_filtered(f, wo, k,
            sample_with_direction_mask(f.closures[k], f.directions[k], wo,
                remap_component_sample(f.cdf, f.probabilities, k, s), u))

------------------------------------------------------
(* A material and its hits. *)

AnyDirection == [side |-> 1, grazing |-> FALSE]

Init ==
    /\ surface \in Surfaces /\ stage = "given"
    /\ material = Failed /\ mixture = Failed /\ record = Failed
    /\ counters = Depth!NoCounters /\ outgoing = AnyDirection
    /\ filtered = Failed /\ state = Failed

(* read_closure_mixture: one closure after the other, up to the first that
   cannot be appended; then SceneClosureMixture::create. *)
described_closures ==
    FoldLeft(LAMBDA r, c : IF r.status = "appended" THEN append_closure(r.closures, c) ELSE r,
             [status |-> "appended", closures |-> << >>], surface)

describe ==
    LET appended == described_closures
        created  == IF appended.status # "appended" THEN Failed
                    ELSE create(appended.closures,
                                [i \in DOMAIN surface |-> surface[i].probability], Grain)
    IN  /\ stage = "given"
        /\ material' = created
        /\ stage' = IF created.status = "error" THEN "refused" ELSE "described"
        /\ UNCHANGED <<surface, mixture, record, counters, outgoing, filtered, state>>

(* SceneSurfaceInteraction: the projection is applied to what it gave. *)
resolve ==
    LET recreated == create(material.closures, material.probabilities, Scale)
        loaded    == Device!load_material_closure_mixture(material.closures,
                                                          material.probabilities)
    IN  /\ stage = "described"
        /\ mixture' = recreated /\ record' = loaded
        /\ stage' = IF recreated.status = "error" \/ loaded.status # "valid"
                    THEN "failed" ELSE "resolved"
        /\ UNCHANGED <<surface, material, counters, outgoing, filtered, state>>

shade(c, wo) ==
    /\ stage = "resolved" /\ stage' = "shading"
    /\ counters' = c /\ outgoing' = wo
    /\ filtered' = filter_by_depth(mixture, c)
    /\ state' = Device!filter_closure_mixture_by_depth(record.mixture, c,
                                                       Depth!path_depth_total(c))
    /\ UNCHANGED <<surface, material, mixture, record>>

next_vertex ==
    /\ stage = "shading" /\ stage' = "resolved"
    /\ counters' = Depth!NoCounters /\ outgoing' = AnyDirection
    /\ filtered' = Failed /\ state' = Failed
    /\ UNCHANGED <<surface, material, mixture, record>>

without_material == stage \in {"refused", "failed"} /\ UNCHANGED vars

Next ==
    \/ describe
    \/ resolve
    \/ \E c \in DepthStates, wo \in Outgoing : shade(c, wo)
    \/ next_vertex
    \/ without_material

Spec == Init /\ [][Next]_vars

------------------------------------------------------
(* What is checked. Points are the sample pairs, drawn with equal chance. *)

Points == (0 .. 2 * Scale - 1) \X Facets

(* The source closures that, alone and unfiltered, would scatter to wi by
   an event the limits still accept. *)
Reaching(wi, measure) ==
    {i \in DOMAIN material.closures : \E event \in 0 .. 1, u \in Facets :
        LET alone == sample_closure_record(material.closures[i], outgoing, <<event, 2>>, u)
        IN  /\ alone.status = "sampled" /\ alone.measure = measure /\ alone.incoming = wi
            /\ Depth!accepted(counters, alone.lobes)}

Worth(wi, measure) ==
    LET reaching == Reaching(wi, measure)
    IN  [l \in Lanes |-> Total([i \in DOMAIN material.closures |->
            IF i \in reaching THEN material.closures[i].weight[l] ELSE 0])]

(* What a description accepted can be made again at every hit, and a filter
   only fails for depth counters no path has: on both sides, which block
   the same lobes. *)
FilterSound ==
    /\ stage # "failed"
    /\ stage = "shading" =>
         /\ (filtered.status = "success") <=>
                Depth!validate_path_depth_state(counters, Depth!path_depth_total(counters))
         /\ (filtered.status = "success") <=> (state.status = "success")
         /\ filtered.status = "success" => filtered.blocked_lobes = state.blocked_lobes

Shaded == stage = "shading" /\ filtered.status = "success"

Leading(drawn, wi, measure) ==
    Cardinality({p \in Points : /\ drawn[p].status = "sampled"
                                /\ drawn[p].incoming = wi /\ drawn[p].measure = measure})

DrawSound(drawn, x) ==
    /\ x.status # "error"
    /\ x.status = "sampled" =>
         /\ x.probability = Leading(drawn, x.incoming, x.measure)
         /\ x.value = Worth(x.incoming, x.measure)
         /\ Depth!accepted(counters, x.lobes)

DrawsSound(drawn) ==
    /\ \A x \in {drawn[p] : p \in Points} : DrawSound(drawn, x)
    /\ \A wi \in Incoming(outgoing) :
         /\ filtered_pdf(filtered, outgoing, wi) = Leading(drawn, wi, "solid_angle")
         /\ filtered_eval(filtered, outgoing, wi) = Worth(wi, "solid_angle")

(* The probability that comes with a sample is the one with which all of
   its closures together draw it, the density of a direction is the number
   of samples that lead there, and the value is that of every closure which
   may still scatter there, however the limits cut the mixture down. *)
SamplesSound ==
    Shaded => DrawsSound([p \in Points |-> filtered_sample(filtered, outgoing, p[1], p[2])])

PointAgrees(p, host) ==
    /\ Device!sample_depth_filtered_closure_mixture(state, outgoing, p[1], p[2]) = host
    /\ filtered.blocked_lobes = {} =>
         /\ sample(mixture, outgoing, p[1], p[2]) = host
         /\ Device!sample_closure_mixture(record.mixture, outgoing, p[1], p[2]) = host

DirectionAgrees(wi, value, density) ==
    /\ Device!depth_filtered_closure_mixture_eval(state, outgoing, wi) = value
    /\ Device!depth_filtered_closure_mixture_pdf(state, outgoing, wi) = density
    /\ filtered.blocked_lobes = {} =>
         /\ eval(mixture, outgoing, wi) = value
         /\ pdf(mixture, outgoing, wi) = density
         /\ Device!closure_mixture_eval(record.mixture, outgoing, wi) = value
         /\ Device!closure_mixture_pdf(record.mixture, outgoing, wi) = density

(* The kernels give what the host gives; where nothing is blocked, both
   give what the mixture itself gives. *)
SidesAgree ==
    Shaded =>
    /\ \A p \in Points : PointAgrees(p, filtered_sample(filtered, outgoing, p[1], p[2]))
    /\ \A wi \in Incoming(outgoing) :
         DirectionAgrees(wi, filtered_eval(filtered, outgoing, wi),
                         filtered_pdf(filtered, outgoing, wi))

(* Cut down by the depth limits of its path, a mixture of lobes still draws
   every direction with the probability it reports and the value of all
   closures that may scatter there, on the host and in the kernels
   (DepthFilteredClosureMixture.hpp, TransportLobesDevice.cuh). *)
MixtureSound == FilterSound /\ SamplesSound /\ SidesAgree
===============================================================================
