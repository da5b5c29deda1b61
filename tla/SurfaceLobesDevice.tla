-------------------------- MODULE SurfaceLobesDevice --------------------------
(***************************************************************************)
(* The lobes once more, as the CUDA kernels have them in                    *)
(* TransportLobesDevice.cuh: functions of the numbers in a closure record,  *)
(* each of which refuses numbers that are no lobe. Of the statuses,         *)
(* outside_support is "none" and every failure "error"; a value that failed *)
(* is Refused and a probability -1.                                         *)
(***************************************************************************)
EXTENDS LobeGeometry, FiniteSets

ClosureParameterScalarCount == 6
ScatteringDirectionMask     == {"reflection", "transmission"}

Refused == << >>
empty_lobe_sample(status) == [status |-> status]

LobeSample(incoming, value, probability, measure, lobes, eta_scale) ==
    [status |-> "sampled", incoming |-> incoming, value |-> value, probability |-> probability,
     measure |-> measure, lobes |-> lobes, eta_scale |-> eta_scale]

spectrum_is_reflectance(w)           == \A l \in Lanes : 0 <= w[l] /\ w[l] <= One
positive_spectrum(w)                 == \A l \in Lanes : w[l] > 0
spectrum_is_finite_nonnegative(w)    == \A l \in Lanes : w[l] >= 0
spectrum_is_zero(w)                  == \A l \in Lanes : w[l] = 0
representable_ggx_width_pair(x, y)   == x > 0 /\ y > 0

------------------------------------------------------
(* Records. *)

zero_closure_record ==
    [kind |-> "none", lobes |-> {}, weight |-> Black,
     parameters |-> [i \in 1 .. ClosureParameterScalarCount |-> 0]]

zeroes(p, from) == \A i \in from .. ClosureParameterScalarCount : p[i] = 0

valid_rough_dielectric(w, exterior, interior, x, y) ==
    /\ spectrum_is_reflectance(w) /\ exterior > 0 /\ interior > 0 /\ exterior # interior
    /\ representable_ggx_width_pair(x, y)

conductor_eta(p) == <<p[1], p[2]>>
conductor_k(p)   == <<p[3], p[4]>>

valid_closure_record(c) ==
    LET p == c.parameters
    IN  /\ spectrum_is_reflectance(c.weight)
        /\ \/ c.kind = "lambertian_reflection" /\ c.lobes = {"diffuse", "reflection"}
              /\ zeroes(p, 1)
           \/ c.kind = "rough_diffuse_reflection" /\ c.lobes = {"diffuse", "reflection"}
              /\ p[1] \in 0 .. 2 /\ zeroes(p, 2)
           \/ c.kind = "rough_conductor_reflection" /\ c.lobes = {"glossy", "reflection"}
              /\ positive_spectrum(conductor_eta(p))
              /\ spectrum_is_finite_nonnegative(conductor_k(p))
              /\ representable_ggx_width_pair(p[5], p[6])
           \/ c.kind = "rough_dielectric" /\ c.lobes = {"glossy"} \cup ScatteringDirectionMask
              /\ valid_rough_dielectric(c.weight, p[1], p[2], p[3], p[4]) /\ zeroes(p, 5)
           \/ c.kind = "specular_reflection" /\ c.lobes = {"specular", "reflection"}
              /\ zeroes(p, 1)
           \/ c.kind = "specular_transmission" /\ c.lobes = {"specular", "transmission"}
              /\ p[1] > 0 /\ p[2] > 0 /\ zeroes(p, 3)

------------------------------------------------------
(* Reflection off the upper side. *)

both_above(wo, wi) == wo.side > 0 /\ wi.side > 0

sample_cosine_hemisphere(u) == IF u \in Upward THEN Toward(1, u) ELSE Horizon

lambert_eval(w, wo, wi) ==
    IF ~spectrum_is_reflectance(w) THEN Refused ELSE IF both_above(wo, wi) THEN w ELSE Black
lambert_pdf(wo, wi) == IF both_above(wo, wi) THEN 2 ELSE 0

sample_lambert(w, wo, u) ==
    LET wi == sample_cosine_hemisphere(u)
    IN  IF ~spectrum_is_reflectance(w) THEN empty_lobe_sample("error")
        ELSE IF ~both_above(wo, wi) THEN empty_lobe_sample("none")
        ELSE LobeSample(wi, lambert_eval(w, wo, wi), lambert_pdf(wo, wi), "solid_angle",
                        {"diffuse", "reflection"}, <<1, 1>>)

rough_diffuse_eval(w, roughness, wo, wi) ==
    IF ~spectrum_is_reflectance(w) \/ roughness \notin 0 .. 2 THEN Refused
    ELSE IF ~both_above(wo, wi) \/ spectrum_is_zero(w) THEN Black
    ELSE w

rough_diffuse_pdf(roughness, wo, wi) ==
    IF roughness \notin 0 .. 2 THEN -1 ELSE lambert_pdf(wo, wi)

sample_rough_diffuse(w, roughness, wo, u) ==
    LET wi == sample_cosine_hemisphere(u)
    IN  IF ~spectrum_is_reflectance(w) \/ roughness \notin 0 .. 2 THEN empty_lobe_sample("error")
        ELSE IF ~both_above(wo, wi) THEN empty_lobe_sample("none")
        ELSE LobeSample(wi, rough_diffuse_eval(w, roughness, wo, wi),
                        rough_diffuse_pdf(roughness, wo, wi), "solid_angle",
                        {"diffuse", "reflection"}, <<1, 1>>)

ggx_sample_visible_normal(u)  == u
ggx_visible_normal_pdf(facet) == IF facet \in Facets THEN 2 ELSE 0

reflection_geometry(wi)   == wi.cell
transmission_geometry(wi) == wi.cell       \* Not supported when it is 0.

conductor(w, p) ==
    /\ spectrum_is_reflectance(w) /\ positive_spectrum(conductor_eta(p))
    /\ spectrum_is_finite_nonnegative(conductor_k(p))
    /\ representable_ggx_width_pair(p[5], p[6])

rough_conductor_eval(w, p, wo, wi) ==
    IF ~conductor(w, p) THEN Refused
    ELSE IF ~both_above(wo, wi) \/ spectrum_is_zero(w) THEN Black
    ELSE w

rough_conductor_pdf(p, wo, wi) ==
    IF ~representable_ggx_width_pair(p[5], p[6]) THEN -1
    ELSE IF ~both_above(wo, wi) THEN 0
    ELSE ggx_visible_normal_pdf(reflection_geometry(wi))

sample_rough_conductor(w, p, wo, u) ==
    LET wi == mirrored(wo, ggx_sample_visible_normal(u))
    IN  IF ~conductor(w, p) THEN empty_lobe_sample("error")
        ELSE IF ~both_above(wo, wi) THEN empty_lobe_sample("none")
        ELSE LobeSample(wi, rough_conductor_eval(w, p, wo, wi), rough_conductor_pdf(p, wo, wi),
                        "solid_angle", {"glossy", "reflection"}, <<1, 1>>)

------------------------------------------------------
(* The rough dielectric and its direction mask. *)

dielectric_interface(wo, p) ==
    IF wo.side > 0 THEN [incident_eta |-> p[1], transmitted_eta |-> p[2]]
    ELSE [incident_eta |-> p[2], transmitted_eta |-> p[1]]

dielectric_fresnel(wo, facet, i) ==
    CASE i.incident_eta = i.transmitted_eta                            -> 0
      [] i.incident_eta > i.transmitted_eta /\ critical(wo, facet)     -> 2
      [] OTHER                                                         -> 1

rough_dielectric_eval(w, p, wo, wi) ==
    LET i == dielectric_interface(wo, p)
    IN  IF ~valid_rough_dielectric(w, p[1], p[2], p[3], p[4]) THEN Refused
        ELSE IF wo.side = 0 \/ wi.side = 0 THEN Black
        ELSE IF wi.side = wo.side
             THEN IF dielectric_fresnel(wo, reflection_geometry(wi), i) = 0 THEN Black ELSE w
        ELSE IF \/ transmission_geometry(wi) = 0
                \/ dielectric_fresnel(wo, transmission_geometry(wi), i) = 2
             THEN Black
        ELSE w

rough_dielectric_pdf(w, p, wo, wi) ==
    LET i       == dielectric_interface(wo, p)
        fresnel == dielectric_fresnel(wo, wi.cell, i)
        visible == ggx_visible_normal_pdf(wi.cell)
    IN  IF ~valid_rough_dielectric(w, p[1], p[2], p[3], p[4]) THEN -1
        ELSE IF wo.side = 0 \/ wi.side = 0 THEN 0
        ELSE IF wi.side = wo.side THEN (fresnel * visible) \div 2
        ELSE IF transmission_geometry(wi) = 0 THEN 0
        ELSE ((2 - fresnel) * visible) \div 2

sample_rough_dielectric(w, p, wo, event, u) ==
    LET i        == dielectric_interface(wo, p)
        facet    == ggx_sample_visible_normal(u)
        reflects == event[1] * 2 < dielectric_fresnel(wo, facet, i) * event[2]
        wi       == IF reflects THEN mirrored(wo, facet) ELSE refracted(wo, facet)
    IN  IF ~valid_rough_dielectric(w, p[1], p[2], p[3], p[4]) THEN empty_lobe_sample("error")
        ELSE IF wo.side = 0 THEN empty_lobe_sample("none")
        ELSE IF ~reflects /\ i.incident_eta > i.transmitted_eta /\ critical(wo, facet)
             THEN empty_lobe_sample("error")
        ELSE IF reflects # (wi.side = wo.side) THEN empty_lobe_sample("none")
        ELSE LobeSample(wi, rough_dielectric_eval(w, p, wo, wi),
                        rough_dielectric_pdf(w, p, wo, wi), "solid_angle",
                        {"glossy", IF reflects THEN "reflection" ELSE "transmission"},
                        IF reflects THEN <<1, 1>> ELSE <<i.transmitted_eta, i.incident_eta>>)

valid_rough_dielectric_direction_mask(mask) ==
    mask \in {{"reflection"}, {"transmission"}, ScatteringDirectionMask}

direction(wo, wi) == IF (wo.side > 0) = (wi.side > 0) THEN "reflection" ELSE "transmission"

rough_dielectric_eval_with_direction_mask(c, mask, wo, wi) ==
    LET evaluated == rough_dielectric_eval(c.weight, c.parameters, wo, wi)
    IN  IF ~valid_rough_dielectric_direction_mask(mask) THEN Refused
        ELSE IF evaluated = Refused \/ wo.side = 0 \/ wi.side = 0 THEN evaluated
        ELSE IF direction(wo, wi) \in mask THEN evaluated
        ELSE Black

rough_dielectric_pdf_with_direction_mask(c, mask, wo, wi) ==
    LET base    == rough_dielectric_pdf(c.weight, c.parameters, wo, wi)
        fresnel == dielectric_fresnel(wo, wi.cell, dielectric_interface(wo, c.parameters))
        branch_probability == IF direction(wo, wi) = "reflection" THEN fresnel ELSE 2 - fresnel
    IN  IF ~valid_rough_dielectric_direction_mask(mask) THEN -1
        ELSE IF base <= 0 \/ wo.side = 0 \/ wi.side = 0 THEN base
        ELSE IF direction(wo, wi) \notin mask THEN 0
        ELSE IF mask = ScatteringDirectionMask THEN base
        ELSE IF branch_probability = 0 THEN -1
        ELSE (base * 2) \div branch_probability

(* A masked transmission gets the greatest sample below one. *)
sample_rough_dielectric_with_direction_mask(c, mask, wo, event, u) ==
    LET selected_event == IF mask = {"reflection"} THEN <<0, 1>>
                          ELSE IF mask = {"transmission"} THEN <<2 * Cells - 1, 2 * Cells>>
                          ELSE event
        sampled == sample_rough_dielectric(c.weight, c.parameters, wo, selected_event, u)
    IN  IF ~valid_rough_dielectric_direction_mask(mask) THEN empty_lobe_sample("error")
        ELSE IF sampled.status # "sampled" THEN sampled
        ELSE IF sampled.lobes \cap ScatteringDirectionMask \cap mask = {}
             THEN empty_lobe_sample("none")
        ELSE [sampled EXCEPT !.probability =
                 rough_dielectric_pdf_with_direction_mask(c, mask, wo, sampled.incoming)]

------------------------------------------------------
(* The delta lobes. *)

specular_delta_eval(w, wo, wi) == IF spectrum_is_reflectance(w) THEN Black ELSE Refused
specular_delta_pdf(w, wo, wi)  == IF spectrum_is_reflectance(w) THEN 0 ELSE -1

sample_specular_reflection(w, wo) ==
    IF ~spectrum_is_reflectance(w) THEN empty_lobe_sample("error")
    ELSE IF wo.side = 0 THEN empty_lobe_sample("none")
    ELSE LobeSample(Mirror(wo), w, 2 * Cells, "discrete", {"specular", "reflection"}, <<1, 1>>)

sample_specular_transmission(w, p, wo) ==
    LET i      == dielectric_interface(wo, p)
        inward == i.incident_eta < i.transmitted_eta
        through(wi, scale) ==
            LobeSample(wi, w, 2 * Cells, "discrete", {"specular", "transmission"}, scale)
    IN  IF ~spectrum_is_reflectance(w) \/ p[1] <= 0 \/ p[2] <= 0 THEN empty_lobe_sample("error")
        ELSE IF wo.side = 0 THEN empty_lobe_sample("none")
        ELSE IF i.incident_eta = i.transmitted_eta THEN through(Straight(wo), <<1, 1>>)
        ELSE IF ~inward /\ wo.grazing THEN empty_lobe_sample("none")
        ELSE through(Bent(wo, inward), <<i.transmitted_eta, i.incident_eta>>)

------------------------------------------------------
(* The dispatch on the kind of a record. *)

eval_closure_record(c, wo, wi) ==
    IF ~valid_closure_record(c) THEN Refused
    ELSE CASE c.kind = "lambertian_reflection"    -> lambert_eval(c.weight, wo, wi)
           [] c.kind = "rough_diffuse_reflection" ->
                  rough_diffuse_eval(c.weight, c.parameters[1], wo, wi)
           [] c.kind = "rough_conductor_reflection" ->
                  rough_conductor_eval(c.weight, c.parameters, wo, wi)
           [] c.kind = "rough_dielectric" ->
                  rough_dielectric_eval(c.weight, c.parameters, wo, wi)
           [] OTHER -> specular_delta_eval(c.weight, wo, wi)

pdf_closure_record(c, wo, wi) ==
    IF ~valid_closure_record(c) THEN -1
    ELSE CASE c.kind = "lambertian_reflection"    -> lambert_pdf(wo, wi)
           [] c.kind = "rough_diffuse_reflection" ->
                  rough_diffuse_pdf(c.parameters[1], wo, wi)
           [] c.kind = "rough_conductor_reflection" ->
                  rough_conductor_pdf(c.parameters, wo, wi)
           [] c.kind = "rough_dielectric" ->
                  rough_dielectric_pdf(c.weight, c.parameters, wo, wi)
           [] OTHER -> specular_delta_pdf(c.weight, wo, wi)

sample_closure_record(c, wo, event, u) ==
    IF ~valid_closure_record(c) THEN empty_lobe_sample("error")
    ELSE CASE c.kind = "lambertian_reflection"    -> sample_lambert(c.weight, wo, u)
           [] c.kind = "rough_diffuse_reflection" ->
                  sample_rough_diffuse(c.weight, c.parameters[1], wo, u)
           [] c.kind = "rough_conductor_reflection" ->
                  sample_rough_conductor(c.weight, c.parameters, wo, u)
           [] c.kind = "rough_dielectric" ->
                  sample_rough_dielectric(c.weight, c.parameters, wo, event, u)
           [] c.kind = "specular_reflection"   -> sample_specular_reflection(c.weight, wo)
           [] c.kind = "specular_transmission" ->
                  sample_specular_transmission(c.weight, c.parameters, wo)

eval_closure_record_with_direction_mask(c, mask, wo, wi) ==
    IF c.kind # "rough_dielectric" THEN eval_closure_record(c, wo, wi)
    ELSE rough_dielectric_eval_with_direction_mask(c, mask, wo, wi)

pdf_closure_record_with_direction_mask(c, mask, wo, wi) ==
    IF c.kind # "rough_dielectric" THEN pdf_closure_record(c, wo, wi)
    ELSE rough_dielectric_pdf_with_direction_mask(c, mask, wo, wi)

sample_closure_record_with_direction_mask(c, mask, wo, event, u) ==
    IF c.kind # "rough_dielectric" THEN sample_closure_record(c, wo, event, u)
    ELSE sample_rough_dielectric_with_direction_mask(c, mask, wo, event, u)
===============================================================================
