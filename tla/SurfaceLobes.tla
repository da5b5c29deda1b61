----------------------------- MODULE SurfaceLobes -----------------------------
(***************************************************************************)
(* The scattering lobes a surface is made of, on the host: the closure      *)
(* records of ClosureSet.hpp, what each kind evaluates, samples and gives   *)
(* as probability for a pair of directions, and the rough dielectric when   *)
(* one of its two directions is masked. LobeGeometry says how coarse the    *)
(* directions are; transport carries radiance. A value is the weight of the *)
(* closures that scatter from one direction to the other.                   *)
(***************************************************************************)
EXTENDS LobeGeometry, Sequences

CONSTANT MaximumClosureCount

ClosureParameterScalarCount == 6    \* eta and k of two lanes, two widths

Closure(kind, lobes, weight, parameters) ==
    [kind |-> kind, lobes |-> lobes, weight |-> weight,
     parameters |-> [i \in 1 .. ClosureParameterScalarCount |->
                       IF i \in DOMAIN parameters THEN parameters[i] ELSE 0]]

Directions == {"reflection", "transmission"}

valid_reflectance(w)  == \A l \in Lanes : w[l] \in 0 .. One
valid_roughness(r)    == r \in 0 .. 2
valid_eta(eta)        == eta > 0
valid_widths(x, y)    == x > 0 /\ y > 0
reserved(c, from)     == \A i \in from .. ClosureParameterScalarCount : c.parameters[i] = 0

------------------------------------------------------
(* ClosureSet: the payload is judged before the room that is left. *)

append(closures, valid, closure) ==
    IF ~valid THEN [status |-> "invalid_payload", closures |-> closures]
    ELSE IF Len(closures) = MaximumClosureCount
         THEN [status |-> "capacity_exhausted", closures |-> closures]
    ELSE [status |-> "appended", closures |-> Append(closures, closure)]

append_lambertian_reflection(closures, weight) ==
    append(closures, valid_reflectance(weight),
           Closure("lambertian_reflection", {"diffuse", "reflection"}, weight, << >>))

append_rough_diffuse_reflection(closures, weight, roughness) ==
    append(closures, valid_reflectance(weight) /\ valid_roughness(roughness),
           Closure("rough_diffuse_reflection", {"diffuse", "reflection"}, weight, <<roughness>>))

append_rough_conductor_reflection(closures, weight, eta, k, width) ==
    append(closures,
           /\ valid_reflectance(weight) /\ valid_widths(width[1], width[2])
           /\ \A l \in Lanes : valid_eta(eta[l]) /\ k[l] >= 0,
           Closure("rough_conductor_reflection", {"glossy", "reflection"}, weight,
                   eta \o k \o width))

append_rough_dielectric(closures, weight, exterior, interior, width) ==
    append(closures,
           /\ valid_reflectance(weight) /\ valid_widths(width[1], width[2])
           /\ valid_eta(exterior) /\ valid_eta(interior) /\ exterior # interior,
           Closure("rough_dielectric", {"glossy"} \cup Directions, weight,
                   <<exterior, interior>> \o width))

append_specular_reflection(closures, weight) ==
    append(closures, valid_reflectance(weight),
           Closure("specular_reflection", {"specular", "reflection"}, weight, << >>))

append_specular_transmission(closures, weight, exterior, interior) ==
    append(closures, valid_reflectance(weight) /\ valid_eta(exterior) /\ valid_eta(interior),
           Closure("specular_transmission", {"specular", "transmission"}, weight,
                   <<exterior, interior>>))

append_closure(closures, component) ==
    LET w == component.weight
        p == component.payload
    IN  CASE component.type = "lambertian_reflection" ->
                 append_lambertian_reflection(closures, w)
          [] component.type = "rough_diffuse_reflection" ->
                 append_rough_diffuse_reflection(closures, w, p[1])
          [] component.type = "rough_conductor_reflection" ->
                 append_rough_conductor_reflection(closures, w, <<p[1], p[2]>>, <<p[3], p[4]>>,
                                                   <<p[5], p[6]>>)
          [] component.type = "rough_dielectric" ->
                 append_rough_dielectric(closures, w, p[1], p[2], <<p[3], p[4]>>)
          [] component.type = "specular_reflection" ->
                 append_specular_reflection(closures, w)
          [] component.type = "specular_transmission" ->
                 append_specular_transmission(closures, w, p[1], p[2])

------------------------------------------------------
(* A closure record back to its model. *)

lambertian_from_record(c) ==
    /\ c.lobes = {"diffuse", "reflection"} /\ reserved(c, 1)
    /\ valid_reflectance(c.weight)

rough_diffuse_from_record(c) ==
    /\ c.lobes = {"diffuse", "reflection"} /\ reserved(c, 2)
    /\ valid_reflectance(c.weight) /\ valid_roughness(c.parameters[1])

rough_conductor_from_record(c) ==
    /\ c.lobes = {"glossy", "reflection"} /\ valid_reflectance(c.weight)
    /\ \A l \in Lanes : valid_eta(c.parameters[l]) /\ c.parameters[2 + l] >= 0
    /\ valid_widths(c.parameters[5], c.parameters[6])

rough_dielectric_from_record(c) ==
    /\ c.lobes = {"glossy"} \cup Directions /\ reserved(c, 5)
    /\ valid_reflectance(c.weight)
    /\ valid_eta(c.parameters[1]) /\ valid_eta(c.parameters[2])
    /\ c.parameters[1] # c.parameters[2]
    /\ valid_widths(c.parameters[3], c.parameters[4])

specular_reflection_from_record(c) ==
    /\ c.lobes = {"specular", "reflection"} /\ reserved(c, 1)
    /\ valid_reflectance(c.weight)

specular_transmission_from_record(c) ==
    /\ c.lobes = {"specular", "transmission"} /\ reserved(c, 3)
    /\ valid_reflectance(c.weight)
    /\ valid_eta(c.parameters[1]) /\ valid_eta(c.parameters[2])

validate_closure_record(c) ==
    \/ c.kind = "lambertian_reflection" /\ lambertian_from_record(c)
    \/ c.kind = "rough_diffuse_reflection" /\ rough_diffuse_from_record(c)
    \/ c.kind = "rough_conductor_reflection" /\ rough_conductor_from_record(c)
    \/ c.kind = "rough_dielectric" /\ rough_dielectric_from_record(c)
    \/ c.kind = "specular_reflection" /\ specular_reflection_from_record(c)
    \/ c.kind = "specular_transmission" /\ specular_transmission_from_record(c)

------------------------------------------------------
(* The lobes. A value that cannot be had is Refused, a probability -1. *)

Refused == << >>
Nothing == [status |-> "none"]
Failed  == [status |-> "error"]

Sampled(incoming, value, probability, measure, lobes, eta_scale) ==
    [status |-> "sampled", incoming |-> incoming, value |-> value, probability |-> probability,
     measure |-> measure, lobes |-> lobes, eta_scale |-> eta_scale]

above(wo, wi) == wo.side = 1 /\ wi.side = 1

map_cosine_hemisphere(u) == IF u \in Upward THEN Toward(1, u) ELSE Horizon

lambertian_eval(c, wo, wi) == IF above(wo, wi) THEN c.weight ELSE Black
lambertian_pdf(wo, wi)     == IF above(wo, wi) THEN 2 ELSE 0

lambertian_sample(c, wo, u) ==
    LET wi == map_cosine_hemisphere(u)
    IN  IF ~above(wo, wi) THEN Nothing
        ELSE Sampled(wi, lambertian_eval(c, wo, wi), lambertian_pdf(wo, wi), "solid_angle",
                     c.lobes, <<1, 1>>)

rough_diffuse_eval(c, wo, wi) == IF above(wo, wi) THEN c.weight ELSE Black
rough_diffuse_pdf(wo, wi)     == IF above(wo, wi) THEN 2 ELSE 0

rough_diffuse_sample(c, wo, u) ==
    LET wi == map_cosine_hemisphere(u)
    IN  IF ~above(wo, wi) THEN Nothing
        ELSE Sampled(wi, rough_diffuse_eval(c, wo, wi), rough_diffuse_pdf(wo, wi),
                     "solid_angle", c.lobes, <<1, 1>>)

(* The facet a sample picks, seen from the side of the outgoing direction,
   and the density with which a facet is picked. *)
sample_visible_normal(u)  == u
visible_normal_pdf(facet) == IF facet \in Facets THEN 2 ELSE 0

reflection_facet(wi)   == wi.cell
transmission_facet(wi) == wi.cell       \* No facet when it is 0.

rough_conductor_eval(c, wo, wi) == IF above(wo, wi) THEN c.weight ELSE Black
rough_conductor_pdf(wo, wi) ==
    IF above(wo, wi) THEN visible_normal_pdf(reflection_facet(wi)) ELSE 0

rough_conductor_sample(c, wo, u) ==
    LET wi == mirrored(wo, sample_visible_normal(u))
    IN  IF ~above(wo, wi) THEN Nothing
        ELSE Sampled(wi, rough_conductor_eval(c, wo, wi), rough_conductor_pdf(wo, wi),
                     "solid_angle", c.lobes, <<1, 1>>)

------------------------------------------------------
(* The rough dielectric. Fresnel reflectance counts in halves. *)

interface_for(c, wo) ==
    IF wo.side > 0 THEN [incident |-> c.parameters[1], transmitted |-> c.parameters[2]]
    ELSE [incident |-> c.parameters[2], transmitted |-> c.parameters[1]]

dielectric_fresnel(interface, wo, facet) ==
    IF interface.incident = interface.transmitted THEN 0
    ELSE IF interface.incident > interface.transmitted /\ critical(wo, facet) THEN 2
    ELSE 1

rough_dielectric_eval(c, wo, wi) ==
    LET fresnel(facet) == dielectric_fresnel(interface_for(c, wo), wo, facet)
    IN  IF \/ wo.side = 0 \/ wi.side = 0
           \/ wi.side = wo.side /\ fresnel(reflection_facet(wi)) = 0
           \/ wi.side # wo.side /\ transmission_facet(wi) = 0
           \/ wi.side # wo.side /\ fresnel(transmission_facet(wi)) = 2
        THEN Black
        ELSE c.weight

rough_dielectric_pdf(c, wo, wi) ==
    LET fresnel(facet) == dielectric_fresnel(interface_for(c, wo), wo, facet)
        visible(facet) == visible_normal_pdf(facet) \div 2
    IN  IF wo.side = 0 \/ wi.side = 0 THEN 0
        ELSE IF wi.side = wo.side
             THEN fresnel(reflection_facet(wi)) * visible(reflection_facet(wi))
        ELSE IF transmission_facet(wi) = 0 THEN 0
        ELSE (2 - fresnel(transmission_facet(wi))) * visible(transmission_facet(wi))

(* An event sample is a fraction: below the Fresnel reflectance it reflects. *)
rough_dielectric_sample(c, wo, event, u) ==
    LET interface == interface_for(c, wo)
        facet     == sample_visible_normal(u)
        fresnel   == dielectric_fresnel(interface, wo, facet)
        reflects  == event[1] * 2 < fresnel * event[2]
        wi        == IF reflects THEN mirrored(wo, facet) ELSE refracted(wo, facet)
        scale     == IF reflects THEN <<1, 1>> ELSE <<interface.transmitted, interface.incident>>
    IN  IF wo.side = 0 THEN Nothing
        ELSE IF ~reflects /\ interface.incident > interface.transmitted /\ critical(wo, facet)
             THEN Failed
        ELSE IF reflects # (wi.side = wo.side) THEN Nothing
        ELSE Sampled(wi, rough_dielectric_eval(c, wo, wi), rough_dielectric_pdf(c, wo, wi),
                     "solid_angle",
                     {"glossy", IF reflects THEN "reflection" ELSE "transmission"}, scale)

(* One of its two directions may be masked: then every sample is steered to
   the other, and the chance of the branch no longer divides the density. *)
valid_mask(mask) == mask # {} /\ mask \subseteq Directions

way(wo, wi) == IF wi.side = wo.side THEN "reflection" ELSE "transmission"

masked_eval(c, mask, wo, wi) ==
    IF ~valid_mask(mask) THEN Refused
    ELSE IF wo.side = 0 \/ wi.side = 0 \/ way(wo, wi) \in mask
         THEN rough_dielectric_eval(c, wo, wi)
    ELSE Black

masked_pdf(c, mask, wo, wi) ==
    LET base    == rough_dielectric_pdf(c, wo, wi)
        fresnel(facet) == dielectric_fresnel(interface_for(c, wo), wo, facet)
        branch  == IF way(wo, wi) = "reflection" THEN fresnel(reflection_facet(wi))
                   ELSE 2 - fresnel(transmission_facet(wi))
    IN  IF ~valid_mask(mask) THEN -1
        ELSE IF wo.side = 0 \/ wi.side = 0 \/ base = 0 THEN base
        ELSE IF way(wo, wi) \notin mask THEN 0
        ELSE IF mask = Directions THEN base
        ELSE IF branch = 0 THEN -1
        ELSE (base * 2) \div branch

masked_sample(c, mask, wo, event, u) ==
    LET steered == CASE mask = {"reflection"}   -> <<0, 1>>
                     [] mask = {"transmission"} -> <<2 * Cells - 1, 2 * Cells>>
                     [] OTHER                   -> event
        sampled == rough_dielectric_sample(c, wo, steered, u)
    IN  IF ~valid_mask(mask) THEN Failed
        ELSE IF sampled.status # "sampled" THEN sampled
        ELSE IF sampled.lobes \cap Directions \cap mask = {} THEN Nothing
        ELSE [sampled EXCEPT !.probability = masked_pdf(c, mask, wo, sampled.incoming)]

------------------------------------------------------
(* The two delta lobes: no direction has a value or a density. *)

specular_eval(wo, wi) == Black
specular_pdf(wo, wi)  == 0

(* A unit of discrete probability, in the units of LobeGeometry. *)
Certain == 2 * Cells

specular_reflection_sample(c, wo) ==
    IF wo.side = 0 THEN Nothing
    ELSE Sampled(Mirror(wo), c.weight, Certain, "discrete", c.lobes, <<1, 1>>)

specular_transmission_sample(c, wo) ==
    LET interface == interface_for(c, wo)
        inward    == interface.incident < interface.transmitted
    IN  IF wo.side = 0 THEN Nothing
        ELSE IF interface.incident = interface.transmitted
             THEN Sampled(Straight(wo), c.weight, Certain, "discrete", c.lobes, <<1, 1>>)
        ELSE IF ~inward /\ wo.grazing THEN Nothing
        ELSE Sampled(Bent(wo, inward), c.weight, Certain, "discrete", c.lobes,
                     <<interface.transmitted, interface.incident>>)

------------------------------------------------------
(* The dispatch on the kind of a record. *)

eval_closure_record(c, wo, wi) ==
    IF ~validate_closure_record(c) THEN Refused
    ELSE CASE c.kind = "lambertian_reflection"      -> lambertian_eval(c, wo, wi)
           [] c.kind = "rough_diffuse_reflection"   -> rough_diffuse_eval(c, wo, wi)
           [] c.kind = "rough_conductor_reflection" -> rough_conductor_eval(c, wo, wi)
           [] c.kind = "rough_dielectric"           -> rough_dielectric_eval(c, wo, wi)
           [] OTHER                                 -> specular_eval(wo, wi)

pdf_closure_record(c, wo, wi) ==
    IF ~validate_closure_record(c) THEN -1
    ELSE CASE c.kind = "lambertian_reflection"      -> lambertian_pdf(wo, wi)
           [] c.kind = "rough_diffuse_reflection"   -> rough_diffuse_pdf(wo, wi)
           [] c.kind = "rough_conductor_reflection" -> rough_conductor_pdf(wo, wi)
           [] c.kind = "rough_dielectric"           -> rough_dielectric_pdf(c, wo, wi)
           [] OTHER                                 -> specular_pdf(wo, wi)

sample_closure_record(c, wo, event, u) ==
    IF ~validate_closure_record(c) THEN Failed
    ELSE CASE c.kind = "lambertian_reflection"      -> lambertian_sample(c, wo, u)
           [] c.kind = "rough_diffuse_reflection"   -> rough_diffuse_sample(c, wo, u)
           [] c.kind = "rough_conductor_reflection" -> rough_conductor_sample(c, wo, u)
           [] c.kind = "rough_dielectric"           -> rough_dielectric_sample(c, wo, event, u)
           [] c.kind = "specular_reflection"        -> specular_reflection_sample(c, wo)
           [] c.kind = "specular_transmission"      -> specular_transmission_sample(c, wo)

is_delta_closure_kind(kind) == kind \in {"specular_reflection", "specular_transmission"}

eval_with_direction_mask(c, mask, wo, wi) ==
    IF c.kind # "rough_dielectric" THEN eval_closure_record(c, wo, wi)
    ELSE IF rough_dielectric_from_record(c) THEN masked_eval(c, mask, wo, wi)
    ELSE Refused

pdf_with_direction_mask(c, mask, wo, wi) ==
    IF c.kind # "rough_dielectric" THEN pdf_closure_record(c, wo, wi)
    ELSE IF rough_dielectric_from_record(c) THEN masked_pdf(c, mask, wo, wi)
    ELSE -1

sample_with_direction_mask(c, mask, wo, event, u) ==
    IF c.kind # "rough_dielectric" THEN sample_closure_record(c, wo, event, u)
    ELSE IF rough_dielectric_from_record(c) THEN masked_sample(c, mask, wo, event, u)
    ELSE Failed
===============================================================================
