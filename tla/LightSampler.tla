------------------------------ MODULE LightSampler ------------------------------
(***************************************************************************)
(* The choice of a light: LightSampler with its three strategies, and the   *)
(* two sides that use it. A path at a surface samples one light and divides *)
(* by the probability of that choice; a path whose BSDF sample hit an       *)
(* emitter asks with which probability the other technique would have       *)
(* chosen it. The MIS weights of the two add up to one only if both speak   *)
(* of the same number. The CUDA kernels have a selection of their own.      *)
(*                                                                          *)
(* The caller makes the sampler and says with which lights; nothing but its *)
(* number of slots ties it to the scene it is used with.                    *)
(*                                                                          *)
(* Boundaries of a CDF are rounded to the nearest of Precision equal steps; *)
(* what the tree computes in logarithms is exact. Space has two axes.       *)
(***************************************************************************)
EXTENDS Integers, FiniteSetsExt, SequencesExt

CONSTANTS
    LightInputs,            \* the sequences of lights a sampler is made for
    LitScenes,
    Positions,              \* of the surfaces that ask
    Precision,              \* 1 over the distance of two scalars
    maximum_path_length,
    None

LightSamplerAssumption == Precision \in Nat \ {0} /\ maximum_path_length \in Nat


VARIABLES
    lights,         \* what the caller takes the scene's lights to be
    lit,            \* the committed scene: its registry of lights
    sampler,
    use             \* what the last trace with this sampler was

vars == <<lights, lit, sampler, use>>

(* Fractions in lowest terms. *)
RECURSIVE Gcd(_, _)
Gcd(a, b) == IF b = 0 THEN a ELSE Gcd(b, a % b)

Lowest(a, g) == <<a[1] \div g, a[2] \div g>>
Fraction(n, d) == Lowest(<<n, d>>, Gcd(n, d))
Zero == <<0, 1>>
One  == <<1, 1>>
SumOver(a, b, g) ==
    Fraction(a[1] * (b[2] \div g) + b[1] * (a[2] \div g), a[2] * (b[2] \div g))
a ++ b == SumOver(a, b, Gcd(a[2], b[2]))
Componentwise(x, y) == <<x[1] * y[1], x[2] * y[2]>>
Times(a, b) == Componentwise(Fraction(a[1], b[2]), Fraction(b[1], a[2]))
Minus(a, b) == a ++ <<-b[1], b[2]>>
Over(a, b)  == Times(a, <<b[2], b[1]>>)
a \prec b   == Minus(b, a)[1] > 0

------------------------------------------------------
(* Discrete distributions over the slots. *)

Rounded(n, d) == Fraction((2 * n * Precision + d) \div (2 * d), Precision)

uniform_boundary(k, count) == IF k = count THEN One ELSE Rounded(k, count)

maximum_uniform_light_count == Precision

Plain(strategy, cdf) ==
    [strategy |-> strategy, cdf |-> cdf, tree |-> << >>, light_to_node |-> << >>, extent |-> 0]

uniform_sampler(count) ==
    IF count \notin 1 .. maximum_uniform_light_count THEN None
    ELSE Plain("uniform", [k \in 1 .. count + 1 |-> uniform_boundary(k - 1, count)])

valid_powers(powers) ==
    /\ \A k \in DOMAIN powers : \A lane \in DOMAIN powers[k] : powers[k][lane] >= 0
    /\ \E k \in DOMAIN powers : \E lane \in DOMAIN powers[k] : powers[k][lane] > 0

(* The code divides every lane by the greatest; no ratio changes by it. *)
power_weights(powers) == [k \in DOMAIN powers |-> FoldLeft(+, 0, powers[k])]

Powered(weights) == {k \in DOMAIN weights : weights[k] > 0}

(* A slot without power keeps the boundary before it, and the last one that
   has power ends at one whatever the sums were rounded to. *)
power_boundaries(weights) ==
    LET total == FoldLeft(+, 0, weights)
        last  == Max(Powered(weights))
        until(k) == Max({0} \cup {j \in Powered(weights) : j <= k})
    IN  [k \in 1 .. Len(weights) + 1 |->
            CASE until(k - 1) = 0    -> Zero
              [] until(k - 1) = last -> One
              [] OTHER -> Rounded(FoldLeft(+, 0, SubSeq(weights, 1, until(k - 1))), total)]

slot_probability(cdf, slot) == Minus(cdf[slot + 1], cdf[slot])

representable(weights, cdf) ==
    /\ \A k \in Powered(weights) : Zero \prec slot_probability(cdf, k)
    /\ Rounded(weights[Max(Powered(weights))], FoldLeft(+, 0, weights)) # Zero

power_weighted_sampler(powers) ==
    LET weights == power_weights(powers)
        cdf == power_boundaries(weights)
    IN  IF valid_powers(powers) /\ representable(weights, cdf)
        THEN Plain("power_weighted", cdf) ELSE None

------------------------------------------------------
(* The spatial tree: nodes in the order they are appended, a parent before
   its left subtree before its right one. *)

Unbounded == [lo |-> << >>, hi |-> << >>]
Empty     == [lo |-> <<1>>, hi |-> <<0>>]
Axes      == 1 .. 2

merged_bounds(a, b) ==
    IF Unbounded \in {a, b} THEN Unbounded
    ELSE [lo |-> [x \in Axes |-> Min({a.lo[x], b.lo[x]})],
          hi |-> [x \in Axes |-> Max({a.hi[x], b.hi[x]})]]

(* Twice the centroid. *)
centroid(entry, axis) == entry.bounds.lo[axis] + entry.bounds.hi[axis]

split_axis(entries) ==
    LET spread(axis) == LET at == {centroid(entries[k], axis) : k \in DOMAIN entries}
                        IN  Max(at) - Min(at)
    IN  IF spread(1) < spread(2) THEN 2 ELSE 1

sorted(entries) ==
    LET axis == split_axis(entries)
    IN  SortSeq(entries, LAMBDA a, b : \/ centroid(a, axis) < centroid(b, axis)
                                       \/ /\ centroid(a, axis) = centroid(b, axis)
                                          /\ a.light < b.light)

Leaf(entry, parent) ==
    [bounds |-> entry.bounds, power |-> entry.power, parent |-> parent,
     left |-> None, right |-> None, light |-> entry.light]

(* The node at position first over two subtrees that follow it. *)
Join(first, parent, left, right) ==
    << [bounds |-> merged_bounds(left[1].bounds, right[1].bounds),
        power |-> left[1].power + right[1].power, parent |-> parent,
        left |-> first + 1, right |-> first + 1 + Len(left), light |-> None] >>
    \o left \o right

RECURSIVE build_subtree(_, _, _, _)
build_subtree(entries, spatial, parent, first) ==
    IF Len(entries) = 1 THEN << Leaf(entries[1], parent) >>
    ELSE LET order  == IF spatial THEN sorted(entries) ELSE entries
             middle == Len(entries) \div 2
             left   == build_subtree(SubSeq(order, 1, middle), spatial, first, first + 1)
             right  == build_subtree(SubSeq(order, middle + 1, Len(order)), spatial, first,
                                     first + 1 + Len(left))
         IN  Join(first, parent, left, right)

build_tree(finite, unbounded) ==
    IF unbounded = << >> THEN build_subtree(finite, TRUE, None, 1)
    ELSE IF finite = << >> THEN build_subtree(unbounded, FALSE, None, 1)
    ELSE LET left == build_subtree(finite, TRUE, 1, 2)
         IN  Join(1, None, left, build_subtree(unbounded, FALSE, 1, 2 + Len(left)))

finite_root(tree, unbounded) == IF unbounded = << >> THEN tree[1] ELSE tree[2]

root_extent(bounds) == Max({bounds.hi[x] - bounds.lo[x] : x \in Axes})

spatial_tree_sampler(inputs) ==
    LET powers  == [k \in DOMAIN inputs |-> inputs[k].power]
        weights == power_weights(powers)
        cdf     == power_boundaries(weights)
        entries == SelectSeq([k \in DOMAIN inputs |->
                                 [bounds |-> inputs[k].bounds, power |-> weights[k], light |-> k]],
                             LAMBDA e : e.power > 0)
        finite    == SelectSeq(entries, LAMBDA e : e.bounds # Unbounded)
        unbounded == SelectSeq(entries, LAMBDA e : e.bounds = Unbounded)
        tree      == build_tree(finite, unbounded)
    IN  IF /\ \A k \in DOMAIN inputs : inputs[k].bounds # Empty
           /\ valid_powers(powers)
           /\ representable(weights, cdf)
        THEN [strategy |-> "spatial_tree", cdf |-> cdf, tree |-> tree,
              light_to_node |-> [k \in Powered(weights) |->
                                    CHOOSE n \in DOMAIN tree : tree[n].light = k],
              extent |-> IF finite = << >> THEN 0
                         ELSE root_extent(finite_root(tree, unbounded).bounds)]
        ELSE None

(* The square of the distance of a point to a box. *)
squared_distance(bounds, p) ==
    FoldFunction(+, 0, [x \in Axes |->
        LET d == Max({0, bounds.lo[x] - p[x], p[x] - bounds.hi[x]}) IN d * d])

(* One over one and the square of the distance over the extent of the root. *)
attenuation(bounds, p, extent) ==
    IF bounds = Unbounded \/ extent = 0 THEN One
    ELSE Fraction(extent * extent, extent * extent + squared_distance(bounds, p))

score(s, p, child) == Times(<<child.power, 1>>, attenuation(child.bounds, p, s.extent))

Share(left, right) == Over(left, left ++ right)

left_probability(s, p, node) ==
    Share(score(s, p, s.tree[node.left]), score(s, p, s.tree[node.right]))

------------------------------------------------------
(* Queries. A canonical sample is a fraction of at least zero and below one. *)

Selection(slot, probability) == [slot |-> slot, probability |-> probability]

sample_cdf(s, u) ==
    LET slot == Min({k \in 1 .. Len(s.cdf) - 1 : u \prec s.cdf[k + 1]})
    IN  Selection(slot, slot_probability(s.cdf, slot))

(* The sample is stretched over the branch it falls into and used again.
   at is where the descent stands: a node, the sample and the chance so far. *)
branch(s, node, u, chance, left) ==
    IF u \prec left
    THEN [node |-> s.tree[node.left], u |-> Over(u, left), chance |-> Times(chance, left)]
    ELSE [node   |-> s.tree[node.right], u |-> Over(Minus(u, left), Minus(One, left)),
          chance |-> Times(chance, Minus(One, left))]

RECURSIVE descend(_, _, _)
descend(s, p, at) ==
    IF at.node.light # None THEN Selection(at.node.light, at.chance)
    ELSE descend(s, p, branch(s, at.node, at.u, at.chance, left_probability(s, p, at.node)))

sample(s, p, u) ==
    IF s.strategy = "spatial_tree"
    THEN descend(s, p, [node |-> s.tree[1], u |-> u, chance |-> One])
    ELSE sample_cdf(s, u)

(* The branches from the root down to a node, found from the node up. *)
RECURSIVE path_to(_, _)
path_to(tree, n) ==
    LET parent == tree[n].parent
    IN  IF n = 1 THEN << >>
        ELSE Append(path_to(tree, parent),
                    [node |-> tree[parent], left |-> tree[parent].left = n])

tree_probability(s, p, slot) ==
    LET path == path_to(s.tree, s.light_to_node[slot])
        taken(left, is_left) == IF is_left THEN left ELSE Minus(One, left)
    IN  IF Len(path) > maximum_path_length THEN None
        ELSE FoldLeft(LAMBDA chance, step :
                          Times(chance, taken(left_probability(s, p, step.node), step.left)),
                      One, path)

probability(s, p, slot) ==
    IF s.strategy # "spatial_tree" \/ slot_probability(s.cdf, slot) = Zero
    THEN slot_probability(s.cdf, slot)
    ELSE tree_probability(s, p, slot)

light_count(s) == IF s.cdf = << >> THEN 0 ELSE Len(s.cdf) - 1

Emptied(s) == [s EXCEPT !.cdf = << >>, !.tree = << >>, !.light_to_node = << >>, !.extent = 0]

------------------------------------------------------
(* The registry: the punctual lights of the scene, then its emitting
   instances. *)

registered_light_count == Len(lit.punctual) + Len(lit.areas)

black(slot) == slot <= Len(lit.punctual) /\ lit.punctual[slot].black

registered_light(slot) ==
    IF slot <= Len(lit.punctual) THEN <<"punctual", slot>>
    ELSE <<"area", lit.areas[slot - Len(lit.punctual)]>>

area_index(instance) == CHOOSE k \in DOMAIN lit.areas : lit.areas[k] = instance

(* A plausible slip: the position among the emitting instances, not among all
   the lights. *)
global_slot_of_area_alone(instance) == area_index(instance)

global_slot(instance) == Len(lit.punctual) + area_index(instance)

validate_sampler_support(p) ==
    \A slot \in 1 .. registered_light_count :
        probability(sampler, p, slot) # None
        /\ (black(slot) \/ Zero \prec probability(sampler, p, slot))

(* Which light the first technique takes for a sample, and with what chance. *)
Registered(chosen) ==
    [light |-> registered_light(chosen.slot), probability |-> chosen.probability]

direct_light(p, u) == Registered(sample(sampler, p, u))

(* The chance the second technique ascribes to the emitter it hit. *)
surface_emission_probability(p, instance) == probability(sampler, p, global_slot(instance))

------------------------------------------------------
(* The device is told the number of lights and has the boundaries by heart. *)

RECURSIVE first_boundary_above(_, _, _, _)
first_boundary_above(count, u, first, last) ==
    LET middle == first + (last - first) \div 2
    IN  IF first >= last THEN first
        ELSE IF u \prec uniform_boundary(middle, count)
        THEN first_boundary_above(count, u, first, middle)
        ELSE first_boundary_above(count, u, middle + 1, last)

uniform_light_probability(count, slot) ==
    Minus(uniform_boundary(slot, count), uniform_boundary(slot - 1, count))

device_selection(count, slot) ==
    [light |-> registered_light(slot), probability |-> uniform_light_probability(count, slot)]

device_direct_light(u) ==
    device_selection(registered_light_count,
                     first_boundary_above(registered_light_count, u, 1, registered_light_count + 1))

emissive_hit_probability(instance) ==
    uniform_light_probability(registered_light_count, global_slot(instance))

------------------------------------------------------
Init ==
    /\ lights \in LightInputs
    /\ lit \in LitScenes
    /\ sampler = None
    /\ use = "none"

create_uniform ==
    /\ sampler = None
    /\ sampler' = uniform_sampler(Len(lights))
    /\ use' = "none"
    /\ UNCHANGED <<lights, lit>>

create_power_weighted ==
    /\ sampler = None
    /\ sampler' = power_weighted_sampler([k \in DOMAIN lights |-> lights[k].power])
    /\ use' = "none"
    /\ UNCHANGED <<lights, lit>>

create_spatial_tree ==
    /\ sampler = None
    /\ sampler' = spatial_tree_sampler(lights)
    /\ use' = "none"
    /\ UNCHANGED <<lights, lit>>

(* Somebody constructs another sampler from this one, by a move. *)
move ==
    /\ sampler # None
    /\ sampler' = Emptied(sampler)
    /\ use' = "none"
    /\ UNCHANGED <<lights, lit>>

trace_scene_mis ==
    /\ sampler # None
    /\ use' = IF registered_light_count > 0 /\ light_count(sampler) = registered_light_count
              THEN "host" ELSE "refused"
    /\ UNCHANGED <<lights, lit, sampler>>

(* The sampler is optional here, and absent for a scene without lights. *)
validate_light_sampler ==
    IF registered_light_count = 0 THEN sampler = None
    ELSE /\ sampler # None
         /\ sampler.strategy = "uniform"
         /\ light_count(sampler) = registered_light_count

trace_cuda ==
    /\ use' = IF validate_light_sampler THEN "device" ELSE "refused"
    /\ UNCHANGED <<lights, lit, sampler>>

Next ==
    \/ create_uniform
    \/ create_power_weighted
    \/ create_spatial_tree
    \/ move
    \/ trace_scene_mis
    \/ trace_cuda

Spec == Init /\ [][Next]_vars

------------------------------------------------------
(* What the first technique takes over all samples, from zero up, if every
   choice covers as many samples as it says. *)
RECURSIVE DirectLights(_, _)
DirectLights(p, u) ==
    LET onwards(taken) ==
            << [from |-> u, taken |-> taken] >> \o DirectLights(p, u ++ taken.probability)
    IN  IF u \prec One THEN onwards(direct_light(p, u)) ELSE << >>

NeededLights == {registered_light(slot) : slot \in {k \in 1 .. registered_light_count : ~black(k)}}

(* The samples a choice covers are one interval, no two choices overlap or
   leave a gap, and a hit is weighed with the very chance of the other
   technique to take that light. *)
Agree(p, choices) ==
    LET chosen  == {choices[k].taken.light : k \in DOMAIN choices}
        Consistent(from, taken) ==
            /\ direct_light(p, from ++ Times(taken.probability, <<1, 2>>)) = taken
            /\ taken.light[1] = "area" =>
                  surface_emission_probability(p, taken.light[2]) = taken.probability
    IN  /\ Cardinality(chosen) = Len(choices)
        /\ NeededLights \subseteq chosen
        /\ \A k \in DOMAIN choices : Consistent(choices[k].from, choices[k].taken)
        /\ FoldLeft(++, Zero, [k \in DOMAIN choices |-> choices[k].taken.probability]) = One

DeviceAgrees ==
    /\ \A k \in 0 .. 2 * Precision - 1 :
         LET u == Fraction(k, 2 * Precision) IN device_direct_light(u) = direct_light(None, u)
    /\ \A k \in DOMAIN lit.areas :
         emissive_hit_probability(lit.areas[k]) = surface_emission_probability(None, lit.areas[k])

ChoicesAgree(p) == Agree(p, DirectLights(p, Zero))

(* The two techniques of a path agree on every light at every position: the
   first takes it for exactly as many samples as it says, the second weighs a
   hit of it with the same chance, and none that emits is beyond reach. A
   sampler that cannot do so for the scene is turned away, one made with the
   wrong lights before the first choice; the kernels choose as the host does. *)
TechniquesAgree ==
    /\ use = "host" =>
         \A p \in Positions :
             IF validate_sampler_support(p) THEN ChoicesAgree(p)
             ELSE /\ sampler.strategy # "uniform"
                  /\ \E k \in DOMAIN lights : ~black(k) /\ FoldLeft(+, 0, lights[k].power) = 0
    /\ use = "device" /\ sampler # None => DeviceAgrees
=============================================================================
