---------------------------- MODULE MCSceneQueries ----------------------------
(* What a path asks of a committed scene, side by side: the next surface, of
   the Embree backend and its updates or of the trees uploaded to CUDA, and a
   light, of a sampler. They share no state; part says which one a behaviour
   is about, and the others stay in one state.

   Embree: five frame scenes: three that differ only in transforms (one
   instance, two or all of them change between two of these), with a geometry
   shared by the first and the last instance; one with other records; and one
   no backend accepts.

   Traversal: the triangles are flat, slanted, or off the ray with a box on
   it; three of them stop the ray at the same depth. Scenes put up to four in
   one geometry, or up to three instances over two geometries. A tree of four
   levels fits a stack of three.

   Lights: up to five, of one lane or of two, without bounds, flat, on a line
   or in a point, without power, or not admissible at all; scenes of up to
   two punctual lights, black or not, and two emitting instances, which need
   not be the lights the sampler is made with. Four steps to a boundary round
   a weak light away.

   Closures: a limit of one event in every surface category; surfaces of one
   lobe of each kind, of two with a weak first one, of three of the same
   probability, whose grid of five cells leaves ties to round, and such that
   are refused for a lobe, their number or their probabilities. *)
EXTENDS EmbreeAccelBackend, SceneClosestHit

CONSTANTS g1, g2, t1, t2, far, Precision, maximum_path_length

Frame(records, transforms) ==
    [records   |-> records,
     instances |-> [i \in DOMAIN transforms |->
                      [geometry        |-> IF i = 2 THEN g2 ELSE g1,
                       object_to_world |-> transforms[i]]]]

MCScene == {Frame("street", << t1, t1, t1 >>), Frame("street", << t2, t1, t2 >>),
            Frame("street", << t2, t2, t1 >>), Frame("street", << t1, far, t1 >>),
            Frame("room", << t1, t2 >>)}

Flat(x)    == [minimum |-> <<x, -1>>, maximum |-> <<x, 1>>, at |-> x]
Wide       == [minimum |-> <<1, 0>>, maximum |-> <<3, 4>>, at |-> 2]
Grazed     == [minimum |-> <<1, -2>>, maximum |-> <<4, 0>>, at |-> None]
Beside     == [minimum |-> <<2, 1>>, maximum |-> <<2, 2>>, at |-> None]
Triangles  == {Flat(2), Flat(3), Wide, Grazed, Beside}

Placed(g, s, v) == [geometry |-> g, shift |-> s, visible |-> v]
Placements == {Placed(g, s, v) : g \in 1 .. 2, s \in 0 .. 1, v \in BOOLEAN}

MCLaunches ==
    {[geometries |-> << g >>, instances |-> << Placed(1, 0, TRUE) >>] :
        g \in UNION {[1 .. n -> Triangles] : n \in 1 .. 4}}
    \cup
    {[geometries |-> << <<Flat(2), Wide>>, <<Wide, Flat(3), Flat(1)>> >>, instances |-> i] :
        i \in UNION {[1 .. n -> Placements] : n \in 0 .. 3}}

MCRays == {[origin |-> <<0, 0>>, direction |-> 1, t_min |-> 0, t_max |-> 9],
           [origin |-> <<5, 0>>, direction |-> -1, t_min |-> 0, t_max |-> 3],
           [origin |-> <<1, 0>>, direction |-> 1, t_min |-> 1, t_max |-> 1]}

LightBox(x, y, w, h) == [lo |-> <<x, y>>, hi |-> <<x + w, y + h>>]
Nowhere  == [lo |-> <<1>>, hi |-> <<0>>]
Anywhere == [lo |-> << >>, hi |-> << >>]
Light(power, bounds) == [power |-> power, bounds |-> bounds]
UpTo(most, S) == UNION {[1 .. n -> S] : n \in 0 .. most}

LightInputs ==
    UpTo(3, {Light(<<0, 0>>, Anywhere), Light(<<1, 0>>, Anywhere),
             Light(<<0, 0>>, LightBox(0, 0, 1, 0)), Light(<<1, 0>>, LightBox(0, 0, 1, 0)),
             Light(<<1, 2>>, LightBox(2, 1, 0, 2)), Light(<<2, 3>>, LightBox(1, 3, 0, 0))})
    \cup UpTo(2, {Light(<<1, 2>>, Nowhere), Light(<<-1, 2>>, Anywhere), Light(<<1, 0>>, Anywhere)})
    \cup [1 .. 4 -> {Light(<<0, 0>>, Anywhere), Light(<<2, 1>>, Anywhere),
                     Light(<<1, 1>>, LightBox(0, 0, 0, 0)), Light(<<3, 0>>, LightBox(2, 0, 0, 1))}]
    \cup {[k \in 1 .. 5 |-> Light(<<1, 0>>, Anywhere)]}

LitScenes ==
    {[punctual |-> p, areas |-> a] :
        p \in UpTo(2, {[black |-> b] : b \in BOOLEAN}), a \in {<< >>, <<5, 2>>}}

Positions == {<<0, 0>>, <<3, 1>>}

Limits == [k \in {"diffuse", "glossy", "specular", "transmission", "volume"} |->
             IF k = "volume" THEN 0 ELSE 1]
Reached(d, g, s, t) ==
    [diffuse |-> d, glossy |-> g, specular |-> s, transmission |-> t, volume |-> 0]
DepthReached == {Reached(d, g, s, t) : d, g, s, t \in 0 .. 1}
                \cup {Reached(2, 0, 0, 0), Reached(5, 4, 0, 0)}

Lobe(type, payload) == [type |-> type, payload |-> payload]
Matte   == Lobe("lambertian_reflection", << >>)
Cloth   == Lobe("rough_diffuse_reflection", <<1>>)
Metal   == Lobe("rough_conductor_reflection", <<1, 2, 0, 1, 1, 2>>)
Frosted == Lobe("rough_dielectric", <<1, 2, 1, 1>>)
Hollow  == Lobe("rough_dielectric", <<2, 1, 1, 1>>)
Polish  == Lobe("specular_reflection", << >>)
Pane    == Lobe("specular_transmission", <<1, 1>>)
Glass   == Lobe("specular_transmission", <<1, 2>>)
Unclear == Lobe("rough_dielectric", <<1, 1, 1, 1>>)

Described(lobes, probabilities) ==
    [i \in DOMAIN lobes |->
        [type |-> lobes[i].type, payload |-> lobes[i].payload,
         weight |-> <<2 ^ (i - 1), 4 \div i>>, probability |-> probabilities[i]]]

Surfaces ==
    {<< >>, Described(<<Unclear>>, <<12>>), Described(<<Matte, Unclear>>, <<6, 6>>),
     Described(<<Matte, Cloth, Metal, Polish>>, <<3, 3, 3, 3>>),
     Described(<<Matte>>, <<6>>), Described(<<Matte, Polish>>, <<1, 11>>),
     Described(<<Matte, Polish>>, <<6, 7>>), Described(<<Matte, Polish>>, <<9, 9>>)}
    \cup {Described(<<p>>, <<12>>) :
             p \in {Matte, Cloth, Metal, Frosted, Hollow, Polish, Pane, Glass}}
    \cup {Described(<<p, q>>, <<2, 10>>) :
             p \in {Matte, Frosted, Glass}, q \in {Metal, Frosted, Hollow, Polish, Pane}}
    \cup {Described(<<p, q, r>>, <<4, 4, 4>>) :
             p \in {Frosted, Polish}, q \in {Metal, Hollow, Polish}, r \in {Matte, Pane}}

VARIABLES part, lights, lit, sampler, use,
          surface, stage, material, mixture, record, counters, outgoing, filtered, device

choice    == <<lights, lit, sampler, use>>
scattering == <<surface, stage, material, mixture, record, counters, outgoing, filtered, device>>

Lights == INSTANCE LightSampler

Closures == INSTANCE ClosureMixture
              WITH DepthStates <- DepthReached, DepthLimits <- Limits, MaxDepth <- 8,
                   Scale <- 5, Grain <- 12, MaximumClosureCount <- 3, state <- device

ASSUME Lights!LightSamplerAssumption
ASSUME Closures!ClosureMixtureAssumption

AnyLaunch == CHOOSE scenery \in Launches : TRUE
AnyRay    == CHOOSE r \in Rays : TRUE
AnyScenery == CHOOSE s \in LitScenes : TRUE

SideBySideInit ==
    /\ part \in {"embree", "traversal", "lights", "closures"}
    /\ Init
    /\ \/ part = "traversal"
       \/ part # "traversal" /\ launched = AnyLaunch /\ ray = AnyRay /\ kernel = "closest"
    /\ TraceInit
    /\ \/ part = "lights"
       \/ part # "lights" /\ lights = << >> /\ lit = AnyScenery
    /\ Lights!Init
    /\ \/ part = "closures"
       \/ part # "closures" /\ surface = << >>
    /\ Closures!Init

Embree == part = "embree" /\ UNCHANGED <<part, trace_vars, choice, scattering>>
Kernel == part = "traversal" /\ UNCHANGED <<part, vars, choice, scattering>>
Choice == part = "lights" /\ UNCHANGED <<part, vars, trace_vars, scattering>>
Lobes  == part = "closures" /\ UNCHANGED <<part, vars, trace_vars, choice>>

SideBySideNext ==
    \/ \E s \in Scene : Embree /\ create(s)
    \/ \E s \in Scene : Embree /\ rebuild(s)
    \/ \E s \in Scene : Embree /\ refit(s)
    \/ Embree /\ build_mesh
    \/ Embree /\ meshes_built
    \/ Embree /\ attach_instance
    \/ Embree /\ commit_top_scene
    \/ Embree /\ build_fails
    \/ Embree /\ skip_instance
    \/ Embree /\ set_transform
    \/ Embree /\ commit_geometry
    \/ Embree /\ commit_refit
    \/ Embree /\ restore_instance
    \/ Embree /\ restored
    \/ Embree /\ rollback_fails
    \/ Embree /\ destroy
    \/ Kernel /\ start
    \/ Kernel /\ visit_tlas
    \/ Kernel /\ visit_blas
    \/ Kernel /\ leave_instance
    \/ Kernel /\ finish
    \/ Kernel /\ status \notin {"queued", "running"} /\ UNCHANGED trace_vars  \* A launch ends.
    \/ Choice /\ Lights!create_uniform
    \/ Choice /\ Lights!create_power_weighted
    \/ Choice /\ Lights!create_spatial_tree
    \/ Choice /\ Lights!move
    \/ Choice /\ Lights!trace_scene_mis
    \/ Choice /\ Lights!trace_cuda
    \/ Lobes /\ Closures!describe
    \/ Lobes /\ Closures!resolve
    \/ \E c \in DepthReached, wo \in Closures!Outgoing : Lobes /\ Closures!shade(c, wo)
    \/ Lobes /\ Closures!next_vertex
    \/ Lobes /\ Closures!without_material

SideBySide ==
    SideBySideInit /\ [][SideBySideNext]_<<part, vars, trace_vars, choice, scattering>>

(* The two techniques of a path agree on the chance of every light, on the
   host and on the device, or the trace is turned away (LightSampler). *)
TechniquesAgree == Lights!TechniquesAgree

(* Cut down by the depth limits of its path, a mixture of lobes still draws
   every direction with the probability it reports and the value of all
   closures that may scatter there, on the host and in the kernels
   (ClosureMixture). *)
MixtureSound == Closures!MixtureSound
===============================================================================
