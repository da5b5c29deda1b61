--------------------------- MODULE SceneCompilation ---------------------------
(* How authored scene records become immutable values, twice: the native
   description (SceneDescription::create) and the frame scene the renderer
   runs on (FrameScene::create).  Both sort their registries by identifier,
   look records up by binary search in the sorted registry, refuse what does
   not hold together, and share the resolution of the instance hierarchy,
   which climbs parents iteratively and composes world transforms on the way
   back.  They check the same things in different orders, with code written
   twice.  The model hands one set of records to both, one after the other.

   A record carries its identifier, the identifiers it refers to, and
   "valid" for what the constructors of its numeric contents accept.  A
   transform is the sequence of the local matrices it multiplies; a product
   of two "huge" ones is not representable.

   A check refuses with invalid_argument, except those of films and of render
   options, which have safety limits too: the record carries what its check
   says.  Memory may be refused anywhere; the status is that of a limit, and
   the message tells them apart.  Left out: the counts no host reaches (2^32
   lights, a container's max_size) and the incompatible schema version, which
   validate_render_options does not let its caller set. *)
EXTENDS Integers, Sequences, FiniteSets, SequencesExt

CONSTANTS
    Inputs,   \* the authored records a caller may pass
    None

RecordStatus == {"ok", "invalid_argument", "resource_exhausted"}

NormalMap == [texture : Nat, channels : [1 .. 3 -> Nat], valid : BOOLEAN]
BumpMap   == [texture : Nat, channel : Nat, valid : BOOLEAN]

MaterialSpectrum ==
    [wavelengths : Nat, closure_valid : BOOLEAN, emission : {"black", "lit", "invalid"},
     normal_map : NormalMap \cup {None}, bump_map : BumpMap \cup {None}]

ImageTexture == [id : Nat, channels : Nat]
SceneLight   == [id : Nat, kind : STRING, wavelengths : Nat, valid : BOOLEAN]

Authored ==
    [active : [film : Nat, camera : Nat, render_options : Nat],
     films : Seq([id : Nat, status : RecordStatus]),
     cameras : Seq([id : Nat, film : Nat, valid : BOOLEAN]),
     render_options : Seq([id : Nat, film : Nat, status : RecordStatus]),
     constant_textures : Seq([id : Nat, valid : BOOLEAN]),
     host_image_textures : Seq(ImageTexture),
     objects : Seq([id : Nat, valid : BOOLEAN]),
     geometries : Seq([id : Nat, mesh : STRING \cup {None}]),
     materials : Seq([id : Nat, spectral : MaterialSpectrum \cup {None}]),
     instances : Seq([id : Nat, object : Nat, geometry : Nat, material : Nat,
                      parent : Nat \cup {None}, local : STRING]),
     lights : Seq(SceneLight)]

Answer == {"created", "invalid_argument", "resource_exhausted", "host_memory_exhausted",
           "internal_error"}

ASSUME CompilationAssumption ==
    /\ Inputs \subseteq Authored
    /\ None \notin Nat \cup STRING \cup MaterialSpectrum \cup NormalMap \cup BumpMap
    /\ None \notin ImageTexture \cup SceneLight \cup Answer

VARIABLES
    input,    \* what the caller passed
    call,     \* which of the two creates is running
    pc,       \* its place
    scene,    \* the records as the running create has sorted them
    states,   \* per instance index: HierarchyState
    world,    \* per instance index: pending_world
    chain, current, start,   \* locals of resolve_instance_transforms
    derived,  \* the mesh area lights derived so far
    answers    \* per create: what it returned

compilation == <<input, call, pc, scene, states, world, chain, current, start, derived, answers>>
hierarchy == <<states, world, chain, current, start>>

Call == {"description", "frame"}

------------------------------------------------------
(* Registries sorted by identifier. *)

(* A record comes after as many as precede it. *)
sort_by_identifier(records) ==
    LET precedes(j, i) == \/ records[j].id < records[i].id
                          \/ records[j].id = records[i].id /\ j < i
        rank(i)        == Cardinality({j \in DOMAIN records : precedes(j, i)})
    IN  [k \in DOMAIN records |-> records[CHOOSE i \in DOMAIN records : rank(i) = k - 1]]

(* adjacent_find over a sorted registry. *)
no_duplicates(records) ==
    \A i \in 1 .. Len(records) - 1 : records[i].id # records[i + 1].id

(* std::ranges::lower_bound: the first record that is not before id. *)
find_record_index(records, id) ==
    LET bound == SelectInSeq(records, LAMBDA r : r.id >= id)
    IN  IF bound # 0 /\ records[bound].id = id THEN bound ELSE None

found(records, id) == find_record_index(records, id) # None

(* A plausible slip: the merge advances past the smaller of the two wrongly. *)
shares_identifier_backwards(constants, images) ==
    LET walk[at \in (1 .. Len(constants) + 1) \X (1 .. Len(images) + 1)] ==
            LET c == at[1] h == at[2] IN
            IF c > Len(constants) \/ h > Len(images) THEN FALSE
            ELSE \/ constants[c].id = images[h].id
                 \/ walk[IF constants[c].id < images[h].id THEN <<c, h + 1>> ELSE <<c + 1, h>>]
    IN  walk[<<1, 1>>]

shares_identifier(constants, images) ==
    LET walk[at \in (1 .. Len(constants) + 1) \X (1 .. Len(images) + 1)] ==
            LET c == at[1] h == at[2] IN
            IF c > Len(constants) \/ h > Len(images) THEN FALSE
            ELSE \/ constants[c].id = images[h].id
                 \/ walk[IF constants[c].id < images[h].id THEN <<c + 1, h>> ELSE <<c, h + 1>>]
    IN  walk[<<1, 1>>]

checked(holds) == IF holds THEN "ok" ELSE "invalid_argument"

(* The checks are made in turn and the first that refuses decides. *)
first_refusal(statuses) ==
    LET refused == SelectInSeq(statuses, LAMBDA s : s # "ok")
    IN  IF refused = 0 THEN "ok" ELSE statuses[refused]

All(records, Accepts(_)) == \A i \in DOMAIN records : Accepts(records[i])

------------------------------------------------------
(* The checks of single records that both creates use. *)

validate_host_image_texture(texture) == texture.channels > 0

bound_texture(images, binding) ==
    LET index == find_record_index(images, binding.texture)
    IN  IF binding.valid /\ index # None THEN images[index] ELSE None

validate_normal_map_binding(images, binding) ==
    LET texture == bound_texture(images, binding)
    IN  /\ texture # None
        /\ \A c \in Range(binding.channels) : c < texture.channels
        /\ IsInjective(binding.channels)

validate_bump_map_binding(images, binding) ==
    LET texture == bound_texture(images, binding)
    IN  texture # None /\ binding.channel < texture.channels

maps_resolve(images, spectral) ==
    /\ spectral.normal_map # None => validate_normal_map_binding(images, spectral.normal_map)
    /\ spectral.bump_map # None => validate_bump_map_binding(images, spectral.bump_map)

transport_valid(material, environment) ==
    /\ material.spectral # None
    /\ material.spectral.wavelengths = environment.wavelengths
    /\ material.spectral.closure_valid
    /\ material.spectral.emission # "invalid"

references_resolve(s) ==
    /\ All(s.geometries, LAMBDA g : g.mesh # None)
    /\ All(s.instances, LAMBDA i :
           /\ found(s.objects, i.object)
           /\ found(s.geometries, i.geometry)
           /\ found(s.materials, i.material)
           /\ i.parent # None => found(s.instances, i.parent))

textures_valid(s) ==
    /\ All(s.constant_textures, LAMBDA t : t.valid)
    /\ All(s.host_image_textures, validate_host_image_texture)

------------------------------------------------------
(* SceneDescription::create, before and after the hierarchy. *)

DescriptionRegistries == DOMAIN input \ {"active"}

validate_render_setup(s) ==
    LET camera  == find_record_index(s.cameras, s.active.camera)
        options == find_record_index(s.render_options, s.active.render_options)
        refusal(o) == IF found(s.films, o.film) THEN o.status ELSE "invalid_argument"
    IN  IF ~found(s.films, s.active.film) \/ camera = None \/ options = None
        THEN "invalid_argument"
        ELSE first_refusal(<<
               first_refusal([i \in DOMAIN s.films |-> s.films[i].status]),
               checked(All(s.cameras, LAMBDA c : found(s.films, c.film) /\ c.valid)),
               first_refusal([i \in DOMAIN s.render_options |-> refusal(s.render_options[i])]),
               checked(/\ s.cameras[camera].film = s.active.film
                       /\ s.render_options[options].film = s.active.film)>>)

validate_description(s) ==
    first_refusal(<<
      checked(/\ \A r \in DescriptionRegistries : no_duplicates(s[r])
              /\ ~shares_identifier(s.constant_textures, s.host_image_textures)),
      validate_render_setup(s),
      checked(textures_valid(s) /\ All(s.materials, LAMBDA m :
                m.spectral # None => maps_resolve(s.host_image_textures, m.spectral))),
      checked(references_resolve(s))>>)

environments(s) == {i \in DOMAIN s.lights : s.lights[i].kind = "environment"}

(* validate_light_registry and validate_spectral_records. *)
validate_spectral_records(s) ==
    IF environments(s) = {}
    THEN s.lights = << >> /\ All(s.materials, LAMBDA m : m.spectral = None)
    ELSE /\ Cardinality(environments(s)) = 1
         /\ All(s.lights, LAMBDA l : l.valid)
         /\ \A e \in environments(s) : All(s.materials, LAMBDA m : transport_valid(m, s.lights[e]))

------------------------------------------------------
(* FrameScene::create.  Its caller hands over one environment at most, and
   the other lights in the order they are to be addressed in. *)

FrameRegistries == {"constant_textures", "host_image_textures", "objects", "geometries",
                    "materials", "instances"}

spectral_environment(s) ==
    IF environments(s) = {} THEN None ELSE s.lights[CHOOSE e \in environments(s) : TRUE]

punctual_lights(s) == {s.lights[i] : i \in DOMAIN s.lights \ environments(s)}

validate_spectral_transport(s) ==
    LET environment == spectral_environment(s)
    IN  IF environment = None
          THEN punctual_lights(s) = {} /\ All(s.materials, LAMBDA m : m.spectral = None)
          ELSE /\ environment.valid
               /\ \A l \in punctual_lights(s) : l.valid
               /\ All(s.materials, LAMBDA m :
                      /\ transport_valid(m, environment)
                      /\ maps_resolve(s.host_image_textures, m.spectral))

validate_frame(s) ==
    /\ \A r \in FrameRegistries : no_duplicates(s[r])
    /\ ~shares_identifier(s.constant_textures, s.host_image_textures)
    /\ textures_valid(s)
    /\ references_resolve(s)
    /\ validate_spectral_transport(s)
------------------------------------------------------
(* The two creates and the resolution they share. *)

Count == Len(scene.instances)

(* AffineTransform::from_matrix: invertible, and every entry representable. *)
from_matrix(matrix) ==
    /\ "singular" \notin Range(matrix)
    /\ Cardinality({i \in DOMAIN matrix : matrix[i] = "huge"}) <= 1

Sorted(s, registries) ==
    [r \in DOMAIN s |-> IF r \in registries THEN sort_by_identifier(s[r]) ELSE s[r]]

CompilationInit ==
    /\ input \in Inputs
    /\ call = "description" /\ pc = "create"
    /\ scene = input
    /\ states = << >> /\ world = << >> /\ chain = << >> /\ current = 0 /\ start = 0
    /\ derived = << >>
    /\ answers = [c \in Call |-> None]

(* A refused description does not keep its caller from compiling the same
   records; two environments have no place in a frame scene's input. *)
Return(status) ==
    /\ answers' = [answers EXCEPT ![call] = status]
    /\ IF call = "description" /\ Cardinality(environments(input)) <= 1
         THEN call' = "frame" /\ pc' = "create"
         ELSE call' = call /\ pc' = "done"

Refuse(status) == Return(status) /\ UNCHANGED <<input, scene, derived, hierarchy>>

create ==
    /\ pc = "create"
    /\ scene' = Sorted(input, IF call = "frame" THEN FrameRegistries ELSE DescriptionRegistries)
    /\ pc' = "validate"
    /\ UNCHANGED <<input, call, derived, answers, hierarchy>>

validate ==
    /\ pc = "validate"
    /\ LET said == IF call = "frame" THEN checked(validate_frame(scene))
                   ELSE validate_description(scene)
       IN  IF said # "ok" THEN Refuse(said)
           ELSE pc' = "local_transforms"
                /\ UNCHANGED <<input, call, scene, derived, answers, hierarchy>>

local_transforms ==
    /\ pc = "local_transforms"
    /\ IF All(scene.instances, LAMBDA i : from_matrix(<<i.local>>))
         THEN /\ states' = [i \in 1 .. Count |-> "unresolved"]
              /\ world' = [i \in 1 .. Count |-> None]
              /\ start' = 1 /\ pc' = "next_start"
              /\ UNCHANGED <<input, call, scene, derived, answers, chain, current>>
         ELSE Refuse("invalid_argument")

next_start ==
    /\ pc = "next_start"
    /\ IF start > Count
         THEN pc' = "resolved" /\ UNCHANGED <<start, chain, current>>
         ELSE IF states[start] = "resolved"
           THEN start' = start + 1 /\ UNCHANGED <<pc, chain, current>>
           ELSE chain' = << >> /\ current' = start /\ pc' = "climb" /\ UNCHANGED start
    /\ UNCHANGED <<input, call, scene, derived, answers, states, world>>

(* One turn of the loop that follows parents up to a root or to an instance
   that is resolved already. *)
climb ==
    /\ pc = "climb"
    /\ LET parent == scene.instances[current].parent
           index  == IF parent = None THEN None ELSE find_record_index(scene.instances, parent)
       IN  CASE states[current] = "resolved" ->
                  pc' = "unwind"
                  /\ UNCHANGED <<input, call, scene, derived, answers, hierarchy>>
             [] /\ states[current] # "resolved"
                /\ states[current] = "resolving" \/ (parent # None /\ index = None) ->
                  Refuse("invalid_argument")
             [] OTHER ->
                  /\ states' = [states EXCEPT ![current] = "resolving"]
                  /\ chain' = Append(chain, current)
                  /\ IF parent = None THEN pc' = "unwind" /\ UNCHANGED current
                                      ELSE current' = index /\ UNCHANGED pc
                  /\ UNCHANGED <<input, call, scene, derived, answers, world, start>>

(* A plausible slip: the product is taken in the order of the climb. *)
composed_outwards(parent, local) == <<local>> \o parent

composed(parent, local) == parent \o <<local>>

(* One turn of the loop that comes back down the chain. *)
unwind ==
    /\ pc = "unwind" /\ chain # << >>
    /\ LET i == Last(chain)
           parent == scene.instances[i].parent
           index  == IF parent = None THEN None ELSE find_record_index(scene.instances, parent)
           matrix == IF parent = None THEN <<scene.instances[i].local>>
                     ELSE composed(world[index], scene.instances[i].local)
       IN  IF parent # None /\ (index = None \/ states[index] # "resolved")
             THEN Refuse("internal_error")
             ELSE IF ~from_matrix(matrix) THEN Refuse("invalid_argument")
             ELSE /\ world' = [world EXCEPT ![i] = matrix]
                  /\ states' = [states EXCEPT ![i] = "resolved"]
                  /\ chain' = Front(chain)
                  /\ UNCHANGED <<input, call, pc, scene, derived, answers, current, start>>

chain_unwound ==
    /\ pc = "unwind" /\ chain = << >>
    /\ start' = start + 1 /\ pc' = "next_start"
    /\ UNCHANGED <<input, call, scene, derived, answers, states, world, chain, current>>

(* What SceneDescription::create still checks, and its return. *)
describe ==
    /\ pc = "resolved" /\ call = "description"
    /\ IF validate_spectral_records(scene)
         THEN Return("created") /\ UNCHANGED <<input, scene, derived, hierarchy>>
         ELSE Refuse("invalid_argument")

At(records, id) == records[find_record_index(records, id)]
emission(s, instance) == At(s.materials, instance.material).spectral

(* derive_mesh_area_lights and the publication of the frame scene: one light
   for each instance of an emitting material, in the order of the instances. *)
emitters(s) ==
    LET emits(i)  == /\ emission(s, s.instances[i]) # None
                     /\ emission(s, s.instances[i]).emission # "black"
        listed[n \in 0 .. Len(s.instances)] ==
            IF n = 0 THEN << >>
            ELSE listed[n - 1] \o (IF emits(n) THEN << n >> ELSE << >>)
    IN  listed[Len(s.instances)]

derive_mesh_area_lights ==
    /\ pc = "resolved" /\ call = "frame"
    /\ LET lit == emitters(scene)
       IN  IF \A k \in DOMAIN lit :
                 At(scene.geometries, scene.instances[lit[k]].geometry).mesh # "degenerate"
             THEN /\ derived' = [k \in DOMAIN lit |->
                                   [id |-> scene.instances[lit[k]].id,
                                    transform |-> world[lit[k]]]]
                  /\ Return("created") /\ UNCHANGED <<input, scene, hierarchy>>
             ELSE Refuse("invalid_argument")

(* A refused allocation, wherever it happens, ends the create: nothing of the
   sorted scene or of the hierarchy survives its catch clauses. *)
exhaust_memory ==
    /\ pc # "done"
    /\ Return("host_memory_exhausted")
    /\ scene' = input /\ states' = << >> /\ world' = << >> /\ chain' = << >>
    /\ current' = 0 /\ start' = 0
    /\ UNCHANGED <<input, derived>>

CompilationNext ==
    \/ create \/ validate \/ local_transforms
    \/ next_start \/ climb \/ unwind \/ chain_unwound
    \/ describe \/ derive_mesh_area_lights \/ exhaust_memory

CompilationSpec == CompilationInit /\ [][CompilationNext]_compilation

------------------------------------------------------
(* What a scene must be, said of the sets of records and not of an order. *)

Records(r) == Range(input[r])
Ids(r) == {record.id : record \in Records(r)}
Unique(r) == Cardinality(Ids(r)) = Len(input[r])
Named(r, id) == CHOOSE record \in Records(r) : record.id = id

References ==
    \A i \in Records("instances") :
        /\ i.object \in Ids("objects") /\ i.geometry \in Ids("geometries")
        /\ i.material \in Ids("materials") /\ i.parent \in Ids("instances") \cup {None}

(* No set of instances is closed under taking parents. *)
Rooted ==
    \A S \in (SUBSET Ids("instances")) \ {{}} :
        \E id \in S : Named("instances", id).parent \notin S

(* The matrices from the root down to an instance. *)
Lineage ==
    LET climbed[n \in 0 .. Len(input.instances)] ==
            [id \in Ids("instances") |->
                LET i == Named("instances", id) IN
                IF n = 0 \/ i.parent = None THEN <<i.local>>
                ELSE climbed[n - 1][i.parent] \o <<i.local>>]
    IN  climbed[Len(input.instances)]

Spectral ==
    IF input.lights = << >> THEN \A m \in Records("materials") : m.spectral = None
    ELSE /\ Cardinality(environments(input)) = 1
         /\ \A l \in Records("lights") : l.valid
         /\ \A m \in Records("materials"), e \in environments(input) :
              /\ m.spectral # None /\ m.spectral.closure_valid
              /\ m.spectral.wavelengths = input.lights[e].wavelengths
              /\ m.spectral.emission \in {"black", "lit"}

MapsInRange ==
    \A m \in Records("materials") : m.spectral # None =>
        LET within(b, channels) ==
                b.valid /\ \E t \in Records("host_image_textures") :
                             t.id = b.texture /\ \A c \in channels : c < t.channels
        IN  /\ m.spectral.normal_map # None =>
                 LET b == m.spectral.normal_map
                 IN  within(b, Range(b.channels)) /\ Cardinality(Range(b.channels)) = 3
            /\ m.spectral.bump_map # None =>
                 within(m.spectral.bump_map, {m.spectral.bump_map.channel})

RenderSetup ==
    /\ Unique("films") /\ Unique("cameras") /\ Unique("render_options") /\ Unique("lights")
    /\ \A r \in Records("films") \cup Records("render_options") : r.status # "invalid_argument"
    /\ \A c \in Records("cameras") : c.valid
    /\ \A r \in Records("cameras") \cup Records("render_options") : r.film \in Ids("films")
    /\ \E c \in Records("cameras"), o \in Records("render_options") :
         /\ c.id = input.active.camera /\ o.id = input.active.render_options
         /\ {c.film, o.film} = {input.active.film}

HoldsTogether ==
    /\ \A r \in FrameRegistries : Unique(r)
    /\ Ids("constant_textures") \cap Ids("host_image_textures") = {}
    /\ \A t \in Records("constant_textures") : t.valid
    /\ \A t \in Records("host_image_textures") : t.channels > 0
    /\ \A g \in Records("geometries") : g.mesh # None
    /\ References /\ Rooted /\ Spectral /\ MapsInRange
    /\ \A i \in Ids("instances") : from_matrix(Lineage[i])

Emitters ==
    {i \in Records("instances") : LET m == Named("materials", i.material)
                                  IN  m.spectral # None /\ m.spectral.emission = "lit"}

Placeable == \A i \in Emitters : Named("geometries", i.geometry).mesh # "degenerate"

OverLimit ==
    \E r \in Records("films") \cup Records("render_options") : r.status = "resource_exhausted"

(* What an answer of a create says of the records. *)
Justified(c, answer) ==
    LET sound   == HoldsTogether /\ IF c = "frame" THEN Placeable ELSE RenderSetup
        limited == c = "description" /\ OverLimit
    IN  /\ answer \in (Answer \ {"internal_error"}) \cup {None}
        /\ answer = "created" => sound /\ ~limited
        /\ answer = "invalid_argument" => ~sound
        /\ answer = "resource_exhausted" => limited

(* Whatever the order of the records, and in whichever order it checks them,
   each create returns a scene for exactly the records that hold together and
   are within the limits, unless its memory is refused: an accepted description
   compiles to a frame scene unless a mesh that emits cannot be a light, no
   check behind another finds what the first let through, and a refusal as
   invalid or as too large is true of some record. *)
AcceptsWhatHoldsTogether == \A c \in Call : Justified(c, answers[c])

(* A frame scene places every instance by the product of the transforms from
   its root down, whatever was resolved before it, and lists one area light
   for each emitter, by increasing instance, placed where the instance is. *)
InstancesPlaced ==
    answers["frame"] = "created" =>
        /\ \A i \in 1 .. Count : world[i] = Lineage[scene.instances[i].id]
        /\ \A i \in 1 .. Count - 1 : scene.instances[i].id < scene.instances[i + 1].id
        /\ {l.id : l \in Range(derived)} = {i.id : i \in Emitters}
        /\ \A k \in DOMAIN derived : /\ derived[k].transform = Lineage[derived[k].id]
                                     /\ k > 1 => derived[k - 1].id < derived[k].id

=============================================================================
