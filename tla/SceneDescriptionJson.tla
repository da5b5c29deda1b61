-------------------------- MODULE SceneDescriptionJson --------------------------
(***************************************************************************)
(* The JSON form of a scene description: serialize_scene_description_json,  *)
(* a document others may edit, and deserialize_scene_description_json. A    *)
(* document is the tree its text spells; numbers with a fraction are kept   *)
(* in tenths. A description is the record the C++ value holds, and what its *)
(* constructors check of numbers is left out: the descriptions are valid.   *)
(*                                                                          *)
(* The tables of the writer and the shapes of the reader are two lists of   *)
(* the same members kept by hand, and each side has its own count of the    *)
(* limits: the writer adds up whole arrays before the first character, the  *)
(* reader charges every element as it meets it.                             *)
(***************************************************************************)
EXTENDS Integers, Sequences, FiniteSetsExt, SequencesExt

CONSTANTS
    Descriptions,
    Generous,       \* limits no description reaches
    SizeOf,         \* the bytes of each kind of record and element
    Foreign,        \* keys an edit may add to an object
    MaximumU32,
    MaximumClosureCount,
    None

VARIABLES
    case,           \* a description, the limits of both sides, whether others edit
    phase,
    document,
    edited,         \* how others have changed the document
    result          \* what deserialize returned

vars == <<case, phase, document, edited, result>>

(* Documents. *)
Object(members) == [kind |-> "object", members |-> members]
Array(items)    == [kind |-> "array", items |-> items]
Text(s)         == [kind |-> "string", value |-> s]
Whole(n)        == [kind |-> "integer", value |-> n]
Null            == [kind |-> "null"]

(* write_float prints the shortest digits, so 2.0 looks like an integer. *)
Float(x) == IF x % 10 = 0 THEN Whole(x \div 10) ELSE [kind |-> "fraction", value |-> x]

Wholes(xs) == Array([i \in DOMAIN xs |-> Whole(xs[i])])
Floats(xs) == Array([i \in DOMAIN xs |-> Float(xs[i])])
Texts(xs)  == Array([i \in DOMAIN xs |-> Text(xs[i])])
Rows(xs)   == Array([i \in DOMAIN xs |-> Floats(xs[i])])

------------------------------------------------------
(* The writer: the members of each object, in the order they are written. *)

write_film(film) == Object(<<
    <<"id", Whole(film.id)>>, <<"extent", Wholes(film.extent)>>, <<"crop", Wholes(film.crop)>>,
    <<"accumulation", Text(film.accumulation)>> >>)

write_pinhole_model(model) == Object(<<
    <<"type", Text("pinhole")>>, <<"origin", Floats(model.origin)>>,
    <<"normal", Floats(model.normal)>>, <<"tangent", Floats(model.tangent)>>,
    <<"bitangent", Floats(model.bitangent)>>,
    <<"vertical_fov_radians", Float(model.vertical_fov_radians)>>,
    <<"t_min", Float(model.t_min)>>, <<"t_max", Float(model.t_max)>>,
    <<"visibility_mask", Whole(model.visibility_mask)>>,
    <<"current_medium", Whole(model.current_medium)>> >>)

write_camera(camera) == Object(<<
    <<"id", Whole(camera.id)>>, <<"film", Whole(camera.film)>>,
    <<"model", write_pinhole_model(camera.model)>> >>)

write_depth_limits(limits) == Object(<<
    <<"diffuse", Whole(limits.diffuse)>>, <<"glossy", Whole(limits.glossy)>>,
    <<"specular", Whole(limits.specular)>>, <<"transmission", Whole(limits.transmission)>>,
    <<"volume", Whole(limits.volume)>> >>)

write_russian_roulette(policy) == Object(
    <<<<"mode", Text(policy.mode)>>>> \o
    IF policy.mode = "disabled" THEN << >>
    ELSE << <<"first_eligible_depth", Whole(policy.first_eligible_depth)>>,
            <<"minimum_survival_probability", Float(policy.minimum_survival_probability)>>,
            <<"maximum_survival_probability", Float(policy.maximum_survival_probability)>> >>)

write_render_options(options) == Object(<<
    <<"id", Whole(options.id)>>, <<"film", Whole(options.film)>>,
    <<"samples_per_pixel", Whole(options.samples_per_pixel)>>,
    <<"maximum_path_depth", Whole(options.maximum_path_depth)>>,
    <<"tile_edge_length", Whole(options.tile_edge_length)>>, <<"seed", Whole(options.seed)>>,
    <<"pixel_jitter", Text(options.pixel_jitter)>>,
    <<"mis_heuristic", Text(options.mis_heuristic)>>,
    <<"light_sampling_strategy", Text(options.light_sampling_strategy)>>,
    <<"depth_limits", write_depth_limits(options.depth_limits)>>,
    <<"russian_roulette", write_russian_roulette(options.russian_roulette)>> >>)

write_constant_texture(texture) == Object(<<
    <<"id", Whole(texture.id)>>, <<"type", Text(texture.type)>>,
    <<"value", IF texture.type = "float" THEN Float(texture.value)
                                         ELSE Floats(texture.value)>> >>)

write_host_image_texture(texture) ==
    LET image == texture.image
    IN  Object(<<
          <<"id", Whole(texture.id)>>,
          <<"image", Object(<<
              <<"source_path", Text(image.source_path)>>,
              <<"format_name", Text(image.format_name)>>,
              <<"source_color_space", Text(image.source_color_space)>>,
              <<"storage_color_space", Text(image.storage_color_space)>>,
              <<"origin", Wholes(image.origin)>>, <<"extent", Wholes(image.extent)>>,
              <<"channel_names", Texts(image.channel_names)>>,
              <<"pixels", Floats(image.pixels)>> >>)>> >>)

write_geometry(geometry) ==
    LET mesh == geometry.mesh
    IN  Object(<<
          <<"id", Whole(geometry.id)>>,
          <<"mesh", Object(<<
              <<"positions", Rows(mesh.positions)>>, <<"normals", Rows(mesh.normals)>>,
              <<"texture_coordinates", Rows(mesh.texture_coordinates)>>,
              <<"triangles", Array([i \in DOMAIN mesh.triangles |-> Wholes(mesh.triangles[i])])>>
              >>)>> >>)

write_wavelengths(wavelengths) == Object(<<
    <<"nanometers", Floats(wavelengths.nanometers)>>, <<"pdf", Floats(wavelengths.pdf)>> >>)

write_ewa_limits(ewa) == Object(<<
    <<"maximum_anisotropy", Whole(ewa.maximum_anisotropy)>>,
    <<"maximum_texel_visits", Whole(ewa.maximum_texel_visits)>> >>)

write_normal_map(binding) == Object(<<
    <<"texture", Whole(binding.texture)>>, <<"red_channel", Whole(binding.red_channel)>>,
    <<"green_channel", Whole(binding.green_channel)>>,
    <<"blue_channel", Whole(binding.blue_channel)>>,
    <<"y_convention", Text(binding.y_convention)>>, <<"u_wrap", Text(binding.u_wrap)>>,
    <<"v_wrap", Text(binding.v_wrap)>>, <<"ewa", write_ewa_limits(binding.ewa)>> >>)

write_bump_map(binding) == Object(<<
    <<"texture", Whole(binding.texture)>>, <<"channel", Whole(binding.channel)>>,
    <<"scale", Float(binding.scale)>>, <<"u_wrap", Text(binding.u_wrap)>>,
    <<"v_wrap", Text(binding.v_wrap)>>, <<"ewa", write_ewa_limits(binding.ewa)>> >>)

write_closure_component(component) == Object(
    << <<"probability", Float(component.probability)>>, <<"type", Text(component.type)>>,
       <<"weight", Floats(component.weight)>> >> \o
    CASE component.type \in {"lambertian_reflection", "specular_reflection"} -> << >>
      [] component.type = "rough_diffuse_reflection" ->
           << <<"roughness", Float(component.roughness)>> >>
      [] component.type = "rough_conductor_reflection" ->
           << <<"eta", Floats(component.eta)>>, <<"k", Floats(component.k)>>,
              <<"alpha_x", Float(component.alpha_x)>>, <<"alpha_y", Float(component.alpha_y)>> >>
      [] component.type = "rough_dielectric" ->
           << <<"exterior_eta", Float(component.exterior_eta)>>,
              <<"interior_eta", Float(component.interior_eta)>>,
              <<"alpha_x", Float(component.alpha_x)>>, <<"alpha_y", Float(component.alpha_y)>> >>
      [] component.type = "specular_transmission" ->
           << <<"exterior_eta", Float(component.exterior_eta)>>,
              <<"interior_eta", Float(component.interior_eta)>> >>)

write_closure_mixture(mixture) == Object(<<
    <<"frame_mode", Text(mixture.frame_mode)>>,
    <<"tangent_rotation_radians", Float(mixture.tangent_rotation_radians)>>,
    <<"components", Array([i \in DOMAIN mixture.components |->
                             write_closure_component(mixture.components[i])])>> >>)

write_material(material) ==
    LET spectral == material.spectral
    IN  Object(<<
          <<"id", Whole(material.id)>>,
          <<"spectral",
            IF spectral = None THEN Null ELSE Object(<<
              <<"wavelengths", write_wavelengths(spectral.wavelengths)>>,
              <<"closures", write_closure_mixture(spectral.closures)>>,
              <<"emission", Floats(spectral.emission)>>,
              <<"normal_map", IF spectral.normal_map = None THEN Null
                              ELSE write_normal_map(spectral.normal_map)>>,
              <<"bump_map", IF spectral.bump_map = None THEN Null
                            ELSE write_bump_map(spectral.bump_map)>> >>)>> >>)

write_instance(instance) == Object(<<
    <<"id", Whole(instance.id)>>,
    <<"parent", IF instance.parent = None THEN Null ELSE Whole(instance.parent)>>,
    <<"object", Whole(instance.object)>>, <<"geometry", Whole(instance.geometry)>>,
    <<"material", Whole(instance.material)>>,
    <<"local_to_parent", Floats(instance.local_to_parent)>>,
    <<"visibility_mask", Whole(instance.visibility_mask)>> >>)

write_light_value(light) ==
    CASE light.type = "point" ->
           << <<"position", Floats(light.position)>>,
              <<"absolute_position_error", Floats(light.absolute_position_error)>>,
              <<"spectral_radiant_intensity", Floats(light.spectral_radiant_intensity)>> >>
      [] light.type = "directional" ->
           << <<"propagation_direction", Floats(light.propagation_direction)>>,
              <<"spectral_irradiance", Floats(light.spectral_irradiance)>> >>
      [] light.type = "spot" ->
           << <<"position", Floats(light.position)>>,
              <<"absolute_position_error", Floats(light.absolute_position_error)>>,
              <<"emission_direction", Floats(light.emission_direction)>>,
              <<"inner_half_angle_radians", Float(light.inner_half_angle_radians)>>,
              <<"outer_half_angle_radians", Float(light.outer_half_angle_radians)>>,
              <<"on_axis_spectral_radiant_intensity",
                Floats(light.on_axis_spectral_radiant_intensity)>> >>
      [] light.type = "environment" ->
           << <<"wavelengths", write_wavelengths(light.wavelengths)>>,
              <<"radiance", Floats(light.radiance)>> >>

write_light(light) ==
    Object(<< <<"id", Whole(light.id)>>, <<"type", Text(light.type)>> >> \o write_light_value(light))

write_scene(d) == Object(<<
    <<"schema", Text("blackframe.scene")>>, <<"schema_version", Whole(1)>>,
    <<"active", Object(<< <<"film", Whole(d.active.film)>>, <<"camera", Whole(d.active.camera)>>,
                          <<"render_options", Whole(d.active.render_options)>> >>)>>,
    <<"films", Array([i \in DOMAIN d.films |-> write_film(d.films[i])])>>,
    <<"cameras", Array([i \in DOMAIN d.cameras |-> write_camera(d.cameras[i])])>>,
    <<"render_options", Array([i \in DOMAIN d.render_options |->
                                 write_render_options(d.render_options[i])])>>,
    <<"constant_textures", Array([i \in DOMAIN d.constant_textures |->
                                    write_constant_texture(d.constant_textures[i])])>>,
    <<"host_image_textures", Array([i \in DOMAIN d.host_image_textures |->
                                      write_host_image_texture(d.host_image_textures[i])])>>,
    <<"objects", Array([i \in DOMAIN d.objects |-> Object(<<<<"id", Whole(d.objects[i].id)>>>>)])>>,
    <<"geometries", Array([i \in DOMAIN d.geometries |-> write_geometry(d.geometries[i])])>>,
    <<"materials", Array([i \in DOMAIN d.materials |-> write_material(d.materials[i])])>>,
    <<"instances", Array([i \in DOMAIN d.instances |-> write_instance(d.instances[i])])>>,
    <<"lights", Array([i \in DOMAIN d.lights |-> write_light(d.lights[i])])>> >>)

------------------------------------------------------
(* The reader: the shape each object must have. Closed objects hold exactly
   their members; OneOf is the alternatives a tag or a null chooses between. *)
U32      == [type |-> "u32"]
U64      == [type |-> "u64"]
I32      == [type |-> "i32"]
Number   == [type |-> "float"]
String   == [type |-> "string"]
Nothing  == [type |-> "null"]
Exactly(n, shape) == [type |-> "fixed", length |-> n, of |-> shape]
List(shape)       == [type |-> "list", of |-> shape]
AtMost(n, shape)  == [type |-> "at_most", length |-> n, of |-> shape]
Name(names)       == [type |-> "name", names |-> names]
Closed(members)   == [type |-> "closed", members |-> members]
OneOf(shapes)     == [type |-> "one_of", shapes |-> shapes]

MinimumI32 == -(MaximumU32 \div 2) - 1

Vector3  == Exactly(3, Number)
Point2   == Exactly(2, Number)
Spectrum == Exactly(4, Number)
Nullable(shape) == OneOf(<<Nothing, shape>>)

Enum == [accumulation |-> {"float32", "float64"}, pixel_jitter |-> {"center", "uniform"},
         mis_heuristic |-> {"balance", "power"},
         light_sampling_strategy |-> {"uniform", "power_weighted", "spatial_tree"},
         color_space |-> {"data", "srgb", "scene_linear_srgb"},
         wrap |-> {"repeat", "clamp", "mirror", "black"},
         y_convention |-> {"positive_v", "negative_v"},
         frame_mode |-> {"shading_normal", "surface_tangent"}]

read_film == Closed([id |-> U32, extent |-> Exactly(2, U32), crop |-> Exactly(4, U32),
                     accumulation |-> Name(Enum.accumulation)])

read_pinhole_camera ==
    Closed([type |-> Name({"pinhole"}), origin |-> Vector3, normal |-> Vector3,
            tangent |-> Vector3, bitangent |-> Vector3, vertical_fov_radians |-> Number,
            t_min |-> Number, t_max |-> Number, visibility_mask |-> U32,
            current_medium |-> U32])

read_camera == Closed([id |-> U32, film |-> U32, model |-> read_pinhole_camera])

read_depth_limits == Closed([diffuse |-> U32, glossy |-> U32, specular |-> U32,
                             transmission |-> U32, volume |-> U32])

(* A disabled roulette has no other member, an enabled one has them all. *)
read_russian_roulette ==
    OneOf(<<Closed([mode |-> Name({"disabled"})]),
            Closed([mode |-> Name({"enabled"}), first_eligible_depth |-> U32,
                    minimum_survival_probability |-> Number,
                    maximum_survival_probability |-> Number])>>)

read_render_options ==
    Closed([id |-> U32, film |-> U32, samples_per_pixel |-> U32, maximum_path_depth |-> U32,
            tile_edge_length |-> U32, seed |-> U64,
            pixel_jitter |-> Name(Enum.pixel_jitter), mis_heuristic |-> Name(Enum.mis_heuristic),
            light_sampling_strategy |-> Name(Enum.light_sampling_strategy),
            depth_limits |-> read_depth_limits, russian_roulette |-> read_russian_roulette])

(* The value is kept until the type is known, which may come after it. *)
read_constant_texture ==
    OneOf(<<Closed([id |-> U32, type |-> Name({"float"}), value |-> Number]),
            Closed([id |-> U32, type |-> Name({"color"}), value |-> Exactly(3, Number)]),
            Closed([id |-> U32, type |-> Name({"spectrum"}), value |-> Spectrum])>>)

read_host_image ==
    Closed([source_path |-> String, format_name |-> String,
            source_color_space |-> Name(Enum.color_space),
            storage_color_space |-> Name(Enum.color_space), origin |-> Exactly(2, I32),
            extent |-> Exactly(2, U32), channel_names |-> List(String), pixels |-> List(Number)])

read_host_image_texture == Closed([id |-> U32, image |-> read_host_image])

read_triangle_mesh ==
    Closed([positions |-> List(Vector3), normals |-> List(Vector3),
            texture_coordinates |-> List(Point2), triangles |-> List(Exactly(3, U32))])

read_geometry == Closed([id |-> U32, mesh |-> read_triangle_mesh])

read_object_record == Closed([id |-> U32])

read_wavelengths == Closed([nanometers |-> Spectrum, pdf |-> Spectrum])

read_ewa_limits == Closed([maximum_anisotropy |-> U32, maximum_texel_visits |-> U32])

read_normal_map ==
    Closed([texture |-> U32, red_channel |-> U32, green_channel |-> U32, blue_channel |-> U32,
            y_convention |-> Name(Enum.y_convention), u_wrap |-> Name(Enum.wrap),
            v_wrap |-> Name(Enum.wrap), ewa |-> read_ewa_limits])

read_bump_map ==
    Closed([texture |-> U32, channel |-> U32, scale |-> Number, u_wrap |-> Name(Enum.wrap),
            v_wrap |-> Name(Enum.wrap), ewa |-> read_ewa_limits])

(* append_closure expects the fields of the component's type and no others. *)
Component(types, parameters) ==
    Closed([probability |-> Number, type |-> Name(types), weight |-> Spectrum] @@ parameters)

read_closure_component ==
    OneOf(<<Component({"lambertian_reflection", "specular_reflection"}, << >>),
            Component({"rough_diffuse_reflection"}, [roughness |-> Number]),
            Component({"rough_conductor_reflection"},
                      [eta |-> Spectrum, k |-> Spectrum, alpha_x |-> Number, alpha_y |-> Number]),
            Component({"rough_dielectric"},
                      [exterior_eta |-> Number, interior_eta |-> Number,
                       alpha_x |-> Number, alpha_y |-> Number]),
            Component({"specular_transmission"},
                      [exterior_eta |-> Number, interior_eta |-> Number])>>)

read_closure_mixture ==
    Closed([frame_mode |-> Name(Enum.frame_mode), tangent_rotation_radians |-> Number,
            components |-> AtMost(MaximumClosureCount, read_closure_component)])

read_spectral_material ==
    Closed([wavelengths |-> read_wavelengths, closures |-> read_closure_mixture,
            emission |-> Spectrum, normal_map |-> Nullable(read_normal_map),
            bump_map |-> Nullable(read_bump_map)])

read_material == Closed([id |-> U32, spectral |-> Nullable(read_spectral_material)])

read_instance ==
    Closed([id |-> U32, parent |-> Nullable(U32), object |-> U32, geometry |-> U32,
            material |-> U32, local_to_parent |-> Exactly(16, Number), visibility_mask |-> U32])

read_light ==
    OneOf(<<Closed([id |-> U32, type |-> Name({"point"}), position |-> Vector3,
                    absolute_position_error |-> Vector3,
                    spectral_radiant_intensity |-> Spectrum]),
            Closed([id |-> U32, type |-> Name({"directional"}),
                    propagation_direction |-> Vector3, spectral_irradiance |-> Spectrum]),
            Closed([id |-> U32, type |-> Name({"spot"}), position |-> Vector3,
                    absolute_position_error |-> Vector3, emission_direction |-> Vector3,
                    inner_half_angle_radians |-> Number, outer_half_angle_radians |-> Number,
                    on_axis_spectral_radiant_intensity |-> Spectrum]),
            Closed([id |-> U32, type |-> Name({"environment"}),
                    wavelengths |-> read_wavelengths, radiance |-> Spectrum])>>)

read_active_selection == Closed([film |-> U32, camera |-> U32, render_options |-> U32])

read_scene ==
    Closed([schema |-> Name({"blackframe.scene"}),
            schema_version |-> [type |-> "version"], active |-> read_active_selection,
            films |-> List(read_film), cameras |-> List(read_camera),
            render_options |-> List(read_render_options),
            constant_textures |-> List(read_constant_texture),
            host_image_textures |-> List(read_host_image_texture),
            objects |-> List(read_object_record), geometries |-> List(read_geometry),
            materials |-> List(read_material), instances |-> List(read_instance),
            lights |-> List(read_light)])

------------------------------------------------------
(* Reading one value against its shape. *)
Keys(t) == {t.members[i][1] : i \in DOMAIN t.members}

Member(t, key) == t.members[CHOOSE i \in DOMAIN t.members : t.members[i][1] = key][2]

unique_keys(t) == Cardinality(Keys(t)) = Len(t.members)

RECURSIVE accepts(_, _)
accepts(shape, t) ==
    CASE shape.type = "u32"  -> t.kind = "integer" /\ t.value \in 0 .. MaximumU32
      [] shape.type = "u64"  -> t.kind = "integer" /\ t.value >= 0
      [] shape.type = "i32"  -> t.kind = "integer" /\ t.value \in MinimumI32 .. -MinimumI32 - 1
      [] shape.type = "version" -> t.kind = "integer" /\ t.value = 1
      [] shape.type = "float"  -> t.kind \in {"integer", "fraction"}
      [] shape.type = "string" -> t.kind = "string"
      [] shape.type = "name"   -> t.kind = "string" /\ t.value \in shape.names
      [] shape.type = "null"   -> t.kind = "null"
      [] shape.type = "fixed"  -> /\ t.kind = "array"
                                  /\ Len(t.items) = shape.length
                                  /\ \A i \in DOMAIN t.items : accepts(shape.of, t.items[i])
      [] shape.type = "at_most" -> /\ t.kind = "array"
                                   /\ Len(t.items) <= shape.length
                                   /\ \A i \in DOMAIN t.items : accepts(shape.of, t.items[i])
      [] shape.type = "list"   -> /\ t.kind = "array"
                                  /\ \A i \in DOMAIN t.items : accepts(shape.of, t.items[i])
      [] shape.type = "closed" -> /\ t.kind = "object"
                                  /\ unique_keys(t)
                                  /\ Keys(t) = DOMAIN shape.members
                                  /\ \A key \in Keys(t) :
                                       accepts(shape.members[key], Member(t, key))
      [] shape.type = "one_of" -> \E i \in DOMAIN shape.shapes : accepts(shape.shapes[i], t)

RECURSIVE value_of(_, _)
value_of(shape, t) ==
    CASE shape.type = "float"  -> IF t.kind = "integer" THEN 10 * t.value ELSE t.value
      [] shape.type = "null"   -> None
      [] shape.type \in {"fixed", "list", "at_most"} ->
           [i \in DOMAIN t.items |-> value_of(shape.of, t.items[i])]
      [] shape.type = "closed" ->
           [key \in DOMAIN shape.members |-> value_of(shape.members[key], Member(t, key))]
      [] shape.type = "one_of" ->
           value_of(shape.shapes[CHOOSE i \in DOMAIN shape.shapes : accepts(shape.shapes[i], t)], t)
      [] OTHER -> t.value

------------------------------------------------------
(* The limits. Each side knows what a description or a document needs of
   every limit; it goes on as long as no need exceeds its limit. *)
Registries == {"films", "cameras", "render_options", "constant_textures", "host_image_textures",
               "objects", "geometries", "materials", "instances", "lights"}

SumOver(seq, Cost(_)) == FoldSeq(LAMBDA x, sum : Cost(x) + sum, 0, seq)

valid_limits(limits) == \A name \in DOMAIN limits : limits[name] > 0

Within(needs, limits) == \A name \in DOMAIN needs : needs[name] <= limits[name]

(* HostImageMipChain: the extents of an image and of the levels made of it. *)
Extents(extent) ==
    LET level[e \in (1 .. extent[1]) \X (1 .. extent[2])] ==
          IF e = <<1, 1>> THEN <<e>>
          ELSE <<e>> \o level[<<Max({1, e[1] \div 2}), Max({1, e[2] \div 2})>>]
    IN  level[<<extent[1], extent[2]>>]

pixel_bytes(image, extent) ==
    extent[1] * extent[2] * Len(image.channel_names) * SizeOf.scalar

total_pixel_bytes(image) ==
    SumOver(Extents(image.extent), LAMBDA extent : pixel_bytes(image, extent))

metadata_bytes_per_level(image) ==
    Len(image.source_path) + Len(image.format_name)
      + SumOver(image.channel_names, LAMBDA name : SizeOf.string + Len(name))

payload_bytes(mesh) ==
    Len(mesh.positions) * (SizeOf.position + SizeOf.normal + SizeOf.texture_coordinate)
      + Len(mesh.triangles) * SizeOf.triangle

(* What the writer adds up before it writes. *)
preflight_needs(d) ==
    LET meshes == d.geometries
        images == d.host_image_textures
    IN  [records   |-> Max({Len(d[r]) : r \in Registries}),
         vertices  |-> SumOver(meshes, LAMBDA g : Len(g.mesh.positions)),
         triangles |-> SumOver(meshes, LAMBDA g : Len(g.mesh.triangles)),
         scalars   |-> SumOver(images, LAMBDA t : Len(t.image.pixels)),
         bytes     |-> MapThenSumSet(LAMBDA r : Len(d[r]) * SizeOf[r], Registries)
                         + SumOver(meshes, LAMBDA g : payload_bytes(g.mesh))
                         + SumOver(images, LAMBDA t : total_pixel_bytes(t.image)
                             + Len(Extents(t.image.extent)) * metadata_bytes_per_level(t.image))]

(* What the reader has charged when it has met every element: the channel
   names of the file once as they are read and once more for every level it
   makes, the path and the format when the image is complete. *)
read_mesh_bytes(mesh) ==
    Len(mesh.positions) * SizeOf.position + Len(mesh.normals) * SizeOf.normal
      + Len(mesh.texture_coordinates) * SizeOf.texture_coordinate
      + Len(mesh.triangles) * SizeOf.triangle

(* A plausible slip: the metadata of the file is charged as one more level. *)
read_image_bytes_twice(image) ==
    total_pixel_bytes(image) + (Len(Extents(image.extent)) + 1) * metadata_bytes_per_level(image)

read_image_bytes(image) ==
    LET generated == Tail(Extents(image.extent))
        names     == SumOver(image.channel_names, LAMBDA name : SizeOf.string + Len(name))
        metadata  == Len(image.source_path) + Len(image.format_name) + names
    IN  names + Len(image.pixels) * SizeOf.scalar
          + Len(image.source_path) + Len(image.format_name)
          + Len(generated) * metadata
          + SumOver(generated, LAMBDA extent : pixel_bytes(image, extent))

decoded_needs(d) ==
    LET meshes == d.geometries
        images == d.host_image_textures
    IN  [records   |-> Max({Len(d[r]) : r \in Registries}),
         vertices  |-> SumOver(meshes, LAMBDA g : Len(g.mesh.positions)),
         triangles |-> SumOver(meshes, LAMBDA g : Len(g.mesh.triangles)),
         scalars   |-> SumOver(images, LAMBDA t : Len(t.image.pixels)),
         bytes     |-> MapThenSumSet(LAMBDA r : Len(d[r]) * SizeOf[r], Registries)
                         + SumOver(meshes, LAMBDA g : read_mesh_bytes(g.mesh))
                         + SumOver(images, LAMBDA t : read_image_bytes(t.image))]

(* The values, string bytes and nesting of a document: keys are strings and
   no values, containers are values. Writer and Reader count alike, the one
   as it appends and the other as it claims, and refuse at the same number. *)
RECURSIVE syntax_needs(_)
syntax_needs(t) ==
    LET parts  == CASE t.kind = "array"  -> t.items
                    [] t.kind = "object" -> [i \in DOMAIN t.members |-> t.members[i][2]]
                    [] OTHER -> << >>
        inside == FoldSeq(LAMBDA part, sum :
                            LET needs == syntax_needs(part)
                            IN  [values  |-> sum.values + needs.values,
                                 strings |-> sum.strings + needs.strings,
                                 nesting |-> Max({sum.nesting, needs.nesting})],
                          [values |-> 0, strings |-> 0, nesting |-> 0], parts)
    IN  [values  |-> 1 + inside.values,
         strings |-> inside.strings
                       + CASE t.kind = "string" -> Len(t.value)
                           [] t.kind = "object" -> SumOver(t.members, LAMBDA m : Len(m[1]))
                           [] OTHER -> 0,
         nesting |-> inside.nesting + IF t.kind \in {"array", "object"} THEN 1 ELSE 0]

writable(d, limits) ==
    /\ valid_limits(limits)
    /\ Within(preflight_needs(d), limits)
    /\ Within(syntax_needs(write_scene(d)), limits)

description_of(t) ==
    LET scene == value_of(read_scene, t)
    IN  [key \in DOMAIN scene \ {"schema", "schema_version"} |-> scene[key]]

readable(t, limits) ==
    /\ valid_limits(limits)
    /\ Within(syntax_needs(t), limits)
    /\ accepts(read_scene, t)
    /\ Within(decoded_needs(description_of(t)), limits)

------------------------------------------------------
NoDocument == Null
Refused    == [ok |-> FALSE]
Scene(d)   == [ok |-> TRUE, scene |-> d]

(* Bound: one limit of one side at a time is what the description needs or
   one less, and only a document under generous limits is edited, once. *)
Tight(d) ==
    LET needs == preflight_needs(d) @@ syntax_needs(write_scene(d))
    IN  {[Generous EXCEPT ![name] = Max({0, needs[name] - k})] :
           name \in DOMAIN needs, k \in 0 .. 1}

Case(d, write, read, edits) ==
    [description |-> d, write |-> write, read |-> read, edits |-> edits]

Cases == UNION {{Case(d, tight, Generous, FALSE) : tight \in Tight(d)}
                \cup {Case(d, Generous, tight, FALSE) : tight \in Tight(d)}
                \cup {Case(d, Generous, Generous, TRUE)} : d \in Descriptions}

Init ==
    /\ case \in Cases
    /\ phase = "described"
    /\ document = NoDocument
    /\ edited = "not"
    /\ result = Refused

serialize ==
    /\ phase = "described"
    /\ IF writable(case.description, case.write)
       THEN phase' = "written" /\ document' = write_scene(case.description)
       ELSE phase' = "refused" /\ UNCHANGED document
    /\ UNCHANGED <<case, edited, result>>

(* The paths to the members of the objects of a document. *)
RECURSIVE MemberPaths(_)
MemberPaths(t) ==
    CASE t.kind = "object" ->
           UNION {{<<i>> \o p : p \in {<< >>} \cup MemberPaths(t.members[i][2])} :
                    i \in DOMAIN t.members}
      [] t.kind = "array" ->
           UNION {{<<i>> \o p : p \in MemberPaths(t.items[i])} : i \in DOMAIN t.items}
      [] OTHER -> {}

Retyped(t) == IF t.kind = "string" THEN Whole(1) ELSE Text("other")

ChangedMembers(members, i, way) ==
    CASE way = "dropped"  -> RemoveAt(members, i)
      [] way = "repeated" -> Append(members, members[i])
      [] way = "retyped"  -> [members EXCEPT ![i][2] = Retyped(@)]
      [] OTHER -> Append(members, <<way, Whole(1)>>)

RECURSIVE Changed(_, _, _)
Changed(t, path, way) ==
    IF Len(path) = 1 THEN Object(ChangedMembers(t.members, path[1], way))
    ELSE IF t.kind = "object"
         THEN [t EXCEPT !.members[path[1]][2] = Changed(@, Tail(path), way)]
         ELSE [t EXCEPT !.items[path[1]] = Changed(@, Tail(path), way)]

Edits == {"dropped", "repeated", "retyped"} \cup Foreign

(* Somebody edits the file: drops a member, repeats one, gives it a value of
   another type, or adds a member that belongs to another kind of object. *)
edit ==
    /\ phase = "written" /\ edited = "not" /\ case.edits
    /\ \E path \in MemberPaths(document), way \in Edits :
         /\ document' = Changed(document, path, way)
         /\ edited' = way
    /\ UNCHANGED <<case, phase, result>>

deserialize ==
    /\ phase = "written"
    /\ phase' = "read"
    /\ result' = IF readable(document, case.read) THEN Scene(description_of(document)) ELSE Refused
    /\ UNCHANGED <<case, document, edited>>

Next == serialize \/ edit \/ deserialize

Spec == Init /\ [][Next]_vars

------------------------------------------------------
(* A document nobody touched reads back to the very description that was
   written, and it is read under some limits exactly if it could have been
   written under them: no scene that was saved is refused when it is loaded
   again under the same limits, whichever of them is used up to the last. *)
RoundTrips ==
    phase = "read" /\ edited = "not" =>
        result = IF writable(case.description, case.read) THEN Scene(case.description)
                                                          ELSE Refused

(* A document that lacks a member, has one twice, one of another type or one
   that belongs elsewhere is refused, at whatever depth of the scene it is:
   no default stands in for what is missing, and nothing is ignored. *)
ClosedDocuments ==
    phase = "read" /\ edited # "not" => ~result.ok
=============================================================================
