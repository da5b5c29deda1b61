----------------------------- MODULE CudaSceneReads -----------------------------
(***************************************************************************)
(* The readers of the uploaded scene: the checks every kernel makes of the   *)
(* header before it trusts it, and the loads of the shading stages. A hit    *)
(* and a light are named the way the stages name them, a path carries a      *)
(* packet of wavelengths. What a stage then computes from what it has loaded *)
(* is left out, and with it refusals of values that are not finite or not a  *)
(* direction, which a frame scene does not hold.                            *)
(***************************************************************************)
EXTENDS CudaSceneSoA

CONSTANTS Packets, MaximumUniformLightCount

Header == soa.header

------------------------------------------------------
(* The tables, as the stages have them and as the closest hit kernel does. *)

scene_column_count(header, c) ==
    CASE c = Column.object_id -> header.object_count
      [] Column.geometry_id <= c /\ c <= Column.triangle_count -> header.geometry_count
      [] Column.position <= c /\ c <= Column.texture_coordinate + 1 -> header.vertex_count
      [] Column.triangle_vertex <= c /\ c <= Column.triangle_vertex + 2 -> header.triangle_count
      [] Column.material_id <= c /\ c < Column.kind -> header.material_count
      [] Column.kind <= c /\ c < Column.instance_id -> header.closure_count
      [] Column.instance_id <= c /\ c < Column.punctual_kind -> header.instance_count
      [] Column.punctual_kind <= c /\ c < Column.area_light_instance -> header.punctual_light_count
      [] c = Column.area_light_instance -> header.mesh_area_light_count
      [] Column.environment_nanometers <= c /\ c < Column.texture_id -> header.environment_count
      [] Column.texture_id <= c /\ c < Column.normal_map_present -> header.texture_count
      [] Column.normal_map_present <= c /\ c < Column.image_id -> header.material_count
      [] Column.image_id <= c /\ c < Column.mip_width -> header.image_texture_count
      [] Column.mip_width <= c /\ c < Column.texel_value -> header.image_mip_count
      [] c = Column.texel_value -> header.image_texel_count
      [] OTHER -> 0

scene_column_element_size(c) ==
    CASE \/ Column.vertex_offset <= c /\ c <= Column.triangle_count
         \/ c \in {Column.closure_offset, Column.closure_count} -> 8
      [] \/ c \in {Column.spectral_present, Column.frame_mode, Column.parent_present,
                   Column.normal_map_present, Column.bump_map_present}
         \/ Column.measure <= c /\ c < Column.closure_offset
         \/ Column.environment_measure <= c /\ c < Column.environment_radiance -> 1
      [] c \in {Column.mip_offset, Column.mip_count, Column.texel_offset, Column.texel_count} -> 8
      [] OTHER -> 4

hit_scene_column_count(header, c) ==
    CASE c = Column.object_id -> header.object_count
      [] c \in Column.geometry_id .. Column.triangle_count -> header.geometry_count
      [] c \in Column.position .. Column.triangle_vertex - 1 -> header.vertex_count
      [] c \in Column.triangle_vertex .. Column.material_id - 1 -> header.triangle_count
      [] \/ c \in Column.material_id .. Column.kind - 1
         \/ c \in Column.normal_map_present .. Column.image_id - 1 -> header.material_count
      [] c \in Column.kind .. Column.instance_id - 1 -> header.closure_count
      [] c \in Column.instance_id .. Column.punctual_kind - 1 -> header.instance_count
      [] c \in Column.punctual_kind .. Column.area_light_instance - 1 -> header.punctual_light_count
      [] c = Column.area_light_instance -> header.mesh_area_light_count
      [] c \in Column.environment_nanometers .. Column.texture_id - 1 -> header.environment_count
      [] c \in Column.texture_id .. Column.normal_map_present - 1 -> header.texture_count
      [] c \in Column.image_id .. Column.mip_width - 1 -> header.image_texture_count
      [] c \in Column.mip_width .. Column.texel_value - 1 -> header.image_mip_count
      [] c = Column.texel_value -> header.image_texel_count

hit_scene_column_element_size(c) ==
    CASE c \in Column.vertex_offset .. Column.triangle_count
               \union {Column.closure_offset, Column.closure_count, Column.mip_offset,
                       Column.mip_count, Column.texel_offset, Column.texel_count} -> 8
      [] c \in Column.measure .. Column.closure_offset - 1
               \union Column.environment_measure .. Column.environment_radiance - 1
               \union {Column.spectral_present, Column.frame_mode, Column.parent_present,
                       Column.normal_map_present, Column.bump_map_present} -> 1
      [] OTHER -> 4

------------------------------------------------------
(* What a kernel asks of the header: each column where its own tables put it. *)

validate_scene ==
    LET header   == Header
        expected == Placed([c \in Columns |-> scene_column_count(header, c)],
                           [c \in Columns |-> scene_column_element_size(c)])
    IN  IF header.environment_count > 1 THEN "invalid_scene"
        ELSE IF header.mesh_area_light_count > MaximumUniformLightCount
        THEN "unsupported_transport"
        ELSE IF header.columns # expected \/ header.total_size # Extent(expected)
        THEN "invalid_scene" ELSE "valid"

validate_scene_layout ==
    LET header   == Header
        expected == Placed([c \in Columns |-> hit_scene_column_count(header, c)],
                           [c \in Columns |-> hit_scene_column_element_size(c)])
    IN  header.environment_count <= 1 /\ header.columns = expected
        /\ header.total_size = Extent(expected)

------------------------------------------------------
(* Loads. Indices start at zero, as in the code. *)

scene_value(c, size, index) ==
    LET column == soa.memory[c]
    IN  IF column.size = size /\ index \in 0 .. Len(column.values) - 1 THEN column.values[index + 1]
        ELSE Garbage

Int32(c, index) == scene_value(c, 4, index)[1]
Int64(c, index) == scene_value(c, 8, index)[1]
Byte(c, index)  == scene_value(c, 1, index)[1]

Load(first, components, size, index) ==
    [k \in 1 .. components |-> scene_value(first + k - 1, size, index)]

(* The first index with the identifier, or the count where there is none. *)
find_id(first, count, id) ==
    LET found == {k \in 0 .. count - 1 : Int32(first, k) = id}
    IN  IF found = {} THEN count ELSE Min(found)

load_matrix(first, instance) == Load(first, Elements, 4, instance)

load_spectrum(first, index) == Load(first, Lanes, 4, index)

(* The wavelengths of the record are those of the path. *)
spectra_match(packet, nanometers, pdf, measure, index) ==
    /\ Load(nanometers, Lanes, 4, index) = [k \in 1 .. Lanes |-> <<"nanometers", packet, k - 1>>]
    /\ Load(pdf, Lanes, 4, index) = [k \in 1 .. Lanes |-> <<"pdf", packet, k - 1>>]
    /\ Load(measure, Lanes, 1, index) = [k \in 1 .. Lanes |-> <<"measure", packet, k - 1>>]

Invalid     == [status |-> "invalid_scene"]
Unsupported == [status |-> "unsupported_transport"]
NumericalFailure == [status |-> "numerical_failure"]

load_scene_closure_record(index) ==
    [kind        |-> scene_value(Column.kind, 4, index),
     lobes       |-> scene_value(Column.lobes, 4, index),
     weight      |-> load_spectrum(Column.weight, index),
     parameters  |-> Load(Column.parameters, Parameters, 4, index),
     probability |-> scene_value(Column.probability, 4, index)]

load_material_closure_range(material) ==
    LET offset == Int64(Column.closure_offset, material)
        count  == Int64(Column.closure_count, material)
    IN  IF offset > Header.closure_count \/ count > Header.closure_count - offset THEN Invalid
        ELSE [status |-> "valid", offset |-> offset, count |-> count,
              frame_mode |-> scene_value(Column.frame_mode, 1, material),
              rotation |-> scene_value(Column.rotation, 4, material)]

load_material_closure_mixture(material) ==
    LET range == load_material_closure_range(material)
    IN  IF range.status # "valid" THEN range
        ELSE IF Byte(Column.spectral_present, material) # 1 THEN Unsupported
        ELSE [status |-> "valid", frame_mode |-> range.frame_mode, rotation |-> range.rotation,
              closures |-> [k \in 1 .. range.count |->
                               load_scene_closure_record(range.offset + k - 1)]]

(* The vertices of a geometry's triangle, as indices of the vertex columns. *)
triangle_vertices(geometry, primitive) ==
    LET vertex_offset   == Int64(Column.vertex_offset, geometry)
        vertex_count    == Int64(Column.vertex_count, geometry)
        triangle_offset == Int64(Column.triangle_offset, geometry)
        triangle_count  == Int64(Column.triangle_count, geometry)
        triangle        == triangle_offset + primitive
        corners == [k \in 1 .. 3 |-> Int32(Column.triangle_vertex + k - 1, triangle)]
    IN  IF \/ primitive >= triangle_count
           \/ vertex_offset > Header.vertex_count
           \/ vertex_count > Header.vertex_count - vertex_offset
           \/ triangle_offset > Header.triangle_count
           \/ triangle_count > Header.triangle_count - triangle_offset
           \/ \E k \in 1 .. 3 : corners[k] >= vertex_count
        THEN << >>
        ELSE [k \in 1 .. 3 |-> vertex_offset + corners[k]]

surface_data(hit, packet) ==
    LET instance == find_id(Column.instance_id, Header.instance_count, hit.instance)
        geometry == find_id(Column.geometry_id, Header.geometry_count, hit.geometry)
        material == find_id(Column.material_id, Header.material_count, hit.material)
        corners  == triangle_vertices(geometry, hit.primitive)
    IN  IF \/ instance = Header.instance_count \/ geometry = Header.geometry_count
           \/ material = Header.material_count
        THEN Invalid
        ELSE IF \/ Int32(Column.instance_geometry, instance) # hit.geometry
                \/ Int32(Column.instance_material, instance) # hit.material
                \/ Int32(Column.instance_object, instance) # hit.object
                \/ Byte(Column.spectral_present, material) # 1
                \/ ~spectra_match(packet, Column.nanometers, Column.pdf, Column.measure, material)
        THEN Unsupported
        ELSE IF corners = << >> THEN Invalid
        ELSE  [status   |-> "valid",
               corners  |-> [k \in DOMAIN corners |->
                               [position |-> Load(Column.position, 3, 4, corners[k]),
                                normal |-> Load(Column.normal, 3, 4, corners[k]),
                                coordinate |-> Load(Column.texture_coordinate, 2, 4, corners[k])]],
               to_local |-> load_matrix(Column.world_to_local, instance),
               to_world |-> load_matrix(Column.local_to_world, instance),
               material |-> material]

------------------------------------------------------
(* Lights. *)

sample_punctual_light(index) ==
    LET kind == Int32(Column.punctual_kind, index)
        lit  == [status |-> "valid", kind |-> kind,
                 spectrum |-> load_spectrum(Column.punctual_spectrum, index)]
        place == [position |-> Load(Column.punctual_position, 3, 4, index),
                  error |-> Load(Column.position_error, 3, 4, index)]
        axis  == [direction |-> Load(Column.direction, 3, 4, index)]
    IN  CASE kind = 1 -> lit @@ axis
          [] kind = 0 -> lit @@ place
          [] kind = 2 -> lit @@ place @@ axis
                         @@ [inner |-> scene_value(Column.inner_angle, 4, index),
                             outer |-> scene_value(Column.outer_angle, 4, index)]
          [] OTHER -> Invalid

sample_mesh_area_light(index, packet) ==
    LET instance == find_id(Column.instance_id, Header.instance_count,
                            Int32(Column.area_light_instance, index))
        geometry == find_id(Column.geometry_id, Header.geometry_count,
                            Int32(Column.instance_geometry, instance))
        material == find_id(Column.material_id, Header.material_count,
                            Int32(Column.instance_material, instance))
        triangles == [t \in 1 .. Int64(Column.triangle_count, geometry) |->
                         triangle_vertices(geometry, t - 1)]
    IN  IF \/ instance = Header.instance_count \/ geometry = Header.geometry_count
           \/ material = Header.material_count
        THEN Invalid
        ELSE IF \/ Byte(Column.spectral_present, material) # 1
                \/ ~spectra_match(packet, Column.nanometers, Column.pdf, Column.measure, material)
        THEN Unsupported
        ELSE IF triangles = << >> THEN Invalid
        ELSE IF << >> \in Range(triangles) THEN NumericalFailure
        ELSE  [status    |-> "valid",
               positions |-> [t \in DOMAIN triangles |->
                                [k \in 1 .. 3 |-> Load(Column.position, 3, 4, triangles[t][k])]],
               to_world  |-> load_matrix(Column.local_to_world, instance),
               radiance  |-> load_spectrum(Column.emitted_radiance, material)]

(* Punctual lights are numbered before the area lights.  The stage loads no
   area light that its instance's mask hides from the path; here it is loaded
   all the same, and the mask handed back with it. *)
sample_registered_light(light, packet) ==
    LET count == Header.punctual_light_count + Header.mesh_area_light_count
    IN  IF count = 0 \/ count > MaximumUniformLightCount THEN Unsupported
        ELSE IF light < Header.punctual_light_count THEN sample_punctual_light(light)
        ELSE LET area     == light - Header.punctual_light_count
                 instance == find_id(Column.instance_id, Header.instance_count,
                                     Int32(Column.area_light_instance, area))
                 sampled  == sample_mesh_area_light(area, packet)
             IN  IF sampled.status # "valid" THEN sampled
                 ELSE sampled @@ [mask |-> scene_value(Column.visibility_mask, 4, instance)]

(* The miss stage, of a scene with an environment. *)
environment_radiance(packet) ==
    IF spectra_match(packet, Column.environment_nanometers, Column.environment_pdf,
                     Column.environment_measure, 0)
    THEN [status |-> "valid", radiance |-> load_spectrum(Column.environment_radiance, 0)]
    ELSE Unsupported

------------------------------------------------------
(* Images and the maps that sample them. *)

load_image_texture(id) ==
    LET n        == Header.image_texture_count
        ids(k)   == Int32(Column.image_id, k)
        mips(k)  == Int64(Column.mip_offset, k)
        count(k) == Int64(Column.mip_count, k)
        sound(k) == /\ count(k) > 0
                    /\ Int32(Column.channel_count, k) > 0
                    /\ mips(k) = IF k = 0 THEN 0 ELSE mips(k - 1) + count(k - 1)
                    /\ mips(k) + count(k) <= Header.image_mip_count
                    /\ k > 0 => ids(k) > ids(k - 1)
        at       == find_id(Column.image_id, n, id)
    IN  IF \/ n = 0 \/ at = n
           \/ \E k \in 0 .. n - 1 : ~sound(k)
           \/ Int32(Column.color_space, at) # 0
           \/ mips(n - 1) + count(n - 1) # Header.image_mip_count
        THEN Invalid
        ELSE [status |-> "valid", mip_offset |-> mips(at), mip_count |-> count(at),
              channel_count |-> Int32(Column.channel_count, at)]

load_image_mip(texture, level) ==
    LET mip       == texture.mip_offset + level
        width(k)  == Int32(Column.mip_width, k)
        height(k) == Int32(Column.mip_height, k)
        offset(k) == Int64(Column.texel_offset, k)
        count(k)  == Int64(Column.texel_count, k)
        halved(n) == IF n > 1 THEN n \div 2 ELSE 1
    IN  IF /\ level < texture.mip_count /\ mip < Header.image_mip_count
           /\ width(mip) > 0 /\ height(mip) > 0
           /\ count(mip) = width(mip) * height(mip) * texture.channel_count
           /\ offset(mip) + count(mip) <= Header.image_texel_count
           /\ offset(mip) = IF mip = 0 THEN 0 ELSE offset(mip - 1) + count(mip - 1)
           /\ mip + 1 = Header.image_mip_count =>
                 offset(mip) + count(mip) = Header.image_texel_count
           /\ level # 0 => /\ width(mip) = halved(width(mip - 1))
                           /\ height(mip) = halved(height(mip - 1))
        THEN [status |-> "valid", width |-> width(mip), height |-> height(mip),
              offset |-> offset(mip), count |-> count(mip)]
        ELSE Invalid

(* What filtering a channel may touch: that channel of any texel of any level. *)
filter_image_ewa(texture, channels) ==
    LET level(l) == load_image_mip(texture, l)
        texel(l, p, channel) == scene_value(Column.texel_value, 4,
                                            level(l).offset + p * texture.channel_count + channel)
        levels == 0 .. texture.mip_count - 1
    IN  IF \E l \in levels : level(l).status # "valid" THEN Invalid
        ELSE [status |-> "valid",
              texels |-> [l \in levels |-> [channel \in channels |->
                            [p \in 0 .. level(l).width * level(l).height - 1 |->
                                texel(l, p, channel)]]]]

NoMap(first, columns, material) ==
    IF \A c \in first .. first + columns - 1 : scene_value(c, 4, material) = Number(0)
    THEN [status |-> "valid"] ELSE Invalid

apply_normal_map(material) ==
    LET texture  == load_image_texture(Int32(Column.normal_map, material))
        channels == [k \in 1 .. 3 |-> Int32(Column.normal_map + k, material)]
    IN  IF Byte(Column.normal_map_present, material) = 0
        THEN NoMap(Column.normal_map, 9, material)
        ELSE IF texture.status # "valid" THEN texture
        ELSE IF \/ \E k \in 1 .. 3 : channels[k] >= texture.channel_count
                \/ Cardinality(Range(channels)) # 3
        THEN Invalid
        ELSE [filter |-> Load(Column.normal_map + 4, 5, 4, material)]
             @@ filter_image_ewa(texture, Range(channels))

apply_bump_map(material) ==
    LET texture == load_image_texture(Int32(Column.bump_map, material))
        channel == Int32(Column.bump_map + 1, material)
    IN  IF Byte(Column.bump_map_present, material) = 0
        THEN NoMap(Column.bump_map, 7, material)
        ELSE IF texture.status # "valid" THEN texture
        ELSE IF channel >= texture.channel_count THEN Invalid
        ELSE [filter |-> Load(Column.bump_map_scale, 5, 4, material)]
             @@ filter_image_ewa(texture, {channel})

apply_surface_maps(material) ==
    LET normal == apply_normal_map(material)
    IN  IF normal.status # "valid" THEN normal
        ELSE [status |-> apply_bump_map(material).status, normal |-> normal,
              bump |-> apply_bump_map(material)]

------------------------------------------------------
(* What a reader of the frame scene itself would have seen. *)

Carried(name, components, key) == [k \in 1 .. components |-> <<name, key, k - 1>>]
Position(records, id) == CHOOSE k \in DOMAIN records : records[k].id = id

Corner(g, t, k) == <<g, frame.geometries[g].triangles[t][k]>>

Visible(m, packet) == frame.materials[m].spectral # None /\ packet = frame.environment

SurfaceOf(i, t, packet) ==
    LET instance == frame.instances[i]
        g == Position(frame.geometries, instance.geometry)
        m == Position(frame.materials, instance.material)
    IN  IF ~Visible(m, packet) THEN Unsupported
        ELSE [status   |-> "valid",
              corners  |-> [k \in 1 .. 3 |->
                              [position |-> Carried("position", 3, Corner(g, t, k)),
                               normal |-> Carried("normal", 3, Corner(g, t, k)),
                               coordinate |-> Carried("coordinate", 2, Corner(g, t, k))]],
              to_local |-> Carried("world_to_local", Elements, <<i>>),
              to_world |-> Carried("local_to_world", Elements, <<i>>),
              material |-> m - 1]

MixtureOf(m) ==
    IF frame.materials[m].spectral = None THEN Unsupported
    ELSE [status |-> "valid", frame_mode |-> <<"frame_mode", <<m>>, 0>>,
          rotation |-> <<"rotation", <<m>>, 0>>,
          closures |-> [k \in 1 .. frame.materials[m].spectral.closures |->
                          [kind        |-> <<"kind", <<m, k>>, 0>>,
                           lobes       |-> <<"lobes", <<m, k>>, 0>>,
                           weight      |-> Carried("weight", Lanes, <<m, k>>),
                           parameters  |-> Carried("parameters", Parameters, <<m, k>>),
                           probability |-> <<"probability", <<m, k>>, 0>>]]]

AreaLightOf(l, packet) ==
    LET i == Position(frame.instances, frame.areas[l])
        g == Position(frame.geometries, frame.instances[i].geometry)
        m == Position(frame.materials, frame.instances[i].material)
    IN  IF ~Visible(m, packet) THEN Unsupported
        ELSE [status    |-> "valid",
              positions |-> [t \in DOMAIN frame.geometries[g].triangles |->
                               [k \in 1 .. 3 |-> Carried("position", 3, Corner(g, t, k))]],
              to_world  |-> Carried("local_to_world", Elements, <<i>>),
              radiance  |-> Carried("emitted_radiance", Lanes, <<m>>),
              mask      |-> <<"visibility_mask", <<i>>, 0>>]

PunctualLightOf(l) ==
    LET kind  == frame.punctual[l]
        lit   == [status |-> "valid", kind |-> (CHOOSE k \in DOMAIN Kinds : Kinds[k] = kind) - 1,
                  spectrum |-> Carried("spectrum", Lanes, <<l>>)]
        place == [position |-> Carried("light_position", 3, <<l>>),
                  error |-> Carried("position_error", 3, <<l>>)]
        axis  == [direction |-> Carried("direction", 3, <<l>>)]
        cone  == [inner |-> <<"inner_angle", <<l>>, 0>>, outer |-> <<"outer_angle", <<l>>, 0>>]
    IN  CASE kind = "point" -> lit @@ place
          [] kind = "directional" -> lit @@ axis
          [] kind = "spot" -> lit @@ place @@ axis @@ cone

(* The map of a material: how it filters, and the channels of the image. *)
MapOf(m, map, filter) ==
    LET bound == frame.materials[m].spectral[map]
        i     == Position(frame.images, bound.texture)
        image == frame.images[i]
    IN  IF frame.materials[m].spectral = None \/ bound = None THEN [status |-> "valid"]
        ELSE [status |-> "valid", filter |-> filter,
              texels |-> [l \in 0 .. Len(image.levels) - 1 |-> [channel \in Range(bound.channels) |->
                            [p \in 0 .. image.levels[l + 1][1] * image.levels[l + 1][2] - 1 |->
                                <<"texel", <<i, l + 1, p * image.channels + channel>>, 0>>]]]]

MapsOf(m) ==
    [status |-> "valid",
     normal |-> MapOf(m, "normal_map", Carried("normal_map", 5, <<m>>)),
     bump   |-> MapOf(m, "bump_map", Carried("bump_map", 5, <<m>>))]

SurfacesRead == \A i \in DOMAIN frame.instances, packet \in Packets :
    LET instance == frame.instances[i]
        g == Position(frame.geometries, instance.geometry)
    IN  \A t \in DOMAIN frame.geometries[g].triangles :
            surface_data([instance |-> instance.id, object |-> instance.object,
                          geometry |-> instance.geometry, material |-> instance.material,
                          primitive |-> t - 1], packet) = SurfaceOf(i, t, packet)

MaterialsRead == \A m \in DOMAIN frame.materials :
    /\ load_material_closure_mixture(m - 1) = MixtureOf(m)
    /\ apply_surface_maps(m - 1) = MapsOf(m)

LightsRead == \A packet \in Packets :
    /\ \A l \in DOMAIN frame.punctual : sample_registered_light(l - 1, packet) = PunctualLightOf(l)
    /\ \A l \in DOMAIN frame.areas :
          sample_registered_light(Len(frame.punctual) + l - 1, packet) = AreaLightOf(l, packet)
    /\ frame.environment # None =>
          environment_radiance(packet) =
              IF packet # frame.environment THEN Unsupported
              ELSE [status |-> "valid",
                    radiance |-> Carried("environment_radiance", Lanes, packet)]

(* Every scene can be flattened within its budget, both kernels accept what
   was uploaded, and whatever a stage loads of an instance's triangle, a
   material, a light, the environment or a map is the record of the frame
   scene the hit or the light names.  The numbers of the columns are one table
   in the code, and a kernel refuses an upload laid out by other counts or
   sizes than its own; what a place within a column holds, and the offsets
   kept in columns, agree only because both sides were written so. *)
DeviceReadsScene ==
    /\ status # "internal_error"
    /\ soa # None => /\ validate_scene = "valid" /\ validate_scene_layout
                     /\ SurfacesRead /\ MaterialsRead /\ LightsRead
=============================================================================
