------------------------------ MODULE CudaSceneSoA ------------------------------
(***************************************************************************)
(* A frame scene on the device: CudaSceneSoA::upload flattens its records    *)
(* into 194 columns behind a header, and the kernels read them back by       *)
(* column number, element size, and offsets kept in other columns. What a    *)
(* column is called, how many elements it has and how wide they are is       *)
(* written down three times: for the host (SceneSoaAbi.hpp), in the stages   *)
(* and in the closest hit kernel.                                           *)
(*                                                                         *)
(* Memory is what each column holds: outside the elements of a column lies   *)
(* something else. A number is a tuple of one, everything the scene only     *)
(* carries along a tuple that says what it is. The content hash, which the   *)
(* stages do not read, is left out, and with it reserved words, limits of    *)
(* 2^32 and the element types of the serializer's calls.                    *)
(***************************************************************************)
EXTENDS Integers, FiniteSetsExt, SequencesExt

CONSTANTS Frames, None

VARIABLES
    frame,      \* the committed scene, registries sorted by identifier
    soa,        \* the CudaSceneSoA: its header and the memory it owns
    status      \* of the last call

vars == <<frame, soa, status>>

Number(n) == <<n>>
Garbage   == Number(-1)

header_size == 4848
alignment   == 16
Lanes       == 4
Parameters  == 10
Elements    == 16

(* The first column of each array; the axes, lanes, parameters and matrix
   elements of one array follow each other. *)
Column ==
    [object_id |-> 0,
     geometry_id |-> 1, vertex_offset |-> 2, vertex_count |-> 3, triangle_offset |-> 4,
     triangle_count |-> 5,
     position |-> 6, normal |-> 9, texture_coordinate |-> 12, triangle_vertex |-> 14,
     material_id |-> 17, spectral_present |-> 18, nanometers |-> 19, pdf |-> 23, measure |-> 27,
     closure_offset |-> 31, closure_count |-> 32, frame_mode |-> 33, rotation |-> 34,
     emitted_radiance |-> 35,
     kind |-> 39, lobes |-> 40, weight |-> 41, parameters |-> 45, probability |-> 55,
     instance_id |-> 56, parent_present |-> 57, parent_id |-> 58, instance_object |-> 59,
     instance_geometry |-> 60, instance_material |-> 61, visibility_mask |-> 62,
     local_to_parent |-> 63, parent_to_local |-> 79, local_to_world |-> 95,
     world_to_local |-> 111,
     punctual_kind |-> 127, punctual_position |-> 128, position_error |-> 131,
     direction |-> 134, inner_angle |-> 137, outer_angle |-> 138, punctual_spectrum |-> 139,
     area_light_instance |-> 143,
     environment_nanometers |-> 144, environment_pdf |-> 148, environment_measure |-> 152,
     environment_radiance |-> 156,
     texture_id |-> 160, texture_kind |-> 161, texture_value |-> 162,
     normal_map_present |-> 166, normal_map |-> 167,
     bump_map_present |-> 176, bump_map |-> 177, bump_map_scale |-> 179,
     image_id |-> 184, mip_offset |-> 185, mip_count |-> 186, channel_count |-> 187,
     color_space |-> 188,
     mip_width |-> 189, mip_height |-> 190, texel_offset |-> 191, texel_count |-> 192,
     texel_value |-> 193]

Columns == 0 .. 193

------------------------------------------------------
(* The host's tables. *)

scene_soa_column_count(header, c) ==
    CASE c = Column.object_id -> header.object_count
      [] c \in Column.geometry_id .. Column.triangle_count -> header.geometry_count
      [] c \in Column.position .. Column.texture_coordinate + 1 -> header.vertex_count
      [] c \in Column.triangle_vertex .. Column.triangle_vertex + 2 -> header.triangle_count
      [] c \in Column.material_id .. Column.kind - 1 -> header.material_count
      [] c \in Column.kind .. Column.instance_id - 1 -> header.closure_count
      [] c \in Column.instance_id .. Column.punctual_kind - 1 -> header.instance_count
      [] c \in Column.punctual_kind .. Column.area_light_instance - 1 -> header.punctual_light_count
      [] c = Column.area_light_instance -> header.mesh_area_light_count
      [] c \in Column.environment_nanometers .. Column.texture_id - 1 -> header.environment_count
      [] c \in Column.texture_id .. Column.normal_map_present - 1 -> header.texture_count
      [] c \in Column.normal_map_present .. Column.image_id - 1 -> header.material_count
      [] c \in Column.image_id .. Column.mip_width - 1 -> header.image_texture_count
      [] c \in Column.mip_width .. Column.texel_value - 1 -> header.image_mip_count
      [] c = Column.texel_value -> header.image_texel_count

scene_soa_column_element_size(c) ==
    CASE \/ c \in Column.vertex_offset .. Column.triangle_count
         \/ c \in {Column.closure_offset, Column.closure_count, Column.mip_offset,
                   Column.mip_count, Column.texel_offset, Column.texel_count} -> 8
      [] \/ c \in Column.measure .. Column.closure_offset - 1
         \/ c \in Column.environment_measure .. Column.environment_radiance - 1
         \/ c \in {Column.spectral_present, Column.frame_mode, Column.parent_present,
                   Column.normal_map_present, Column.bump_map_present} -> 1
      [] OTHER -> 4

align_up(n) == ((n + alignment - 1) \div alignment) * alignment

------------------------------------------------------
(* What the serializer emits, column by column. *)

Total(ns)       == FoldLeft(+, 0, ns)
Numbers(ns)     == [k \in DOMAIN ns |-> Number(ns[k])]
Offsets(counts) == [k \in DOMAIN counts |-> Number(Total(SubSeq(counts, 1, k - 1)))]
Flags(keys)     == [k \in DOMAIN keys |-> Number(IF keys[k] = None THEN 0 ELSE 1)]
Identifiers(records) == [k \in DOMAIN records |-> Number(records[k].id)]

(* One column, and the columns of an array whose elements are known by keys;
   a record without the array has zeros there. *)
Single(column, values) == [c \in {column} |-> values]

Element(name, key, component) == IF key = None THEN Number(0) ELSE <<name, key, component>>

Strip(first, components, name, keys) ==
    [c \in first .. first + components - 1 |->
        [k \in DOMAIN keys |-> Element(name, keys[k], c - first)]]

VertexCounts   == [g \in DOMAIN frame.geometries |-> frame.geometries[g].vertices]
TriangleCounts == [g \in DOMAIN frame.geometries |-> Len(frame.geometries[g].triangles)]

(* A plausible slip: vertices are offset by the triangles before. *)
vertex_offsets_by_triangle == Offsets(TriangleCounts)

geometry_vertex_offsets == Offsets(VertexCounts)

geometry_columns ==
    Single(Column.object_id, Identifiers(frame.objects))
    @@ Single(Column.geometry_id, Identifiers(frame.geometries))
    @@ Single(Column.vertex_offset, geometry_vertex_offsets)
    @@ Single(Column.vertex_count, Numbers(VertexCounts))
    @@ Single(Column.triangle_offset, Offsets(TriangleCounts))
    @@ Single(Column.triangle_count, Numbers(TriangleCounts))

Vertices  == FlattenSeq([g \in DOMAIN frame.geometries |->
                            [v \in 1 .. VertexCounts[g] |-> <<g, v - 1>>]])
Triangles == FlattenSeq([g \in DOMAIN frame.geometries |-> frame.geometries[g].triangles])

mesh_columns ==
    Strip(Column.position, 3, "position", Vertices)
    @@ Strip(Column.normal, 3, "normal", Vertices)
    @@ Strip(Column.texture_coordinate, 2, "coordinate", Vertices)
    @@ [c \in Column.triangle_vertex .. Column.triangle_vertex + 2 |->
           [t \in DOMAIN Triangles |-> Number(Triangles[t][c - Column.triangle_vertex + 1])]]

Spectral == [m \in DOMAIN frame.materials |->
                IF frame.materials[m].spectral = None THEN None ELSE <<m>>]
Wavelengths == [m \in DOMAIN Spectral |-> IF Spectral[m] = None THEN None ELSE frame.environment]

ClosureCounts == [m \in DOMAIN Spectral |->
                     IF Spectral[m] = None THEN 0 ELSE frame.materials[m].spectral.closures]

material_columns ==
    Single(Column.material_id, Identifiers(frame.materials))
    @@ Single(Column.spectral_present, Flags(Spectral))
    @@ Strip(Column.nanometers, Lanes, "nanometers", Wavelengths)
    @@ Strip(Column.pdf, Lanes, "pdf", Wavelengths)
    @@ Strip(Column.measure, Lanes, "measure", Wavelengths)
    @@ Single(Column.closure_offset, Offsets(ClosureCounts))
    @@ Single(Column.closure_count, Numbers(ClosureCounts))
    @@ Strip(Column.frame_mode, 1, "frame_mode", Spectral)
    @@ Strip(Column.rotation, 1, "rotation", Spectral)
    @@ Strip(Column.emitted_radiance, Lanes, "emitted_radiance", Spectral)

Closures == FlattenSeq([m \in DOMAIN Spectral |-> [c \in 1 .. ClosureCounts[m] |-> <<m, c>>]])

closure_columns ==
    Strip(Column.kind, 1, "kind", Closures)
    @@ Strip(Column.lobes, 1, "lobes", Closures)
    @@ Strip(Column.weight, Lanes, "weight", Closures)
    @@ Strip(Column.parameters, Parameters, "parameters", Closures)
    @@ Strip(Column.probability, 1, "probability", Closures)

Instances == [i \in DOMAIN frame.instances |-> <<i>>]
Parents   == [i \in DOMAIN frame.instances |-> frame.instances[i].parent]

instance_columns ==
    Single(Column.instance_id, Identifiers(frame.instances))
    @@ Single(Column.parent_present, Flags(Parents))
    @@ Single(Column.parent_id, [i \in DOMAIN Parents |->
                                    Number(IF Parents[i] = None THEN 0 ELSE Parents[i])])
    @@ Single(Column.instance_object, [i \in DOMAIN Parents |-> Number(frame.instances[i].object)])
    @@ Single(Column.instance_geometry,
              [i \in DOMAIN Parents |-> Number(frame.instances[i].geometry)])
    @@ Single(Column.instance_material,
              [i \in DOMAIN Parents |-> Number(frame.instances[i].material)])
    @@ Strip(Column.visibility_mask, 1, "visibility_mask", Instances)

transform_columns ==
    Strip(Column.local_to_parent, Elements, "local_to_parent", Instances)
    @@ Strip(Column.parent_to_local, Elements, "parent_to_local", Instances)
    @@ Strip(Column.local_to_world, Elements, "local_to_world", Instances)
    @@ Strip(Column.world_to_local, Elements, "world_to_local", Instances)

Kinds == <<"point", "directional", "spot">>

Punctual(kinds) ==
    [k \in DOMAIN frame.punctual |-> IF frame.punctual[k] \in kinds THEN <<k>> ELSE None]

punctual_columns ==
    Single(Column.punctual_kind,
           [k \in DOMAIN frame.punctual |->
               Number(SelectInSeq(Kinds, LAMBDA x : x = frame.punctual[k]) - 1)])
    @@ Strip(Column.punctual_position, 3, "light_position", Punctual({"point", "spot"}))
    @@ Strip(Column.position_error, 3, "position_error", Punctual({"point", "spot"}))
    @@ Strip(Column.direction, 3, "direction", Punctual({"directional", "spot"}))
    @@ Strip(Column.inner_angle, 1, "inner_angle", Punctual({"spot"}))
    @@ Strip(Column.outer_angle, 1, "outer_angle", Punctual({"spot"}))
    @@ Strip(Column.punctual_spectrum, Lanes, "spectrum", Punctual(Range(Kinds)))

Environment == IF frame.environment = None THEN << >> ELSE << frame.environment >>

environment_columns ==
    Single(Column.area_light_instance, Numbers(frame.areas))
    @@ Strip(Column.environment_nanometers, Lanes, "nanometers", Environment)
    @@ Strip(Column.environment_pdf, Lanes, "pdf", Environment)
    @@ Strip(Column.environment_measure, Lanes, "measure", Environment)
    @@ Strip(Column.environment_radiance, Lanes, "environment_radiance", Environment)

ConstantKinds == <<"float_value", "color", "spectrum">>
Components    == [float_value |-> 1, color |-> 3, spectrum |-> Lanes]

texture_columns ==
    Single(Column.texture_id, Identifiers(frame.textures))
    @@ Single(Column.texture_kind,
              [k \in DOMAIN frame.textures |->
                  Number(SelectInSeq(ConstantKinds, LAMBDA x : x = frame.textures[k].kind) - 1)])
    @@ [c \in Column.texture_value .. Column.texture_value + Lanes - 1 |->
           [k \in DOMAIN frame.textures |->
               IF c - Column.texture_value < Components[frame.textures[k].kind]
               THEN <<"texture", k, c - Column.texture_value>> ELSE Number(0)]]

Binding(m, map) == IF Spectral[m] = None THEN None ELSE frame.materials[m].spectral[map]
Bound(map)      == [m \in DOMAIN Spectral |-> IF Binding(m, map) = None THEN None ELSE <<m>>]

(* The texture of a map and its channels, each a column. *)
Bindings(map, first, channels) ==
    [c \in first .. first + channels |->
        [m \in DOMAIN Spectral |->
            IF Binding(m, map) = None THEN Number(0)
            ELSE IF c = first THEN Number(Binding(m, map).texture)
            ELSE Number(Binding(m, map).channels[c - first])]]

map_columns ==
    Single(Column.normal_map_present, Flags(Bound("normal_map")))
    @@ Bindings("normal_map", Column.normal_map, 3)
    @@ Strip(Column.normal_map + 4, 5, "normal_map", Bound("normal_map"))
    @@ Single(Column.bump_map_present, Flags(Bound("bump_map")))
    @@ Bindings("bump_map", Column.bump_map, 1)
    @@ Strip(Column.bump_map_scale, 5, "bump_map", Bound("bump_map"))

Mips == FlattenSeq([i \in DOMAIN frame.images |->
           [l \in DOMAIN frame.images[i].levels |->
               [image |-> i, level |-> l, width |-> frame.images[i].levels[l][1],
                height |-> frame.images[i].levels[l][2]]]])
MipCounts   == [i \in DOMAIN frame.images |-> Len(frame.images[i].levels)]
TexelCounts == [k \in DOMAIN Mips |->
                   Mips[k].width * Mips[k].height * frame.images[Mips[k].image].channels]
Texels == FlattenSeq([k \in DOMAIN Mips |->
             [p \in 1 .. TexelCounts[k] |-> <<Mips[k].image, Mips[k].level, p - 1>>]])

image_columns ==
    Single(Column.image_id, Identifiers(frame.images))
    @@ Single(Column.mip_offset, Offsets(MipCounts))
    @@ Single(Column.mip_count, Numbers(MipCounts))
    @@ Single(Column.channel_count, [i \in DOMAIN MipCounts |-> Number(frame.images[i].channels)])
    @@ Single(Column.color_space, [i \in DOMAIN MipCounts |->
                                      Number(IF frame.images[i].data THEN 0 ELSE 2)])
    @@ Single(Column.mip_width, [k \in DOMAIN Mips |-> Number(Mips[k].width)])
    @@ Single(Column.mip_height, [k \in DOMAIN Mips |-> Number(Mips[k].height)])
    @@ Single(Column.texel_offset, Offsets(TexelCounts))
    @@ Single(Column.texel_count, Numbers(TexelCounts))
    @@ Strip(Column.texel_value, 1, "texel", Texels)

emitted ==
    geometry_columns @@ mesh_columns @@ material_columns @@ closure_columns @@ instance_columns
    @@ transform_columns @@ punctual_columns @@ environment_columns @@ texture_columns
    @@ map_columns @@ image_columns

------------------------------------------------------
(* The header: the counts, and the descriptor of every column. *)

counts ==
    [object_count |-> Len(frame.objects), geometry_count |-> Len(frame.geometries),
     vertex_count |-> Total(VertexCounts), triangle_count |-> Total(TriangleCounts),
     material_count |-> Len(frame.materials), closure_count |-> Total(ClosureCounts),
     instance_count |-> Len(frame.instances), punctual_light_count |-> Len(frame.punctual),
     mesh_area_light_count |-> Len(frame.areas), environment_count |-> Len(Environment),
     texture_count |-> Len(frame.textures), image_texture_count |-> Len(frame.images),
     image_mip_count |-> Total(MipCounts), image_texel_count |-> Total(TexelCounts)]

(* Columns one after the other, each aligned; an empty one is nowhere. [The
   cursor is aligned again before each column, so it has moved by aligned
   sizes.] *)
Placed(n, size) ==
    LET cursor[c \in 0 .. Cardinality(Columns)] ==
            IF c = 0 THEN align_up(header_size)
            ELSE cursor[c - 1] + align_up(n[c - 1] * size[c - 1])
    IN  [c \in Columns |->
            [offset |-> IF n[c] = 0 THEN 0 ELSE cursor[c], count |-> n[c], size |-> size[c]]]

(* Where the last column ends. *)
Extent(layout) ==
    LET used == {c \in Columns : layout[c].count # 0}
    IN  IF used = {} THEN align_up(header_size)
        ELSE LET c == Max(used) IN layout[c].offset + layout[c].count * layout[c].size

prepare_layout ==
    LET header == counts
    IN  Placed([c \in Columns |-> scene_soa_column_count(header, c)],
               [c \in Columns |-> scene_soa_column_element_size(c)])

(* Where the visitors emit as many elements as the table expects, the bytes
   from the descriptor's offset on are those elements. *)
append_columns(layout, columns) ==
    \A c \in Columns : c \in DOMAIN columns /\ Len(columns[c]) = layout[c].count

------------------------------------------------------
Init == frame \in Frames /\ soa = None /\ status = "none"

(* The budget is the bytes the caller allows beyond what the scene needs. *)
serialize_scene(spare) ==
    LET layout  == prepare_layout
        columns == emitted
    IN  [status |-> IF spare < 0 THEN "resource_exhausted"
                   ELSE IF ~append_columns(layout, columns) THEN "internal_error"
                   ELSE "serialized",
         header |-> counts @@ [columns |-> layout, total_size |-> Extent(layout)],
         memory |-> [c \in Columns |-> [size |-> layout[c].size, values |-> columns[c]]]]

upload(spare) ==
    /\ soa = None
    /\ LET serialized == serialize_scene(spare)
       IN  \/ /\ serialized.status = "serialized"
              /\ \/ status' = "uploaded" /\ soa' = serialized
                 \/ status' = "unavailable" /\ UNCHANGED soa  \* Allocation or copy fails.
           \/ /\ serialized.status # "serialized"
              /\ status' = serialized.status /\ UNCHANGED soa
    /\ UNCHANGED frame

close ==
    /\ soa # None
    /\ \/ status' = "closed" /\ soa' = None
       \/ status' = "unavailable" /\ UNCHANGED soa
    /\ UNCHANGED frame

Next == (\E spare \in {-1, 0} : upload(spare)) \/ close

Spec == Init /\ [][Next]_vars
=============================================================================
