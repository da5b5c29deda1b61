-------------------------- MODULE SceneInputSamples --------------------------
(* What the scene inputs are read from, for TLC.

   Scene descriptions for the model of their JSON form: between them every
   kind of record, every alternative and every optional part occurs. Numbers
   that are floats in the program are in tenths. *)
EXTENDS Integers, Sequences, SequencesExt, TLC

CONSTANT None

LOCAL Axis(x, y, z) == <<10 * x, 10 * y, 10 * z>>
LOCAL Spectrum == <<10, 5, 0, 25>>
LOCAL Identity == <<10, 0, 0, 0, 0, 10, 0, 0, 0, 0, 10, 0, 0, 0, 0, 10>>
LOCAL Wavelengths == [nanometers |-> <<4500, 5205, 5800, 6500>>, pdf |-> <<1, 1, 1, 1>>]

Film(id, accumulation) ==
    [id |-> id, extent |-> <<4, 2>>, crop |-> <<0, 0, 4, 2>>, accumulation |-> accumulation]

Camera(id, film) ==
    [id |-> id, film |-> film,
     model |-> [type |-> "pinhole", origin |-> <<-15, 0, 20>>, normal |-> Axis(0, 0, 1),
                tangent |-> Axis(1, 0, 0), bitangent |-> Axis(0, 1, 0),
                vertical_fov_radians |-> 8, t_min |-> 0, t_max |-> 1000,
                visibility_mask |-> 15, current_medium |-> 0]]

Enabled == [mode |-> "enabled", first_eligible_depth |-> 3,
            minimum_survival_probability |-> 1, maximum_survival_probability |-> 9]

Options(id, film, seed, roulette) ==
    [id |-> id, film |-> film, samples_per_pixel |-> 4, maximum_path_depth |-> 8,
     tile_edge_length |-> 2, seed |-> seed, pixel_jitter |-> "uniform", mis_heuristic |-> "power",
     light_sampling_strategy |-> "spatial_tree",
     depth_limits |-> [diffuse |-> 1, glossy |-> 2, specular |-> 3, transmission |-> 4, volume |-> 0],
     russian_roulette |-> roulette]

Plain ==
    [active |-> [film |-> 1, camera |-> 1, render_options |-> 1],
     films |-> <<Film(1, "float32")>>, cameras |-> <<Camera(1, 1)>>,
     render_options |-> <<Options(1, 1, 7, [mode |-> "disabled"])>>,
     constant_textures |-> << >>, host_image_textures |-> << >>, objects |-> << >>,
     geometries |-> << >>, materials |-> << >>, instances |-> << >>, lights |-> << >>]

(* Two of each, roulette, and a seed wider than the other integers. *)
Setup == [Plain EXCEPT !.films = <<Film(1, "float64"), Film(2, "float32")>>,
                       !.cameras = <<Camera(1, 1), Camera(3, 2)>>,
                       !.render_options = <<Options(1, 1, 99, Enabled)>>]

Image(id, extent, names, texels) ==
    [id |-> id,
     image |-> [source_path |-> "a/b.exr", format_name |-> "exr",
                source_color_space |-> "data", storage_color_space |-> "data",
                origin |-> <<-1, 2>>, extent |-> extent, channel_names |-> names,
                pixels |-> texels]]

(* Constants of every type, an image with further levels and one without. *)
Textures ==
    [Plain EXCEPT
       !.constant_textures = <<[id |-> 1, type |-> "float", value |-> 5],
                               [id |-> 2, type |-> "color", value |-> <<10, 0, 5>>],
                               [id |-> 3, type |-> "spectrum", value |-> Spectrum]>>,
       !.host_image_textures = <<Image(4, <<5, 2>>, <<"Y", "depth">>, [i \in 1 .. 20 |-> i]),
                                 Image(5, <<1, 1>>, <<"Y">>, <<3>>)>>]

Mesh == [positions |-> <<Axis(0, 0, 0), Axis(1, 0, 0), <<0, 15, 0>>, Axis(1, 1, 0)>>,
         normals |-> [i \in 1 .. 4 |-> Axis(0, 0, 1)],
         texture_coordinates |-> <<<<0, 0>>, <<10, 0>>, <<0, 10>>, <<5, 5>>>>,
         triangles |-> <<<<0, 1, 2>>, <<2, 1, 3>>>>]

(* A parent with a child, materials that have no spectral data. *)
Objects ==
    [Plain EXCEPT
       !.objects = <<[id |-> 1]>>, !.geometries = <<[id |-> 1, mesh |-> Mesh]>>,
       !.materials = <<[id |-> 1, spectral |-> None]>>,
       !.instances = [i \in 1 .. 2 |->
           [id |-> i, parent |-> IF i = 1 THEN None ELSE 1, object |-> 1, geometry |-> 1,
            material |-> 1, local_to_parent |-> Identity, visibility_mask |-> 1]]]

LOCAL Part(type, parameters) ==
    [probability |-> 5, type |-> type, weight |-> Spectrum] @@ parameters

LOCAL Ewa == [maximum_anisotropy |-> 8, maximum_texel_visits |-> 64]

LOCAL Surface(components, normal_map, bump_map) ==
    [wavelengths |-> Wavelengths,
     closures |-> [frame_mode |-> "surface_tangent", tangent_rotation_radians |-> 5,
                   components |-> components],
     emission |-> Spectrum, normal_map |-> normal_map, bump_map |-> bump_map]

(* Every closure, with both maps and with none. *)
Materials ==
    [Plain EXCEPT
       !.host_image_textures = <<Image(4, <<1, 1>>, <<"R", "G", "B">>, <<1, 2, 3>>)>>,
       !.materials =
         <<[id |-> 1, spectral |-> Surface(
               <<Part("lambertian_reflection", << >>),
                 Part("rough_diffuse_reflection", [roughness |-> 3]),
                 Part("rough_conductor_reflection",
                      [eta |-> Spectrum, k |-> Spectrum, alpha_x |-> 2, alpha_y |-> 3])>>,
               [texture |-> 4, red_channel |-> 0, green_channel |-> 1, blue_channel |-> 2,
                y_convention |-> "negative_v", u_wrap |-> "repeat", v_wrap |-> "mirror",
                ewa |-> Ewa],
               [texture |-> 4, channel |-> 1, scale |-> -15, u_wrap |-> "clamp",
                v_wrap |-> "black", ewa |-> Ewa])],
           [id |-> 2, spectral |-> Surface(
               <<Part("rough_dielectric",
                      [exterior_eta |-> 10, interior_eta |-> 15, alpha_x |-> 1, alpha_y |-> 2]),
                 Part("specular_reflection", << >>),
                 Part("specular_transmission", [exterior_eta |-> 10, interior_eta |-> 13])>>,
               None, None)]>>]

(* One light of each kind. *)
Lights ==
    [Plain EXCEPT !.lights =
       <<[id |-> 1, type |-> "point", position |-> Axis(1, 2, 3),
          absolute_position_error |-> <<0, 0, 1>>, spectral_radiant_intensity |-> Spectrum],
         [id |-> 2, type |-> "directional", propagation_direction |-> Axis(0, -1, 0),
          spectral_irradiance |-> Spectrum],
         [id |-> 3, type |-> "spot", position |-> Axis(0, 1, 0),
          absolute_position_error |-> <<0, 1, 0>>, emission_direction |-> Axis(0, 0, 1),
          inner_half_angle_radians |-> 2, outer_half_angle_radians |-> 4,
          on_axis_spectral_radiant_intensity |-> Spectrum],
         [id |-> 4, type |-> "environment", wavelengths |-> Wavelengths, radiance |-> Spectrum]>>]

Samples == {Plain, Setup, Textures, Objects, Materials, Lights}

------------------------------------------------------
(* Texts TriangleMeshImport is asked to load: an OBJ file and two PLY files
   that are complete, and what becomes of each by one edit of a line or of a
   token. *)

Word(w)     == [w |-> w, n |-> << >>]
Number(n)   == [w |-> "", n |-> << n >>]
Fraction(n) == [w |-> "fraction", n |-> << n >>]
Corner(p, t, n) == [w |-> "", n |-> << p, t, n >>]
Short(p, n) == [w |-> "", n |-> << p, n >>]

Line(words) == [k \in DOMAIN words |-> Word(words[k])]
Row(numbers) == [k \in DOMAIN numbers |-> Number(numbers[k])]
Record(w, numbers) == << Word(w) >> \o Row(numbers)

Obj ==
    << Line(<< "#", "mtllib" >>), Line(<< "g" >>),
       Record("v", << 0, 0, 0 >>), Record("v", << 2, 0, 0 >>), Record("v", << 0, 2, 0 >>),
       Record("vt", << 0, 3 >>), Record("vt", << 1, 0 >>), Record("vn", << 0, 0, 1 >>),
       << Word("f"), Corner(1, 1, 1), Corner(2, 1, 1), Corner(3, 2, 1), Word("#"), Word("f") >>,
       Line(<< "usemtl", "wood" >>), << >>,
       Record("v", << 2, 2, 1 >>), << Word("vn"), Number(-1), Number(0), Number(0) >>,
       << Word("f"), Corner(-1, -1, -1), Corner(3, -1, 1), Corner(-3, -2, -2) >> >>

Declared(names, types) ==
    [k \in DOMAIN names |-> Line(<< "property", types[k], names[k] >>)]

PlyText(names, types, indices, rows) ==
    << Line(<< "ply" >>), Line(<< "comment", "property" >>), Line(<< "format", "ascii", "1.0" >>),
       << Word("element"), Word("vertex"), Number(Len(rows)) >> >>
    \o Declared(names, types)
    \o << << >>, << Word("element"), Word("face"), Number(2) >>,
          Line(<< "property", "list", indices[1], indices[2], indices[3] >>),
          Line(<< "end_header" >>) >>
    \o rows
    \o << Row(<< 3, 0, 1, 2 >>), Row(<< 3, 2, 1, 3 >>), << >> >>

Ply ==
    PlyText(<< "x", "y", "z", "nx", "ny", "nz", "u", "v" >>,
            << "float", "float", "float", "float", "float", "float", "float", "float" >>,
            << "uchar", "int", "vertex_indices" >>,
            << Row(<< 0, 0, 0, 0, 0, 1, 0, 0 >>), Row(<< 2, 0, 0, 0, 0, 1, 3, 0 >>),
               Row(<< 0, 2, 0, 0, 0, 1, 0, 3 >>), Row(<< 2, 2, 0, 0, 0, 1, 0, 0 >>) >>)

PlyShuffled ==
    PlyText(<< "t", "nz", "y", "texture_u", "nx", "x", "ny", "z" >>,
            << "uint8", "char", "short", "ushort", "double", "int8", "float32", "int" >>,
            << "char", "uint32", "vertex_index" >>,
            << Row(<< 255, 1, 0, 0, 0, 0, 0, 0 >>), Row(<< 0, 0, 2, 3, 1, 0, 0, 0 >>),
               Row(<< 0, 0, 0, 0, -1, 2, 0, 1 >>), Row(<< 0, 0, 0, 0, -1, 2, 0, 1 >>),
               Row(<< 4, 0, 0, 0, 0, -128, 1, 0 >>) >>)

Texts == {[format |-> "obj", text |-> Obj], [format |-> "ply", text |-> Ply],
          [format |-> "ply", text |-> PlyShuffled]}

Nothing == Word("")

Substitutes ==
    [obj |-> {Nothing, Number(0), Number(1), Number(4), Fraction(7), Corner(1, 1, 1),
              Corner(1, 2, -1), Corner(4, 1, 1), Corner(-4, 1, 1), Corner(2, 0, 1), Short(2, 1),
              Word("v"), Word("vt"), Word("f"), Word("g"), Word("l"), Word("#")},
     ply |-> {Nothing, Number(0), Number(1), Number(2), Number(3), Number(5), Number(-1),
              Number(128), Number(256), Fraction(3), Word("float"), Word("uchar"), Word("list"),
              Word("int16"), Word("x"), Word("nz"), Word("s"), Word("v"), Word("vertex"),
              Word("face"), Word("comment"), Word("end_header"), Word("property"),
              Word("vertex_index")}]

(* Token j of line k is another one, a new last one, or not there. *)
TokenEdit(text, k, j, x) ==
    IF k > Len(text) \/ j > Len(text[k]) + 1 THEN text
    ELSE [text EXCEPT ![k] = IF j = Len(@) + 1 THEN Append(@, x)
                             ELSE IF x = Nothing THEN RemoveAt(@, j) ELSE [@ EXCEPT ![j] = x]]

(* Line k is lost, there twice, the last one or behind the next one. *)
LineEdit(text, k, how) ==
    IF k > Len(text) THEN << >>
    ELSE CASE how = "removed"  -> RemoveAt(text, k)
           [] how = "repeated" -> InsertAt(text, k, text[k])
           [] how = "last"     -> SubSeq(text, 1, k)
           [] how = "swapped" /\ k < Len(text) ->
                [text EXCEPT ![k] = text[k + 1], ![k + 1] = text[k]]
           [] OTHER            -> text

Originals == {Obj, SubSeq(Obj, 1, 11), << >>}

Additions == {Obj[12], Line(<< "l" >>)}

Named(t, text) == [format |-> t.format, well_named |-> TRUE, text |-> text]

Call == [format |-> "obj", well_named |-> FALSE, text |-> Obj]

Calls ==
    {Call} \cup {Named(t, LineEdit(t.text, k, how)) :
                  t \in Texts, k \in 1 .. 22, how \in {"removed", "repeated", "last", "swapped"}}
           \cup UNION {{Named(t, TokenEdit(t.text, k, j, x)) :
                          k \in 1 .. 22, j \in 1 .. 10, x \in Substitutes[t.format]} : t \in Texts}
==============================================================================
