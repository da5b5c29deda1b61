---------------------------- MODULE MCSceneInputs ----------------------------
(* What a scene is made of, side by side: the images the host cache decodes,
   the records the two creates compile, the document a description is saved
   in, the columns a frame scene is uploaded as, and the mesh files. They
   share no state; part says which one a behaviour is about, and the others
   stay in an initial state.

   Images: three paths; one content that can be converted and one that is
   larger and has no color, under a budget that a source and two conversions
   of the small file, or a large source and one of them, fill.

   Records: five families, the hierarchy, the identifiers, the textures and
   their bindings, the spectral data and the render setup. Each varies its
   part of one scene that holds together.

   Documents: six descriptions; each limit of the writer or of the reader is
   in turn exactly what the description needs or one less, the others being
   generous; under generous limits somebody may edit the document once.

   Uploads: frame scenes with one geometry or two, materials with and without
   spectra, closures and maps, images of one level or two, every punctual
   light, an area light, and scenes without some or all of these.

   Meshes: an OBJ file and two PLY files, the same after one edit of a line
   or a token, and three texts another program puts there meanwhile. The
   limits are the lines of the longest file, and what the OBJ file would take
   with one vertex more. *)
EXTENDS HostImageCache, SceneCompilation

MCContents == {[bytes |-> 1, color |-> TRUE], [bytes |-> 2, color |-> FALSE]}

Symmetry == Permutations(Paths)

Record(id) == [id |-> id, valid |-> TRUE]
Film(id, status) == [id |-> id, status |-> status]
Shot(id, film, valid) == [id |-> id, film |-> film, valid |-> valid]
Options(id, film, status) == [id |-> id, film |-> film, status |-> status]
Texture(id, channels) == [id |-> id, channels |-> channels]
Geometry(id, mesh) == [id |-> id, mesh |-> mesh]
Spectrum(w, closure, emits) ==
    [wavelengths |-> w, closure_valid |-> closure, emission |-> emits,
     normal_map |-> None, bump_map |-> None]
Material(id, spectral) == [id |-> id, spectral |-> spectral]
Instance(id, parent, local) ==
    [id |-> id, object |-> 1, geometry |-> 1, material |-> 1, parent |-> parent, local |-> local]
Light(id, kind, w, valid) == [id |-> id, kind |-> kind, wavelengths |-> w, valid |-> valid]

Dark == Material(1, Spectrum(1, TRUE, "black"))
Glowing == Material(1, Spectrum(1, TRUE, "lit"))

Scene ==
    [active |-> [film |-> 1, camera |-> 1, render_options |-> 1],
     films |-> <<Film(1, "ok")>>, cameras |-> <<Shot(1, 1, TRUE)>>,
     render_options |-> <<Options(1, 1, "ok")>>,
     constant_textures |-> << >>, host_image_textures |-> << >>,
     objects |-> <<Record(1)>>, geometries |-> <<Geometry(1, "mesh")>>,
     materials |-> <<Glowing>>, instances |-> <<Instance(1, None, "near")>>,
     lights |-> <<Light(1, "environment", 1, TRUE)>>]

Locals == {"near", "far", "huge"}

(* Three instances in three orders, every parent relation, one missing id. *)
Hierarchies ==
    {[Scene EXCEPT !.instances =
        [k \in 1 .. 3 |-> Instance(order[k], parents[order[k]], locals[order[k]])]] :
      order \in {<<1, 2, 3>>, <<3, 1, 2>>, <<2, 3, 1>>},
      parents \in [1 .. 3 -> {None, 1, 2, 3, 4}],
      locals \in [1 .. 3 -> {"near", "huge"}]}
    \cup {[Scene EXCEPT !.instances = <<Instance(1, None, l), Instance(2, 1, m)>>] :
           l \in Locals \cup {"singular"}, m \in Locals \cup {"singular"}}

UpTo2(S) == UNION {[1 .. n -> S] : n \in 0 .. 2}

(* Registries with identifiers in any order, twice, or missing. *)
Identifiers ==
    {[Scene EXCEPT !.objects = [k \in DOMAIN o |-> Record(o[k])],
                   !.geometries = [k \in DOMAIN g |-> Geometry(g[k], mesh)],
                   !.materials = [k \in DOMAIN m |-> Material(m[k], Spectrum(1, TRUE, "black"))],
                   !.instances = [k \in DOMAIN i |-> Instance(i[k], None, "near")]] :
      o \in UpTo2(1 .. 2), g \in UpTo2(1 .. 2), m \in UpTo2(1 .. 2),
      i \in {<<1>>, <<2, 1>>, <<1, 1>>}, mesh \in {None, "mesh"}}

Binding(normal, r, channels, ok) ==
    IF normal THEN [texture |-> r, channels |-> channels, valid |-> ok]
              ELSE [texture |-> r, channel |-> channels[1], valid |-> ok]

(* Constant and image textures that may share an identifier, and bindings
   of maps to them. *)
Textures ==
    {[Scene EXCEPT !.constant_textures = [k \in DOMAIN c |-> [id |-> c[k], valid |-> ok]],
                   !.host_image_textures = [k \in DOMAIN h |-> Texture(h[k], channels)]] :
      c \in UpTo2(1 .. 4), h \in UpTo2(1 .. 4), ok \in BOOLEAN, channels \in {0, 1, 3}}
    \cup
    {[Scene EXCEPT !.host_image_textures = <<Texture(2, channels), Texture(1, 1)>>,
                   !.materials = <<Material(1,
                       [Spectrum(1, TRUE, "black") EXCEPT
                          !.normal_map = IF normal THEN Binding(TRUE, r, abc, ok) ELSE None,
                          !.bump_map = IF bump THEN Binding(FALSE, r, abc, ok) ELSE None])>>] :
      channels \in {1, 3}, r \in 1 .. 3, abc \in {<<0, 1, 2>>, <<2, 1, 1>>, <<1, 2, 3>>},
      ok \in BOOLEAN, normal \in BOOLEAN, bump \in BOOLEAN}

(* Lights, wavelengths, closures and emission; a mesh no light can be. *)
Spectra ==
    {[Scene EXCEPT !.lights = lights, !.materials = <<material>>,
                   !.geometries = <<Geometry(1, mesh)>>] :
      lights \in UpTo2({Light(1, "environment", 1, TRUE), Light(2, "environment", 2, TRUE),
                        Light(3, "environment", 1, FALSE), Light(4, "point", 0, TRUE),
                        Light(5, "spot", 0, FALSE)}),
      material \in {Material(1, None), Dark, Glowing, Material(1, Spectrum(2, TRUE, "lit")),
                    Material(1, Spectrum(1, FALSE, "black")),
                    Material(1, Spectrum(1, TRUE, "invalid"))},
      mesh \in {"mesh", "degenerate"}}

(* Films, cameras and options, some invalid or over a limit, and the three
   that are active. *)
Setups ==
    {[Scene EXCEPT !.active = [film |-> f, camera |-> c, render_options |-> o],
                   !.films = films, !.cameras = <<Shot(2, f2, ok), Shot(1, f1, TRUE)>>,
                   !.render_options = <<Options(1, f1, "ok"), Options(c2, 1, said)>>] :
      f \in 1 .. 2, c \in 1 .. 3, o \in 1 .. 3, f1 \in 1 .. 2, f2 \in 1 .. 3, c2 \in 1 .. 2,
      ok \in BOOLEAN, said \in RecordStatus,
      films \in {<<Film(2, "ok"), Film(1, "ok")>>, <<Film(1, "ok")>>, <<Film(1, "ok"), Film(1, "ok")>>,
                <<Film(1, "ok"), Film(2, "invalid_argument")>>,
                <<Film(2, "invalid_argument"), Film(1, "resource_exhausted")>>}}

MCInputs == Hierarchies \cup Identifiers \cup Textures \cup Spectra \cup Setups

Mesh(id, vertices, triangles) == [id |-> id, vertices |-> vertices, triangles |-> triangles]
Surface(id, closures, normal, bump) ==
    [id |-> id, spectral |-> [closures |-> closures, normal_map |-> normal, bump_map |-> bump]]
Placement(id, parent, geometry, material) ==
    [id |-> id, parent |-> parent, object |-> 4, geometry |-> geometry, material |-> material]
Picture(id, channels, levels) == [id |-> id, channels |-> channels, data |-> TRUE, levels |-> levels]

Plain == [objects |-> <<Record(4)>>, geometries |-> <<Mesh(1, 3, <<<<0, 1, 2>>>>)>>,
          materials |-> <<Material(2, None), Material(5, None)>>,
          instances |-> <<Placement(8, None, 1, 5)>>, punctual |-> << >>, areas |-> << >>,
          environment |-> None, textures |-> << >>, images |-> << >>]

LitFrames ==
    LET meshes   == <<Mesh(1, 3, <<<<0, 1, 2>>>>), Mesh(3, 4, <<<<0, 1, 2>>, <<3, 2, 1>>>>)>>
        normal   == [texture |-> 7, channels |-> <<2, 0, 1>>]
        pictures == <<Picture(6, 1, <<<<1, 1>>>>), Picture(7, 3, <<<<3, 2>>, <<1, 1>>>>)>>
    IN  {[Plain EXCEPT
            !.geometries = IF two THEN meshes ELSE << meshes[1] >>,
            !.materials = <<Surface(2, 1, None, None), Surface(5, closures, normal, bump)>>,
            !.instances = <<Placement(8, None, 1, 5), Placement(11, 8, IF two THEN 3 ELSE 1, 2)>>,
            !.punctual = lights, !.areas = IF two THEN <<8, 11>> ELSE <<11>>, !.environment = "day",
            !.textures = <<[id |-> 9, kind |-> IF two THEN "spectrum" ELSE "color"]>>, !.images = pictures] :
          two \in BOOLEAN, closures \in {0, 2}, bump \in {None, [texture |-> 6, channels |-> <<0>>]},
          lights \in {<< >>, <<"spot", "point", "directional">>}}

MCFrames == {Plain, [Plain EXCEPT !.geometries = << >>, !.instances = << >>]} \cup LitFrames

Samples == INSTANCE SceneInputSamples

MCSizeOf ==
    [films |-> 5, cameras |-> 9, render_options |-> 8, constant_textures |-> 4,
     host_image_textures |-> 2, objects |-> 1, geometries |-> 2, materials |-> 20,
     instances |-> 7, lights |-> 6, position |-> 3, normal |-> 3, texture_coordinate |-> 2,
     triangle |-> 3, scalar |-> 4, string |-> 8]

MCForeign == {"unknown", "roughness", "first_eligible_depth", "position"}

Generous == [records |-> 99, vertices |-> 99, triangles |-> 99, scalars |-> 99,
             bytes |-> 9999, values |-> 9999, strings |-> 9999, nesting |-> 99]

VARIABLES
    part, asked, node, files, step, size, stream, contents, held, mesh,
    case, phase, document, edited, result, frame, soa, status

file_form == <<case, phase, document, edited, result>>

device == <<frame, soa, status>>

mesh_file == <<asked, node, files, step, size, stream, contents, held, mesh>>

Documents ==
    INSTANCE SceneDescriptionJson
        WITH Descriptions <- Samples!Samples, SizeOf <- MCSizeOf, Foreign <- MCForeign,
             MaximumU32 <- 65, MaximumClosureCount <- 8

Uploads == INSTANCE CudaSceneReads WITH Frames <- MCFrames, MaximumUniformLightCount <- 16,
                                        Packets <- {"day", "night"}

Meshes == INSTANCE TriangleMeshImport
              WITH Requests <- Samples!Calls, Rewritten <- Samples!Originals,
                   MaximumMeshFileLines <- 24,
                   MaximumMeshStorageBytes <- 1084, MaxTexts <- 3,
                   Absent <- 0, Directory <- -1

NoMesh == /\ asked = Samples!Call /\ node = 0 /\ files = << >> /\ step = "called" /\ size = 0
          /\ stream = 0 /\ contents = << >> /\ held = {} /\ mesh = << >>

NoRecords ==
    /\ input = Scene /\ call = "description" /\ pc = "create" /\ scene = Scene /\ states = << >>
    /\ world = << >> /\ chain = << >> /\ current = 0 /\ start = 0 /\ derived = << >>
    /\ answers = [c \in Call |-> None]

NoFile == /\ case = None /\ phase = "described" /\ document = Documents!NoDocument
          /\ edited = "not" /\ result = Documents!Refused

NoUpload == frame = Plain /\ soa = None /\ status = "none"

SideBySideInit ==
    /\ Init
    /\ \/ part = "images" /\ NoRecords /\ NoFile /\ NoUpload /\ NoMesh
       \/ part = "records" /\ CompilationInit /\ NoFile /\ NoUpload /\ NoMesh
       \/ part = "documents" /\ NoRecords /\ Documents!Init /\ NoUpload /\ NoMesh
       \/ part = "meshes" /\ NoRecords /\ NoFile /\ NoUpload /\ Meshes!MeshInit
       \/ part = "uploads" /\ NoRecords /\ NoFile /\ Uploads!Init /\ NoMesh

Images   == part = "images" /\ UNCHANGED <<part, compilation, file_form, device, mesh_file>>
Compiled  == part = "records" /\ UNCHANGED <<part, vars, file_form, device, mesh_file>>
Saved    == part = "documents" /\ UNCHANGED <<part, vars, compilation, device, mesh_file>>
Uploaded == part = "uploads" /\ UNCHANGED <<part, vars, compilation, file_form, mesh_file>>
Imported == part = "meshes" /\ UNCHANGED <<part, vars, compilation, file_form, device>>

SideBySideNext ==
    \/ Images /\ (\E p \in Paths, tag \in TextureColorSpace : begin_load(p, tag))
    \/ Images /\ canonicalize
    \/ Images /\ lookup
    \/ Images /\ decode
    \/ Images /\ convert_and_insert
    \/ Images /\ (\E p \in Paths : write_file(p))
    \/ Images /\ (\E p \in Paths : remove_file(p))
    \/ Images /\ (\E p \in Paths : link_file(p))
    \/ Compiled /\ create
    \/ Compiled /\ validate
    \/ Compiled /\ local_transforms
    \/ Compiled /\ next_start
    \/ Compiled /\ climb
    \/ Compiled /\ unwind
    \/ Compiled /\ chain_unwound
    \/ Compiled /\ describe
    \/ Compiled /\ derive_mesh_area_lights
    \/ Compiled /\ exhaust_memory
    \/ Compiled /\ pc = "done" /\ UNCHANGED compilation  \* Both creates have returned.
    \/ Saved /\ Documents!serialize
    \/ Saved /\ Documents!edit
    \/ Saved /\ Documents!deserialize
    \/ Saved /\ phase \in {"refused", "read"} /\ UNCHANGED file_form  \* Both calls have returned.
    \/ Uploaded /\ (\E spare \in {-1, 0} : Uploads!upload(spare))
    \/ Uploaded /\ Uploads!close
    \/ Imported /\ Meshes!inspect_status
    \/ Imported /\ Meshes!inspect_size
    \/ Imported /\ Meshes!open
    \/ Imported /\ Meshes!read
    \/ Imported /\ Meshes!peek
    \/ Imported /\ Meshes!load_triangle_mesh
    \/ Imported /\ Meshes!exhaust_memory
    \/ Imported /\ (\E text \in Samples!Originals : Meshes!replace_file(text))
    \/ Imported /\ (\E line \in Samples!Additions : Meshes!append_line(line))
    \/ Imported /\ Meshes!remove_mesh
    \/ Imported /\ Meshes!returned

SideBySide == SideBySideInit /\ [][SideBySideNext]_<<part, vars, compilation, file_form, device, mesh_file>>

(* A document nobody touched reads back to the very description that was
   written, and it is read under some limits exactly if it could have been
   written under them; one that lacks a member, has one twice, one of
   another type or one that belongs elsewhere is refused, at whatever depth
   of the scene (SceneDescriptionJson). *)
DocumentsKept == Documents!RoundTrips /\ Documents!ClosedDocuments

(* Every scene can be flattened within its budget, both kernels accept what
   was uploaded, and whatever a stage loads of an instance's triangle, a
   material, a light, the environment or a map is the record of the frame
   scene the hit or the light names. *)
DeviceReadsScene == Uploads!DeviceReadsScene

(* A mesh file is parsed as it was at one moment of the call, accepted
   exactly if it is complete and within the limits, and each corner of each
   triangle carries the attributes the text names (TriangleMeshImport). *)
MeshSaysFile == Meshes!MeshSaysFile
===============================================================================
