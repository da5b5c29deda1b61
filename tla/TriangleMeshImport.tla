-------------------------- MODULE TriangleMeshImport --------------------------
(* Engine/Source/TriangleMeshImport.cpp and TriangleMesh.cpp: one load of an
   OBJ or a PLY file. The size, the bytes and the end of the file are asked
   for one after the other, while another program may replace the file or
   append to it; then the text is parsed, and the vertices its corners share
   are aligned.

   A text is a sequence of lines and a line one of tokens: a token has a word
   and the numbers in it, one for a scalar (whose word is "fraction" if it is
   no integer) and three for a complete corner. A file's size is its lines.
   Positions, normals and texture coordinates are tuples of integers, indices
   start at one, and a refused text is the empty sequence. The limits of the
   32-bit index domain are out of reach of the texts. *)
EXTENDS Integers, FiniteSets, FiniteSetsExt, SequencesExt

CONSTANTS
    Requests,       \* [format, well_named, text]: a call, and what is at its path
    Rewritten,      \* the texts whose files another program changes meanwhile
    MaximumMeshFileLines,
    MaximumMeshStorageBytes,
    MaxTexts,       \* bounds the files, and the texts the path leads to
    Absent, Directory

VARIABLES
    asked,      \* the call
    node,       \* what the path leads to: a file, or Absent or Directory
    files,      \* the texts of all files there have been
    step,       \* where the call is
    size, stream, contents,
    held,       \* the texts the path has led to during the call
    mesh        \* the one returned

meshVars == <<asked, node, files, step, size, stream, contents, held, mesh>>

Refused == << >>

IsScalar(token)  == Len(token.n) = 1
IsInteger(token) == IsScalar(token) /\ token.w = ""
scalar(token)    == token.n[1]
scalars(fields)  == [k \in DOMAIN fields |-> scalar(fields[k])]

(* The first maximum_tokens of a line, without a comment. *)
tokens(line, obj_comments, maximum_tokens) ==
    LET comments == {k \in DOMAIN line : obj_comments /\ line[k].w = "#"}
        end      == IF comments = {} THEN Len(line) ELSE Min(comments) - 1
    IN  SubSeq(line, 1, Min({end, maximum_tokens}))

------------------------------------------------------
(* TriangleMesh: aligned vertices and triangles of their indices. *)

unit_normal(n) == n[1] * n[1] + n[2] * n[2] + n[3] * n[3] = 1

Cross(a, b) == << a[2] * b[3] - a[3] * b[2], a[3] * b[1] - a[1] * b[3], a[1] * b[2] - a[2] * b[1] >>
Minus(a, b) == [k \in 1 .. 3 |-> a[k] - b[k]]

Triangle(p, q, r) == Cross(Minus(q, p), Minus(r, p)) # << 0, 0, 0 >>

create(vertices, triangles) ==
    IF /\ vertices # << >> /\ triangles # << >>
       /\ \A k \in DOMAIN vertices : unit_normal(vertices[k].normal)
       /\ \A t \in DOMAIN triangles :
            /\ \A c \in 1 .. 3 : triangles[t][c] \in DOMAIN vertices
            /\ Triangle(vertices[triangles[t][1]].position, vertices[triangles[t][2]].position,
                        vertices[triangles[t][3]].position)
    THEN << [vertices |-> vertices, triangles |-> triangles] >>
    ELSE Refused

(* The index of a key in the map, which is the order it was first met in. *)
aligned_index(keys, key) == CHOOSE k \in DOMAIN keys : keys[k] = key

with_key(keys, key) == IF Contains(keys, key) THEN keys ELSE Append(keys, key)

(* The vertices of equal bits once, in the order the triangles meet them. *)
compacted(m) ==
    LET corners == FlattenSeq([t \in DOMAIN m.triangles |->
                       [c \in 1 .. 3 |-> m.vertices[m.triangles[t][c]]]])
        kept    == FoldLeft(with_key, << >>, corners)
    IN  create(kept, [t \in DOMAIN m.triangles |->
                        [c \in 1 .. 3 |-> aligned_index(kept, m.vertices[m.triangles[t][c]])]])

------------------------------------------------------
(* OBJ *)

resolve_obj_index(i, count) ==
    LET resolved == IF i > 0 THEN i ELSE count + i + 1
    IN  IF i # 0 /\ resolved \in 1 .. count THEN resolved ELSE 0

(* What is left of a budget after each of some entries, or a negative number. *)
consume_storage_budget(remaining, entry) ==
    IF remaining < 0 \/ entry.count > remaining \div entry.bytes
    THEN -1
    ELSE remaining - entry.count * entry.bytes

ObjAttributes == [v |-> 3, vn |-> 3, vt |-> 2]

make_obj_storage_plan(text) ==
    LET records(w) ==
            Cardinality({k \in DOMAIN text :
                           LET fields == tokens(text[k], TRUE, 1)
                           IN  fields # << >> /\ fields[1].w = w})
        entry(count, bytes) == [count |-> count, bytes |-> bytes]
        aligned == 3 * records("f")
    IN  FoldLeft(consume_storage_budget, MaximumMeshStorageBytes,
                 << entry(records("v"), 12), entry(records("vn"), 12), entry(records("vt"), 8),
                    entry(aligned, 12), entry(aligned, 12), entry(aligned, 8),
                    entry(records("f"), 12), entry(aligned, 128) >>) >= 0

(* The position, the texture coordinate and the normal of a v/vt/vn corner. *)
parse_obj_corner(token, s) ==
    LET key == << resolve_obj_index(token.n[1], Len(s.v)),
                  resolve_obj_index(token.n[2], Len(s.vt)),
                  resolve_obj_index(token.n[3], Len(s.vn)) >>
    IN  IF Len(token.n) # 3 \/ \E k \in 1 .. 3 : key[k] = 0 THEN Refused ELSE key

obj_refused(s) == [s EXCEPT !.ok = FALSE]

align_corner(s, token) ==
    LET key  == parse_obj_corner(token, s)
        keys == with_key(s.keys, key)
    IN  IF ~s.ok \/ key = Refused THEN obj_refused(s)
        ELSE [s EXCEPT
                !.keys = keys,
                !.vertices = IF keys = s.keys THEN @
                             ELSE Append(@, [position           |-> s.v[key[1]],
                                             texture_coordinate |-> s.vt[key[2]],
                                             normal             |-> s.vn[key[3]]]),
                !.triangle = Append(@, aligned_index(keys, key))]

obj_attribute(s, record, fields) ==
    IF /\ Len(fields) = ObjAttributes[record]
       /\ \A k \in DOMAIN fields : IsScalar(fields[k])
       /\ record = "vn" => unit_normal(scalars(fields))
    THEN [s EXCEPT ![record] = Append(@, scalars(fields))]
    ELSE obj_refused(s)

obj_face(s, fields) ==
    LET aligned == FoldLeft(align_corner, [s EXCEPT !.triangle = << >>], fields)
    IN  IF Len(fields) # 3 \/ ~aligned.ok THEN obj_refused(s)
        ELSE [aligned EXCEPT !.triangles = Append(@, aligned.triangle)]

parse_obj_line(s, line) ==
    LET fields == tokens(line, TRUE, 5)
        record == fields[1].w
    IN  IF ~s.ok \/ fields = << >> THEN s
        ELSE CASE record \in DOMAIN ObjAttributes -> obj_attribute(s, record, Tail(fields))
               [] record = "f"                    -> obj_face(s, Tail(fields))
               [] record = "g"                    -> [s EXCEPT !.ok = Len(fields) <= 2]
               [] record \in {"o", "s", "usemtl", "mtllib"} -> [s EXCEPT !.ok = Len(fields) = 2]
               [] OTHER                           -> obj_refused(s)

parse_obj_triangle_mesh(text) ==
    LET s == FoldLeft(parse_obj_line,
                      [ok |-> make_obj_storage_plan(text), v |-> << >>, vn |-> << >>, vt |-> << >>,
                       keys |-> << >>, vertices |-> << >>, triangle |-> << >>, triangles |-> << >>],
                      text)
    IN  IF s.ok THEN create(s.vertices, s.triangles) ELSE Refused

------------------------------------------------------
(* PLY *)

ply_scalar_type ==
    [char  |-> "int8",  int8  |-> "int8",  uchar  |-> "uint8",  uint8  |-> "uint8",
     short |-> "int16", int16 |-> "int16", ushort |-> "uint16", uint16 |-> "uint16",
     int   |-> "int32", int32 |-> "int32", uint   |-> "uint32", uint32 |-> "uint32",
     float |-> "float32", float32 |-> "float32", double |-> "float64", float64 |-> "float64"]

(* The integers of a type, as far as texts have them. *)
LargestToken == 99999
ply_integers ==
    [int8 |-> -128 .. 127, uint8 |-> 0 .. 255, int16 |-> -32768 .. 32767, uint16 |-> 0 .. 65535,
     int32 |-> -LargestToken .. LargestToken, uint32 |-> 0 .. LargestToken]

ply_vertex_semantic ==
    [x |-> "x", y |-> "y", z |-> "z", nx |-> "nx", ny |-> "ny", nz |-> "nz",
     u |-> "u", s |-> "u", texture_u |-> "u", v |-> "v", t |-> "v", texture_v |-> "v"]

Semantics == {"x", "y", "z", "nx", "ny", "nz", "u", "v"}

ply_integer(token, type) == IsInteger(token) /\ scalar(token) \in ply_integers[type]

parse_non_negative_ply_integer(token, type) == ply_integer(token, type) /\ scalar(token) >= 0

parse_ply_transport_scalar(token, type) ==
    IF type \in DOMAIN ply_integers THEN ply_integer(token, type) ELSE IsScalar(token)

Words(fields) == [k \in DOMAIN fields |-> fields[k].w]

ply_refused(h) == [h EXCEPT !.ok = FALSE]

ply_format(h, fields) ==
    [h EXCEPT !.ok = ~h.format_seen /\ Words(fields) = << "format", "ascii", "1.0" >>,
              !.format_seen = TRUE]

ply_element(h, fields) ==
    IF ~(h.format_seen /\ Len(fields) = 3 /\ IsInteger(fields[3]) /\ scalar(fields[3]) >= 0)
    THEN ply_refused(h)
    ELSE CASE fields[2].w = "vertex" /\ h.element = "none" ->
                [h EXCEPT !.element = "vertex", !.vertex_count = scalar(fields[3])]
           [] fields[2].w = "face" /\ h.element = "vertex" ->
                [h EXCEPT !.element = "face", !.face_count = scalar(fields[3])]
           [] OTHER -> ply_refused(h)

ply_vertex_property(h, fields) ==
    IF /\ Len(fields) = 3
       /\ fields[2].w \in DOMAIN ply_scalar_type /\ fields[3].w \in DOMAIN ply_vertex_semantic
       /\ \A k \in DOMAIN h.properties :
            h.properties[k].semantic # ply_vertex_semantic[fields[3].w]
    THEN [h EXCEPT !.properties = Append(@, [semantic |-> ply_vertex_semantic[fields[3].w],
                                             type     |-> ply_scalar_type[fields[2].w]])]
    ELSE ply_refused(h)

ply_face_property(h, fields) ==
    IF /\ Len(fields) = 5 /\ fields[2].w = "list"
       /\ fields[5].w \in {"vertex_indices", "vertex_index"}
       /\ h.face_types = << >>
       /\ \A k \in {3, 4} : /\ fields[k].w \in DOMAIN ply_scalar_type
                            /\ ply_scalar_type[fields[k].w] \in DOMAIN ply_integers
    THEN [h EXCEPT !.face_types = << ply_scalar_type[fields[3].w], ply_scalar_type[fields[4].w] >>]
    ELSE ply_refused(h)

parse_ply_header_line(h, line) ==
    LET fields    == tokens(line, FALSE, 6)
        directive == fields[1].w
        next      == [h EXCEPT !.read = @ + 1]
    IN  IF ~h.ok \/ h.end_seen THEN h
        ELSE IF fields = << >> THEN next
        ELSE CASE directive \in {"comment", "obj_info"} -> next
               [] directive = "format"  -> ply_format(next, fields)
               [] directive = "element" -> ply_element(next, fields)
               [] directive = "property" /\ h.element = "vertex" -> ply_vertex_property(next, fields)
               [] directive = "property" /\ h.element = "face"   -> ply_face_property(next, fields)
               [] directive = "end_header" -> [next EXCEPT !.ok = Len(fields) = 1, !.end_seen = TRUE]
               [] OTHER -> ply_refused(h)

parse_ply_header(text) ==
    LET h == FoldLeft(parse_ply_header_line,
                      [ok |-> text # << >> /\ Words(tokens(text[1], FALSE, 2)) = << "ply" >>,
                       read |-> 1, format_seen |-> FALSE, end_seen |-> FALSE, element |-> "none",
                       vertex_count |-> 0, face_count |-> 0, properties |-> << >>,
                       face_types |-> << >>],
                      SubSeq(text, 2, Len(text)))
    IN  [h EXCEPT !.ok = /\ h.ok /\ h.end_seen /\ h.format_seen /\ h.face_types # << >>
                         /\ {h.properties[k].semantic : k \in DOMAIN h.properties} = Semantics
                         /\ h.vertex_count > 0 /\ h.face_count > 0]

(* The fewest bytes a text can have: tokens of one character, and no end of
   the last line. *)
Bytes(text) == FoldLeft(LAMBDA sum, line : sum + Max({1, 2 * Len(line)}), -1, text)

ply_declarations_fit(h, text) ==
    /\ h.vertex_count * 32 <= MaximumMeshStorageBytes
    /\ h.face_count * 12 <= MaximumMeshStorageBytes - h.vertex_count * 32
    /\ h.vertex_count * 15 + h.face_count * 7 <= Bytes(text)

ply_vertex_record(h, line) ==
    LET fields == tokens(line, FALSE, Len(h.properties) + 1)
    IN  /\ Len(fields) = Len(h.properties)
        /\ \A k \in DOMAIN fields : parse_ply_transport_scalar(fields[k], h.properties[k].type)

assign_ply_component(h, line, semantic) ==
    scalar(line[CHOOSE k \in DOMAIN h.properties : h.properties[k].semantic = semantic])

ply_vertex(h, line) ==
    LET component(s) == assign_ply_component(h, line, s)
    IN  [position           |-> << component("x"), component("y"), component("z") >>,
         normal             |-> << component("nx"), component("ny"), component("nz") >>,
         texture_coordinate |-> << component("u"), component("v") >>]

ply_face_record(h, line) ==
    LET fields == tokens(line, FALSE, 5)
    IN  /\ fields # << >>
        /\ parse_non_negative_ply_integer(fields[1], h.face_types[1])
        /\ Len(fields) = scalar(fields[1]) + 1 /\ scalar(fields[1]) = 3
        /\ \A c \in 2 .. 4 : /\ parse_non_negative_ply_integer(fields[c], h.face_types[2])
                             /\ scalar(fields[c]) < h.vertex_count

parse_ply_triangle_mesh(text) ==
    LET h     == parse_ply_header(text)
        row   == h.read
        faces == row + h.vertex_count
        end   == faces + h.face_count
    IN  IF /\ h.ok /\ ply_declarations_fit(h, text) /\ end <= Len(text)
           /\ \A k \in row + 1 .. faces : ply_vertex_record(h, text[k])
           /\ \A k \in faces + 1 .. end : ply_face_record(h, text[k])
           /\ \A k \in end + 1 .. Len(text) : text[k] = << >>
        THEN create([k \in 1 .. h.vertex_count |-> ply_vertex(h, text[row + k])],
                    [k \in 1 .. h.face_count |->
                        [c \in 1 .. 3 |-> scalar(text[faces + k][c + 1]) + 1]])
        ELSE Refused

------------------------------------------------------
(* A load *)

parse(format, text) ==
    IF format = "obj" THEN parse_obj_triangle_mesh(text) ELSE parse_ply_triangle_mesh(text)

Outcomes == {"accepted", "refused", "malformed"}

MeshInit ==
    /\ asked \in Requests
    /\ \/ node = 1 /\ files = << asked.text >> /\ held = {asked.text}
       \/ node \in {Absent, Directory} /\ asked.text \in Rewritten /\ files = << >> /\ held = {}
    /\ step = "called" /\ size = 0 /\ stream = Absent /\ contents = << >> /\ mesh = Refused

IsFile(n) == n \notin {Absent, Directory}

goes_to(next) == step' = next /\ UNCHANGED <<asked, node, files, held>>

refuses == goes_to("refused") /\ UNCHANGED <<size, stream, contents, mesh>>

inspect_status ==
    /\ step = "called"
    /\ IF asked.well_named /\ IsFile(node)
       THEN goes_to("regular") /\ UNCHANGED <<size, stream, contents, mesh>>
       ELSE refuses

inspect_size ==
    /\ step = "regular"
    /\ IF IsFile(node) /\ Len(files[node]) <= MaximumMeshFileLines
       THEN goes_to("sized") /\ size' = Len(files[node]) /\ UNCHANGED <<stream, contents, mesh>>
       ELSE refuses

open ==
    /\ step = "sized"
    /\ IF IsFile(node)
       THEN goes_to("open") /\ stream' = node /\ UNCHANGED <<size, contents, mesh>>
       ELSE refuses

read ==
    /\ step = "open"
    /\ IF Len(files[stream]) >= size
       THEN goes_to("read") /\ contents' = SubSeq(files[stream], 1, size)
            /\ UNCHANGED <<size, stream, mesh>>
       ELSE refuses

(* A plausible slip: nobody looks whether the file goes on. *)
at_end_of_file_unasked == TRUE

at_end_of_file == Len(files[stream]) = size

peek ==
    /\ step = "read"
    /\ IF at_end_of_file
       THEN goes_to("complete") /\ UNCHANGED <<size, stream, contents, mesh>>
       ELSE refuses

load_triangle_mesh ==
    /\ step = "complete"
    /\ LET parsed == parse(asked.format, contents)
       IN  mesh' = parsed /\ goes_to(IF parsed = Refused THEN "malformed" ELSE "accepted")
    /\ UNCHANGED <<size, stream, contents>>

(* Memory may be exhausted wherever text or mesh are stored. *)
exhaust_memory == step \in {"open", "complete"} /\ refuses

------------------------------------------------------
(* Another program: it renames a new file to the path, appends to the one
   there, or removes it. *)
rewrites(n, texts) ==
    /\ asked.text \in Rewritten /\ step \notin Outcomes
    /\ Len(files) < MaxTexts /\ Cardinality(held) < MaxTexts
    /\ node' = n /\ files' = texts
    /\ held' = IF IsFile(n) THEN held \cup {texts[n]} ELSE held
    /\ UNCHANGED <<asked, step, size, stream, contents, mesh>>

replace_file(text) == rewrites(Len(files) + 1, Append(files, text))

append_line(line) ==
    /\ IsFile(node) /\ Len(files[node]) <= MaximumMeshFileLines
    /\ rewrites(node, [files EXCEPT ![node] = Append(@, line)])

remove_mesh == IsFile(node) /\ rewrites(Absent, files)

returned == step \in Outcomes /\ UNCHANGED meshVars

------------------------------------------------------
(* What a text says, told from the formats and not from the parser. *)

Corners(m) ==
    [t \in DOMAIN m.triangles |-> [c \in 1 .. 3 |-> m.vertices[m.triangles[t][c]]]]

OneOf(record, words) == record[1].w \in words

AllScalars(record) == \A k \in 2 .. Len(record) : IsScalar(record[k])

OnOneLine(p, q, r) ==
    LET a == Minus(q, p)
        b == Minus(r, p)
    IN  \A j, k \in 1 .. 3 : a[j] * b[k] = a[k] * b[j]

Solid(corners) ==
    \A t \in DOMAIN corners :
        ~OnOneLine(corners[t][1].position, corners[t][2].position, corners[t][3].position)

(* OBJ: a corner names its attributes among the records before its own, from
   the first one on or from the last one back. *)
ObjRecords(text) ==
    SelectSeq([k \in DOMAIN text |-> tokens(text[k], TRUE, Len(text[k]))], LAMBDA r : r # << >>)

ObjOf(records, w) == SelectSeq(records, LAMBDA r : OneOf(r, {w}))

Before(records, k, w) == Len(ObjOf(SubSeq(records, 1, k - 1), w))

Among(i, n) == i # 0 /\ -n <= i /\ i <= n

NthOf(records, w, i, n) ==
    scalars(Tail(ObjOf(records, w)[IF i > 0 THEN i ELSE n + 1 + i]))

CornerWords == << "v", "vt", "vn" >>

ObjWellFormed(records) ==
    \A k \in DOMAIN records :
        LET r == records[k]
            n(w) == Before(records, k, w)
        IN  \/ /\ OneOf(r, {"v", "vn"}) /\ Len(r) = 4 /\ AllScalars(r)
               /\ OneOf(r, {"vn"}) => unit_normal(scalars(Tail(r)))
            \/ OneOf(r, {"vt"}) /\ Len(r) = 3 /\ AllScalars(r)
            \/ /\ OneOf(r, {"f"}) /\ Len(r) = 4
               /\ \A c \in 2 .. 4 : /\ Len(r[c].n) = 3
                                   /\ \A a \in 1 .. 3 : Among(r[c].n[a], n(CornerWords[a]))
            \/ OneOf(r, {"g"}) /\ Len(r) <= 2
            \/ OneOf(r, {"o", "s", "usemtl", "mtllib"}) /\ Len(r) = 2

ObjFits(records) ==
    LET n(w) == Len(ObjOf(records, w))
    IN  12 * n("v") + 12 * n("vn") + 8 * n("vt") + (12 + 3 * (12 + 12 + 8 + 128)) * n("f")
            <= MaximumMeshStorageBytes

ObjSays(text) ==
    LET records == ObjRecords(text)
        faces   == SelectSeq([k \in DOMAIN records |-> k], LAMBDA k : OneOf(records[k], {"f"}))
        named(k, c, a) ==
            NthOf(records, CornerWords[a], records[k][c + 1].n[a], Before(records, k, CornerWords[a]))
        corners == [t \in DOMAIN faces |-> [c \in 1 .. 3 |->
                      [position           |-> named(faces[t], c, 1),
                       texture_coordinate |-> named(faces[t], c, 2),
                       normal             |-> named(faces[t], c, 3)]]]
    IN  IF ObjFits(records) /\ ObjWellFormed(records) /\ Solid(corners) THEN corners ELSE Refused

(* PLY: twelve declarations in one order but for that of the properties, then
   the rows they declare. *)
PlyEnds(text) == {k \in DOMAIN text : text[k] # << >> /\ OneOf(text[k], {"end_header"})}

PlyDeclarations(text) ==
    SelectSeq(SubSeq(text, 2, Min(PlyEnds(text)) - 1),
              LAMBDA r : r # << >> /\ ~OneOf(r, {"comment", "obj_info"}))

PlyElement(r, name) ==
    /\ Len(r) = 3 /\ Words(r) = << "element", name, "" >> /\ IsInteger(r[3]) /\ scalar(r[3]) > 0

PlyHeader(d) ==
    /\ Len(d) = 12 /\ Words(d[1]) = << "format", "ascii", "1.0" >>
    /\ PlyElement(d[2], "vertex") /\ PlyElement(d[11], "face")
    /\ \A k \in 3 .. 10 : /\ Len(d[k]) = 3 /\ OneOf(d[k], {"property"})
                           /\ d[k][2].w \in DOMAIN ply_scalar_type
                           /\ d[k][3].w \in DOMAIN ply_vertex_semantic
    /\ \A s \in Semantics : \E k \in 3 .. 10 : ply_vertex_semantic[d[k][3].w] = s
    /\ Len(d[12]) = 5 /\ OneOf(d[12], {"property"}) /\ d[12][2].w = "list"
    /\ d[12][5].w \in {"vertex_index", "vertex_indices"}
    /\ \A k \in 3 .. 4 : /\ d[12][k].w \in DOMAIN ply_scalar_type
                          /\ ply_scalar_type[d[12][k].w] \notin {"float32", "float64"}

InType(token, name) ==
    LET type == ply_scalar_type[name]
    IN  /\ IsScalar(token)
        /\ type \in DOMAIN ply_integers => IsInteger(token) /\ scalar(token) \in ply_integers[type]

PlyBody(d, rows) ==
    LET n == scalar(d[2][3])
        m == scalar(d[11][3])
    IN  /\ Len(rows) >= n + m /\ 32 * n + 12 * m <= MaximumMeshStorageBytes
        /\ \A k \in 1 .. n : /\ Len(rows[k]) = 8
                              /\ \A c \in 1 .. 8 : InType(rows[k][c], d[c + 2][2].w)
        /\ \A k \in n + 1 .. n + m :
              /\ Len(rows[k]) = 4 /\ InType(rows[k][1], d[12][3].w) /\ scalar(rows[k][1]) = 3
              /\ \A c \in 2 .. 4 : /\ InType(rows[k][c], d[12][4].w)
                                   /\ scalar(rows[k][c]) \in 0 .. n - 1
        /\ \A k \in n + m + 1 .. Len(rows) : rows[k] = << >>

PlySays(text) ==
    LET d        == PlyDeclarations(text)
        rows     == SubSeq(text, Min(PlyEnds(text)) + 1, Len(text))
        n        == scalar(d[2][3])
        value(k, s) == scalar(rows[k][CHOOSE c \in 1 .. 8 : ply_vertex_semantic[d[c + 2][3].w] = s])
        row(k)   == [position           |-> << value(k, "x"), value(k, "y"), value(k, "z") >>,
                     texture_coordinate |-> << value(k, "u"), value(k, "v") >>,
                     normal             |-> << value(k, "nx"), value(k, "ny"), value(k, "nz") >>]
        corners  == [t \in 1 .. scalar(d[11][3]) |->
                       [c \in 1 .. 3 |-> row(scalar(rows[n + t][c + 1]) + 1)]]
    IN  IF /\ text # << >> /\ Words(text[1]) = << "ply" >> /\ PlyEnds(text) # {}
           /\ Len(text[Min(PlyEnds(text))]) = 1
           /\ PlyHeader(d) /\ PlyBody(d, rows)
           /\ \A k \in 1 .. n : unit_normal(row(k).normal)
           /\ Solid(corners)
        THEN corners
        ELSE Refused

Says(format, text) == IF format = "obj" THEN ObjSays(text) ELSE PlySays(text)

(* A compacted mesh has the corners of the mesh it was made from, and no
   vertex twice or unused. *)
Compacts(m) ==
    LET compact  == compacted(m)
        vertices == compact[1].vertices
    IN  /\ compact # Refused
        /\ Corners(compact[1]) = Corners(m)
        /\ \A a, b \in DOMAIN vertices : vertices[a] = vertices[b] => a = b
        /\ \A a \in DOMAIN vertices :
              \E t \in DOMAIN m.triangles : \E c \in 1 .. 3 : compact[1].triangles[t][c] = a

(* A text that is parsed is one its path has led to as a whole during the
   call, whatever another program does to the file between the questions for
   its size, its bytes and its end. It is accepted exactly if it is complete
   and within the limits, and then each corner of each triangle carries the
   attributes the text names for it, before and after a compaction. *)
MeshSaysFile ==
    /\ step \in {"complete", "accepted", "malformed"} => contents \in held
    /\ step = "malformed" => Says(asked.format, contents) = Refused
    /\ step = "accepted" =>
          Corners(mesh[1]) = Says(asked.format, contents) /\ Compacts(mesh[1])
===============================================================================
