----------------------------- MODULE HostImageCache -----------------------------
(***************************************************************************)
(* HostImageCache of Renderer: decoded source files and the images made of  *)
(* them, one per color-space tag, under one byte budget. A load holds the   *)
(* mutex from its first lookup to its return, so loads are one at a time;   *)
(* the files are the system's, and change between any two steps of one:     *)
(* rewritten, removed, or replaced by a link. A version stands for what a   *)
(* file held when it was written: its size in bytes and whether its         *)
(* channels are one R, one G and one B.                                     *)
(***************************************************************************)
EXTENDS Integers, FiniteSets, FiniteSetsExt

CONSTANTS
    Paths,                         \* absolute normalized paths
    Contents,                      \* what a file can hold
    maximum_image_pixel_bytes,
    maximum_resident_pixel_bytes,
    maximum_entries,
    MaxWrites,                     \* bound: how often the files change
    Vacant

ContentType == [bytes : Nat \ {0}, color : BOOLEAN]
Version     == [kind : {"file"}, written : Nat, content : Contents]
Link        == [kind : {"link"}, target : Paths]

ASSUME HostImageCacheAssumption ==
    /\ Contents \subseteq ContentType
    /\ maximum_image_pixel_bytes \in Nat \ {0}
    /\ maximum_resident_pixel_bytes \in Nat
    /\ maximum_image_pixel_bytes <= maximum_resident_pixel_bytes
    /\ maximum_entries \in Nat \ {0}
    /\ MaxWrites \in Nat
    /\ Vacant \notin Paths \cup Version

VARIABLES
    file,       \* the node at each path: a link, a version, or nothing
    writes,     \* how often the files changed
    sources,    \* source_images: a version for some canonical paths
    images,     \* images: the version and the own bytes of some keys
    resident,   \* resident_pixel_byte_count
    load,       \* the load that holds the mutex
    returned    \* what the loads so far have returned: keys and versions

vars == <<file, writes, sources, images, resident, load, returned>>
cache == <<sources, images, resident>>

TextureColorSpace == {"data", "scene_linear_srgb", "srgb"}

Absent == [kind |-> "absent"]

Init ==
    /\ file = [p \in Paths |-> Absent]
    /\ writes = 0
    /\ sources = << >>
    /\ images = << >>
    /\ resident = 0
    /\ load = Vacant
    /\ returned = {}

------------------------------------------------------
(* The file system. Every change writes a version that was never there. *)

change(p, node) ==
    /\ writes < MaxWrites
    /\ writes' = writes + 1
    /\ file' = [file EXCEPT ![p] = node]
    /\ UNCHANGED <<cache, load, returned>>

write_file(p) ==
    \E content \in Contents :
        change(p, [kind |-> "file", written |-> writes + 1, content |-> content])

remove_file(p) == file[p] # Absent /\ change(p, Absent)

link_file(p) == \E target \in Paths \ {p} : change(p, [kind |-> "link", target |-> target])

followed(p) == IF file[p].kind = "link" THEN file[p].target ELSE p

(* Links are followed twice: longer chains add nothing but names. *)
canonical(p) == followed(followed(p))

------------------------------------------------------
(* HostImageCache::load. *)

loading(path, tag, at, source, fresh) ==
    [path |-> path, tag |-> tag, at |-> at, source |-> source, fresh |-> fresh]

answer(path, tag) ==
    /\ returned' = returned \cup {[path |-> path, tag |-> tag, image |-> images[<<path, tag>>]]}
    /\ load' = Vacant

(* An image or a source of the requested path itself is served without a
   look at the file. *)
begin_load(p, tag) ==
    /\ load = Vacant
    /\ IF <<p, tag>> \in DOMAIN images
       THEN answer(p, tag)
       ELSE /\ load' = IF p \in DOMAIN sources
                       THEN loading(p, tag, "lookup", sources[p], FALSE)
                       ELSE loading(p, tag, "resolve", Vacant, FALSE)
            /\ UNCHANGED returned
    /\ UNCHANGED <<file, writes, cache>>

refuse ==
    /\ load' = Vacant
    /\ UNCHANGED returned

canonicalize ==
    LET path == canonical(load.path)
    IN  /\ load # Vacant
        /\ load.at = "resolve"
        /\ IF file[path].kind = "file"
           THEN load' = loading(path, load.tag, "lookup", Vacant, FALSE) /\ UNCHANGED returned
           ELSE refuse
        /\ UNCHANGED <<file, writes, cache>>

known == IF load.source = Vacant /\ load.path \in DOMAIN sources THEN sources[load.path]
                                                               ELSE load.source

lookup ==
    /\ load # Vacant
    /\ load.at = "lookup"
    /\ CASE <<load.path, load.tag>> \in DOMAIN images -> answer(load.path, load.tag)
         [] /\ <<load.path, load.tag>> \notin DOMAIN images
            /\ Cardinality(DOMAIN images) = maximum_entries -> refuse
         [] OTHER ->
              /\ load' = loading(load.path, load.tag,
                                 IF known = Vacant THEN "decode" ELSE "convert", known, FALSE)
              /\ UNCHANGED returned
    /\ UNCHANGED <<file, writes, cache>>

(* The reader opens the path, whatever is there by now; it may refuse what
   it finds. The bytes are checked before they are allocated. *)
decode ==
    LET node == file[canonical(load.path)]
    IN  /\ load # Vacant
        /\ load.at = "decode"
        /\ \/ refuse
           \/ /\ node.kind = "file"
              /\ node.content.bytes <= maximum_image_pixel_bytes
              /\ node.content.bytes <= maximum_resident_pixel_bytes - resident
              /\ load' = loading(load.path, load.tag, "convert", node, TRUE)
              /\ UNCHANGED returned
        /\ UNCHANGED <<file, writes, cache>>

(* An emplace keeps an entry that is already there. *)
emplace(map, key, value) ==
    [k \in DOMAIN map \cup {key} |-> IF k \in DOMAIN map THEN map[k] ELSE value]

source_bytes == IF load.fresh THEN load.source.content.bytes ELSE 0

(* A plausible slip: the source just decoded is not counted yet. *)
converted_fits_resident ==
    load.source.content.bytes <= maximum_resident_pixel_bytes - resident

converted_fits ==
    load.source.content.bytes <= maximum_resident_pixel_bytes - resident - source_bytes

additional_bytes == IF load.tag = "srgb" THEN load.source.content.bytes ELSE 0

(* Only an sRGB tag makes a copy, whose values may not be representable. *)
convertible ==
    /\ load.tag # "data" => load.source.content.color
    /\ load.tag = "srgb" => converted_fits

(* A plausible slip: the decoded source is not kept beside its image. *)
insert_source_none == sources

insert_source ==
    IF load.fresh THEN emplace(sources, load.path, load.source) ELSE sources

source_is_new == load.fresh => load.path \notin DOMAIN sources

(* The source goes into its map before the image goes into its own; an
   allocation may fail before them or between them, and an entry that is
   already there is an error. *)
convert_and_insert ==
    LET image == [version |-> load.source, bytes |-> additional_bytes]
    IN  /\ load # Vacant
        /\ load.at = "convert"
        /\ \/ refuse /\ UNCHANGED cache
           \/ /\ convertible /\ source_is_new
              /\ sources' = insert_source
              /\ resident' = resident + source_bytes
              /\ UNCHANGED images
              /\ refuse
           \/ /\ convertible /\ source_is_new
              /\ sources' = insert_source
              /\ <<load.path, load.tag>> \notin DOMAIN images
              /\ images' = emplace(images, <<load.path, load.tag>>, image)
              /\ resident' = resident + source_bytes + additional_bytes
              /\ returned' = returned \cup
                     {[path |-> load.path, tag |-> load.tag, image |-> image]}
              /\ load' = Vacant
        /\ UNCHANGED <<file, writes>>

Loads ==
    \/ \E p \in Paths, tag \in TextureColorSpace : begin_load(p, tag)
    \/ canonicalize \/ lookup \/ decode \/ convert_and_insert

Files == \E p \in Paths : write_file(p) \/ remove_file(p) \/ link_file(p)

Next == Loads \/ Files

Spec == Init /\ [][Next]_vars

------------------------------------------------------
(* One snapshot per source: whatever happens to a file, or to the paths
   that lead to it, and whichever loads failed in between, every image the
   cache ever returns for a canonical path shows the same version of it. *)
OneSnapshotPerSource ==
    \A a, b \in returned : a.path = b.path => a.image.version = b.image.version

(* The budget: the bytes counted are those of the sources and the copies
   held, a source whose image could not be inserted included, and they stay
   within the budget. *)
ResidentBytes ==
    /\ resident = MapThenSumSet(LAMBDA p : sources[p].content.bytes, DOMAIN sources)
                  + MapThenSumSet(LAMBDA k : images[k].bytes, DOMAIN images)
    /\ resident <= maximum_resident_pixel_bytes
=============================================================================
