--------------------------- MODULE SceneInputsProofs ---------------------------
(***************************************************************************)
(* What a scene is made from, in two parts.                                 *)
(*                                                                          *)
(* The image cache: for any set of paths, any files, any limits, a source   *)
(* file is decoded at most once in the life of a cache, however its path is *)
(* changed meanwhile, and the bytes the cache counts are those of what it   *)
(* holds.                                                                   *)
(*                                                                          *)
(* The compilation of records: for any authored records, in any order, both *)
(* creates accept exactly those that hold together, and a frame scene has   *)
(* every instance and every mesh light where its lineage places it.         *)
(***************************************************************************)
EXTENDS HostImageCache, SceneCompilation, SequenceTheorems, FiniteSetTheorems,
        WellFoundedInduction, TLAPS

Load ==
    [tag : TextureColorSpace,
     at : {"resolve", "lookup", "decode", "convert"}, path : Paths,
     source : Version \cup {Vacant}, fresh : BOOLEAN]

FileInv ==
    /\ writes \in Nat
    /\ file \in [Paths -> Version \cup Link \cup {Absent}]

SourceInv == \A p \in DOMAIN sources : sources[p] \in Version

(* Every image held, and every image returned, shows the source held for
   its path. *)
HeldInv ==
    /\ \A k \in DOMAIN images : /\ k[1] \in DOMAIN sources
                                /\ images[k].version = sources[k[1]]
    /\ \A r \in returned : r.path \in DOMAIN sources /\ r.image.version = sources[r.path]

(* The load that holds the mutex carries the source held for its path, or
   none is held: nothing is inserted before it returns. *)
Carried == load.path \in DOMAIN sources /\ load.source = sources[load.path]

LoadInv ==
    load # Vacant =>
        /\ load \in Load
        /\ load.at = "resolve" => load.source = Vacant /\ ~load.fresh
        /\ load.at = "lookup"  => ~load.fresh /\ (load.source # Vacant => Carried)
        /\ load.at = "decode"  => ~load.fresh /\ load.path \notin DOMAIN sources
        /\ load.at = "convert" => IF load.fresh
                                  THEN /\ load.path \notin DOMAIN sources
                                       /\ load.source \in Version
                                  ELSE Carried

IInv == FileInv /\ SourceInv /\ HeldInv /\ LoadInv

LEMMA CanonicalPath == ASSUME FileInv, NEW p \in Paths PROVE canonical(p) \in Paths
<1>1. \A q \in Paths : followed(q) \in Paths
  BY DEF FileInv, followed, Version, Link, Absent
<1>2. QED BY <1>1 DEF canonical

LEMMA NothingHeld == ASSUME Init PROVE IInv
<1>1. DOMAIN sources = {} /\ DOMAIN images = {} BY DEF Init
<1>2. FileInv BY DEF Init, FileInv
<1>3. QED BY <1>1, <1>2 DEF Init, IInv, SourceInv, HeldInv, LoadInv

(* A change of a file touches nothing the cache holds. *)
LEMMA FilesChange == ASSUME IInv, Files PROVE IInv'
<1>1. UNCHANGED <<cache, load, returned>> /\ writes' = writes + 1
  BY DEF Files, write_file, remove_file, link_file, change
<1>2. SourceInv' /\ HeldInv' /\ LoadInv'
  BY <1>1 DEF IInv, cache, SourceInv, HeldInv, LoadInv, Carried
<1>3. \E p \in Paths, node \in Version \cup Link \cup {Absent} :
          file' = [file EXCEPT ![p] = node]
  <2>1. PICK p \in Paths : write_file(p) \/ remove_file(p) \/ link_file(p)
    BY DEF Files
  <2>2. CASE write_file(p)
    <3>1. PICK content \in Contents :
              change(p, [kind |-> "file", written |-> writes + 1, content |-> content])
      BY <2>2 DEF write_file
    <3>2. [kind |-> "file", written |-> writes + 1, content |-> content] \in Version
      BY DEF Version, IInv, FileInv
    <3>3. QED BY <3>1, <3>2 DEF change
  <2>3. CASE remove_file(p)
    BY <2>3 DEF remove_file, change
  <2>4. CASE link_file(p)
    <3>1. PICK target \in Paths : change(p, [kind |-> "link", target |-> target])
      BY <2>4 DEF link_file
    <3>2. [kind |-> "link", target |-> target] \in Link BY DEF Link
    <3>3. QED BY <3>1, <3>2 DEF change
  <2>5. QED BY <2>1, <2>2, <2>3, <2>4
<1>4. FileInv' BY <1>1, <1>3 DEF IInv, FileInv
<1>5. QED BY <1>2, <1>4 DEF IInv

(* A load that is refused leaves what is held, and what was returned. *)
LEMMA Refused ==
  ASSUME IInv, UNCHANGED <<file, writes, sources, images, returned>>, load' = Vacant
  PROVE  IInv'
  BY DEF IInv, FileInv, SourceInv, HeldInv, LoadInv

(* An image that is held may be returned. *)
LEMMA Answered ==
  ASSUME IInv, UNCHANGED <<file, writes, sources, images>>,
         NEW path, NEW tag, <<path, tag>> \in DOMAIN images, answer(path, tag)
  PROVE  IInv'
<1>1. /\ load' = Vacant
      /\ returned' = returned \cup
             {[path |-> path, tag |-> tag, image |-> images[<<path, tag>>]]}
  BY DEF answer
<1>2. path \in DOMAIN sources /\ images[<<path, tag>>].version = sources[path]
  BY DEF IInv, HeldInv
<1>3. HeldInv' BY <1>1, <1>2 DEF IInv, HeldInv
<1>4. QED BY <1>1, <1>3 DEF IInv, FileInv, SourceInv, LoadInv

(* A step that only moves the load on. *)
LEMMA MovedOn ==
  ASSUME IInv, UNCHANGED <<file, writes, sources, images, returned>>, LoadInv'
  PROVE  IInv'
  BY DEF IInv, FileInv, SourceInv, HeldInv

LEMMA BeginLoad ==
  ASSUME IInv, NEW p \in Paths, NEW tag \in TextureColorSpace, begin_load(p, tag)
  PROVE  IInv'
<1>0. UNCHANGED <<file, writes, sources, images>> BY DEF begin_load, cache
<1>1. CASE <<p, tag>> \in DOMAIN images
  BY <1>0, <1>1, Answered DEF begin_load
<1>2. CASE <<p, tag>> \notin DOMAIN images /\ p \in DOMAIN sources
  <2>1. load' = loading(p, tag, "lookup", sources[p], FALSE) /\ UNCHANGED returned
    BY <1>2 DEF begin_load
  <2>2. LoadInv'
    BY <1>0, <1>2, <2>1 DEF LoadInv, Load, Carried, loading, IInv, SourceInv
  <2>3. QED BY <1>0, <2>1, <2>2, MovedOn
<1>3. CASE <<p, tag>> \notin DOMAIN images /\ p \notin DOMAIN sources
  <2>1. load' = loading(p, tag, "resolve", Vacant, FALSE) /\ UNCHANGED returned
    BY <1>3 DEF begin_load
  <2>2. LoadInv' BY <1>0, <2>1 DEF LoadInv, Load, loading
  <2>3. QED BY <1>0, <2>1, <2>2, MovedOn
<1>4. QED BY <1>1, <1>2, <1>3

LEMMA Canonicalize == ASSUME IInv, canonicalize PROVE IInv'
<1> DEFINE path == canonical(load.path)
<1>0. /\ UNCHANGED <<file, writes, sources, images>>
      /\ load # Vacant /\ load.at = "resolve"
      /\ load \in Load /\ load.source = Vacant /\ ~load.fresh
  BY DEF canonicalize, cache, IInv, LoadInv
<1>1. path \in Paths BY <1>0, CanonicalPath DEF IInv, Load
<1>2. CASE file[path].kind = "file"
  <2>1. load' = loading(path, load.tag, "lookup", Vacant, FALSE) /\ UNCHANGED returned
    BY <1>2 DEF canonicalize
  <2>2. LoadInv' BY <1>0, <1>1, <2>1 DEF LoadInv, Load, Carried, loading
  <2>3. QED BY <1>0, <2>1, <2>2, MovedOn
<1>3. CASE file[path].kind # "file"
  BY <1>0, <1>3, Refused DEF canonicalize, refuse
<1>4. QED BY <1>2, <1>3

LEMMA Lookup == ASSUME IInv, lookup PROVE IInv'
<1>0. /\ UNCHANGED <<file, writes, sources, images>>
      /\ load # Vacant /\ load.at = "lookup"
      /\ load \in Load /\ ~load.fresh
      /\ load.source # Vacant => Carried
  BY DEF lookup, cache, IInv, LoadInv
<1>1. CASE <<load.path, load.tag>> \in DOMAIN images
  BY <1>0, <1>1, Answered DEF lookup
<1>2. CASE /\ <<load.path, load.tag>> \notin DOMAIN images
           /\ Cardinality(DOMAIN images) = maximum_entries
  BY <1>0, <1>2, Refused DEF lookup, refuse
<1>3. CASE /\ <<load.path, load.tag>> \notin DOMAIN images
           /\ Cardinality(DOMAIN images) # maximum_entries
  <2>1. /\ load' = loading(load.path, load.tag,
                           IF known = Vacant THEN "decode" ELSE "convert", known, FALSE)
        /\ UNCHANGED returned
    BY <1>3 DEF lookup
  <2>2. ASSUME load.path \in DOMAIN sources PROVE LoadInv'
    <3>1. known = sources[load.path] /\ known \in Version /\ known # Vacant
      BY <1>0, <2>2, HostImageCacheAssumption DEF known, Carried, IInv, SourceInv
    <3>2. QED BY <1>0, <2>1, <2>2, <3>1 DEF LoadInv, Load, Carried, loading
  <2>3. ASSUME load.path \notin DOMAIN sources PROVE LoadInv'
    <3>1. known = Vacant BY <1>0, <2>3 DEF known, Carried
    <3>2. QED BY <1>0, <2>1, <2>3, <3>1 DEF LoadInv, Load, Carried, loading
  <2>4. LoadInv' BY <2>2, <2>3
  <2>5. QED BY <1>0, <2>1, <2>4, MovedOn
<1>4. QED BY <1>1, <1>2, <1>3

LEMMA Decode == ASSUME IInv, decode PROVE IInv'
<1> DEFINE node == file[canonical(load.path)]
<1>0. /\ UNCHANGED <<file, writes, sources, images>>
      /\ load # Vacant /\ load.at = "decode"
      /\ load \in Load /\ ~load.fresh /\ load.path \notin DOMAIN sources
  BY DEF decode, cache, IInv, LoadInv
<1>1. CASE refuse
  BY <1>0, <1>1, Refused DEF refuse
<1>2. CASE ~refuse
  <2>1. /\ node.kind = "file"
        /\ load' = loading(load.path, load.tag, "convert", node, TRUE)
        /\ UNCHANGED returned
    BY <1>2 DEF decode
  <2>2. canonical(load.path) \in Paths BY <1>0, CanonicalPath DEF IInv, Load
  <2>3. node \in Version BY <2>1, <2>2 DEF IInv, FileInv, Link, Absent
  <2>4. LoadInv' BY <1>0, <2>1, <2>3 DEF LoadInv, Load, Carried, loading
  <2>5. QED BY <1>0, <2>1, <2>4, MovedOn
<1>3. QED BY <1>1, <1>2

(* The source goes in before the image, and only where none was. *)
LEMMA Inserted ==
  ASSUME IInv, load # Vacant, load.at = "convert", sources' = insert_source
  PROVE  /\ SourceInv'
         /\ DOMAIN sources \subseteq DOMAIN sources'
         /\ \A p \in DOMAIN sources : sources'[p] = sources[p]
         /\ load.path \in DOMAIN sources' /\ sources'[load.path] = load.source
  BY DEF IInv, LoadInv, SourceInv, Carried, insert_source, emplace

LEMMA Convert == ASSUME IInv, convert_and_insert PROVE IInv'
<1> DEFINE image == [version |-> load.source, bytes |-> additional_bytes]
<1>0. load # Vacant /\ load.at = "convert" /\ UNCHANGED <<file, writes>>
  BY DEF convert_and_insert
<1>1. CASE refuse /\ UNCHANGED cache
  BY <1>0, <1>1, Refused DEF refuse, cache
<1>2. CASE sources' = insert_source /\ UNCHANGED images /\ refuse
  <2>1. HeldInv' BY <1>0, <1>2, Inserted DEF IInv, HeldInv, refuse
  <2>2. QED BY <1>0, <1>2, <2>1, Inserted DEF IInv, FileInv, LoadInv, refuse
<1>3. CASE /\ sources' = insert_source
           /\ images' = emplace(images, <<load.path, load.tag>>, image)
           /\ returned' = returned \cup
                  {[path |-> load.path, tag |-> load.tag, image |-> image]}
           /\ load' = Vacant
  <2>1. /\ DOMAIN sources \subseteq DOMAIN sources'
        /\ \A p \in DOMAIN sources : sources'[p] = sources[p]
        /\ load.path \in DOMAIN sources' /\ sources'[load.path] = load.source
    BY <1>0, <1>3, Inserted
  <2>2. ASSUME NEW k \in DOMAIN images'
        PROVE  k[1] \in DOMAIN sources' /\ images'[k].version = sources'[k[1]]
    <3>1. CASE k \in DOMAIN images
      BY <1>3, <2>1, <3>1 DEF IInv, HeldInv, emplace
    <3>2. CASE k \notin DOMAIN images
      BY <1>3, <2>1, <2>2, <3>2 DEF emplace
    <3>3. QED BY <3>1, <3>2
  <2>3. ASSUME NEW r \in returned'
        PROVE  r.path \in DOMAIN sources' /\ r.image.version = sources'[r.path]
    BY <1>3, <2>1, <2>3 DEF IInv, HeldInv
  <2>4. HeldInv' BY <2>2, <2>3 DEF HeldInv
  <2>5. QED BY <1>0, <1>3, <2>4, Inserted DEF IInv, FileInv, LoadInv
<1>4. QED BY <1>1, <1>2, <1>3 DEF convert_and_insert

(* The inductive invariant. *)
THEOREM SpecIInv == Spec => []IInv
<1>1. ASSUME IInv, [Next]_vars PROVE IInv'
  <2>1. CASE UNCHANGED vars
    BY <1>1, <2>1 DEF vars, IInv, FileInv, SourceInv, HeldInv, LoadInv, Carried
  <2>2. CASE Files
    BY <1>1, <2>2, FilesChange
  <2>3. CASE Loads
    BY <1>1, <2>3, BeginLoad, Canonicalize, Lookup, Decode, Convert DEF Loads
  <2>4. QED BY <1>1, <2>1, <2>2, <2>3 DEF Next
<1>2. QED BY <1>1, NothingHeld, PTL DEF Spec

(* One snapshot per source (HostImageCache.cpp:424): whatever happens to
   the files, and whichever loads fail, the images returned for one
   canonical path all show the version that was decoded first. *)
THEOREM SpecOneSnapshotPerSource == Spec => []OneSnapshotPerSource
<1>1. IInv => OneSnapshotPerSource BY DEF IInv, HeldInv, OneSnapshotPerSource
<1>2. QED BY <1>1, SpecIInv, PTL

------------------------------------------------------
(* Sums over a finite set: MapThenSumSet takes the elements in an order of
   its own, and the sum does not depend on it. *)
Before == {pair \in Nat \X Nat : pair[1] < pair[2]}

(* Induction over the subsets of a finite set: a family that holds a subset
   when it holds all that lack one element of it holds every subset. *)
LEMMA SubsetInduction ==
  ASSUME NEW S, IsFiniteSet(S), NEW A \in SUBSET SUBSET S,
         \A s \in SUBSET S : (\A x \in s : s \ {x} \in A) => s \in A
  PROVE  A = SUBSET S
<1> DEFINE sizes == {Cardinality(s) : s \in (SUBSET S) \ A}
<1>1. \A s \in SUBSET S :
          /\ Cardinality(s) \in Nat
          /\ \A x \in s : s \ {x} \in SUBSET S /\ Cardinality(s \ {x}) = Cardinality(s) - 1
  BY FS_Subset, FS_CardinalityType, FS_RemoveElement
<1>2. SUFFICES ASSUME sizes # {} PROVE FALSE
  OBVIOUS
<1>3. PICK n \in sizes : \A m \in sizes : <<m, n>> \notin Before
  <2>1. sizes \in SUBSET Nat BY <1>1
  <2>2. IsWellFoundedOn(Before, Nat)
    BY NatLessThanWellFounded DEF OpToRel, Before
  <2> HIDE DEF sizes
  <2>3. QED BY <1>2, <2>1, <2>2, WFMin
<1>4. PICK s \in (SUBSET S) \ A : n = Cardinality(s) BY <1>3
<1>5. PICK x \in s : s \ {x} \notin A BY <1>4
<1>6. s \ {x} \in SUBSET S /\ Cardinality(s \ {x}) \in Nat /\ n \in Nat
      /\ Cardinality(s \ {x}) < n
  BY <1>1, <1>4
<1>7. <<Cardinality(s \ {x}), n>> \in Before BY <1>6 DEF Before
<1>8. Cardinality(s \ {x}) \in sizes BY <1>5, <1>6
<1>9. QED BY <1>3, <1>7, <1>8

(* g[s] is the sum of the weights w over the subset s of S. *)
summing(S, w, g) ==
    g = [s \in SUBSET S |-> IF s = {} THEN 0
                            ELSE LET x == CHOOSE x \in s : TRUE IN w[x] + g[s \ {x}]]

(* The same function as long as subsets have at most n elements. *)
small(S, n) == {s \in SUBSET S : Cardinality(s) <= n}

summing_small(S, w, n, g) ==
    g = [s \in small(S, n) |-> IF s = {} THEN 0
                               ELSE LET x == CHOOSE x \in s : TRUE IN w[x] + g[s \ {x}]]

(* A choice is a member. *)
LEMMA Chosen == ASSUME NEW s, s # {} PROVE (CHOOSE x \in s : TRUE) \in s
  OBVIOUS

(* There is such a function for every finite set. *)
LEMMA SumExists ==
  ASSUME NEW S, IsFiniteSet(S), NEW w
  PROVE  \E g : summing(S, w, g)
<1> DEFINE N == Cardinality(S)
           A == {s \in SUBSET S : \E g : summing_small(S, w, Cardinality(s), g)}
<1>1. \A s \in SUBSET S : /\ IsFiniteSet(s) /\ Cardinality(s) \in Nat
                          /\ Cardinality(s) <= Cardinality(S)
                          /\ s = {} <=> Cardinality(s) = 0
  BY FS_Subset, FS_CardinalityType, FS_EmptySet
<1>2. \A s \in SUBSET S : \A x \in s :
          s \ {x} \in SUBSET S /\ Cardinality(s \ {x}) = Cardinality(s) - 1
  BY <1>1, FS_RemoveElement
<1>3. ASSUME NEW s \in SUBSET S, \A x \in s : s \ {x} \in A
      PROVE  s \in A
  <2>1. CASE s = {}
    <3> DEFINE h == [t \in small(S, 0) |-> 0]
    <3>1. Cardinality(s) = 0 /\ \A t \in small(S, 0) : t = {}
      BY <1>1, <2>1 DEF small
    <3>2. summing_small(S, w, 0, h) BY <3>1 DEF summing_small
    <3>3. QED BY <3>1, <3>2
  <2>2. CASE s # {}
    <3> DEFINE n == Cardinality(s) - 1
    <3>1. n \in Nat /\ Cardinality(s) = n + 1 BY <1>1, <2>2
    <3>2. \E g : summing_small(S, w, n, g) BY <1>2, <1>3, <2>2
    <3>3. PICK g : summing_small(S, w, n, g) BY <3>2
    <3> DEFINE h == [t \in small(S, n + 1) |->
                        IF t = {} THEN 0
                        ELSE LET x == CHOOSE x \in t : TRUE IN w[x] + g[t \ {x}]]
    <3> HIDE DEF n
    <3>4. ASSUME NEW t \in small(S, n + 1), NEW x \in t PROVE t \ {x} \in small(S, n)
      <4>1. t \in SUBSET S /\ Cardinality(t) \in Nat /\ Cardinality(t) <= n + 1
        BY <1>1 DEF small
      <4>2. t \ {x} \in SUBSET S /\ Cardinality(t \ {x}) = Cardinality(t) - 1
        BY <1>2, <4>1
      <4>3. QED BY <3>1, <4>1, <4>2 DEF small
    <3>5. \A t \in small(S, n) : t \in small(S, n + 1) BY <1>1, <3>1 DEF small
    <3>6. \A t \in small(S, n) : h[t] = g[t]
      <4> TAKE t \in small(S, n)
      <4>1. g[t] = IF t = {} THEN 0
                   ELSE LET x == CHOOSE x \in t : TRUE IN w[x] + g[t \ {x}]
        BY <3>3 DEF summing_small
      <4>2. QED BY <3>5, <4>1
    <3>7. \A t \in small(S, n + 1) :
              h[t] = IF t = {} THEN 0
                     ELSE LET x == CHOOSE x \in t : TRUE IN w[x] + h[t \ {x}]
      <4> TAKE t \in small(S, n + 1)
      <4>1. CASE t = {}
        BY <4>1
      <4>2. CASE t # {}
        <5> DEFINE x == CHOOSE x \in t : TRUE
        <5>1. x \in t BY <4>2, Chosen
        <5>2. h[t] = w[x] + g[t \ {x}] BY <4>2
        <5>3. h[t \ {x}] = g[t \ {x}] BY <3>4, <3>6, <5>1
        <5>4. h[t] = w[x] + h[t \ {x}] BY <5>2, <5>3
        <5> HIDE DEF h
        <5>5. QED BY <4>2, <5>4
      <4>3. QED BY <4>1, <4>2
    <3>8. h = [t \in small(S, n + 1) |-> h[t]] OBVIOUS
    <3> HIDE DEF h
    <3>9. summing_small(S, w, n + 1, h) BY <3>7, <3>8 DEF summing_small
    <3>10. QED BY <3>1, <3>9
  <2>3. QED BY <2>1, <2>2
<1>4. A = SUBSET S
  <2>1. A \in SUBSET SUBSET S OBVIOUS
  <2> HIDE DEF A
  <2>2. QED BY <1>3, <2>1, SubsetInduction
<1>5. PICK g : summing_small(S, w, N, g) BY <1>4
<1>6. small(S, N) = SUBSET S BY <1>1 DEF small
<1>7. QED BY <1>5, <1>6 DEF summing_small, summing

(* Whichever element is taken first, the sum is its weight and the sum of
   the others. *)
LEMMA AnyFirst ==
  ASSUME NEW S, IsFiniteSet(S), NEW w, \A x \in S : w[x] \in Nat,
         NEW g, summing(S, w, g)
  PROVE  /\ g[{}] = 0
         /\ \A s \in SUBSET S : g[s] \in Nat /\ \A x \in s : g[s] = w[x] + g[s \ {x}]
<1> DEFINE A == {s \in SUBSET S : g[s] \in Nat}
           B == {s \in SUBSET S : \A x \in s : g[s] = w[x] + g[s \ {x}]}
<1>1. \A s \in SUBSET S :
          g[s] = IF s = {} THEN 0 ELSE LET x == CHOOSE x \in s : TRUE IN w[x] + g[s \ {x}]
  BY DEF summing
<1>2. g[{}] = 0 BY <1>1
<1>3. ASSUME NEW s \in SUBSET S, s # {}
      PROVE  \E y \in s : g[s] = w[y] + g[s \ {y}]
  <2>1. (CHOOSE x \in s : TRUE) \in s BY <1>3, Chosen
  <2>2. QED BY <1>1, <1>3, <2>1
<1>4. A = SUBSET S
  <2>1. ASSUME NEW s \in SUBSET S, \A x \in s : s \ {x} \in A PROVE s \in A
    <3>1. CASE s = {}
      BY <1>2, <3>1
    <3>2. CASE s # {}
      <4>1. PICK y \in s : g[s] = w[y] + g[s \ {y}] BY <1>3, <3>2
      <4>2. w[y] \in Nat /\ g[s \ {y}] \in Nat BY <2>1
      <4>3. QED BY <4>1, <4>2
    <3>3. QED BY <3>1, <3>2
  <2>2. A \in SUBSET SUBSET S OBVIOUS
  <2> HIDE DEF A
  <2>3. QED BY <2>1, <2>2, SubsetInduction
<1>5. B = SUBSET S
  <2>1. ASSUME NEW s \in SUBSET S, \A x \in s : s \ {x} \in B, NEW x \in s
        PROVE  g[s] = w[x] + g[s \ {x}]
    <3>1. PICK y \in s : g[s] = w[y] + g[s \ {y}] BY <1>3
    <3>2. CASE x = y
      BY <3>1, <3>2
    <3>3. CASE x # y
      <4> DEFINE r == (s \ {y}) \ {x}
      <4>1. (s \ {x}) \ {y} = r /\ y \in s \ {x} /\ x \in s \ {y} /\ r \in SUBSET S
        BY <3>3
      <4>2. g[s \ {x}] = w[y] + g[r] BY <2>1, <4>1
      <4>3. g[s \ {y}] = w[x] + g[r] BY <2>1, <4>1
      <4>4. g[r] \in Nat BY <1>4, <4>1
      <4>5. w[x] \in Nat /\ w[y] \in Nat OBVIOUS
      <4> HIDE DEF r
      <4>6. QED BY <3>1, <4>2, <4>3, <4>4, <4>5
    <3>4. QED BY <3>2, <3>3
  <2>2. B \in SUBSET SUBSET S OBVIOUS
  <2>3. \A s \in SUBSET S : (\A x \in s : s \ {x} \in B) => s \in B BY <2>1
  <2> HIDE DEF B
  <2>4. QED BY <2>2, <2>3, SubsetInduction
<1>6. QED BY <1>2, <1>4, <1>5

(* Sums of weights that agree are equal, whatever sets they range over. *)
LEMMA SameSum ==
  ASSUME NEW S, IsFiniteSet(S), NEW w, \A x \in S : w[x] \in Nat,
         NEW T, IsFiniteSet(T), S \subseteq T, NEW v, \A x \in T : v[x] \in Nat,
         \A x \in S : w[x] = v[x],
         NEW g, summing(S, w, g), NEW h, summing(T, v, h)
  PROVE  \A s \in SUBSET S : g[s] = h[s]
<1> DEFINE A == {s \in SUBSET S : g[s] = h[s]}
<1>a. g[{}] = 0 /\ \A s \in SUBSET S : \A x \in s : g[s] = w[x] + g[s \ {x}]
  BY AnyFirst
<1>b. h[{}] = 0 /\ \A s \in SUBSET T : \A x \in s : h[s] = v[x] + h[s \ {x}]
  BY AnyFirst
<1>1. ASSUME NEW s \in SUBSET S, \A x \in s : s \ {x} \in A PROVE s \in A
  <2>1. CASE s = {}
    BY <2>1, <1>a, <1>b
  <2>2. CASE s # {}
    <3>1. PICK x \in s : TRUE BY <2>2
    <3>2. g[s] = w[x] + g[s \ {x}] BY <3>1, <1>a
    <3>3. s \in SUBSET T OBVIOUS
    <3>4. h[s] = v[x] + h[s \ {x}] BY <3>1, <3>3, <1>b
    <3>5. QED BY <1>1, <3>2, <3>4
  <2>3. QED BY <2>1, <2>2
<1>2. A \in SUBSET SUBSET S OBVIOUS
<1> HIDE DEF A
<1>3. A = SUBSET S BY <1>1, <1>2, SubsetInduction
<1>4. QED BY <1>3 DEF A

(* The sum of a function with one more place. *)
LEMMA OneMoreWeight ==
  ASSUME NEW S, IsFiniteSet(S), NEW w, \A x \in S : w[x] \in Nat, NEW k, k \notin S,
         NEW v, \A x \in S \cup {k} : v[x] \in Nat, \A x \in S : v[x] = w[x],
         NEW g, summing(S, w, g), NEW h, summing(S \cup {k}, v, h)
  PROVE  h[S \cup {k}] = g[S] + v[k] /\ g[S] \in Nat
<1> DEFINE T == S \cup {k}
<1>1. IsFiniteSet(T) BY FS_AddElement
<1>2. T \ {k} = S /\ S \subseteq T /\ k \in T OBVIOUS
<1> HIDE DEF T
<1>3. summing(T, v, h) /\ \A x \in T : v[x] \in Nat BY DEF T
<1>4. \A s \in SUBSET S : g[s] = h[s] BY <1>1, <1>2, <1>3, SameSum
<1>5. /\ h[{}] = 0
      /\ \A s \in SUBSET T : h[s] \in Nat /\ \A x \in s : h[s] = v[x] + h[s \ {x}]
  BY <1>1, <1>3, AnyFirst
<1>6. \A s \in SUBSET S : g[s] \in Nat BY AnyFirst
<1>7. h[T] = v[k] + g[S] /\ g[S] \in Nat /\ v[k] \in Nat
  BY <1>2, <1>3, <1>4, <1>5, <1>6
<1>8. QED BY <1>7 DEF T

(* The bytes of the sources and of the copies held. *)
SourceBytes(f) == MapThenSumSet(LAMBDA p : f[p].content.bytes, DOMAIN f)
ImageBytes(f)  == MapThenSumSet(LAMBDA k : f[k].bytes, DOMAIN f)

(* What MapThenSumSet makes of the sources is a sum in this sense. *)
LEMMA SourceSum ==
  ASSUME NEW f, IsFiniteSet(DOMAIN f), NEW w, \A p \in DOMAIN f : w[p] = f[p].content.bytes
  PROVE  \E g : summing(DOMAIN f, w, g) /\ SourceBytes(f) = g[DOMAIN f]
<1> DEFINE S == DOMAIN f
           is(g) == g = [s \in SUBSET S |->
                            IF s = {} THEN 0
                            ELSE LET x == CHOOSE x \in s : TRUE
                                 IN  f[x].content.bytes + g[s \ {x}]]
           it == CHOOSE g : is(g)
<1>1. \A g : is(g) <=> summing(S, w, g) BY DEF summing
<1>2. \E g : is(g)
  <2>1. \E g : summing(S, w, g) BY SumExists
  <2> HIDE DEF is, S
  <2>2. QED BY <1>1, <2>1
<1>3. SourceBytes(f) = it[S] BY DEF SourceBytes, MapThenSumSet, MapThenFoldSet
<1> HIDE DEF is
<1>4. is(it) BY <1>2
<1> HIDE DEF it
<1>5. QED BY <1>1, <1>3, <1>4

(* What MapThenSumSet makes of the images is a sum in this sense. *)
LEMMA ImageSum ==
  ASSUME NEW f, IsFiniteSet(DOMAIN f), NEW w, \A k \in DOMAIN f : w[k] = f[k].bytes
  PROVE  \E g : summing(DOMAIN f, w, g) /\ ImageBytes(f) = g[DOMAIN f]
<1> DEFINE S == DOMAIN f
           is(g) == g = [s \in SUBSET S |->
                            IF s = {} THEN 0
                            ELSE LET x == CHOOSE x \in s : TRUE
                                 IN  f[x].bytes + g[s \ {x}]]
           it == CHOOSE g : is(g)
<1>1. \A g : is(g) <=> summing(S, w, g) BY DEF summing
<1>2. \E g : is(g)
  <2>1. \E g : summing(S, w, g) BY SumExists
  <2> HIDE DEF is, S
  <2>2. QED BY <1>1, <2>1
<1>3. ImageBytes(f) = it[S] BY DEF ImageBytes, MapThenSumSet, MapThenFoldSet
<1> HIDE DEF is
<1>4. is(it) BY <1>2
<1> HIDE DEF it
<1>5. QED BY <1>1, <1>3, <1>4

(* An entry more counts its bytes more. *)
LEMMA SourceInserted ==
  ASSUME NEW f, IsFiniteSet(DOMAIN f), \A p \in DOMAIN f : f[p].content.bytes \in Nat,
         NEW k, k \notin DOMAIN f, NEW v, v.content.bytes \in Nat
  PROVE  /\ SourceBytes(emplace(f, k, v)) = SourceBytes(f) + v.content.bytes
         /\ SourceBytes(f) \in Nat
         /\ IsFiniteSet(DOMAIN emplace(f, k, v))
<1> DEFINE S == DOMAIN f
           e == emplace(f, k, v)
           w == [p \in S |-> f[p].content.bytes]
           u == [p \in S \cup {k} |-> e[p].content.bytes]
<1>1. DOMAIN e = S \cup {k} /\ e[k] = v /\ \A p \in S : e[p] = f[p]
  BY DEF emplace
<1>2. IsFiniteSet(DOMAIN e) BY <1>1, FS_AddElement
<1> HIDE DEF e
<1>3. PICK g : summing(S, w, g) /\ SourceBytes(f) = g[S] BY SourceSum
<1>4. PICK h : summing(S \cup {k}, u, h) /\ SourceBytes(e) = h[S \cup {k}]
  BY <1>1, <1>2, SourceSum
<1>5. /\ \A x \in S : w[x] \in Nat /\ u[x] = w[x]
      /\ \A x \in S \cup {k} : u[x] \in Nat
      /\ u[k] = v.content.bytes
  BY <1>1
<1> HIDE DEF w, u, S
<1>6. h[S \cup {k}] = g[S] + u[k] /\ g[S] \in Nat
  BY <1>3, <1>4, <1>5, OneMoreWeight DEF S
<1>7. QED BY <1>2, <1>3, <1>4, <1>5, <1>6 DEF e

(* The same for the images. *)
LEMMA ImageInserted ==
  ASSUME NEW f, IsFiniteSet(DOMAIN f), \A p \in DOMAIN f : f[p].bytes \in Nat,
         NEW k, k \notin DOMAIN f, NEW v, v.bytes \in Nat
  PROVE  /\ ImageBytes(emplace(f, k, v)) = ImageBytes(f) + v.bytes
         /\ ImageBytes(f) \in Nat
         /\ IsFiniteSet(DOMAIN emplace(f, k, v))
<1> DEFINE S == DOMAIN f
           e == emplace(f, k, v)
           w == [p \in S |-> f[p].bytes]
           u == [p \in S \cup {k} |-> e[p].bytes]
<1>1. DOMAIN e = S \cup {k} /\ e[k] = v /\ \A p \in S : e[p] = f[p]
  BY DEF emplace
<1>2. IsFiniteSet(DOMAIN e) BY <1>1, FS_AddElement
<1> HIDE DEF e
<1>3. PICK g : summing(S, w, g) /\ ImageBytes(f) = g[S] BY ImageSum
<1>4. PICK h : summing(S \cup {k}, u, h) /\ ImageBytes(e) = h[S \cup {k}]
  BY <1>1, <1>2, ImageSum
<1>5. /\ \A x \in S : w[x] \in Nat /\ u[x] = w[x]
      /\ \A x \in S \cup {k} : u[x] \in Nat
      /\ u[k] = v.bytes
  BY <1>1
<1> HIDE DEF w, u, S
<1>6. h[S \cup {k}] = g[S] + u[k] /\ g[S] \in Nat
  BY <1>3, <1>4, <1>5, OneMoreWeight DEF S
<1>7. QED BY <1>2, <1>3, <1>4, <1>5, <1>6 DEF e

------------------------------------------------------
(* The budget. What a load has decoded and not yet inserted fits beside
   what is resident; nothing is resident that is in neither map. *)
ResidentInv ==
    /\ IsFiniteSet(DOMAIN sources) /\ IsFiniteSet(DOMAIN images)
    /\ \A k \in DOMAIN images : images[k].bytes \in Nat
    /\ resident = SourceBytes(sources) + ImageBytes(images)
    /\ resident \in Nat /\ resident <= maximum_resident_pixel_bytes
    /\ load # Vacant /\ load.at = "convert" /\ load.fresh =>
          load.source.content.bytes <= maximum_resident_pixel_bytes - resident

(* The invariant gives the budget. *)
LEMMA ResidentFollows == ResidentInv => ResidentBytes
  BY DEF ResidentInv, ResidentBytes, SourceBytes, ImageBytes

(* A version has a number of bytes. *)
LEMMA VersionBytes == ASSUME NEW v \in Version PROVE v.content.bytes \in Nat
  BY HostImageCacheAssumption DEF Version, ContentType

(* The empty cache holds no bytes. *)
LEMMA NothingResident == Init => ResidentInv
<1> SUFFICES ASSUME Init PROVE ResidentInv
  OBVIOUS
<1>1. DOMAIN sources = {} /\ DOMAIN images = {} /\ resident = 0 /\ load = Vacant
  BY DEF Init
<1>2. IsFiniteSet(DOMAIN sources) /\ IsFiniteSet(DOMAIN images)
  BY <1>1, FS_EmptySet
<1>3. PICK g : summing({}, [p \in {} |-> 0], g) /\ SourceBytes(sources) = g[{}]
  BY <1>1, <1>2, SourceSum
<1>4. PICK h : summing({}, [p \in {} |-> 0], h) /\ ImageBytes(images) = h[{}]
  BY <1>1, <1>2, ImageSum
<1>5. g[{}] = 0 /\ h[{}] = 0 BY <1>3, <1>4 DEF summing
<1>6. QED BY <1>1, <1>2, <1>3, <1>4, <1>5, HostImageCacheAssumption DEF ResidentInv

(* A step that inserts nothing and decodes nothing. *)
LEMMA NothingMore ==
  ASSUME ResidentInv, UNCHANGED cache,
         \/ load' = load
         \/ load' = Vacant
         \/ load'.at = "convert" /\ load'.fresh =>
               load'.source.content.bytes <= maximum_resident_pixel_bytes - resident
  PROVE  ResidentInv'
<1>1. sources' = sources /\ images' = images /\ resident' = resident
  BY DEF cache
<1>2. QED BY <1>1 DEF ResidentInv

(* The step that inserts: the source decoded by this load, if any, and its
   own copy are counted with the entries they go into. *)
LEMMA ConvertBytes == ASSUME IInv, ResidentInv, convert_and_insert PROVE ResidentInv'
<1> DEFINE key == <<load.path, load.tag>>
           image == [version |-> load.source, bytes |-> additional_bytes]
<1>1. load # Vacant /\ load.at = "convert" /\ load \in Load
  BY DEF convert_and_insert, IInv, LoadInv
<1>2. load.source \in Version /\ load.source.content.bytes \in Nat
  BY <1>1, VersionBytes DEF IInv, LoadInv, Carried, SourceInv
<1>3. /\ \A p \in DOMAIN sources : sources[p].content.bytes \in Nat
      /\ IsFiniteSet(DOMAIN sources) /\ IsFiniteSet(DOMAIN images)
      /\ \A k \in DOMAIN images : images[k].bytes \in Nat
      /\ resident = SourceBytes(sources) + ImageBytes(images)
      /\ resident \in Nat /\ resident <= maximum_resident_pixel_bytes
      /\ load.fresh => load.source.content.bytes <= maximum_resident_pixel_bytes - resident
      /\ maximum_resident_pixel_bytes \in Nat
  BY <1>1, VersionBytes, HostImageCacheAssumption DEF IInv, SourceInv, ResidentInv
<1>4. /\ load.fresh \in BOOLEAN
      /\ load.fresh => load.path \notin DOMAIN sources
  BY <1>1 DEF Load, IInv, LoadInv
<1>5. additional_bytes \in Nat /\ source_bytes \in Nat
  BY <1>2, <1>4 DEF additional_bytes, source_bytes
<1>6. ASSUME sources' = insert_source
      PROVE  /\ IsFiniteSet(DOMAIN sources')
             /\ SourceBytes(sources') = SourceBytes(sources) + source_bytes
             /\ SourceBytes(sources) \in Nat
  <2>1. CASE load.fresh
    BY <1>2, <1>3, <1>4, <1>6, <2>1, SourceInserted DEF insert_source, source_bytes
  <2>2. CASE ~load.fresh
    <3>1. sources' = sources /\ source_bytes = 0
      BY <1>6, <2>2 DEF insert_source, source_bytes
    <3>2. PICK g : /\ summing(DOMAIN sources,
                             [p \in DOMAIN sources |-> sources[p].content.bytes], g)
                   /\ SourceBytes(sources) = g[DOMAIN sources]
      BY <1>3, SourceSum
    <3>3. SourceBytes(sources) \in Nat BY <1>3, <3>2, AnyFirst
    <3>4. QED BY <1>3, <3>1, <3>3
  <2>3. QED BY <1>4, <2>1, <2>2
<1>7. ImageBytes(images) \in Nat
  <2>1. PICK g : /\ summing(DOMAIN images, [k \in DOMAIN images |-> images[k].bytes], g)
                 /\ ImageBytes(images) = g[DOMAIN images]
    BY <1>3, ImageSum
  <2>2. QED BY <1>3, <2>1, AnyFirst
<1>8. resident + source_bytes <= maximum_resident_pixel_bytes
  BY <1>2, <1>3, <1>4 DEF source_bytes
<1>9. CASE refuse /\ UNCHANGED cache
  BY <1>9, NothingMore DEF refuse
<1>10. CASE /\ sources' = insert_source /\ resident' = resident + source_bytes
            /\ UNCHANGED images /\ refuse
  <2>1. load' = Vacant BY <1>10 DEF refuse
  <2>2. resident' = SourceBytes(sources') + ImageBytes(images) /\ resident' \in Nat
    BY <1>3, <1>5, <1>6, <1>7, <1>10
  <2>3. QED BY <1>3, <1>6, <1>8, <1>10, <2>1, <2>2 DEF ResidentInv
<1>11. CASE /\ convertible /\ sources' = insert_source
            /\ key \notin DOMAIN images
            /\ images' = emplace(images, key, image)
            /\ resident' = resident + source_bytes + additional_bytes
            /\ load' = Vacant
  <2>1. /\ ImageBytes(images') = ImageBytes(images) + additional_bytes
        /\ IsFiniteSet(DOMAIN images')
    BY <1>3, <1>5, <1>11, ImageInserted
  <2>2. \A k \in DOMAIN images' : images'[k].bytes \in Nat
    BY <1>3, <1>5, <1>11 DEF emplace
  <2>3. resident + source_bytes + additional_bytes <= maximum_resident_pixel_bytes
    BY <1>2, <1>3, <1>5, <1>8, <1>11 DEF convertible, converted_fits, additional_bytes
  <2>4. resident' = SourceBytes(sources') + ImageBytes(images') /\ resident' \in Nat
    BY <1>3, <1>5, <1>6, <1>7, <1>11, <2>1
  <2>5. QED BY <1>6, <1>11, <2>1, <2>2, <2>3, <2>4 DEF ResidentInv
<1>12. QED BY <1>9, <1>10, <1>11 DEF convert_and_insert

(* The budget (HostImageCache.cpp): between any two steps the bytes counted
   are those of the sources and copies held, and within the limit. *)
THEOREM SpecResidentBytes == Spec => []ResidentBytes
<1>1. ASSUME IInv, ResidentInv, [Next]_vars PROVE ResidentInv'
  <2>1. CASE UNCHANGED vars
    BY <1>1, <2>1, NothingMore DEF vars, cache
  <2>2. CASE Files
    BY <1>1, <2>2, NothingMore DEF Files, write_file, remove_file, link_file, change, cache
  <2>3. ASSUME NEW p \in Paths, NEW tag \in TextureColorSpace, begin_load(p, tag)
        PROVE  ResidentInv'
    BY <1>1, <2>3, NothingMore DEF begin_load, answer, loading
  <2>4. CASE canonicalize
    BY <1>1, <2>4, NothingMore DEF canonicalize, refuse, loading
  <2>5. CASE lookup
    BY <1>1, <2>5, NothingMore DEF lookup, answer, refuse, loading
  <2>6. CASE decode
    BY <1>1, <2>6, NothingMore DEF decode, refuse, loading
  <2>7. CASE convert_and_insert
    BY <1>1, <2>7, ConvertBytes
  <2>8. QED BY <1>1, <2>1, <2>2, <2>3, <2>4, <2>5, <2>6, <2>7 DEF Next, Loads
<1>2. QED BY <1>1, NothingResident, ResidentFollows, SpecIInv, PTL DEF Spec

(* A set of numbers that is not empty has a least. *)
LEMMA LeastElement ==
  ASSUME NEW A \in SUBSET Nat, A # {}
  PROVE  \E n \in A : \A m \in A : n <= m
<1>1. IsWellFoundedOn(Before, Nat) BY NatLessThanWellFounded DEF OpToRel, Before
<1>2. PICK n \in A : \A m \in A : <<m, n>> \notin Before BY <1>1, WFMin
<1>3. \A m \in A : m \in Nat /\ n \in Nat /\ (<<m, n>> \in Before <=> m < n)
  BY DEF Before
<1>4. \A m \in A : n <= m
  <2> TAKE m \in A
  <2>1. m \in Nat /\ n \in Nat /\ ~(m < n) BY <1>2, <1>3
  <2>2. QED BY <2>1
<1>5. QED BY <1>4

(* A set of numbers that holds n if it holds all below n is Nat. *)
LEMMA AllBelow ==
  ASSUME NEW A \in SUBSET Nat, \A n \in Nat : (\A m \in Nat : m < n => m \in A) => n \in A
  PROVE  A = Nat
<1>1. SUFFICES ASSUME Nat \ A # {} PROVE FALSE
  OBVIOUS
<1>2. PICK n \in Nat \ A : \A m \in Nat \ A : n <= m BY <1>1, LeastElement
<1>3. \A m \in Nat : m < n => m \in A
  <2> SUFFICES ASSUME NEW m \in Nat, m < n, m \notin A PROVE FALSE
    OBVIOUS
  <2>1. n <= m /\ n \in Nat BY <1>2
  <2>2. QED BY <2>1
<1>4. QED BY <1>2, <1>3

------------------------------------------------------
(* A sequence, of whatever it holds. *)
isSeq(s) == s \in Seq(Range(s))

(* What a sequence of elements of S is. *)
LEMMA SeqShape ==
  ASSUME NEW S, NEW s \in Seq(S)
  PROVE  /\ isSeq(s) /\ Len(s) \in Nat /\ DOMAIN s = 1 .. Len(s)
         /\ \A i \in 1 .. Len(s) : s[i] \in S
         /\ Range(s) \subseteq S
<1>1. /\ Len(s) \in Nat /\ DOMAIN s = 1 .. Len(s)
      /\ \A i \in 1 .. Len(s) : s[i] \in S
      /\ s = [i \in 1 .. Len(s) |-> s[i]]
  BY LenProperties, ElementOfSeq
<1>2. \A i \in 1 .. Len(s) : s[i] \in Range(s) BY <1>1 DEF Range
<1>3. s \in [1 .. Len(s) -> Range(s)] BY <1>1, <1>2
<1>4. s \in Seq(Range(s)) BY <1>1, <1>3, SeqDef
<1>5. QED BY <1>1, <1>4 DEF isSeq, Range

(* A sequence as a function. *)
LEMMA IsSeqShape ==
  ASSUME NEW s, isSeq(s)
  PROVE  /\ Len(s) \in Nat /\ DOMAIN s = 1 .. Len(s)
         /\ \A i \in 1 .. Len(s) : s[i] \in Range(s)
         /\ s = [i \in 1 .. Len(s) |-> s[i]]
  BY SeqShape, LenProperties DEF isSeq

(* A function of 1 .. n is a sequence of length n. *)
LEMMA Made ==
  ASSUME NEW n \in Nat, NEW s, DOMAIN s = 1 .. n, s = [i \in 1 .. n |-> s[i]]
  PROVE  isSeq(s) /\ Len(s) = n
<1>1. \A i \in 1 .. n : s[i] \in Range(s) BY DEF Range
<1>2. s \in [1 .. n -> Range(s)] /\ s \in Seq(Range(s)) BY <1>1, SeqDef
<1>3. Len(s) = n BY <1>2, LenProperties
<1>4. QED BY <1>2, <1>3 DEF isSeq

(* A concatenation. *)
LEMMA Joined ==
  ASSUME NEW s, NEW t, isSeq(s), isSeq(t)
  PROVE  /\ isSeq(s \o t) /\ Len(s \o t) = Len(s) + Len(t)
         /\ \A i \in 1 .. Len(s) : (s \o t)[i] = s[i]
         /\ \A i \in 1 .. Len(t) : (s \o t)[Len(s) + i] = t[i]
         /\ Range(s \o t) = Range(s) \cup Range(t)
<1> DEFINE S == Range(s) \cup Range(t)
           u == s \o t
<1>1. s \in Seq(S) /\ t \in Seq(S) BY SeqMonotonic DEF isSeq
<1>2. /\ u \in Seq(S) /\ Len(u) = Len(s) + Len(t)
      /\ \A i \in 1 .. Len(s) + Len(t) : u[i] = IF i <= Len(s) THEN s[i] ELSE t[i - Len(s)]
  BY <1>1, ConcatProperties
<1>3. isSeq(u) /\ DOMAIN u = 1 .. Len(s) + Len(t)
  BY <1>2, SeqShape, LenProperties
<1>4. Len(s) \in Nat /\ Len(t) \in Nat /\ DOMAIN s = 1 .. Len(s) /\ DOMAIN t = 1 .. Len(t)
  BY IsSeqShape
<1> HIDE DEF u
<1>5. /\ \A i \in 1 .. Len(s) : u[i] = s[i]
      /\ \A i \in 1 .. Len(t) : u[Len(s) + i] = t[i]
  BY <1>2, <1>4
<1>6. Range(u) = Range(s) \cup Range(t)
  <2>1. ASSUME NEW x \in Range(u) PROVE x \in Range(s) \cup Range(t)
    <3>1. PICK i \in 1 .. Len(s) + Len(t) : x = u[i] BY <1>3 DEF Range
    <3>2. CASE i <= Len(s)
      BY <1>4, <1>5, <3>1, <3>2 DEF Range
    <3>3. CASE ~(i <= Len(s))
      <4>1. i - Len(s) \in 1 .. Len(t) BY <1>4, <3>3
      <4>2. QED BY <1>2, <1>4, <3>1, <3>3, <4>1 DEF Range
    <3>4. QED BY <3>2, <3>3
  <2>2. ASSUME NEW x \in Range(s) PROVE x \in Range(u)
    <3>1. PICK i \in 1 .. Len(s) : x = s[i] BY <1>4 DEF Range
    <3>2. u[i] = x /\ i \in DOMAIN u BY <1>3, <1>4, <1>5, <3>1
    <3>3. QED BY <3>2 DEF Range
  <2>3. ASSUME NEW x \in Range(t) PROVE x \in Range(u)
    <3>1. PICK i \in 1 .. Len(t) : x = t[i] BY <1>4 DEF Range
    <3>2. u[Len(s) + i] = x /\ Len(s) + i \in DOMAIN u BY <1>3, <1>4, <1>5, <3>1
    <3>3. QED BY <3>2 DEF Range
  <2>4. QED BY <2>1, <2>2, <2>3
<1>7. QED BY <1>2, <1>3, <1>5, <1>6 DEF u

(* A sequence of one. *)
LEMMA Single ==
  ASSUME NEW x
  PROVE  isSeq(<< x >>) /\ Len(<< x >>) = 1 /\ << x >>[1] = x /\ Range(<< x >>) = {x}
<1>1. << x >> \in Seq({x}) /\ Len(<< x >>) = 1 OBVIOUS
<1>2. isSeq(<< x >>) /\ DOMAIN << x >> = 1 .. 1
  <2> DEFINE t == << x >>
  <2>1. t \in Seq({x}) /\ Len(t) = 1 BY <1>1
  <2> HIDE DEF t
  <2>2. isSeq(t) /\ DOMAIN t = 1 .. 1 BY <2>1, SeqShape
  <2>3. QED BY <2>2 DEF t
<1>3. QED BY <1>2 DEF Range

(* The empty sequence. *)
LEMMA NoElement == isSeq(<< >>) /\ Len(<< >>) = 0 /\ Range(<< >>) = {} /\ DOMAIN << >> = {}
<1>1. << >> \in Seq({}) OBVIOUS
<1>2. isSeq(<< >>) BY <1>1, SeqShape
<1>3. QED BY <1>2 DEF Range

(* A part of a sequence. *)
LEMMA Part ==
  ASSUME NEW S, NEW s \in Seq(S), NEW m \in Nat \ {0}, NEW n \in Nat, n <= Len(s), m <= n + 1
  PROVE  /\ SubSeq(s, m, n) \in Seq(S) /\ Len(SubSeq(s, m, n)) = n - m + 1
         /\ \A i \in 1 .. n - m + 1 : SubSeq(s, m, n)[i] = s[m + i - 1]
<1>1. \A i \in m .. n : s[i] \in S BY SeqShape
<1>2. /\ SubSeq(s, m, n) \in Seq(S)
      /\ Len(SubSeq(s, m, n)) = IF m <= n THEN n - m + 1 ELSE 0
      /\ \A i \in 1 .. n - m + 1 : SubSeq(s, m, n)[i] = s[m + i - 1]
  BY <1>1, SubSeqProperties
<1>3. QED BY <1>2

------------------------------------------------------
(* The rank of an element in a strict total order is the number of elements
   before it: each rank is taken once. *)
rank_in(R, n) == [i \in 1 .. n |-> Cardinality({j \in 1 .. n : <<j, i>> \in R})]

(* R orders 1 .. n strictly and totally. *)
StrictOrder(R, n) ==
    /\ R \in SUBSET ((1 .. n) \X (1 .. n))
    /\ \A i \in 1 .. n : <<i, i>> \notin R
    /\ \A i, j, k \in 1 .. n : <<i, j>> \in R /\ <<j, k>> \in R => <<i, k>> \in R
    /\ \A i, j \in 1 .. n : i # j => <<i, j>> \in R \/ <<j, i>> \in R

(* A rank for each, increasing along R, and every rank taken once. *)
RanksOf(rank, R, n) ==
    /\ rank \in [1 .. n -> 0 .. n - 1]
    /\ \A i, j \in 1 .. n : <<j, i>> \in R => rank[j] < rank[i]
    /\ \A k \in 0 .. n - 1 : \E i \in 1 .. n : rank[i] = k
    /\ \A i, j \in 1 .. n : rank[i] = rank[j] => i = j

(* A strict total order gives each of 1 .. n a rank of its own. *)
LEMMA Ranked ==
  ASSUME NEW n \in Nat, NEW R, StrictOrder(R, n)
  PROVE  RanksOf(rank_in(R, n), R, n)
<1> SUFFICES ASSUME NEW rank, rank = rank_in(R, n) PROVE RanksOf(rank, R, n)
  OBVIOUS
<1> DEFINE under(i) == {j \in 1 .. n : <<j, i>> \in R}
<1>1. IsFiniteSet(1 .. n) /\ Cardinality(1 .. n) = n BY FS_Interval
<1>2. \A i \in 1 .. n : /\ IsFiniteSet(under(i)) /\ Cardinality(under(i)) \in Nat
                        /\ Cardinality(under(i)) < n
  <2> TAKE i \in 1 .. n
  <2>1. under(i) \in SUBSET (1 .. n) /\ under(i) # 1 .. n BY DEF StrictOrder
  <2> HIDE DEF under
  <2>2. QED BY <1>1, <2>1, FS_Subset, FS_CardinalityType
<1>3. \A i, j \in 1 .. n : <<j, i>> \in R => Cardinality(under(j)) < Cardinality(under(i))
  <2> TAKE i, j \in 1 .. n
  <2> HAVE <<j, i>> \in R
  <2>1. under(j) \in SUBSET under(i) /\ j \in under(i) /\ j \notin under(j)
    BY DEF StrictOrder
  <2>2. IsFiniteSet(under(i)) BY <1>2
  <2>3. Cardinality(under(j)) \in Nat /\ Cardinality(under(i)) \in Nat BY <1>2
  <2> HIDE DEF under
  <2>4. under(j) # under(i) BY <2>1
  <2>5. QED BY <2>1, <2>2, <2>3, <2>4, FS_Subset
<1>4. \A i \in 1 .. n : rank[i] = Cardinality(under(i)) BY DEF rank_in
<1>5. rank \in [1 .. n -> 0 .. n - 1]
  <2>1. \A i \in 1 .. n : Cardinality(under(i)) \in 0 .. n - 1
    <3> TAKE i \in 1 .. n
    <3>1. Cardinality(under(i)) \in Nat /\ Cardinality(under(i)) < n BY <1>2
    <3> HIDE DEF under
    <3>2. QED BY <3>1
  <2>2. rank = [i \in 1 .. n |-> rank[i]] BY DEF rank_in
  <2> HIDE DEF under
  <2>3. QED BY <1>4, <2>1, <2>2
<1>6. \A i, j \in 1 .. n : <<j, i>> \in R => rank[j] < rank[i] BY <1>3, <1>4
<1> HIDE DEF under
<1>7. \A i, j \in 1 .. n : rank[i] = rank[j] => i = j
  <2> TAKE i, j \in 1 .. n
  <2> HAVE rank[i] = rank[j]
  <2>1. rank[i] \in Int /\ rank[j] \in Int BY <1>5
  <2>2. <<i, j>> \notin R /\ <<j, i>> \notin R BY <1>6, <2>1
  <2>3. QED BY <2>2 DEF StrictOrder
<1>8. rank \in Injection(1 .. n, 0 .. n - 1)
  BY <1>5, <1>7 DEF Injection, IsInjective
<1>9. IsFiniteSet(0 .. n - 1) /\ Cardinality(0 .. n - 1) = n BY FS_Interval
<1>10. rank \in Surjection(1 .. n, 0 .. n - 1) BY <1>1, <1>8, <1>9, FS_Injection
<1>11. \A k \in 0 .. n - 1 : \E i \in 1 .. n : rank[i] = k
  BY <1>10 DEF Surjection
<1>12. QED BY <1>5, <1>6, <1>7, <1>11 DEF RanksOf

(* The elements by increasing rank, a permutation. *)
by_rank(rank, n) == [k \in 1 .. n |-> CHOOSE i \in 1 .. n : rank[i] = k - 1]

(* p lists 1 .. n in the order R. *)
InOrder(p, R, n) ==
    /\ p \in [1 .. n -> 1 .. n]
    /\ \A k, l \in 1 .. n : p[k] = p[l] => k = l
    /\ \A k, l \in 1 .. n : k < l => <<p[k], p[l]>> \in R
    /\ \A i \in 1 .. n : \E k \in 1 .. n : p[k] = i

(* It lists 1 .. n, each once. *)
LEMMA ByRank ==
  ASSUME NEW n \in Nat, NEW R, StrictOrder(R, n)
  PROVE  InOrder(by_rank(rank_in(R, n), n), R, n)
<1> SUFFICES ASSUME NEW rank, rank = rank_in(R, n), NEW p, p = by_rank(rank, n)
             PROVE  InOrder(p, R, n)
  OBVIOUS
<1>1. /\ rank \in [1 .. n -> 0 .. n - 1]
      /\ \A i, j \in 1 .. n : <<j, i>> \in R => rank[j] < rank[i]
      /\ \A k \in 0 .. n - 1 : \E i \in 1 .. n : rank[i] = k
      /\ \A i, j \in 1 .. n : rank[i] = rank[j] => i = j
  <2>1. RanksOf(rank, R, n) BY Ranked
  <2>2. QED BY <2>1 DEF RanksOf
<1>2. \A k \in 1 .. n : p[k] \in 1 .. n /\ rank[p[k]] = k - 1
  <2> TAKE k \in 1 .. n
  <2>1. k - 1 \in 0 .. n - 1 OBVIOUS
  <2>2. \E i \in 1 .. n : rank[i] = k - 1 BY <1>1, <2>1
  <2>3. p[k] = CHOOSE i \in 1 .. n : rank[i] = k - 1 BY DEF by_rank
  <2>4. QED BY <2>2, <2>3
<1>3. p \in [1 .. n -> 1 .. n]
  <2>1. p = [k \in 1 .. n |-> p[k]] BY DEF by_rank
  <2>2. QED BY <1>2, <2>1
<1>4. \A k, l \in 1 .. n : p[k] = p[l] => k = l
  <2> TAKE k, l \in 1 .. n
  <2>1. rank[p[k]] = k - 1 /\ rank[p[l]] = l - 1 BY <1>2
  <2>2. QED BY <2>1
<1>5. \A k, l \in 1 .. n : k < l => <<p[k], p[l]>> \in R
  <2> TAKE k, l \in 1 .. n
  <2> HAVE k < l
  <2>1. rank[p[k]] = k - 1 /\ rank[p[l]] = l - 1 /\ p[k] \in 1 .. n /\ p[l] \in 1 .. n
    BY <1>2
  <2>2. p[k] # p[l] BY <1>4
  <2>3. <<p[l], p[k]>> \notin R
    <3>1. ~(rank[p[l]] < rank[p[k]]) BY <2>1
    <3>2. QED BY <1>1, <2>1, <3>1
  <2>4. QED BY <2>1, <2>2, <2>3 DEF StrictOrder
<1>6. \A i \in 1 .. n : \E k \in 1 .. n : p[k] = i
  <2> TAKE i \in 1 .. n
  <2>1. rank[i] \in 0 .. n - 1 /\ rank[i] + 1 \in 1 .. n /\ (rank[i] + 1) - 1 = rank[i]
    BY <1>1
  <2>2. rank[p[rank[i] + 1]] = rank[i] /\ p[rank[i] + 1] \in 1 .. n
    BY <1>2, <2>1
  <2>3. p[rank[i] + 1] = i BY <1>1, <2>2
  <2>4. QED BY <2>1, <2>3
<1>7. QED BY <1>3, <1>4, <1>5, <1>6 DEF InOrder

------------------------------------------------------
(* Registries. *)
Identified(s) == isSeq(s) /\ \A i \in 1 .. Len(s) : s[i].id \in Nat

(* By increasing identifier. *)
Ordered(s) ==
    /\ Identified(s)
    /\ \A i, j \in 1 .. Len(s) : i < j => s[i].id <= s[j].id

(* By increasing identifier, each once. *)
Increasing(s) ==
    /\ Identified(s)
    /\ \A i, j \in 1 .. Len(s) : i < j => s[i].id < s[j].id

(* The identifiers in a registry. *)
ids(s) == {r.id : r \in Range(s)}

(* The records of a registry are those at its places. *)
LEMMA IdsListed ==
  ASSUME NEW s, isSeq(s)
  PROVE  /\ Range(s) = {s[i] : i \in 1 .. Len(s)}
         /\ ids(s) = {s[i].id : i \in 1 .. Len(s)}
<1>1. DOMAIN s = 1 .. Len(s) BY IsSeqShape
<1>2. QED BY <1>1 DEF ids, Range

(* The order of records that may share an identifier. *)
LEMMA IdentifiersOrder ==
  ASSUME NEW s, Identified(s), NEW n, n = Len(s),
         NEW R, R = {pair \in (1 .. n) \X (1 .. n) :
                       \/ s[pair[1]].id < s[pair[2]].id
                       \/ s[pair[1]].id = s[pair[2]].id /\ pair[1] < pair[2]}
  PROVE  StrictOrder(R, n)
<1> DEFINE key(i) == s[i].id
<1>0. n \in Nat /\ \A i \in 1 .. n : key(i) \in Nat BY IsSeqShape DEF Identified
<1>1. \A i, j \in 1 .. n :
         <<i, j>> \in R <=> key(i) < key(j) \/ (key(i) = key(j) /\ i < j)
  OBVIOUS
<1>2. R \in SUBSET ((1 .. n) \X (1 .. n)) OBVIOUS
<1> HIDE DEF key
<1>3. \A i \in 1 .. n : <<i, i>> \notin R BY <1>0, <1>1
<1>4. \A i, j, k \in 1 .. n : <<i, j>> \in R /\ <<j, k>> \in R => <<i, k>> \in R
  BY <1>0, <1>1
<1>5. \A i, j \in 1 .. n : i # j => <<i, j>> \in R \/ <<j, i>> \in R
  BY <1>0, <1>1
<1>6. QED BY <1>2, <1>3, <1>4, <1>5 DEF StrictOrder

(* Sorting rearranges the records by identifier. *)
LEMMA SortsRecords ==
  ASSUME NEW records, Identified(records), NEW n, n = Len(records),
         NEW s, s = sort_by_identifier(records)
  PROVE  /\ Ordered(s) /\ Len(s) = n /\ Range(s) = Range(records)
         /\ \E p \in [1 .. n -> 1 .. n] :
              /\ \A k \in 1 .. n : s[k] = records[p[k]]
              /\ \A k, l \in 1 .. n : p[k] = p[l] => k = l
              /\ \A i \in 1 .. n : \E k \in 1 .. n : p[k] = i
<1> DEFINE R == {pair \in (1 .. n) \X (1 .. n) :
                   \/ records[pair[1]].id < records[pair[2]].id
                   \/ records[pair[1]].id = records[pair[2]].id /\ pair[1] < pair[2]}
           rank == rank_in(R, n)
           p == by_rank(rank, n)
           before(i) == {j \in DOMAIN records :
                           \/ records[j].id < records[i].id
                           \/ records[j].id = records[i].id /\ j < i}
<1>1. n \in Nat /\ DOMAIN records = 1 .. n /\ \A i \in 1 .. n : records[i].id \in Nat
  BY IsSeqShape DEF Identified
<1>2. StrictOrder(R, n) BY IdentifiersOrder
<1>3. \A i \in 1 .. n : rank[i] = Cardinality(before(i))
  <2> TAKE i \in 1 .. n
  <2>1. {j \in 1 .. n : <<j, i>> \in R} = before(i) BY <1>1
  <2> HIDE DEF before, R
  <2>2. QED BY <2>1 DEF rank_in
<1>4. s = [k \in DOMAIN records |->
             records[CHOOSE i \in DOMAIN records : Cardinality(before(i)) = k - 1]]
  BY DEF sort_by_identifier
<1> HIDE DEF before, R
<1>5. \A k \in 1 .. n :
         p[k] = CHOOSE i \in DOMAIN records : Cardinality(before(i)) = k - 1
  <2> TAKE k \in 1 .. n
  <2>1. p[k] = CHOOSE i \in 1 .. n : rank[i] = k - 1 BY DEF by_rank
  <2>2. \A i : (i \in 1 .. n /\ rank[i] = k - 1)
                 <=> (i \in DOMAIN records /\ Cardinality(before(i)) = k - 1)
    BY <1>1, <1>3
  <2> HIDE DEF p, rank
  <2>3. QED BY <2>1, <2>2
<1>6. /\ p \in [1 .. n -> 1 .. n]
      /\ \A k, l \in 1 .. n : p[k] = p[l] => k = l
      /\ \A k, l \in 1 .. n : k < l => <<p[k], p[l]>> \in R
      /\ \A i \in 1 .. n : \E k \in 1 .. n : p[k] = i
  <2>1. InOrder(p, R, n) BY <1>1, <1>2, ByRank
  <2> HIDE DEF p, rank
  <2>2. QED BY <2>1 DEF InOrder
<1> HIDE DEF p, rank
<1>7. s = [k \in 1 .. n |-> s[k]] /\ DOMAIN s = 1 .. n BY <1>1, <1>4
<1>8. \A k \in 1 .. n : s[k] = records[p[k]] BY <1>1, <1>4, <1>5
<1>9. isSeq(s) /\ Len(s) = n BY <1>1, <1>7, Made
<1>10. Range(s) = Range(records)
  <2>1. Range(s) = {s[k] : k \in 1 .. n} /\ Range(records) = {records[i] : i \in 1 .. n}
    BY <1>1, <1>7 DEF Range
  <2>2. ASSUME NEW x \in Range(s) PROVE x \in Range(records)
    <3>1. PICK k \in 1 .. n : x = s[k] BY <2>1
    <3>2. p[k] \in 1 .. n /\ x = records[p[k]] BY <1>6, <1>8, <3>1
    <3>3. QED BY <2>1, <3>2
  <2>3. ASSUME NEW x \in Range(records) PROVE x \in Range(s)
    <3>1. PICK i \in 1 .. n : x = records[i] BY <2>1
    <3>2. PICK k \in 1 .. n : p[k] = i BY <1>6
    <3>3. x = s[k] BY <1>8, <3>1, <3>2
    <3>4. QED BY <2>1, <3>3
  <2>4. QED BY <2>2, <2>3
<1>11. Ordered(s)
  <2>1. \A k \in 1 .. n : s[k].id \in Nat BY SMTT(20), <1>1, <1>6, <1>8
  <2>2. \A k, l \in 1 .. n : k < l => s[k].id <= s[l].id
    <3> TAKE k, l \in 1 .. n
    <3> HAVE k < l
    <3>1. p[k] \in 1 .. n /\ p[l] \in 1 .. n /\ <<p[k], p[l]>> \in R BY <1>6
    <3>2. records[p[k]].id < records[p[l]].id \/ records[p[k]].id = records[p[l]].id
      BY <3>1 DEF R
    <3>3. records[p[k]].id \in Nat /\ records[p[l]].id \in Nat BY <1>1, <3>1
    <3>4. QED BY <1>8, <3>2, <3>3
  <2>3. QED BY <1>9, <2>1, <2>2 DEF Ordered, Identified
<1>12. QED BY <1>6, <1>8, <1>9, <1>10, <1>11

(* As many identifiers as records: no two share one. *)
LEMMA Distinct ==
  ASSUME NEW s, Identified(s)
  PROVE  Cardinality(ids(s)) = Len(s) <=> \A i, j \in 1 .. Len(s) : s[i].id = s[j].id => i = j
<1> DEFINE n == Len(s)
           f == [k \in 1 .. n |-> s[k].id]
<1>1. n \in Nat BY IsSeqShape DEF Identified
<1>2. ids(s) = {s[i].id : i \in 1 .. n} BY IdsListed DEF Identified
<1>3. f \in Surjection(1 .. n, ids(s)) BY <1>2 DEF Surjection
<1>4. IsFiniteSet(1 .. n) /\ Cardinality(1 .. n) = n
  <2> HIDE DEF n
  <2>1. QED BY <1>1, FS_Interval
<1>5. Cardinality(ids(s)) = n <=> f \in Injection(1 .. n, ids(s))
  <2> HIDE DEF n, f
  <2>1. Cardinality(ids(s)) = Cardinality(1 .. n) <=> f \in Injection(1 .. n, ids(s))
    BY <1>3, <1>4, FS_Surjection
  <2>2. QED BY <1>4, <2>1
<1>6. f \in Injection(1 .. n, ids(s)) <=> \A i, j \in 1 .. n : s[i].id = s[j].id => i = j
  BY <1>2 DEF Injection, IsInjective
<1> HIDE DEF f
<1>7. QED BY <1>5, <1>6

(* No two neighbours share an identifier exactly if no two records do. *)
LEMMA Unrepeated ==
  ASSUME NEW s, Ordered(s)
  PROVE  /\ no_duplicates(s) <=> Cardinality(ids(s)) = Len(s)
         /\ no_duplicates(s) <=> Increasing(s)
<1> DEFINE n == Len(s)
<1>1. n \in Nat /\ \A i \in 1 .. n : s[i].id \in Nat
  BY IsSeqShape DEF Ordered, Identified
<1>2. \A i, j \in 1 .. n : i < j => s[i].id <= s[j].id BY DEF Ordered
<1>3. no_duplicates(s) <=> \A i \in 1 .. n - 1 : s[i].id # s[i + 1].id
  BY DEF no_duplicates
<1>4. Cardinality(ids(s)) = n <=> \A i, j \in 1 .. n : s[i].id = s[j].id => i = j
  BY Distinct DEF Ordered
<1>9. Increasing(s) <=> \A i, j \in 1 .. n : i < j => s[i].id < s[j].id
  BY DEF Increasing, Ordered
<1> HIDE DEF n
<1>10. ASSUME \A i \in 1 .. n - 1 : s[i].id # s[i + 1].id,
              NEW i \in 1 .. n, NEW j \in 1 .. n, i < j
       PROVE  s[i].id < s[j].id
  <2>1. j - 1 \in 1 .. n - 1 /\ j - 1 \in 1 .. n /\ (j - 1) + 1 = j /\ (i < j - 1 \/ i = j - 1)
    BY <1>1, <1>10
  <2>2. s[j - 1].id # s[j].id BY <1>10, <2>1
  <2>3. s[j - 1].id <= s[j].id BY <1>1, <1>2, <2>1
  <2>4. s[i].id <= s[j - 1].id BY <1>1, <1>2, <2>1
  <2>5. s[i].id \in Nat /\ s[j].id \in Nat /\ s[j - 1].id \in Nat BY <1>1, <2>1
  <2>6. QED BY <2>2, <2>3, <2>4, <2>5
<1>11. ASSUME \A i, j \in 1 .. n : i < j => s[i].id < s[j].id,
              NEW i \in 1 .. n, NEW j \in 1 .. n, s[i].id = s[j].id
       PROVE  i = j
  <2>1. s[i].id \in Nat /\ s[j].id \in Nat BY <1>1
  <2>2. ~(i < j) /\ ~(j < i) BY <1>11, <2>1
  <2>3. QED BY <1>1, <2>2
<1>12. ASSUME \A i, j \in 1 .. n : s[i].id = s[j].id => i = j, NEW i \in 1 .. n - 1
       PROVE  s[i].id # s[i + 1].id
  <2>1. i \in 1 .. n /\ i + 1 \in 1 .. n /\ i # i + 1 BY <1>1
  <2>2. QED BY <1>12, <2>1
<1>13. QED BY <1>3, <1>4, <1>9, <1>10, <1>11, <1>12 DEF n

(* The least of some positions. *)
LEMMA FirstOne ==
  ASSUME NEW I \in SUBSET Nat, I # {}
  PROVE  Min(I) \in I /\ \A i \in I : Min(I) <= i
<1>1. \E m \in I : \A i \in I : m <= i BY LeastElement
<1>2. QED BY <1>1 DEF Min

(* The first refusal is that of a check, and there is one unless all pass. *)
LEMMA FirstRefusal ==
  ASSUME NEW q, isSeq(q)
  PROVE  /\ first_refusal(q) = "ok" <=> \A i \in 1 .. Len(q) : q[i] = "ok"
         /\ first_refusal(q) # "ok" => \E i \in 1 .. Len(q) : q[i] = first_refusal(q)
<1> DEFINE I == {i \in 1 .. Len(q) : q[i] # "ok"}
           b == IF I # {} THEN Min(I) ELSE 0
<1>1. first_refusal(q) = IF b = 0 THEN "ok" ELSE q[b]
  BY DEF first_refusal, SelectInSeq
<1>2. Len(q) \in Nat BY IsSeqShape
<1>3. I # {} => b \in I
  <2>1. I \in SUBSET Nat BY <1>2
  <2> HIDE DEF I
  <2>2. QED BY <2>1, FirstOne
<1>4. I = {} => b = 0 OBVIOUS
<1> HIDE DEF b
<1>5. QED BY <1>1, <1>2, <1>3, <1>4

(* Where the first of four checks refuses, nothing else matters. *)
LEMMA FirstDecides ==
  ASSUME NEW v, NEW w, NEW x, NEW y, v # "ok"
  PROVE  first_refusal(<<v, w, x, y>>) = v
<1> DEFINE q == <<v, w, x, y>>
           I == {i \in 1 .. Len(q) : q[i] # "ok"}
<1>1. Len(q) = 4 /\ q[1] = v OBVIOUS
<1>2. first_refusal(q) = LET b == IF I # {} THEN Min(I) ELSE 0 IN IF b = 0 THEN "ok" ELSE q[b]
  BY DEF first_refusal, SelectInSeq
<1> HIDE DEF q
<1>3. 1 \in I /\ \A i \in I : i \in Nat /\ 1 <= i BY <1>1
<1>4. I \in SUBSET Nat BY <1>1
<1> HIDE DEF I
<1>5. Min(I) \in I /\ \A i \in I : Min(I) <= i BY <1>3, <1>4, FirstOne
<1>6. Min(I) = 1 BY <1>3, <1>5
<1>7. QED BY <1>1, <1>2, <1>3, <1>6 DEF q

(* The same of four checks. *)
LEMMA FourChecks ==
  ASSUME NEW v, NEW w, NEW x, NEW y, NEW r, r = first_refusal(<<v, w, x, y>>)
  PROVE  /\ r = "ok" <=> v = "ok" /\ w = "ok" /\ x = "ok" /\ y = "ok"
         /\ r # "ok" => r \in {v, w, x, y}
<1> DEFINE q == <<v, w, x, y>>
<1>1. q \in Seq({v, w, x, y}) /\ Len(q) = 4 OBVIOUS
<1>2. q[1] = v /\ q[2] = w /\ q[3] = x /\ q[4] = y OBVIOUS
<1> HIDE DEF q
<1>3. isSeq(q) BY <1>1, SeqShape
<1>4. \A i \in 1 .. Len(q) : i \in {1, 2, 3, 4} BY <1>1
<1>5. {1, 2, 3, 4} \subseteq 1 .. Len(q) BY <1>1
<1>6. QED BY <1>2, <1>3, <1>4, <1>5, FirstRefusal DEF q

(* The statuses of the records of a registry. *)
LEMMA StatusesSaid ==
  ASSUME NEW s, isSeq(s), NEW q, q = [i \in DOMAIN s |-> q[i]], DOMAIN q = DOMAIN s
  PROVE  /\ first_refusal(q) = "ok" <=> \A i \in DOMAIN s : q[i] = "ok"
         /\ first_refusal(q) # "ok" => \E i \in DOMAIN s : q[i] = first_refusal(q)
<1>1. Len(s) \in Nat /\ DOMAIN s = 1 .. Len(s) BY IsSeqShape
<1>2. isSeq(q) /\ Len(q) = Len(s) BY <1>1, Made
<1>3. QED BY <1>1, <1>2, FirstRefusal

(* The binary search finds a record of the identifier if there is one. *)
LEMMA Finds ==
  ASSUME NEW s, Ordered(s), NEW id \in Nat, NEW k, k = find_record_index(s, id)
  PROVE  /\ id \in ids(s) => k \in 1 .. Len(s) /\ s[k].id = id
         /\ id \notin ids(s) => k = None
         /\ k # None <=> id \in ids(s)
         /\ found(s, id) <=> id \in ids(s)
<1> DEFINE n == Len(s)
           I == {i \in 1 .. n : s[i].id >= id}
           b == IF I # {} THEN Min(I) ELSE 0
<1>1. n \in Nat /\ \A i \in 1 .. n : s[i].id \in Nat
  BY IsSeqShape DEF Ordered, Identified
<1>2. k = IF b # 0 /\ s[b].id = id THEN b ELSE None
  BY DEF find_record_index, SelectInSeq
<1>3. ids(s) = {s[i].id : i \in 1 .. n} BY IdsListed DEF Ordered, Identified
<1>4. I # {} => Min(I) \in I /\ \A i \in I : Min(I) <= i
  <2>1. I \in SUBSET Nat OBVIOUS
  <2> HIDE DEF I
  <2>2. QED BY <2>1, FirstOne
<1>5. None \notin Nat BY CompilationAssumption
<1>6. ASSUME id \in ids(s) PROVE k \in 1 .. n /\ s[k].id = id
  <2>1. PICK i \in 1 .. n : s[i].id = id BY <1>3, <1>6
  <2>2. i \in I BY <1>1, <2>1
  <2>3. b \in I /\ b <= i BY <1>4, <2>2
  <2>4. b \in 1 .. n /\ s[b].id >= id /\ b # 0 BY <2>3
  <2>5. s[b].id <= s[i].id
    <3>1. b < i \/ b = i BY <2>3, <2>4
    <3>2. QED BY <1>1, <2>4, <3>1 DEF Ordered
  <2>6. s[b].id = id BY SMTT(20), <1>1, <2>1, <2>4, <2>5
  <2> HIDE DEF b
  <2>7. QED BY <1>2, <2>4, <2>6
<1>7. ASSUME id \notin ids(s) PROVE k = None
  <2>1. I # {} => b \in 1 .. n BY <1>4
  <2>2. I = {} => b = 0 OBVIOUS
  <2> HIDE DEF b, I
  <2>3. QED BY <1>2, <1>3, <1>7, <2>1, <2>2
<1>8. found(s, id) <=> k # None BY DEF found
<1> HIDE DEF n
<1>9. k \in 1 .. n => k # None BY <1>1, <1>5
<1>10. QED BY <1>6, <1>7, <1>8, <1>9 DEF n

------------------------------------------------------
(* What the resolution of a hierarchy keeps.  I is the sorted registry of
   instances, st, wd and ch the states, the transforms and the chain. *)
up(I, i) == find_record_index(I, I[i].parent)

(* The identifiers are unique and every parent is there. *)
Ladder(I) ==
    /\ Increasing(I)
    /\ \A i \in 1 .. Len(I) : I[i].parent \in ids(I) \cup {None}

(* The instances in one state of the resolution. *)
InState(I, st, which) == {i \in 1 .. Len(I) : st[i] = which}

(* Whatever is resolved has a parent that is, and its transform is composed
   with the parent's: so no transform is longer than there are such. *)
Descends(I, st, wd) ==
    /\ st \in [1 .. Len(I) -> {"unresolved", "resolving", "resolved"}]
    /\ DOMAIN wd = 1 .. Len(I) /\ wd = [i \in 1 .. Len(I) |-> wd[i]]
    /\ \A i \in InState(I, st, "resolved") :
         /\ isSeq(wd[i]) /\ Len(wd[i]) > 0
         /\ Len(wd[i]) <= Cardinality(InState(I, st, "resolved"))
         /\ I[i].parent = None => wd[i] = << I[i].local >>
         /\ I[i].parent # None => /\ up(I, i) \in InState(I, st, "resolved")
                                  /\ wd[i] = wd[up(I, i)] \o << I[i].local >>

(* The chain lists what is being resolved, each followed by its parent. *)
Chained(I, st, ch) ==
    /\ isSeq(ch) /\ Range(ch) = InState(I, st, "resolving")
    /\ \A k, l \in 1 .. Len(ch) : ch[k] = ch[l] => k = l
    /\ \A k \in 1 .. Len(ch) - 1 : I[ch[k]].parent # None /\ up(I, ch[k]) = ch[k + 1]

(* The registries the running create sorts. *)
Registries == IF call = "frame" THEN FrameRegistries ELSE DescriptionRegistries

(* The running create has validated the scene. *)
Accepted == IF call = "frame" THEN validate_frame(scene) ELSE validate_description(scene) = "ok"

(* The places of resolve_instance_transforms and behind it. *)
Resolving == {"next_start", "climb", "unwind", "resolved"}

(* What holds of the locals of resolve_instance_transforms. *)
Hierarchic ==
    /\ Descends(scene.instances, states, world)
    /\ \A i \in InState(scene.instances, states, "resolved") : from_matrix(world[i])
    /\ start \in 1 .. Count + 1
    /\ \A i \in 1 .. Count : i < start => states[i] = "resolved"
    /\ pc \in {"next_start", "resolved"} => InState(scene.instances, states, "resolving") = {}
    /\ pc = "resolved" => start = Count + 1
    /\ pc \in {"climb", "unwind"} =>
         start <= Count /\ Chained(scene.instances, states, chain)
    /\ pc = "climb" =>
         /\ current \in 1 .. Count
         /\ chain = << >> => current = start /\ states[start] # "resolved"
         /\ chain # << >> => /\ chain[1] = start
                             /\ scene.instances[Last(chain)].parent # None
                             /\ up(scene.instances, Last(chain)) = current
    /\ pc = "unwind" =>
         /\ chain = << >> => states[start] = "resolved"
         /\ chain # << >> => /\ chain[1] = start
                             /\ scene.instances[Last(chain)].parent # None =>
                                  states[up(scene.instances, Last(chain))] = "resolved"

(* What holds of the one create that runs. *)
Running ==
    /\ pc \notin {"create", "done"} => scene = Sorted(input, Registries)
    /\ pc \in Resolving \cup {"local_transforms"} => Accepted
    /\ pc \in Resolving => Hierarchic

Places == Resolving \cup {"create", "validate", "local_transforms", "done"}

(* The inductive invariant. *)
CompilationInv ==
    /\ input \in Inputs /\ call \in Call /\ pc \in Places
    /\ DOMAIN answers = Call
    /\ call = "frame" => Cardinality(environments(input)) <= 1
    /\ answers["frame"] # None => call = "frame" /\ pc = "done"
    /\ Running
    /\ AcceptsWhatHoldsTogether /\ InstancesPlaced

------------------------------------------------------
(* The parent of an instance is a record. *)
LEMMA Up ==
  ASSUME NEW I, Ladder(I), NEW i \in 1 .. Len(I), I[i].parent # None
  PROVE  up(I, i) \in 1 .. Len(I) /\ I[up(I, i)].id = I[i].parent
<1>1. Ordered(I)
  <2>1. \A k, l \in 1 .. Len(I) : k < l => I[k].id <= I[l].id
    <3> TAKE k, l \in 1 .. Len(I)
    <3> HAVE k < l
    <3>1. I[k].id < I[l].id /\ I[k].id \in Nat /\ I[l].id \in Nat
      BY DEF Ladder, Increasing, Identified
    <3>2. QED BY <3>1
  <2>2. QED BY <2>1 DEF Ordered, Ladder, Increasing
<1>2. I[i].parent \in ids(I) BY DEF Ladder
<1>3. ids(I) = {I[k].id : k \in 1 .. Len(I)} /\ \A k \in 1 .. Len(I) : I[k].id \in Nat
  BY <1>1, IdsListed DEF Ordered, Identified
<1>4. I[i].parent \in Nat BY <1>2, <1>3
<1>5. QED BY <1>1, <1>2, <1>4, Finds DEF up

(* Two records of one identifier are one. *)
LEMMA OneEach ==
  ASSUME NEW I, Increasing(I), NEW i \in 1 .. Len(I), NEW k \in 1 .. Len(I), I[i].id = I[k].id
  PROVE  i = k
<1>1. I[i].id \in Nat /\ I[k].id \in Nat /\ Len(I) \in Nat
  BY IsSeqShape DEF Increasing, Identified
<1>2. ~(i < k) /\ ~(k < i)
  <2>1. i < k => I[i].id < I[k].id BY DEF Increasing
  <2>2. k < i => I[k].id < I[i].id BY DEF Increasing
  <2>3. QED BY <1>1, <2>1, <2>2
<1>3. QED BY <1>1, <1>2

(* The instances in a state. *)
LEMMA StateSets ==
  ASSUME NEW I, isSeq(I), NEW st, NEW which
  PROVE  /\ IsFiniteSet(InState(I, st, which)) /\ Cardinality(InState(I, st, which)) \in Nat
         /\ Cardinality(InState(I, st, which)) <= Len(I)
<1>1. Len(I) \in Nat BY IsSeqShape
<1> DEFINE n == Len(I)
           S == InState(I, st, which)
<1>2. S \in SUBSET (1 .. n) BY DEF InState
<1> HIDE DEF n, S
<1>3. IsFiniteSet(1 .. n) /\ Cardinality(1 .. n) = n
  BY SMTT(20), <1>1, FS_Interval DEF n
<1>4. IsFiniteSet(S) /\ Cardinality(S) \in Nat /\ Cardinality(S) <= n
  BY <1>2, <1>3, FS_Subset, FS_CardinalityType
<1>5. QED BY <1>4 DEF n, S

(* Nothing is resolved at first. *)
LEMMA StartDescends ==
  ASSUME NEW I, NEW st, st = [i \in 1 .. Len(I) |-> "unresolved"],
         NEW wd, wd = [i \in 1 .. Len(I) |-> None]
  PROVE  /\ Descends(I, st, wd)
         /\ InState(I, st, "resolved") = {} /\ InState(I, st, "resolving") = {}
<1>1. InState(I, st, "resolved") = {} /\ InState(I, st, "resolving") = {}
  BY DEF InState
<1>2. st \in [1 .. Len(I) -> {"unresolved", "resolving", "resolved"}] OBVIOUS
<1>3. DOMAIN wd = 1 .. Len(I) /\ wd = [i \in 1 .. Len(I) |-> wd[i]] OBVIOUS
<1>4. QED BY <1>1, <1>2, <1>3 DEF Descends

(* f2 is f with v at i. *)
Becomes(f2, f, i, v) == f2 = [f EXCEPT ![i] = v]

(* Beginning to resolve one disturbs nothing that is. *)
LEMMA ClimbsOn ==
  ASSUME NEW I, NEW st, NEW wd, Descends(I, st, wd),
         NEW i \in 1 .. Len(I), st[i] = "unresolved",
         NEW st2, Becomes(st2, st, i, "resolving")
  PROVE  /\ Descends(I, st2, wd)
         /\ InState(I, st2, "resolved") = InState(I, st, "resolved")
         /\ InState(I, st2, "resolving") = InState(I, st, "resolving") \cup {i}
         /\ i \notin InState(I, st, "resolving")
<1>1. st \in [1 .. Len(I) -> {"unresolved", "resolving", "resolved"}]
  BY DEF Descends
<1>2. st2 \in [1 .. Len(I) -> {"unresolved", "resolving", "resolved"}]
  BY <1>1 DEF Becomes
<1>3. \A k \in 1 .. Len(I) : st2[k] = IF k = i THEN "resolving" ELSE st[k]
  BY <1>1 DEF Becomes
<1>4. /\ InState(I, st2, "resolved") = InState(I, st, "resolved")
      /\ InState(I, st2, "resolving") = InState(I, st, "resolving") \cup {i}
      /\ i \notin InState(I, st, "resolving")
  BY <1>3 DEF InState
<1>5. Descends(I, st2, wd) BY <1>2, <1>4 DEF Descends
<1>6. QED BY <1>4, <1>5

(* The matrix the loop composes for i. *)
matrix_of(I, wd, i) ==
    IF I[i].parent = None THEN << I[i].local >> ELSE wd[up(I, i)] \o << I[i].local >>

(* Resolving one below a resolved parent. *)
LEMMA UnwindsOn ==
  ASSUME NEW I, Ladder(I), NEW st, NEW wd, Descends(I, st, wd),
         NEW i \in 1 .. Len(I), st[i] = "resolving",
         I[i].parent # None => st[up(I, i)] = "resolved",
         NEW st2, Becomes(st2, st, i, "resolved"),
         NEW wd2, Becomes(wd2, wd, i, matrix_of(I, wd, i))
  PROVE  /\ Descends(I, st2, wd2)
         /\ InState(I, st2, "resolved") = InState(I, st, "resolved") \cup {i}
         /\ InState(I, st2, "resolving") = InState(I, st, "resolving") \ {i}
         /\ i \notin InState(I, st, "resolved")
         /\ wd2[i] = matrix_of(I, wd, i)
         /\ \A k \in InState(I, st, "resolved") : wd2[k] = wd[k]
<1> DEFINE R == InState(I, st, "resolved")
           R2 == InState(I, st2, "resolved")
           m == matrix_of(I, wd, i)
<1>0. isSeq(I) BY DEF Ladder, Increasing, Identified
<1>1. st \in [1 .. Len(I) -> {"unresolved", "resolving", "resolved"}]
  BY DEF Descends
<1>2. st2 \in [1 .. Len(I) -> {"unresolved", "resolving", "resolved"}]
  BY <1>1 DEF Becomes
<1>3. \A k \in 1 .. Len(I) : st2[k] = IF k = i THEN "resolved" ELSE st[k]
  BY <1>1 DEF Becomes
<1>4. /\ R2 = R \cup {i} /\ i \notin R
      /\ InState(I, st2, "resolving") = InState(I, st, "resolving") \ {i}
  BY <1>3 DEF InState
<1>5. /\ DOMAIN wd = 1 .. Len(I) /\ DOMAIN wd2 = 1 .. Len(I)
      /\ wd2 = [k \in 1 .. Len(I) |-> wd2[k]]
      /\ \A k \in 1 .. Len(I) : wd2[k] = IF k = i THEN m ELSE wd[k]
  BY DEF Descends, Becomes
<1>6. /\ IsFiniteSet(R) /\ Cardinality(R) \in Nat /\ Cardinality(R2) = Cardinality(R) + 1
  <2>1. IsFiniteSet(R) /\ Cardinality(R) \in Nat BY <1>0, StateSets
  <2> HIDE DEF R, R2
  <2>2. QED BY <1>4, <2>1, FS_AddElement
<1>7. R \subseteq 1 .. Len(I) /\ R2 \subseteq 1 .. Len(I) BY DEF InState
<1>8. I[i].parent # None => up(I, i) \in R
  <2> HAVE I[i].parent # None
  <2>1. up(I, i) \in 1 .. Len(I) BY Up
  <2>2. QED BY <2>1 DEF InState
<1>9. \A k \in R :
         /\ isSeq(wd[k]) /\ Len(wd[k]) > 0 /\ Len(wd[k]) <= Cardinality(R)
         /\ I[k].parent = None => wd[k] = << I[k].local >>
         /\ I[k].parent # None => up(I, k) \in R /\ wd[k] = wd[up(I, k)] \o << I[k].local >>
  BY DEF Descends
<1> HIDE DEF R, R2
<1>10. isSeq(m) /\ Len(m) > 0 /\ Len(m) <= Cardinality(R2)
  <2>1. CASE I[i].parent = None
    <3>1. m = << I[i].local >> BY <2>1 DEF matrix_of
    <3>2. isSeq(m) /\ Len(m) = 1 BY <3>1, Single
    <3>3. QED BY <1>6, <3>2
  <2>2. CASE I[i].parent # None
    <3> DEFINE w == wd[up(I, i)]
               o == << I[i].local >>
    <3>1. m = w \o o BY <2>2 DEF matrix_of
    <3>2. isSeq(w) /\ Len(w) > 0 /\ Len(w) <= Cardinality(R) BY <1>8, <1>9, <2>2
    <3>3. isSeq(o) /\ Len(o) = 1 BY Single
    <3> HIDE DEF w, o, m
    <3>4. isSeq(m) /\ Len(m) = Len(w) + Len(o) /\ Len(w) \in Nat
      BY <3>1, <3>2, <3>3, Joined, IsSeqShape
    <3>5. QED BY <1>6, <3>2, <3>3, <3>4
  <2>3. QED BY <2>1, <2>2
<1>11. \A k \in R : wd2[k] = wd[k] BY <1>4, <1>5, <1>7
<1>12. ASSUME NEW k \in R2
       PROVE  /\ isSeq(wd2[k]) /\ Len(wd2[k]) > 0 /\ Len(wd2[k]) <= Cardinality(R2)
              /\ I[k].parent = None => wd2[k] = << I[k].local >>
              /\ I[k].parent # None => /\ up(I, k) \in R2
                                       /\ wd2[k] = wd2[up(I, k)] \o << I[k].local >>
  <2>1. CASE k = i
    <3>1. wd2[k] = m BY <1>5, <2>1
    <3>2. I[k].parent = None => wd2[k] = << I[k].local >>
      BY <2>1, <3>1 DEF matrix_of
    <3>3. I[k].parent # None => up(I, k) \in R2 /\ wd2[k] = wd2[up(I, k)] \o << I[k].local >>
      BY <1>4, <1>8, <1>11, <2>1, <3>1 DEF matrix_of
    <3> HIDE DEF m
    <3>4. QED BY <1>10, <3>1, <3>2, <3>3
  <2>2. CASE k # i
    <3>1. k \in R /\ wd2[k] = wd[k] BY <1>4, <1>11, <2>2
    <3>2. Len(wd[k]) \in Nat BY <1>9, <3>1, IsSeqShape
    <3>3. isSeq(wd2[k]) /\ Len(wd2[k]) > 0 /\ Len(wd2[k]) <= Cardinality(R2)
      <4>1. isSeq(wd[k]) /\ Len(wd[k]) > 0 /\ Len(wd[k]) <= Cardinality(R)
        BY <1>9, <3>1
      <4>2. Len(wd[k]) <= Cardinality(R2) BY <1>6, <3>2, <4>1
      <4>3. QED BY <3>1, <4>1, <4>2
    <3>4. I[k].parent = None => wd2[k] = << I[k].local >> BY <1>9, <3>1
    <3>5. I[k].parent # None => up(I, k) \in R2 /\ wd2[k] = wd2[up(I, k)] \o << I[k].local >>
      BY <1>4, <1>9, <1>11, <3>1
    <3>6. QED BY <3>3, <3>4, <3>5
  <2>3. QED BY <2>1, <2>2
<1>13. Descends(I, st2, wd2) BY <1>2, <1>5, <1>12 DEF Descends, R2
<1>14. QED BY <1>4, <1>5, <1>11, <1>13 DEF R, R2

------------------------------------------------------
(* t is s with x behind it. *)
Extends(t, s, x) ==
    /\ isSeq(t) /\ Len(t) = Len(s) + 1
    /\ \A k \in 1 .. Len(s) : t[k] = s[k]
    /\ t[Len(s) + 1] = x
    /\ Range(t) = Range(s) \cup {x}

(* Append puts one behind a sequence. *)
LEMMA Extended ==
  ASSUME NEW s, isSeq(s), NEW x
  PROVE  Extends(Append(s, x), s, x)
<1> DEFINE S == Range(s) \cup {x}
           n == Len(s)
<1>1. s \in Seq(S) /\ x \in S BY SeqMonotonic DEF isSeq
<1> SUFFICES ASSUME NEW t, t = Append(s, x) PROVE Extends(t, s, x)
  OBVIOUS
<1>2. /\ t \in Seq(S) /\ Len(t) = n + 1
      /\ \A k \in 1 .. n : t[k] = s[k]
      /\ t[n + 1] = x
  BY <1>1, AppendProperties
<1>3. isSeq(t) /\ DOMAIN t = 1 .. Len(t) /\ n \in Nat /\ DOMAIN s = 1 .. n
  BY <1>1, <1>2, SeqShape
<1>4. Range(t) = {t[k] : k \in 1 .. n + 1} /\ Range(s) = {s[k] : k \in 1 .. n}
  BY <1>2, <1>3 DEF Range
<1> HIDE DEF n
<1>5. 1 .. n + 1 = (1 .. n) \cup {n + 1} BY <1>3
<1>6. Range(t) = Range(s) \cup {x} BY <1>2, <1>4, <1>5
<1>7. QED BY <1>2, <1>3, <1>6 DEF Extends, n

(* Front and Last take one from behind a sequence. *)
LEMMA Shortened ==
  ASSUME NEW s, isSeq(s), s # << >>
  PROVE  Extends(s, Front(s), Last(s)) /\ isSeq(Front(s))
<1> DEFINE S == Range(s)
           n == Len(s)
<1>1. s \in Seq(S) BY DEF isSeq
<1>2. n \in Nat /\ DOMAIN s = 1 .. n /\ \A k \in 1 .. n : s[k] \in S
  BY <1>1, SeqShape
<1>3. n # 0 BY <1>1, EmptySeq
<1> SUFFICES ASSUME NEW t, t = SubSeq(s, 1, n - 1) PROVE Extends(s, t, s[n]) /\ isSeq(t)
  BY DEF Front, Last
<1> HIDE DEF n, S
<1>4. \A k \in 1 .. n - 1 : s[k] \in S BY <1>2
<1>5. n - 1 \in Int /\ 1 \in Int BY <1>2
<1>6. /\ t \in Seq(S)
      /\ Len(t) = IF 1 <= n - 1 THEN (n - 1) - 1 + 1 ELSE 0
      /\ \A k \in 1 .. (n - 1) - 1 + 1 : t[k] = s[1 + k - 1]
  BY <1>1, <1>4, <1>5, SubSeqProperties
<1>7. Len(t) = n - 1 /\ \A k \in 1 .. n - 1 : t[k] = s[k] BY <1>2, <1>3, <1>6
<1>8. isSeq(t) /\ DOMAIN t = 1 .. n - 1 BY <1>6, <1>7, SeqShape
<1>9. 1 .. n = (1 .. n - 1) \cup {n} BY <1>2, <1>3
<1>10. Range(t) = {t[k] : k \in 1 .. n - 1} /\ Range(s) = {s[k] : k \in 1 .. n}
  BY <1>2, <1>8 DEF Range
<1>11. Range(s) = Range(t) \cup {s[n]} BY <1>7, <1>9, <1>10
<1>12. Len(s) = Len(t) + 1 /\ s[Len(t) + 1] = s[n] BY <1>2, <1>7 DEF n
<1>13. \A k \in 1 .. Len(t) : s[k] = t[k] BY <1>7
<1>14. QED BY <1>8, <1>11, <1>12, <1>13 DEF Extends

(* The chain grows by the instance the climb is at. *)
LEMMA ChainGrows ==
  ASSUME NEW I, NEW st, NEW ch, Chained(I, st, ch),
         NEW i, i \notin InState(I, st, "resolving"),
         NEW st2, InState(I, st2, "resolving") = InState(I, st, "resolving") \cup {i},
         ch # << >> => I[Last(ch)].parent # None /\ up(I, Last(ch)) = i,
         NEW ch2, Extends(ch2, ch, i)
  PROVE  /\ Chained(I, st2, ch2) /\ ch2 # << >> /\ Last(ch2) = i
         /\ ch = << >> => ch2[1] = i
         /\ ch # << >> => ch2[1] = ch[1]
<1> DEFINE n == Len(ch)
<1>1. /\ n \in Nat /\ DOMAIN ch = 1 .. n /\ isSeq(ch)
      /\ Range(ch) = InState(I, st, "resolving")
      /\ \A k, l \in 1 .. n : ch[k] = ch[l] => k = l
      /\ \A k \in 1 .. n - 1 : I[ch[k]].parent # None /\ up(I, ch[k]) = ch[k + 1]
  BY IsSeqShape DEF Chained
<1>2. isSeq(ch) BY <1>1
<1>3. /\ isSeq(ch2) /\ Len(ch2) = n + 1
      /\ \A k \in 1 .. n : ch2[k] = ch[k]
      /\ ch2[n + 1] = i
      /\ Range(ch2) = Range(ch) \cup {i}
  BY DEF Extends
<1>4. ch2 # << >> /\ Last(ch2) = i
  <2>1. Len(ch2) # 0 BY <1>1, <1>3
  <2>2. ch2 # << >> BY <2>1, NoElement
  <2>3. QED BY <1>3, <2>2 DEF Last
<1>5. ch = << >> <=> n = 0 BY <1>1, NoElement, EmptySeq DEF isSeq
<1>6. Range(ch2) = InState(I, st2, "resolving") BY <1>1, <1>3
<1>7. Last(ch) = ch[n] BY DEF Last
<1>8. \A k \in 1 .. n : ch[k] # i
  <2> TAKE k \in 1 .. n
  <2>1. ch[k] \in Range(ch) BY <1>1 DEF Range
  <2>2. QED BY <1>1, <2>1
<1> HIDE DEF n
<1>9. \A k, l \in 1 .. n + 1 : ch2[k] = ch2[l] => k = l
  <2> TAKE k, l \in 1 .. n + 1
  <2> HAVE ch2[k] = ch2[l]
  <2>1. CASE k \in 1 .. n /\ l \in 1 .. n
    BY <1>1, <1>3, <2>1
  <2>2. CASE k = n + 1 /\ l = n + 1
    BY <2>2
  <2>3. CASE k = n + 1 /\ l \in 1 .. n
    BY <1>3, <1>8, <2>3
  <2>4. CASE k \in 1 .. n /\ l = n + 1
    BY <1>3, <1>8, <2>4
  <2>5. QED BY <1>1, <2>1, <2>2, <2>3, <2>4
<1>10. \A k \in 1 .. n : I[ch2[k]].parent # None /\ up(I, ch2[k]) = ch2[k + 1]
  <2> TAKE k \in 1 .. n
  <2>1. CASE k = n
    <3>1. ch # << >> BY <1>1, <1>5, <2>1
    <3>2. ch2[k] = Last(ch) /\ ch2[k + 1] = i BY <1>3, <1>7, <2>1
    <3>3. QED BY <3>1, <3>2
  <2>2. CASE k # n
    <3>1. k \in 1 .. n - 1 /\ k + 1 \in 1 .. n BY <1>1, <2>2
    <3>2. ch2[k] = ch[k] /\ ch2[k + 1] = ch[k + 1] BY <1>3, <3>1
    <3>3. QED BY <1>1, <3>1, <3>2
  <2>3. QED BY <2>1, <2>2
<1>11. Len(ch2) - 1 = n BY <1>1, <1>3
<1>12. Chained(I, st2, ch2) BY <1>3, <1>6, <1>9, <1>10, <1>11 DEF Chained
<1>13. (ch = << >> => ch2[1] = i) /\ (ch # << >> => ch2[1] = ch[1])
  <2>1. n = 0 => ch2[1] = i BY <1>3
  <2>2. n # 0 => 1 \in 1 .. n BY <1>1
  <2>3. QED BY <1>3, <1>5, <2>1, <2>2
<1>14. QED BY <1>4, <1>12, <1>13

(* The chain loses the instance that is resolved. *)
LEMMA ChainShrinks ==
  ASSUME NEW I, NEW st, NEW ch, Chained(I, st, ch), ch # << >>,
         NEW st2, InState(I, st2, "resolving") = InState(I, st, "resolving") \ {Last(ch)},
         NEW ch2, ch2 = Front(ch)
  PROVE  /\ Chained(I, st2, ch2)
         /\ ch2 = << >> => ch[1] = Last(ch)
         /\ ch2 # << >> => ch2[1] = ch[1] /\ up(I, Last(ch2)) = Last(ch)
<1> DEFINE n == Len(ch)
<1>1. /\ n \in Nat /\ DOMAIN ch = 1 .. n /\ isSeq(ch)
      /\ Range(ch) = InState(I, st, "resolving")
      /\ \A k, l \in 1 .. n : ch[k] = ch[l] => k = l
      /\ \A k \in 1 .. n - 1 : I[ch[k]].parent # None /\ up(I, ch[k]) = ch[k + 1]
  BY IsSeqShape DEF Chained
<1>2. n # 0 BY <1>1, EmptySeq DEF isSeq
<1>3. ch2 = SubSeq(ch, 1, n - 1) /\ Last(ch) = ch[n] BY DEF Front, Last
<1>4. isSeq(ch2) /\ Len(ch2) = n - 1 /\ \A k \in 1 .. n - 1 : ch2[k] = ch[k]
  <2>1. Extends(ch, ch2, Last(ch)) /\ isSeq(ch2) BY <1>1, Shortened
  <2>2. Len(ch) = Len(ch2) + 1 /\ Len(ch2) \in Nat
        /\ \A k \in 1 .. Len(ch2) : ch[k] = ch2[k]
    BY <2>1, IsSeqShape DEF Extends
  <2>3. Len(ch2) = n - 1 BY <2>2
  <2> HIDE DEF n
  <2>4. QED BY <2>1, <2>2, <2>3
<1>5. DOMAIN ch2 = 1 .. n - 1 BY <1>4, IsSeqShape
<1>6. ch2 = << >> <=> n - 1 = 0 BY <1>4, NoElement, EmptySeq DEF isSeq
<1>7. Range(ch) = {ch[k] : k \in 1 .. n} /\ Range(ch2) = {ch2[k] : k \in 1 .. n - 1}
  BY <1>1, <1>5 DEF Range
<1> HIDE DEF n
<1>8. Range(ch2) = Range(ch) \ {ch[n]}
  <2>1. ASSUME NEW x \in Range(ch2) PROVE x \in Range(ch) /\ x # ch[n]
    <3>1. PICK k \in 1 .. n - 1 : x = ch[k] BY <1>4, <1>7
    <3>2. k \in 1 .. n /\ k # n /\ n \in 1 .. n BY <1>1, <1>2
    <3>3. QED BY <1>1, <1>7, <3>1, <3>2
  <2>2. ASSUME NEW x \in Range(ch), x # ch[n] PROVE x \in Range(ch2)
    <3>1. PICK k \in 1 .. n : x = ch[k] BY <1>7
    <3>2. k \in 1 .. n - 1 BY <1>1, <2>2, <3>1
    <3>3. QED BY <1>4, <1>7, <3>1, <3>2
  <2>3. QED BY <2>1, <2>2
<1>9. \A k, l \in 1 .. n - 1 : ch2[k] = ch2[l] => k = l
  <2>1. \A k \in 1 .. n - 1 : k \in 1 .. n BY <1>1
  <2>2. QED BY <1>1, <1>4, <2>1
<1>10. \A k \in 1 .. n - 2 : I[ch2[k]].parent # None /\ up(I, ch2[k]) = ch2[k + 1]
  <2> TAKE k \in 1 .. n - 2
  <2>1. k \in 1 .. n - 1 /\ k + 1 \in 1 .. n - 1 BY <1>1
  <2>2. QED BY <1>1, <1>4, <2>1
<1>11. Len(ch2) - 1 = n - 2 BY <1>1, <1>4
<1>12. Chained(I, st2, ch2)
  BY <1>1, <1>3, <1>4, <1>8, <1>9, <1>10, <1>11 DEF Chained
<1>13. ch2 = << >> => ch[1] = Last(ch)
  <2>1. n - 1 = 0 => n = 1 BY <1>1
  <2>2. QED BY <1>3, <1>6, <2>1
<1>14. ASSUME ch2 # << >> PROVE ch2[1] = ch[1] /\ up(I, Last(ch2)) = Last(ch)
  <2>1. n - 1 # 0 /\ n - 1 \in 1 .. n - 1 /\ 1 \in 1 .. n - 1 /\ (n - 1) + 1 = n
    BY <1>1, <1>2, <1>6, <1>14
  <2>2. Last(ch2) = ch2[n - 1] BY <1>4 DEF Last
  <2>3. QED BY <1>1, <1>3, <1>4, <2>1, <2>2
<1>15. QED BY <1>12, <1>13, <1>14

------------------------------------------------------
(* What 0 has and each number hands on is had up to N. *)
LEMMA UpTo ==
  ASSUME NEW N \in Nat, NEW A, 0 \in A, \A m \in 0 .. N : m \in A /\ m < N => m + 1 \in A
  PROVE  \A n \in 0 .. N : n \in A
<1> DEFINE B == {n \in Nat : n <= N => n \in A}
<1>1. \A n \in Nat : (\A m \in Nat : m < n => m \in B) => n \in B
  <2> TAKE n \in Nat
  <2> HAVE \A m \in Nat : m < n => m \in B
  <2> SUFFICES ASSUME n <= N PROVE n \in A
    OBVIOUS
  <2>1. CASE n = 0
    BY <2>1
  <2>2. CASE n # 0
    <3>1. n - 1 \in Nat /\ n - 1 < n /\ n - 1 <= N /\ n - 1 < N /\ (n - 1) + 1 = n
      BY <2>2
    <3>2. n - 1 \in A /\ n - 1 \in 0 .. N BY <3>1
    <3>3. (n - 1) + 1 \in A BY <3>1, <3>2
    <3>4. QED BY <3>1, <3>3
  <2>3. QED BY <2>1, <2>2
<1>2. B \in SUBSET Nat OBVIOUS
<1> HIDE DEF B
<1>3. B = Nat BY <1>1, <1>2, AllBelow
<1>4. QED BY <1>3 DEF B

(* A function may be defined along 0 .. N. *)
Follows(f, N, D, d, next) ==
    /\ f \in [0 .. N -> D]
    /\ f[0] = d /\ \A n \in 1 .. N : f[n] = next[<<n, f[n - 1]>>]

(* A recursion over 0 .. N has a solution. *)
LEMMA Recursion ==
  ASSUME NEW N \in Nat, NEW D, NEW d \in D, NEW next \in [(0 .. N) \X D -> D]
  PROVE  \E f : Follows(f, N, D, d, next)
<1> DEFINE runs(f, m) == f[0] = d /\ \A n \in 1 .. m : f[n] = next[<<n, f[n - 1]>>]
           A == {m \in 0 .. N : \E f \in [0 .. m -> D] : runs(f, m)}
<1>1. 0 \in A
  <2> DEFINE g == [n \in 0 .. 0 |-> d]
  <2>1. g \in [0 .. 0 -> D] /\ runs(g, 0) OBVIOUS
  <2>2. 0 \in 0 .. N OBVIOUS
  <2> HIDE DEF g, runs
  <2>3. QED BY <2>1, <2>2
<1>2. ASSUME NEW m \in 0 .. N, m \in A, m < N PROVE m + 1 \in A
  <2>1. PICK f \in [0 .. m -> D] : runs(f, m) BY <1>2
  <2> DEFINE g == [n \in 0 .. m + 1 |-> IF n = m + 1 THEN next[<<m + 1, f[m]>>] ELSE f[n]]
  <2>2. m + 1 \in 0 .. N /\ m \in 0 .. m /\ f[m] \in D BY <1>2
  <2>3. next[<<m + 1, f[m]>>] \in D BY <2>2
  <2>4. \A n \in 0 .. m + 1 : n # m + 1 => n \in 0 .. m OBVIOUS
  <2>5. g \in [0 .. m + 1 -> D] BY <2>3, <2>4
  <2>6. g[m + 1] = next[<<m + 1, f[m]>>] /\ \A n \in 0 .. m : g[n] = f[n]
    OBVIOUS
  <2> HIDE DEF g
  <2>7. g[0] = d BY <2>1, <2>6
  <2>8. \A n \in 1 .. m + 1 : g[n] = next[<<n, g[n - 1]>>]
    <3> TAKE n \in 1 .. m + 1
    <3>1. CASE n = m + 1
      <4>1. n - 1 = m /\ m \in 0 .. m BY <3>1
      <4>2. QED BY <2>6, <3>1, <4>1
    <3>2. CASE n # m + 1
      <4>1. n \in 1 .. m /\ n \in 0 .. m /\ n - 1 \in 0 .. m BY <3>2
      <4>2. QED BY <2>1, <2>6, <4>1
    <3>3. QED BY <3>1, <3>2
  <2>9. runs(g, m + 1) BY <2>7, <2>8
  <2>10. QED BY <2>2, <2>5, <2>9
<1>3. N \in A
  <2> HIDE DEF A
  <2>1. \A n \in 0 .. N : n \in A BY <1>1, <1>2, UpTo
  <2>2. QED BY <2>1
<1>4. QED BY <1>3 DEF Follows

(* f[n] are the matrices of the paths of n steps up from each instance. *)
Climbs(f, I) ==
    \A n \in 0 .. Len(I), i \in 1 .. Len(I) :
        f[n][I[i].id] = IF n = 0 \/ I[i].parent = None THEN << I[i].local >>
                        ELSE f[n - 1][I[i].parent] \o << I[i].local >>

(* Enough steps up reach the root: what a resolved instance holds. *)
LEMMA ClimbsToWorld ==
  ASSUME NEW I, Ladder(I), NEW st, NEW wd, Descends(I, st, wd), NEW f, Climbs(f, I),
         NEW i \in InState(I, st, "resolved")
  PROVE  f[Len(I)][I[i].id] = wd[i]
<1> DEFINE N == Len(I)
           R == InState(I, st, "resolved")
           A == {m \in 0 .. N : \A k \in R : Len(wd[k]) <= m + 1 => f[m][I[k].id] = wd[k]}
<1>1. isSeq(I) /\ N \in Nat BY IsSeqShape DEF Ladder, Increasing, Identified
<1>2. Cardinality(R) \in Nat /\ Cardinality(R) <= N BY <1>1, StateSets
<1>3. \A k \in R :
        /\ isSeq(wd[k]) /\ Len(wd[k]) > 0 /\ Len(wd[k]) <= Cardinality(R)
        /\ I[k].parent = None => wd[k] = << I[k].local >>
        /\ I[k].parent # None => up(I, k) \in R /\ wd[k] = wd[up(I, k)] \o << I[k].local >>
  BY DEF Descends
<1>4. R \subseteq 1 .. N BY DEF InState
<1>5. \A k \in R : I[k].parent # None => I[up(I, k)].id = I[k].parent
  BY <1>4, Up
<1>6. \A n \in 0 .. N, k \in R :
        f[n][I[k].id] = IF n = 0 \/ I[k].parent = None THEN << I[k].local >>
                        ELSE f[n - 1][I[k].parent] \o << I[k].local >>
  BY <1>4 DEF Climbs
<1>7. \A k \in R : Len(wd[k]) \in Nat BY <1>3, IsSeqShape
<1>8. \A k \in R : I[k].parent # None => Len(wd[k]) = Len(wd[up(I, k)]) + 1
  <2> TAKE k \in R
  <2> HAVE I[k].parent # None
  <2> DEFINE o == << I[k].local >>
             w == wd[up(I, k)]
  <2>1. isSeq(o) /\ Len(o) = 1 BY Single
  <2>2. isSeq(w) /\ wd[k] = w \o o BY <1>3
  <2> HIDE DEF o, w
  <2>3. Len(w \o o) = Len(w) + Len(o) BY ONLY <2>1, <2>2, Joined
  <2>4. Len(wd[k]) = Len(w) + Len(o) BY ONLY <2>2, <2>3
  <2>5. QED BY <2>1, <2>4 DEF w
<1> HIDE DEF N, R
<1>9. 0 \in A
  <2> SUFFICES ASSUME NEW k \in R, Len(wd[k]) <= 0 + 1 PROVE f[0][I[k].id] = wd[k]
    BY <1>1
  <2>1. I[k].parent = None
    <3> SUFFICES ASSUME I[k].parent # None PROVE FALSE
      OBVIOUS
    <3>1. up(I, k) \in R /\ Len(wd[k]) = Len(wd[up(I, k)]) + 1 BY <1>3, <1>8
    <3>2. Len(wd[up(I, k)]) > 0 /\ Len(wd[up(I, k)]) \in Nat BY <1>3, <1>7, <3>1
    <3>3. QED BY <3>1, <3>2
  <2>2. 0 \in 0 .. N BY <1>1
  <2>3. QED BY <1>3, <1>6, <2>1, <2>2
<1>10. ASSUME NEW m \in 0 .. N, m \in A, m < N PROVE m + 1 \in A
  <2>1. m + 1 \in 0 .. N /\ m + 1 # 0 /\ (m + 1) - 1 = m BY <1>1, <1>10
  <2> SUFFICES ASSUME NEW k \in R, Len(wd[k]) <= (m + 1) + 1 PROVE f[m + 1][I[k].id] = wd[k]
    BY <2>1
  <2>2. CASE I[k].parent = None
    <3>1. f[m + 1][I[k].id] = << I[k].local >> BY <1>6, <2>1, <2>2
    <3>2. QED BY <1>3, <2>2, <3>1
  <2>3. CASE I[k].parent # None
    <3>1. up(I, k) \in R /\ wd[k] = wd[up(I, k)] \o << I[k].local >>
      BY <1>3, <2>3
    <3>2. Len(wd[up(I, k)]) <= m + 1
      <4>1. Len(wd[k]) = Len(wd[up(I, k)]) + 1 /\ Len(wd[up(I, k)]) \in Nat
        BY <1>7, <1>8, <2>3, <3>1
      <4>2. QED BY <4>1
    <3>3. f[m][I[up(I, k)].id] = wd[up(I, k)] BY <1>10, <3>1, <3>2
    <3>4. f[m][I[k].parent] = wd[up(I, k)] BY <1>5, <2>3, <3>3
    <3>5. f[m + 1][I[k].id] = f[m][I[k].parent] \o << I[k].local >>
      BY <1>6, <2>1, <2>3
    <3>6. QED BY <3>1, <3>4, <3>5
  <2>4. QED BY <2>2, <2>3
<1>11. N \in A
  <2> HIDE DEF A
  <2>1. \A n \in 0 .. N : n \in A BY <1>1, <1>9, <1>10, UpTo
  <2>2. QED BY <1>1, <2>1
<1>12. Len(wd[i]) <= N + 1
  <2>1. Len(wd[i]) <= Cardinality(R) /\ Len(wd[i]) \in Nat BY <1>3, <1>7 DEF R
  <2>2. QED BY <1>1, <1>2, <2>1
<1>13. i \in R BY DEF R
<1>14. QED BY <1>11, <1>12, <1>13 DEF N

------------------------------------------------------
(* The authored records of a registry and their identifiers. *)
LEMMA NamedRecord ==
  ASSUME NEW r, NEW I, Increasing(I), Range(I) = Records(r)
  PROVE  /\ Ids(r) = ids(I)
         /\ \A i \in 1 .. Len(I) : Named(r, I[i].id) = I[i]
         /\ \A id \in Ids(r) : Named(r, id) \in Records(r) /\ Named(r, id).id = id
<1>1. Ids(r) = ids(I) BY DEF Ids, ids
<1>2. Range(I) = {I[i] : i \in 1 .. Len(I)}
  BY IdsListed DEF Increasing, Identified
<1>3. \A id \in Ids(r) : Named(r, id) \in Records(r) /\ Named(r, id).id = id
  <2> TAKE id \in Ids(r)
  <2>1. \E record \in Records(r) : record.id = id BY DEF Ids
  <2>2. QED BY <2>1 DEF Named
<1>4. ASSUME NEW i \in 1 .. Len(I) PROVE Named(r, I[i].id) = I[i]
  <2>1. I[i].id \in Ids(r) BY <1>2 DEF Ids
  <2>2. Named(r, I[i].id) \in Range(I) /\ Named(r, I[i].id).id = I[i].id
    BY <1>3, <2>1
  <2>3. PICK k \in 1 .. Len(I) : Named(r, I[i].id) = I[k] BY <1>2, <2>2
  <2>4. k = i BY <2>2, <2>3, OneEach
  <2>5. QED BY <2>3, <2>4
<1>5. QED BY <1>1, <1>3, <1>4

(* Lineage is made of such paths, as long as there are instances. *)
LEMMA LineageClimbs ==
  ASSUME NEW I, Ladder(I), Range(I) = Records("instances"), Len(I) = Len(input.instances),
         \A i \in 1 .. Len(I) : I[i].local \in STRING
  PROVE  \E f : Climbs(f, I) /\ Lineage = f[Len(I)]
<1> DEFINE N == Len(input.instances)
           D == Ids("instances")
           of(id) == Named("instances", id)
           own(id) == << of(id).local >>
           is(f) == f = [n \in 0 .. N |->
                           [id \in D |->
                              LET i == Named("instances", id) IN
                              IF n = 0 \/ i.parent = None THEN << i.local >>
                              ELSE f[n - 1][i.parent] \o << i.local >>]]
           it == CHOOSE f : is(f)
           Q == [D -> Seq(STRING)]
           next == [at \in (0 .. N) \X Q |->
                      [id \in D |-> IF of(id).parent = None THEN own(id)
                                    ELSE at[2][of(id).parent] \o own(id)]]
           first == [id \in D |-> own(id)]
<1>1. Increasing(I) /\ isSeq(I) /\ N \in Nat
  BY IsSeqShape DEF Ladder, Increasing, Identified
<1>2. /\ D = ids(I)
      /\ \A i \in 1 .. Len(I) : Named("instances", I[i].id) = I[i]
  BY <1>1, NamedRecord
<1>3. D = {I[i].id : i \in 1 .. Len(I)} BY <1>1, <1>2, IdsListed
<1>4. \A id \in D : of(id).parent \in D \cup {None} /\ of(id).local \in STRING
  <2> TAKE id \in D
  <2>1. PICK i \in 1 .. Len(I) : id = I[i].id BY <1>3
  <2>2. of(id) = I[i] BY <1>2, <2>1
  <2>3. QED BY <1>2, <2>2 DEF Ladder
<1>5. Lineage = it[N] BY DEF Lineage
<1> HIDE DEF N, D, of, is
<1>6. \A id \in D : own(id) \in Seq(STRING) BY <1>4
<1>7. \E f : is(f)
  <2>1. next \in [(0 .. N) \X Q -> Q]
    <3> SUFFICES ASSUME NEW at \in (0 .. N) \X Q, NEW id \in D
                 PROVE  (IF of(id).parent = None THEN own(id)
                         ELSE at[2][of(id).parent] \o own(id)) \in Seq(STRING)
      OBVIOUS
    <3>1. own(id) \in Seq(STRING) BY <1>6
    <3>2. of(id).parent # None => at[2][of(id).parent] \in Seq(STRING) BY <1>4
    <3> DEFINE t == own(id)
               u == at[2][of(id).parent]
    <3> HIDE DEF own, t, u
    <3>3. of(id).parent # None => u \o t \in Seq(STRING)
      BY <3>1, <3>2, ConcatProperties DEF t, u
    <3>4. QED BY <3>1, <3>3 DEF t, u
  <2>2. first \in Q BY <1>6
  <2> HIDE DEF next, Q, first
  <2>3. PICK f : /\ f \in [0 .. N -> Q] /\ f[0] = first
                 /\ \A n \in 1 .. N : f[n] = next[<<n, f[n - 1]>>]
    <3>1. N \in Nat BY <1>1
    <3>2. \E f : Follows(f, N, Q, first, next) BY <2>1, <2>2, <3>1, Recursion
    <3>3. QED BY <3>2 DEF Follows
  <2>4. f = [n \in 0 .. N |-> f[n]] BY <2>3
  <2>5. \A n \in 0 .. N :
           f[n] = [id \in D |-> IF n = 0 \/ of(id).parent = None THEN own(id)
                                ELSE f[n - 1][of(id).parent] \o own(id)]
    <3> TAKE n \in 0 .. N
    <3>1. CASE n = 0
      BY <2>3, <3>1 DEF first
    <3>2. CASE n # 0
      <4>1. n \in 1 .. N /\ n - 1 \in 0 .. N BY <1>1, <3>2
      <4>2. <<n, f[n - 1]>> \in (0 .. N) \X Q BY <2>3, <4>1
      <4>3. next[<<n, f[n - 1]>>] = [id \in D |-> IF of(id).parent = None THEN own(id)
                                                  ELSE f[n - 1][of(id).parent] \o own(id)]
        BY <4>2 DEF next
      <4>4. QED BY <2>3, <3>2, <4>1, <4>3
    <3>3. QED BY <3>1, <3>2
  <2>6. is(f) BY <2>4, <2>5 DEF is, of
  <2>7. QED BY <2>6
<1> HIDE DEF own, next, Q
<1>8. is(it) BY <1>7
<1> HIDE DEF it
<1>9. \A n \in 0 .. N, id \in D :
        it[n][id] = IF n = 0 \/ of(id).parent = None THEN << of(id).local >>
                    ELSE it[n - 1][of(id).parent] \o << of(id).local >>
  <2> DEFINE e(n, id) == IF n = 0 \/ of(id).parent = None THEN << of(id).local >>
                         ELSE it[n - 1][of(id).parent] \o << of(id).local >>
  <2>1. it = [n \in 0 .. N |-> [id \in D |-> e(n, id)]] BY <1>8 DEF is, of
  <2> HIDE DEF e
  <2>2. \A n \in 0 .. N, id \in D : it[n][id] = e(n, id) BY <2>1
  <2>3. QED BY <2>2 DEF e
<1>10. Climbs(it, I)
  <2> SUFFICES ASSUME NEW n \in 0 .. Len(I), NEW i \in 1 .. Len(I)
               PROVE  it[n][I[i].id] = IF n = 0 \/ I[i].parent = None THEN << I[i].local >>
                                       ELSE it[n - 1][I[i].parent] \o << I[i].local >>
    BY DEF Climbs
  <2>1. I[i].id \in D /\ of(I[i].id) = I[i] /\ n \in 0 .. N
    BY <1>2, <1>3 DEF of, N
  <2>2. QED BY <1>9, <2>1
<1>11. QED BY <1>5, <1>10 DEF N

------------------------------------------------------
(* Some record of the one list from c on shares its identifier with one of
   the other from h on. *)
share_from(cs, hs, c, h) ==
    \E i \in c .. Len(cs), j \in h .. Len(hs) : cs[i].id = hs[j].id

(* Both lists being ordered, nothing is lost with the smaller head. *)
LEMMA SharesOn ==
  ASSUME NEW cs, Ordered(cs), NEW hs, Ordered(hs),
         NEW c \in 1 .. Len(cs), NEW h \in 1 .. Len(hs)
  PROVE  share_from(cs, hs, c, h) <=>
           \/ cs[c].id = hs[h].id
           \/ IF cs[c].id < hs[h].id THEN share_from(cs, hs, c + 1, h)
                                     ELSE share_from(cs, hs, c, h + 1)
<1> DEFINE C == Len(cs)
           H == Len(hs)
           a(i) == cs[i].id
           b(j) == hs[j].id
<1>1. /\ C \in Nat /\ H \in Nat
      /\ \A i \in 1 .. C : a(i) \in Nat
      /\ \A j \in 1 .. H : b(j) \in Nat
  BY IsSeqShape DEF Ordered, Identified
<1>2. /\ \A i, j \in 1 .. C : i < j => a(i) <= a(j)
      /\ \A i, j \in 1 .. H : i < j => b(i) <= b(j)
  BY DEF Ordered
<1>3. \A m, n : share_from(cs, hs, m, n) <=> \E i \in m .. C, j \in n .. H : a(i) = b(j)
  BY DEF share_from
<1> HIDE DEF a, b, C, H
<1>4. c \in 1 .. C /\ h \in 1 .. H BY DEF C, H
<1>5. ASSUME NEW i \in c .. C, NEW j \in h .. H, a(i) = b(j), a(c) # b(h)
      PROVE  IF a(c) < b(h) THEN i \in c + 1 .. C ELSE j \in h + 1 .. H
  <2>1. i \in 1 .. C /\ j \in 1 .. H /\ (i = c \/ c < i) /\ (j = h \/ h < j)
    BY <1>1, <1>4
  <2>2. a(c) <= a(i) /\ b(h) <= b(j)
    <3>1. a(c) \in Nat /\ b(h) \in Nat BY <1>1, <1>4
    <3>2. QED BY <1>2, <1>4, <2>1, <3>1
  <2>3. a(c) \in Nat /\ b(h) \in Nat /\ a(i) \in Nat /\ b(j) \in Nat
    BY <1>1, <1>4, <2>1
  <2>4. CASE a(c) < b(h)
    <3>1. i # c BY <1>5, <2>2, <2>3, <2>4
    <3>2. i \in c + 1 .. C BY <1>1, <1>4, <2>1, <3>1
    <3>3. QED BY <2>4, <3>2
  <2>5. CASE ~(a(c) < b(h))
    <3>1. j # h BY <1>5, <2>2, <2>3, <2>5
    <3>2. j \in h + 1 .. H BY <1>1, <1>4, <2>1, <3>1
    <3>3. QED BY <2>5, <3>2
  <2>6. QED BY <2>4, <2>5
<1>6. c \in c .. C /\ h \in h .. H BY <1>1, <1>4
<1>7. (c + 1 .. C) \subseteq (c .. C) /\ (h + 1 .. H) \subseteq (h .. H)
  BY <1>1, <1>4
<1>8. (\E i \in c .. C, j \in h .. H : a(i) = b(j)) <=>
        \/ a(c) = b(h)
        \/ IF a(c) < b(h) THEN \E i \in c + 1 .. C, j \in h .. H : a(i) = b(j)
                          ELSE \E i \in c .. C, j \in h + 1 .. H : a(i) = b(j)
  BY <1>5, <1>6, <1>7
<1>9. QED BY <1>3, <1>8 DEF a, b

(* The merge finds a shared identifier exactly if there is one. *)
LEMMA SharesIdentifier ==
  ASSUME NEW cs, Ordered(cs), NEW hs, Ordered(hs)
  PROVE  shares_identifier(cs, hs) <=> ids(cs) \cap ids(hs) # {}
<1> DEFINE C == Len(cs)
           H == Len(hs)
           Pairs == (1 .. C + 1) \X (1 .. H + 1)
           less(c, h) == cs[c].id < hs[h].id
           same(c, h) == cs[c].id = hs[h].id
           is(f) == f = [at \in Pairs |->
                           LET c == at[1] h == at[2] IN
                           IF c > C \/ h > H THEN FALSE
                           ELSE \/ cs[c].id = hs[h].id
                                \/ f[IF cs[c].id < hs[h].id THEN <<c + 1, h>> ELSE <<c, h + 1>>]]
           it == CHOOSE f : is(f)
           g(c, h) == share_from(cs, hs, c, h)
           G == [at \in Pairs |-> g(at[1], at[2])]
<1>1. C \in Nat /\ H \in Nat BY IsSeqShape DEF Ordered, Identified
<1>2. shares_identifier(cs, hs) <=> it[<<1, 1>>] BY DEF shares_identifier
<1>3. \A c \in 1 .. C, h \in 1 .. H :
         g(c, h) <=> same(c, h) \/ (IF less(c, h) THEN g(c + 1, h) ELSE g(c, h + 1))
  BY SharesOn
<1>4. \A c \in 1 .. C + 1, h \in 1 .. H + 1 : c > C \/ h > H => ~g(c, h)
  <2> TAKE c \in 1 .. C + 1, h \in 1 .. H + 1
  <2>1. c > C => c .. C = {} OBVIOUS
  <2>2. h > H => h .. H = {} OBVIOUS
  <2>3. QED BY <2>1, <2>2 DEF share_from
<1>5. g(1, 1) <=> ids(cs) \cap ids(hs) # {}
  <2>1. /\ ids(cs) = {cs[i].id : i \in 1 .. C} /\ ids(hs) = {hs[j].id : j \in 1 .. H}
    BY IdsListed DEF Ordered, Identified
  <2>2. QED BY <2>1 DEF share_from
<1>6. is(G)
  <2>1. ASSUME NEW c \in 1 .. C + 1, NEW h \in 1 .. H + 1
        PROVE  g(c, h) = IF c > C \/ h > H THEN FALSE
                         ELSE same(c, h) \/ G[IF less(c, h) THEN <<c + 1, h>> ELSE <<c, h + 1>>]
    <3>1. CASE c > C \/ h > H
      <4>1. ~g(c, h) /\ g(c, h) \in BOOLEAN BY <1>4, <3>1 DEF share_from
      <4> HIDE DEF g, G, same, less, C, H
      <4>2. QED BY <3>1, <4>1
    <3>2. CASE ~(c > C \/ h > H)
      <4> HIDE DEF C, H
      <4>1. c \in 1 .. C /\ h \in 1 .. H /\ c + 1 \in 1 .. C + 1 /\ h + 1 \in 1 .. H + 1
        BY <1>1, <3>2
      <4>2. <<c + 1, h>> \in Pairs /\ <<c, h + 1>> \in Pairs BY <4>1
      <4>3. G[<<c + 1, h>>] = g(c + 1, h) /\ G[<<c, h + 1>>] = g(c, h + 1)
        BY <4>2
      <4>4. g(c, h) <=> same(c, h) \/ (IF less(c, h) THEN g(c + 1, h) ELSE g(c, h + 1))
        BY <1>3, <4>1
      <4>5. g(c, h) \in BOOLEAN BY DEF share_from
      <4> HIDE DEF g, G, same, less
      <4>6. QED BY <3>2, <4>3, <4>4, <4>5
    <3>3. QED BY <3>1, <3>2
  <2>2. G = [at \in Pairs |-> IF at[1] > C \/ at[2] > H THEN FALSE
                              ELSE \/ same(at[1], at[2])
                                   \/ G[IF less(at[1], at[2]) THEN <<at[1] + 1, at[2]>>
                                                               ELSE <<at[1], at[2] + 1>>]]
    <3> DEFINE e(c, h) == IF c > C \/ h > H THEN FALSE
                          ELSE same(c, h) \/ G[IF less(c, h) THEN <<c + 1, h>> ELSE <<c, h + 1>>]
    <3>1. \A at \in Pairs : g(at[1], at[2]) = e(at[1], at[2])
      <4> TAKE at \in Pairs
      <4>1. at[1] \in 1 .. C + 1 /\ at[2] \in 1 .. H + 1 OBVIOUS
      <4> HIDE DEF g, G, same, less, C, H
      <4>2. QED BY <2>1, <4>1
    <3>2. G = [at \in Pairs |-> e(at[1], at[2])]
      <4> HIDE DEF g, e, Pairs
      <4>1. QED BY <3>1
    <3> HIDE DEF G, same, less, Pairs, C, H
    <3>3. QED BY <3>2
  <2> HIDE DEF G
  <2>3. QED BY <2>2
<1> HIDE DEF G
<1>7. is(it)
  <2> HIDE DEF is
  <2>1. QED BY <1>6
<1> HIDE DEF it
<1>8. \A c \in 1 .. C + 1, h \in 1 .. H + 1 :
         it[<<c, h>>] = IF c > C \/ h > H THEN FALSE
                        ELSE same(c, h) \/ it[IF less(c, h) THEN <<c + 1, h>> ELSE <<c, h + 1>>]
  <2> TAKE c \in 1 .. C + 1, h \in 1 .. H + 1
  <2>1. <<c, h>> \in Pairs OBVIOUS
  <2> HIDE DEF Pairs, C, H
  <2>2. QED BY <1>7, <2>1
<1> DEFINE A == {k \in 0 .. C + H :
                   \A c \in 1 .. C + 1, h \in 1 .. H + 1 :
                      (C + 1 - c) + (H + 1 - h) <= k => (it[<<c, h>>] = g(c, h))}
<1>9. \A c \in 1 .. C + 1, h \in 1 .. H + 1 : g(c, h) \in BOOLEAN
  BY DEF share_from
<1> HIDE DEF C, H, g, same, less, is
<1>10. 0 \in A
  <2> SUFFICES ASSUME NEW c \in 1 .. C + 1, NEW h \in 1 .. H + 1,
                      (C + 1 - c) + (H + 1 - h) <= 0
               PROVE  it[<<c, h>>] = g(c, h)
    BY <1>1
  <2>1. c > C \/ h > H BY <1>1
  <2>2. it[<<c, h>>] = FALSE BY <1>8, <2>1
  <2>3. g(c, h) = FALSE BY <1>4, <1>9, <2>1
  <2>4. QED BY <2>2, <2>3
<1>11. ASSUME NEW k \in 0 .. C + H, k \in A, k < C + H PROVE k + 1 \in A
  <2> SUFFICES ASSUME NEW c \in 1 .. C + 1, NEW h \in 1 .. H + 1,
                      (C + 1 - c) + (H + 1 - h) <= k + 1
               PROVE  it[<<c, h>>] = g(c, h)
    BY <1>1, <1>11
  <2>1. CASE c > C \/ h > H
    <3>1. it[<<c, h>>] = FALSE BY <1>8, <2>1
    <3>2. g(c, h) = FALSE BY <1>4, <1>9, <2>1
    <3>3. QED BY <3>1, <3>2
  <2>2. CASE ~(c > C \/ h > H)
    <3>1. /\ c \in 1 .. C /\ h \in 1 .. H /\ c + 1 \in 1 .. C + 1 /\ h + 1 \in 1 .. H + 1
          /\ (C + 1 - (c + 1)) + (H + 1 - h) <= k /\ (C + 1 - c) + (H + 1 - (h + 1)) <= k
      BY <1>1, <2>2
    <3>2. it[<<c + 1, h>>] = g(c + 1, h) /\ it[<<c, h + 1>>] = g(c, h + 1)
      BY <1>11, <3>1
    <3>3. it[<<c, h>>] = (same(c, h) \/ it[IF less(c, h) THEN <<c + 1, h>> ELSE <<c, h + 1>>])
      BY <1>8, <2>2
    <3>4. g(c, h) <=> same(c, h) \/ (IF less(c, h) THEN g(c + 1, h) ELSE g(c, h + 1))
      BY <1>3, <3>1
    <3>5. g(c, h) \in BOOLEAN BY <1>9
    <3> HIDE DEF A
    <3>6. CASE less(c, h)
      BY <3>2, <3>3, <3>4, <3>5, <3>6
    <3>7. CASE ~less(c, h)
      BY <3>2, <3>3, <3>4, <3>5, <3>7
    <3>8. QED BY <3>6, <3>7
  <2>3. QED BY <2>1, <2>2
<1>12. C + H \in A
  <2> HIDE DEF A
  <2>1. C + H \in Nat BY <1>1
  <2>2. \A k \in 0 .. C + H : k \in A BY <1>10, <1>11, <2>1, UpTo
  <2>3. C + H \in 0 .. C + H BY <2>1
  <2>4. QED BY <2>2, <2>3
<1>13. it[<<1, 1>>] = g(1, 1)
  <2>1. 1 \in 1 .. C + 1 /\ 1 \in 1 .. H + 1 /\ (C + 1 - 1) + (H + 1 - 1) <= C + H
    BY <1>1
  <2>2. QED BY <1>12, <2>1
<1>14. QED BY <1>2, <1>5, <1>13

------------------------------------------------------
(* The records of an authored scene, registry by registry. *)
RecordType   == [id : Nat, valid : BOOLEAN]
FilmType     == [id : Nat, status : RecordStatus]
OptionsType  == [id : Nat, film : Nat, status : RecordStatus]
ShotType     == [id : Nat, film : Nat, valid : BOOLEAN]
GeometryType == [id : Nat, mesh : STRING \cup {None}]
MaterialType == [id : Nat, spectral : MaterialSpectrum \cup {None}]
InstanceType == [id : Nat, object : Nat, geometry : Nat, material : Nat,
                 parent : Nat \cup {None}, local : STRING]

(* The records of an input are typed. *)
RecordTypes ==
    /\ Records("films") \subseteq FilmType
    /\ Records("cameras") \subseteq ShotType /\ Records("render_options") \subseteq OptionsType
    /\ Records("constant_textures") \subseteq RecordType
    /\ Records("host_image_textures") \subseteq ImageTexture
    /\ Records("objects") \subseteq RecordType /\ Records("geometries") \subseteq GeometryType
    /\ Records("materials") \subseteq MaterialType
    /\ Records("instances") \subseteq InstanceType
    /\ Records("lights") \subseteq SceneLight

(* The registries of an input. *)
RegistryNames ==
    {"films", "cameras", "render_options", "constant_textures", "host_image_textures",
     "objects", "geometries", "materials", "instances", "lights"}

(* The records of a registry are of its type. *)
LEMMA FromSeq ==
  ASSUME NEW T, NEW s \in Seq(T), \A x \in T : x.id \in Nat
  PROVE  Identified(s) /\ Range(s) \subseteq T
  BY SeqShape DEF Identified

(* What the types of an authored input say of its registries. *)
LEMMA AuthoredShape ==
  ASSUME input \in Authored
  PROVE  /\ DescriptionRegistries = RegistryNames
         /\ \A r \in RegistryNames : Identified(input[r])
         /\ DOMAIN input = RegistryNames \cup {"active"}
         /\ input.active \in [film : Nat, camera : Nat, render_options : Nat]
         /\ RecordTypes
<1>1. /\ input.films \in Seq(FilmType)
      /\ input.cameras \in Seq(ShotType) /\ input.render_options \in Seq(OptionsType)
      /\ input.constant_textures \in Seq(RecordType)
      /\ input.host_image_textures \in Seq(ImageTexture)
      /\ input.objects \in Seq(RecordType) /\ input.geometries \in Seq(GeometryType)
      /\ input.materials \in Seq(MaterialType)
      /\ input.instances \in Seq(InstanceType) /\ input.lights \in Seq(SceneLight)
      /\ input.active \in [film : Nat, camera : Nat, render_options : Nat]
  BY DEF Authored, RecordType, FilmType, OptionsType, ShotType, GeometryType, MaterialType, InstanceType
<1>2. DOMAIN input = RegistryNames \cup {"active"}
  BY DEF Authored, RegistryNames
<1>3. DescriptionRegistries = RegistryNames
  BY <1>2 DEF DescriptionRegistries, RegistryNames
<1>4. /\ \A x \in FilmType : x.id \in Nat
      /\ \A x \in RecordType : x.id \in Nat
      /\ \A x \in OptionsType : x.id \in Nat
      /\ \A x \in ShotType : x.id \in Nat
      /\ \A x \in ImageTexture : x.id \in Nat
      /\ \A x \in GeometryType : x.id \in Nat
      /\ \A x \in MaterialType : x.id \in Nat
      /\ \A x \in InstanceType : x.id \in Nat
      /\ \A x \in SceneLight : x.id \in Nat
  BY DEF RecordType, FilmType, OptionsType, ShotType, ImageTexture, GeometryType, MaterialType,
    InstanceType, SceneLight
<1>5. Identified(input["films"]) /\ Records("films") \subseteq FilmType
  BY <1>1, <1>4, FromSeq DEF Records
<1>6. Identified(input["cameras"]) /\ Records("cameras") \subseteq ShotType
  BY <1>1, <1>4, FromSeq DEF Records
<1>7. Identified(input["render_options"]) /\ Records("render_options") \subseteq OptionsType
  BY <1>1, <1>4, FromSeq DEF Records
<1>8. Identified(input["constant_textures"]) /\ Records("constant_textures") \subseteq RecordType
  BY <1>1, <1>4, FromSeq DEF Records
<1>9. Identified(input["host_image_textures"]) /\ Records("host_image_textures") \subseteq ImageTexture
  BY <1>1, <1>4, FromSeq DEF Records
<1>10. Identified(input["objects"]) /\ Records("objects") \subseteq RecordType
  BY <1>1, <1>4, FromSeq DEF Records
<1>11. Identified(input["geometries"]) /\ Records("geometries") \subseteq GeometryType
  BY <1>1, <1>4, FromSeq DEF Records
<1>12. Identified(input["materials"]) /\ Records("materials") \subseteq MaterialType
  BY <1>1, <1>4, FromSeq DEF Records
<1>13. Identified(input["instances"]) /\ Records("instances") \subseteq InstanceType
  BY <1>1, <1>4, FromSeq DEF Records
<1>14. Identified(input["lights"]) /\ Records("lights") \subseteq SceneLight
  BY <1>1, <1>4, FromSeq DEF Records
<1>15. RecordTypes
  BY <1>5, <1>6, <1>7, <1>8, <1>9, <1>10, <1>11, <1>12, <1>13, <1>14 DEF RecordTypes
<1>16. \A r \in RegistryNames : Identified(input[r])
  BY <1>5, <1>6, <1>7, <1>8, <1>9, <1>10, <1>11, <1>12, <1>13, <1>14 DEF RegistryNames
<1>17. QED BY <1>1, <1>2, <1>3, <1>15, <1>16

(* s holds the records of the input, those of the registries R in order. *)
SortedFrom(s, R) ==
    /\ s.active = input.active
    /\ \A r \in RegistryNames :
         /\ Identified(s[r]) /\ Len(s[r]) = Len(input[r])
         /\ Range(s[r]) = Records(r) /\ ids(s[r]) = Ids(r)
         /\ IF r \in R THEN Ordered(s[r]) ELSE s[r] = input[r]

(* The scene a create sorts holds the records of its input. *)
LEMMA SortedScene ==
  ASSUME input \in Authored, NEW R, R \subseteq RegistryNames
  PROVE  SortedFrom(Sorted(input, R), R)
<1> SUFFICES ASSUME NEW s, s = Sorted(input, R) PROVE SortedFrom(s, R)
  OBVIOUS
<1>1. /\ DOMAIN input = RegistryNames \cup {"active"}
      /\ \A r \in RegistryNames : Identified(input[r])
  BY AuthoredShape
<1>2. s = [r \in DOMAIN input |-> IF r \in R THEN sort_by_identifier(input[r]) ELSE input[r]]
  BY DEF Sorted
<1>3. s["active"] = input["active"] BY <1>1, <1>2 DEF RegistryNames
<1>4. \A r \in RegistryNames :
        s[r] = IF r \in R THEN sort_by_identifier(input[r]) ELSE input[r]
  BY <1>1, <1>2
<1>5. ASSUME NEW r \in RegistryNames
      PROVE  /\ Identified(s[r]) /\ Len(s[r]) = Len(input[r])
             /\ Range(s[r]) = Records(r) /\ ids(s[r]) = Ids(r)
             /\ IF r \in R THEN Ordered(s[r]) ELSE s[r] = input[r]
  <2>1. Identified(input[r]) BY <1>1
  <2>2. CASE r \in R
    <3>1. s[r] = sort_by_identifier(input[r]) BY <1>4, <2>2
    <3>2. Ordered(s[r]) /\ Len(s[r]) = Len(input[r]) /\ Range(s[r]) = Range(input[r])
      BY <2>1, <3>1, SortsRecords
    <3>3. QED BY <2>2, <3>2 DEF Ordered, Records, Ids, ids
  <2>3. CASE r \notin R
    <3>1. s[r] = input[r] BY <1>4, <2>3
    <3>2. QED BY <2>1, <2>3, <3>1 DEF Records, Ids, ids
  <2>4. QED BY <2>2, <2>3
<1>6. QED BY <1>3, <1>5 DEF SortedFrom

(* What a sorted scene shows of one registry. *)
LEMMA SortedRegistry ==
  ASSUME NEW s, NEW R, SortedFrom(s, R), NEW r \in RegistryNames
  PROVE  /\ isSeq(s[r]) /\ Len(s[r]) = Len(input[r]) /\ Len(s[r]) \in Nat
         /\ DOMAIN s[r] = 1 .. Len(s[r])
         /\ Records(r) = {s[r][i] : i \in 1 .. Len(s[r])}
         /\ Records(r) = {s[r][i] : i \in DOMAIN s[r]}
         /\ r \in R => /\ Ordered(s[r])
                       /\ no_duplicates(s[r]) <=> Unique(r)
                       /\ Unique(r) <=> Increasing(s[r])
<1>1. Identified(s[r]) /\ Range(s[r]) = Records(r) /\ ids(s[r]) = Ids(r)
      /\ Len(s[r]) = Len(input[r]) /\ (r \in R => Ordered(s[r]))
  BY DEF SortedFrom
<1>2. isSeq(s[r]) BY <1>1 DEF Identified
<1>3. Len(s[r]) \in Nat /\ DOMAIN s[r] = 1 .. Len(s[r]) /\ Range(s[r]) = {s[r][i] : i \in 1 .. Len(s[r])}
  BY <1>2, IsSeqShape, IdsListed
<1>4. r \in R => /\ no_duplicates(s[r]) <=> Unique(r)
                 /\ Unique(r) <=> Increasing(s[r])
  BY <1>1, Unrepeated DEF Unique
<1>5. QED BY <1>1, <1>2, <1>3, <1>4

(* A search in a sorted registry. *)
LEMMA FindsRecord ==
  ASSUME NEW s, NEW R, SortedFrom(s, R), NEW r \in RegistryNames, r \in R, NEW id \in Nat
  PROVE  /\ found(s[r], id) <=> id \in Ids(r)
         /\ find_record_index(s[r], id) # None <=> id \in Ids(r)
         /\ id \in Ids(r) => /\ find_record_index(s[r], id) \in 1 .. Len(s[r])
                             /\ s[r][find_record_index(s[r], id)] \in Records(r)
                             /\ s[r][find_record_index(s[r], id)].id = id
<1>1. Ordered(s[r]) /\ ids(s[r]) = Ids(r) BY DEF SortedFrom
<1>2. Records(r) = {s[r][i] : i \in 1 .. Len(s[r])} BY SortedRegistry
<1>3. QED BY <1>1, <1>2, Finds

(* What a search finds where identifiers are unique. *)
LEMMA FindsTheRecord ==
  ASSUME NEW s, NEW R, SortedFrom(s, R), NEW r \in RegistryNames, r \in R, Unique(r),
         NEW x \in Records(r), x.id \in Nat
  PROVE  /\ x.id \in Ids(r) /\ s[r][find_record_index(s[r], x.id)] = x
         /\ \A y \in Records(r) : y.id = x.id => y = x
         /\ Named(r, x.id) = x
<1>1. Increasing(s[r]) /\ Records(r) = {s[r][i] : i \in 1 .. Len(s[r])}
  BY SortedRegistry
<1>2. x.id \in Ids(r) BY DEF Ids
<1>3. ASSUME NEW y \in Records(r), y.id = x.id PROVE y = x
  <2>1. PICK i \in 1 .. Len(s[r]) : y = s[r][i] BY <1>1
  <2>2. PICK k \in 1 .. Len(s[r]) : x = s[r][k] BY <1>1
  <2>3. i = k BY <1>1, <1>3, <2>1, <2>2, OneEach
  <2>4. QED BY <2>1, <2>2, <2>3
<1>4. Named(r, x.id) = x
  <2>1. \E record \in Records(r) : record.id = x.id OBVIOUS
  <2>2. Named(r, x.id) \in Records(r) /\ Named(r, x.id).id = x.id
    BY <2>1 DEF Named
  <2>3. QED BY <1>3, <2>2
<1>5. QED BY <1>2, <1>3, <1>4, FindsRecord

------------------------------------------------------
(* What the checks of single records come to, said of the records. *)
Textures ==
    /\ Ids("constant_textures") \cap Ids("host_image_textures") = {}
    /\ \A t \in Records("constant_textures") : t.valid
    /\ \A t \in Records("host_image_textures") : t.channels > 0

(* Every geometry has a mesh. *)
Meshed == \A g \in Records("geometries") : g.mesh # None

(* The texture checks ask what must hold of the textures. *)
LEMMA TexturesValid ==
  ASSUME NEW s, NEW R, SortedFrom(s, R), FrameRegistries \subseteq R
  PROVE  ~shares_identifier(s.constant_textures, s.host_image_textures) /\ textures_valid(s)
           <=> Textures
<1> DEFINE cs == s["constant_textures"]
           hs == s["host_image_textures"]
<1>1. /\ "constant_textures" \in RegistryNames /\ "host_image_textures" \in RegistryNames
      /\ "constant_textures" \in R /\ "host_image_textures" \in R
  BY DEF RegistryNames, FrameRegistries
<1>2. /\ Ordered(cs) /\ Ordered(hs)
      /\ Records("constant_textures") = {cs[i] : i \in DOMAIN cs}
      /\ Records("host_image_textures") = {hs[i] : i \in DOMAIN hs}
  BY <1>1, SortedRegistry
<1>3. ids(cs) = Ids("constant_textures") /\ ids(hs) = Ids("host_image_textures")
  BY <1>1 DEF SortedFrom
<1>4. ~shares_identifier(cs, hs) <=> Ids("constant_textures") \cap Ids("host_image_textures") = {}
  BY <1>2, <1>3, SharesIdentifier
<1>5. textures_valid(s) <=> /\ \A i \in DOMAIN cs : cs[i].valid
                            /\ \A i \in DOMAIN hs : hs[i].channels > 0
  BY DEF textures_valid, All, validate_host_image_texture
<1> HIDE DEF cs, hs
<1>6. QED BY <1>2, <1>4, <1>5 DEF Textures, cs, hs

(* The searches succeed exactly if every reference has its record. *)
LEMMA ReferencesResolve ==
  ASSUME NEW s, NEW R, SortedFrom(s, R), FrameRegistries \subseteq R, RecordTypes
  PROVE  references_resolve(s) <=> Meshed /\ References
<1> DEFINE gs == s["geometries"]
           is == s["instances"]
<1>1. /\ {"objects", "geometries", "materials", "instances"} \subseteq RegistryNames
      /\ {"objects", "geometries", "materials", "instances"} \subseteq R
  BY DEF RegistryNames, FrameRegistries
<1>2. /\ Records("geometries") = {gs[i] : i \in DOMAIN gs}
      /\ Records("instances") = {is[i] : i \in DOMAIN is}
  BY <1>1, SortedRegistry
<1>3. \A id \in Nat : /\ found(s["objects"], id) <=> id \in Ids("objects")
                      /\ found(s["geometries"], id) <=> id \in Ids("geometries")
                      /\ found(s["materials"], id) <=> id \in Ids("materials")
                      /\ found(s["instances"], id) <=> id \in Ids("instances")
  BY <1>1, FindsRecord
<1>4. references_resolve(s) <=>
        /\ \A i \in DOMAIN gs : gs[i].mesh # None
        /\ \A i \in DOMAIN is :
             /\ found(s["objects"], is[i].object)
             /\ found(s["geometries"], is[i].geometry)
             /\ found(s["materials"], is[i].material)
             /\ is[i].parent # None => found(s["instances"], is[i].parent)
  BY DEF references_resolve, All
<1>5. \A x \in Records("instances") :
        /\ x.object \in Nat /\ x.geometry \in Nat /\ x.material \in Nat
        /\ x.parent \in Nat \cup {None}
  BY DEF RecordTypes, InstanceType
<1>6. None \notin Ids("instances")
  <2>1. \A x \in Records("instances") : x.id \in Nat
    BY DEF RecordTypes, InstanceType
  <2>2. QED BY <2>1, CompilationAssumption DEF Ids
<1> HIDE DEF gs, is
<1>7. ASSUME NEW x \in Records("instances")
      PROVE  (/\ found(s["objects"], x.object)
              /\ found(s["geometries"], x.geometry)
              /\ found(s["materials"], x.material)
              /\ x.parent # None => found(s["instances"], x.parent))
             <=> /\ x.object \in Ids("objects") /\ x.geometry \in Ids("geometries")
                 /\ x.material \in Ids("materials") /\ x.parent \in Ids("instances") \cup {None}
  BY <1>3, <1>5, <1>6
<1>8. QED BY <1>2, <1>4, <1>7 DEF Meshed, References

(* A binding of channels of a texture that is there. *)
Within(b, channels) ==
    b.valid /\ \E t \in Records("host_image_textures") :
                 t.id = b.texture /\ \A c \in channels : c < t.channels

(* What the maps of a material must be. *)
MapsFit(spectral) ==
    /\ spectral.normal_map # None =>
         /\ Within(spectral.normal_map, Range(spectral.normal_map.channels))
         /\ Cardinality(Range(spectral.normal_map.channels)) = 3
    /\ spectral.bump_map # None => Within(spectral.bump_map, {spectral.bump_map.channel})

(* MapsInRange asks it of every material. *)
LEMMA MapsInRangeSaid ==
  MapsInRange <=> \A m \in Records("materials") : m.spectral # None => MapsFit(m.spectral)
  BY DEF MapsInRange, MapsFit, Within

(* The texture a binding finds is the one it names. *)
LEMMA TextureBound ==
  ASSUME NEW s, NEW R, SortedFrom(s, R), FrameRegistries \subseteq R, RecordTypes,
         Unique("host_image_textures"),
         NEW b, b.texture \in Nat, NEW channels,
         NEW t, t = bound_texture(s["host_image_textures"], b)
  PROVE  (t # None /\ \A c \in channels : c < t.channels) <=> Within(b, channels)
<1> DEFINE r == "host_image_textures"
           k == find_record_index(s[r], b.texture)
<1>1. r \in RegistryNames /\ r \in R BY DEF RegistryNames, FrameRegistries
<1>2. t = IF b.valid /\ k # None THEN s[r][k] ELSE None BY DEF bound_texture
<1>3. k # None <=> b.texture \in Ids(r) BY <1>1, FindsRecord
<1>4. b.texture \in Ids(r) => s[r][k] \in Records(r) /\ s[r][k].id = b.texture
  BY <1>1, FindsRecord
<1>5. \A x \in Records(r) : x # None /\ x.id \in Nat
  BY CompilationAssumption DEF RecordTypes, ImageTexture
<1>6. \A x \in Records(r) : x.id = b.texture => b.texture \in Ids(r) /\ x = s[r][k]
  BY <1>1, <1>5, FindsTheRecord
<1>7. Within(b, channels) <=>
        b.valid /\ \E x \in Records(r) : x.id = b.texture /\ \A c \in channels : c < x.channels
  BY DEF Within
<1> HIDE DEF r, k
<1>8. QED BY <1>2, <1>3, <1>4, <1>5, <1>6, <1>7

(* How many 1 .. n are. *)
LEMMA Counted == ASSUME NEW n \in Nat PROVE IsFiniteSet(1 .. n) /\ Cardinality(1 .. n) = n
  BY FS_Interval

(* Three channels are three only if they differ. *)
LEMMA ThreeChannels ==
  ASSUME NEW f \in [1 .. 3 -> Nat]
  PROVE  IsInjective(f) <=> Cardinality(Range(f)) = 3
<1>1. f \in Surjection(1 .. 3, Range(f)) BY DEF Surjection, Range
<1>2. IsFiniteSet(1 .. 3) /\ Cardinality(1 .. 3) = 3
  <2>1. \A n \in Nat : IsFiniteSet(1 .. n) /\ Cardinality(1 .. n) = n BY Counted
  <2>2. QED BY <2>1
<1>3. Cardinality(Range(f)) = Cardinality(1 .. 3) <=> f \in Injection(1 .. 3, Range(f))
  BY <1>1, <1>2, FS_Surjection
<1>4. f \in Injection(1 .. 3, Range(f)) <=> IsInjective(f)
  <2>1. f \in [1 .. 3 -> Range(f)] BY DEF Range
  <2>2. QED BY <2>1 DEF Injection, IsInjective
<1>5. QED BY <1>2, <1>3, <1>4

(* The map checks ask that the maps fit. *)
LEMMA MapsResolve ==
  ASSUME NEW s, NEW R, SortedFrom(s, R), FrameRegistries \subseteq R, RecordTypes,
         Unique("host_image_textures"), NEW spectral \in MaterialSpectrum
  PROVE  maps_resolve(s["host_image_textures"], spectral) <=> MapsFit(spectral)
<1> DEFINE pictures == s["host_image_textures"]
           n == spectral.normal_map
           b == spectral.bump_map
<1>1. n \in NormalMap \cup {None} /\ b \in BumpMap \cup {None}
  BY DEF MaterialSpectrum
<1>2. maps_resolve(pictures, spectral) <=>
        /\ n # None => validate_normal_map_binding(pictures, n)
        /\ b # None => validate_bump_map_binding(pictures, b)
  BY DEF maps_resolve
<1>3. MapsFit(spectral) <=>
        /\ n # None => Within(n, Range(n.channels)) /\ Cardinality(Range(n.channels)) = 3
        /\ b # None => Within(b, {b.channel})
  BY DEF MapsFit
<1> HIDE DEF pictures, n, b
<1>4. ASSUME n # None
      PROVE  validate_normal_map_binding(pictures, n)
               <=> Within(n, Range(n.channels)) /\ Cardinality(Range(n.channels)) = 3
  <2> DEFINE t == bound_texture(pictures, n)
  <2>1. n.texture \in Nat /\ n.channels \in [1 .. 3 -> Nat]
    BY <1>1, <1>4 DEF NormalMap
  <2>2. (t # None /\ \A c \in Range(n.channels) : c < t.channels) <=> Within(n, Range(n.channels))
    BY <2>1, TextureBound DEF pictures
  <2>3. IsInjective(n.channels) <=> Cardinality(Range(n.channels)) = 3
    BY <2>1, ThreeChannels
  <2>4. validate_normal_map_binding(pictures, n) <=>
          /\ t # None
          /\ \A c \in Range(n.channels) : c < t.channels
          /\ IsInjective(n.channels)
    BY DEF validate_normal_map_binding
  <2> HIDE DEF t
  <2>5. QED BY <2>2, <2>3, <2>4
<1>5. ASSUME b # None
      PROVE  validate_bump_map_binding(pictures, b) <=> Within(b, {b.channel})
  <2> DEFINE t == bound_texture(pictures, b)
  <2>1. b.texture \in Nat BY <1>1, <1>5 DEF BumpMap
  <2>2. (t # None /\ \A c \in {b.channel} : c < t.channels) <=> Within(b, {b.channel})
    BY <2>1, TextureBound DEF pictures
  <2>3. validate_bump_map_binding(pictures, b) <=> t # None /\ b.channel < t.channels
    BY DEF validate_bump_map_binding
  <2> HIDE DEF t
  <2>4. QED BY <2>2, <2>3
<1>6. QED BY <1>2, <1>3, <1>4, <1>5 DEF pictures

(* What validate_render_setup comes to. *)
SetUp ==
    /\ \A r \in Records("films") \cup Records("render_options") : r.status # "invalid_argument"
    /\ \A c \in Records("cameras") : c.valid
    /\ \A r \in Records("cameras") \cup Records("render_options") : r.film \in Ids("films")
    /\ \E c \in Records("cameras"), o \in Records("render_options") :
         /\ c.id = input.active.camera /\ o.id = input.active.render_options
         /\ {c.film, o.film} = {input.active.film}

(* What a status of the description says when it is in order iff P holds. *)
Says(status, P, limited) ==
    /\ status \in RecordStatus
    /\ status = "ok" <=> P /\ ~limited
    /\ status = "invalid_argument" => ~P
    /\ status = "resource_exhausted" => limited

(* The render setup check asks what must hold of cameras and options. *)
LEMMA RenderSetupValid ==
  ASSUME NEW s, SortedFrom(s, RegistryNames), RecordTypes,
         input.active \in [film : Nat, camera : Nat, render_options : Nat],
         Unique("cameras"), Unique("render_options")
  PROVE  Says(validate_render_setup(s), SetUp, OverLimit)
<1> DEFINE fs == s["films"]
           cs == s["cameras"]
           os == s["render_options"]
           a == input.active
           c == find_record_index(cs, a.camera)
           o == find_record_index(os, a.render_options)
           said(x) == IF found(fs, x.film) THEN x.status ELSE "invalid_argument"
           active == found(fs, a.film) /\ c # None /\ o # None
           shot == \A i \in DOMAIN cs : found(fs, cs[i].film) /\ cs[i].valid
           match == cs[c].film = a.film /\ os[o].film = a.film
           fq == [i \in DOMAIN fs |-> fs[i].status]
           oq == [i \in DOMAIN os |-> said(os[i])]
           ff == first_refusal(fq)
           of == first_refusal(oq)
           v == validate_render_setup(s)
<1>1. {"films", "cameras", "render_options"} \subseteq RegistryNames
  BY DEF RegistryNames
<1>2. /\ Records("films") = {fs[i] : i \in DOMAIN fs}
      /\ Records("cameras") = {cs[i] : i \in DOMAIN cs}
      /\ Records("render_options") = {os[i] : i \in DOMAIN os}
      /\ isSeq(fs) /\ isSeq(os)
  BY <1>1, SortedRegistry
<1>3. \A id \in Nat : found(fs, id) <=> id \in Ids("films") BY <1>1, FindsRecord
<1>4. a.film \in Nat /\ a.camera \in Nat /\ a.render_options \in Nat OBVIOUS
<1>5. /\ c # None <=> a.camera \in Ids("cameras")
      /\ a.camera \in Ids("cameras") => cs[c] \in Records("cameras") /\ cs[c].id = a.camera
  BY <1>1, <1>4, FindsRecord
<1>6. /\ o # None <=> a.render_options \in Ids("render_options")
      /\ a.render_options \in Ids("render_options") =>
           os[o] \in Records("render_options") /\ os[o].id = a.render_options
  BY <1>1, <1>4, FindsRecord
<1>7. /\ \A x \in Records("cameras") \cup Records("render_options") : x.id \in Nat /\ x.film \in Nat
      /\ \A x \in Records("films") \cup Records("render_options") : x.status \in RecordStatus
  BY DEF RecordTypes, ShotType, OptionsType, FilmType
<1>8. \A x \in Records("cameras") : x.id = a.camera => a.camera \in Ids("cameras") /\ x = cs[c]
  BY <1>1, <1>7, FindsTheRecord
<1>9. \A x \in Records("render_options") :
        x.id = a.render_options => a.render_options \in Ids("render_options") /\ x = os[o]
  BY <1>1, <1>7, FindsTheRecord
<1>10. s.active = a BY DEF SortedFrom
<1>11. v = IF ~active THEN "invalid_argument"
           ELSE first_refusal(<<ff, checked(shot), of, checked(match)>>)
  BY <1>10 DEF validate_render_setup, All
<1>12. /\ fq = [i \in DOMAIN fs |-> fq[i]] /\ DOMAIN fq = DOMAIN fs
       /\ \A i \in DOMAIN fs : fq[i] = fs[i].status
       /\ oq = [i \in DOMAIN os |-> oq[i]] /\ DOMAIN oq = DOMAIN os
       /\ \A i \in DOMAIN os : oq[i] = said(os[i])
  OBVIOUS
<1> HIDE DEF fq, oq
<1>13. /\ ff = "ok" <=> \A i \in DOMAIN fs : fq[i] = "ok"
       /\ ff # "ok" => \E i \in DOMAIN fs : fq[i] = ff
       /\ of = "ok" <=> \A i \in DOMAIN os : oq[i] = "ok"
       /\ of # "ok" => \E i \in DOMAIN os : oq[i] = of
  BY <1>2, <1>12, StatusesSaid
<1> HIDE DEF fs, cs, os, a, c, o, ff, of, v
<1>14. /\ ff = "ok" <=> \A x \in Records("films") : x.status = "ok"
       /\ ff # "ok" => \E x \in Records("films") : x.status = ff
  BY <1>2, <1>12, <1>13
<1>15. /\ of = "ok" <=> \A x \in Records("render_options") : said(x) = "ok"
       /\ of # "ok" => \E x \in Records("render_options") : said(x) = of
  BY <1>2, <1>12, <1>13
<1>16. shot <=> \A x \in Records("cameras") : x.film \in Ids("films") /\ x.valid
  BY <1>2, <1>3, <1>7
<1>17. \A x \in Records("render_options") :
         said(x) = IF x.film \in Ids("films") THEN x.status ELSE "invalid_argument"
  BY <1>3, <1>7
<1>18. active /\ match <=>
         /\ a.film \in Ids("films")
         /\ \E x \in Records("cameras"), y \in Records("render_options") :
              /\ x.id = a.camera /\ y.id = a.render_options
              /\ {x.film, y.film} = {a.film}
  <2>1. \A x, y, z : {x, y} = {z} <=> x = z /\ y = z OBVIOUS
  <2>2. ASSUME c # None, o # None, match
        PROVE  \E x \in Records("cameras"), y \in Records("render_options") :
                 /\ x.id = a.camera /\ y.id = a.render_options
                 /\ {x.film, y.film} = {a.film}
    BY <1>5, <1>6, <2>1, <2>2
  <2>3. ASSUME NEW x \in Records("cameras"), NEW y \in Records("render_options"),
               x.id = a.camera, y.id = a.render_options, {x.film, y.film} = {a.film}
        PROVE  c # None /\ o # None /\ match
    <3>1. x.film = a.film /\ y.film = a.film BY <2>1, <2>3
    <3>2. QED BY <1>5, <1>6, <1>8, <1>9, <2>3, <3>1
  <2>4. found(fs, a.film) <=> a.film \in Ids("films") BY <1>3, <1>4
  <2>5. QED BY <2>2, <2>3, <2>4
<1>19. SetUp =>
         /\ a.film \in Ids("films")
         /\ \E x \in Records("cameras"), y \in Records("render_options") :
              /\ x.id = a.camera /\ y.id = a.render_options
              /\ {x.film, y.film} = {a.film}
  <2> HAVE SetUp
  <2>1. PICK x \in Records("cameras"), y \in Records("render_options") :
          /\ x.id = a.camera /\ y.id = a.render_options
          /\ {x.film, y.film} = {a.film}
    BY DEF SetUp, a
  <2>2. x.film = a.film /\ x.film \in Ids("films") BY <2>1 DEF SetUp
  <2>3. QED BY <2>1, <2>2
<1> HIDE DEF said, active, shot, match
<1>20. SetUp => active /\ match /\ shot BY <1>16, <1>18, <1>19 DEF SetUp
<1>21. /\ SetUp => \A x \in Records("render_options") : said(x) = x.status
       /\ SetUp => ff # "invalid_argument" /\ of # "invalid_argument"
  BY <1>14, <1>15, <1>17 DEF SetUp
<1>22. ff = "resource_exhausted" \/ of = "resource_exhausted" => OverLimit
  BY <1>14, <1>15, <1>17 DEF OverLimit
<1>23. active /\ match /\ shot /\ ff = "ok" /\ of = "ok" => SetUp /\ ~OverLimit
  <2> HAVE active /\ match /\ shot /\ ff = "ok" /\ of = "ok"
  <2>1. \A x \in Records("render_options") : x.film \in Ids("films") /\ x.status = "ok"
    BY <1>15, <1>17
  <2>2. \A x \in Records("films") : x.status = "ok" BY <1>14
  <2>3. QED BY <1>16, <1>18, <2>1, <2>2 DEF SetUp, OverLimit, a
<1>24. SetUp /\ ~OverLimit => ff = "ok" /\ of = "ok"
  BY <1>7, <1>14, <1>15, <1>21 DEF SetUp, OverLimit, RecordStatus
<1>25. ff \in RecordStatus /\ of \in RecordStatus
  BY <1>7, <1>14, <1>15, <1>17 DEF RecordStatus
<1>26. ASSUME ~active PROVE Says(v, SetUp, OverLimit)
  BY <1>11, <1>20, <1>26 DEF Says, RecordStatus
<1>27. ASSUME active PROVE Says(v, SetUp, OverLimit)
  <2>1. v = first_refusal(<<ff, checked(shot), of, checked(match)>>) BY <1>11, <1>27
  <2>2. /\ v = "ok" <=> ff = "ok" /\ checked(shot) = "ok" /\ of = "ok" /\ checked(match) = "ok"
        /\ v # "ok" => v \in {ff, checked(shot), of, checked(match)}
    BY <2>1, FourChecks
  <2>3. /\ checked(shot) = IF shot THEN "ok" ELSE "invalid_argument"
        /\ checked(match) = IF match THEN "ok" ELSE "invalid_argument"
    BY DEF checked
  <2>4. v = "ok" <=> ff = "ok" /\ shot /\ of = "ok" /\ match BY <2>2, <2>3
  <2>5. v \in RecordStatus BY <1>25, <2>2, <2>3 DEF RecordStatus
  <2>6. v = "invalid_argument" =>
          ff = "invalid_argument" \/ of = "invalid_argument" \/ ~shot \/ ~match
    BY <2>2, <2>3
  <2>7. v = "resource_exhausted" => ff = "resource_exhausted" \/ of = "resource_exhausted"
    BY <2>2, <2>3
  <2>8. QED BY <1>20, <1>21, <1>22, <1>23, <1>24, <1>27, <2>4, <2>5, <2>6, <2>7 DEF Says
<1>28. QED BY <1>26, <1>27 DEF v

------------------------------------------------------
(* The environments among the lights, as records and as places. *)
Environments == {l \in Records("lights") : l.kind = "environment"}

(* They are as many as places if no two lights share an identifier. *)
OneEnvironment(x) == Cardinality(environments(x)) = 1

(* Where the environment is in a registry, and which record it is. *)
LEMMA EnvironmentPlaces ==
  ASSUME NEW x, Identified(x["lights"]), Range(x["lights"]) = Records("lights")
  PROVE  /\ x["lights"] = << >> <=> Records("lights") = {}
         /\ environments(x) = {} <=> Environments = {}
         /\ IsFiniteSet(environments(x)) /\ Cardinality(environments(x)) \in Nat
         /\ OneEnvironment(x) <=> \E e : environments(x) = {e}
         /\ Cardinality(environments(x)) = 0 <=> environments(x) = {}
         /\ \A e \in environments(x) : x["lights"][e] \in Environments
         /\ \A l \in Environments : \E e \in environments(x) : x["lights"][e] = l
         /\ Records("lights") = {x["lights"][i] : i \in DOMAIN x["lights"]}
<1> DEFINE ls == x["lights"]
           E == environments(x)
           n == Len(ls)
<1>1. isSeq(ls) /\ n \in Nat /\ DOMAIN ls = 1 .. n /\ Records("lights") = {ls[i] : i \in 1 .. n}
  BY IsSeqShape, IdsListed DEF Identified
<1>2. E = {i \in 1 .. n : ls[i].kind = "environment"} BY <1>1 DEF environments
<1>3. ls = << >> <=> Records("lights") = {}
  <2>1. ls = << >> <=> n = 0 BY <1>1, NoElement, EmptySeq DEF isSeq
  <2> HIDE DEF n, ls
  <2>2. n = 0 <=> 1 .. n = {} BY <1>1
  <2>3. QED BY <1>1, <2>1, <2>2
<1>4. IsFiniteSet(E) /\ Cardinality(E) \in Nat
  <2>1. E \in SUBSET (1 .. n) BY <1>2
  <2> HIDE DEF E, n
  <2>2. IsFiniteSet(1 .. n) BY <1>1, Counted
  <2>3. QED BY <2>1, <2>2, FS_Subset, FS_CardinalityType
<1>5. Cardinality(E) = 0 <=> E = {}
  <2> HIDE DEF E
  <2>1. QED BY <1>4, FS_EmptySet
<1>6. Cardinality(E) = 1 <=> \E e : E = {e}
  <2> HIDE DEF E
  <2>1. QED BY <1>4, FS_Singleton
<1>7. OneEnvironment(x) <=> Cardinality(E) = 1 BY DEF OneEnvironment
<1>8. \A e \in E : ls[e] \in Environments BY <1>1, <1>2 DEF Environments
<1>9. \A l \in Environments : \E e \in E : ls[e] = l
  BY <1>1, <1>2 DEF Environments
<1> HIDE DEF ls, n, E
<1>10. E = {} <=> Environments = {} BY <1>8, <1>9
<1>11. Records("lights") = {ls[i] : i \in DOMAIN ls} BY <1>1
<1>12. QED BY <1>3, <1>4, <1>5, <1>6, <1>7, <1>8, <1>9, <1>10, <1>11 DEF ls, E

(* Sorting the lights keeps the number of environments. *)
LEMMA EnvironmentCount ==
  ASSUME NEW x, Identified(x["lights"]), Range(x["lights"]) = Records("lights"),
         \A i, j \in 1 .. Len(x["lights"]) : x["lights"][i].id = x["lights"][j].id => i = j
  PROVE  OneEnvironment(x) <=> \E l : Environments = {l}
<1> DEFINE ls == x["lights"]
           E == environments(x)
<1>1. /\ OneEnvironment(x) <=> \E e : E = {e}
      /\ \A e \in E : ls[e] \in Environments
      /\ \A l \in Environments : \E e \in E : ls[e] = l
  BY EnvironmentPlaces
<1>2. \A i, j \in E : ls[i] = ls[j] => i = j
  <2>1. E \subseteq 1 .. Len(ls) BY IsSeqShape DEF environments, Identified
  <2>2. QED BY <2>1
<1> HIDE DEF ls, E
<1>3. ASSUME NEW e, E = {e} PROVE Environments = {ls[e]}
  BY <1>1, <1>3
<1>4. ASSUME NEW l, Environments = {l} PROVE \E e : E = {e}
  <2>1. PICK e \in E : ls[e] = l BY <1>1, <1>4
  <2>2. \A k \in E : ls[k] = l BY <1>1, <1>4
  <2>3. E = {e} BY <1>2, <2>1, <2>2
  <2>4. QED BY <2>3
<1>5. QED BY <1>1, <1>3, <1>4

(* Spectral, without the places. *)
Fits(m, l) ==
    /\ m.spectral # None /\ m.spectral.closure_valid /\ m.spectral.wavelengths = l.wavelengths
    /\ m.spectral.emission \in {"black", "lit"}

(* Spectral, said of the records of the lights. *)
LEMMA SpectralSaid ==
  ASSUME Identified(input["lights"])
  PROVE  Spectral <=>
           IF Records("lights") = {} THEN \A m \in Records("materials") : m.spectral = None
           ELSE /\ OneEnvironment(input)
                /\ \A l \in Records("lights") : l.valid
                /\ \A m \in Records("materials"), l \in Environments : Fits(m, l)
<1> DEFINE ls == input["lights"]
           E == environments(input)
<1>1. /\ ls = << >> <=> Records("lights") = {}
      /\ \A e \in E : ls[e] \in Environments
      /\ \A l \in Environments : \E e \in E : ls[e] = l
  BY EnvironmentPlaces DEF Records
<1>2. Spectral <=>
        IF ls = << >> THEN \A m \in Records("materials") : m.spectral = None
        ELSE /\ OneEnvironment(input)
             /\ \A l \in Records("lights") : l.valid
             /\ \A m \in Records("materials"), e \in E : Fits(m, ls[e])
  BY DEF Spectral, OneEnvironment, Fits
<1> HIDE DEF ls, E
<1>3. (\A m \in Records("materials"), e \in E : Fits(m, ls[e]))
        <=> \A m \in Records("materials"), l \in Environments : Fits(m, l)
  BY <1>1
<1>4. QED BY <1>1, <1>2, <1>3

(* The transport check of a material asks that it fits the environment. *)
LEMMA TransportFits ==
  ASSUME RecordTypes, NEW m \in Records("materials"), NEW l
  PROVE  transport_valid(m, l) <=> Fits(m, l)
<1>1. m.spectral \in MaterialSpectrum \cup {None}
  BY DEF RecordTypes, MaterialType
<1>2. m.spectral # None => m.spectral.emission \in {"black", "lit", "invalid"}
  BY <1>1 DEF MaterialSpectrum
<1>3. QED BY <1>2 DEF transport_valid, Fits

(* The description asks it of the sorted lights. *)
LEMMA SpectralRecordsValid ==
  ASSUME NEW s, SortedFrom(s, RegistryNames), RecordTypes, Identified(input["lights"]),
         Unique("lights")
  PROVE  validate_spectral_records(s) <=> Spectral
<1> DEFINE ls == s["lights"]
           ms == s["materials"]
           E == environments(s)
<1>1. "lights" \in RegistryNames /\ "materials" \in RegistryNames
  BY DEF RegistryNames
<1>2. Identified(ls) /\ Range(ls) = Records("lights") BY <1>1 DEF SortedFrom
<1>3. Records("materials") = {ms[i] : i \in DOMAIN ms} BY <1>1, SortedRegistry
<1>4. /\ ls = << >> <=> Records("lights") = {}
      /\ E = {} <=> Environments = {}
      /\ \A e \in E : ls[e] \in Environments
      /\ \A l \in Environments : \E e \in E : ls[e] = l
      /\ Records("lights") = {ls[i] : i \in DOMAIN ls}
  BY <1>2, EnvironmentPlaces
<1>5. OneEnvironment(s) <=> OneEnvironment(input)
  <2>1. \A i, j \in 1 .. Len(ls) : ls[i].id = ls[j].id => i = j
    <3>1. Increasing(ls) BY <1>1, SortedRegistry
    <3>2. QED BY <3>1, OneEach
  <2>2. OneEnvironment(s) <=> \E l : Environments = {l}
    BY <1>2, <2>1, EnvironmentCount
  <2>3. \A i, j \in 1 .. Len(input["lights"]) :
          input["lights"][i].id = input["lights"][j].id => i = j
    <3>1. ids(input["lights"]) = Ids("lights") BY DEF ids, Ids, Records
    <3>2. QED BY <3>1, Distinct DEF Unique
  <2>4. OneEnvironment(input) <=> \E l : Environments = {l}
    BY <2>3, EnvironmentCount DEF Records
  <2>5. QED BY <2>2, <2>4
<1>6. validate_spectral_records(s) <=>
        IF E = {} THEN ls = << >> /\ \A i \in DOMAIN ms : ms[i].spectral = None
        ELSE /\ OneEnvironment(s)
             /\ \A i \in DOMAIN ls : ls[i].valid
             /\ \A e \in E : \A i \in DOMAIN ms : transport_valid(ms[i], ls[e])
  BY DEF validate_spectral_records, All, OneEnvironment
<1>7. OneEnvironment(s) => E # {}
  <2>1. OneEnvironment(s) <=> \E e : E = {e} BY <1>2, EnvironmentPlaces
  <2>2. QED BY <2>1
<1>8. Environments \subseteq Records("lights") BY DEF Environments
<1> HIDE DEF ls, ms, E
<1>9. (\A e \in E : \A i \in DOMAIN ms : transport_valid(ms[i], ls[e]))
        <=> \A m \in Records("materials"), l \in Environments : Fits(m, l)
  <2>1. \A l : \A m \in Records("materials") : transport_valid(m, l) <=> Fits(m, l)
    BY TransportFits
  <2>2. (\A e \in E : \A i \in DOMAIN ms : transport_valid(ms[i], ls[e]))
          <=> \A e \in E : \A m \in Records("materials") : Fits(m, ls[e])
    BY <1>3, <2>1
  <2>3. QED BY <1>4, <2>2
<1>10. (\A i \in DOMAIN ms : ms[i].spectral = None)
         <=> \A m \in Records("materials") : m.spectral = None
  BY <1>3
<1>11. (\A i \in DOMAIN ls : ls[i].valid) <=> \A l \in Records("lights") : l.valid
  BY <1>4
<1>12. QED BY <1>4, <1>5, <1>6, <1>7, <1>8, <1>9, <1>10, <1>11, SpectralSaid

(* The frame scene of the one environment and the lights apart. *)
LEMMA SpectralTransportValid ==
  ASSUME NEW s, SortedFrom(s, FrameRegistries), RecordTypes, Identified(input["lights"]),
         Unique("host_image_textures"), Cardinality(environments(input)) <= 1
  PROVE  validate_spectral_transport(s) <=> Spectral /\ MapsInRange
<1> DEFINE ls == s["lights"]
           ms == s["materials"]
           E == environments(s)
           env == spectral_environment(s)
           pictures == s["host_image_textures"]
           fits(m) == MapsFit(m.spectral)
<1>1. "lights" \in RegistryNames /\ "lights" \notin FrameRegistries /\ "materials" \in RegistryNames
  BY DEF RegistryNames, FrameRegistries
<1>2. Identified(ls) /\ Range(ls) = Records("lights") /\ ls = input["lights"]
  BY <1>1 DEF SortedFrom
<1>3. Records("materials") = {ms[i] : i \in DOMAIN ms} BY <1>1, SortedRegistry
<1>4. /\ ls = << >> <=> Records("lights") = {}
      /\ E = {} <=> Environments = {}
      /\ \A e \in E : ls[e] \in Environments
      /\ \A l \in Environments : \E e \in E : ls[e] = l
      /\ Records("lights") = {ls[i] : i \in DOMAIN ls}
  BY <1>2, EnvironmentPlaces
<1>5. E = environments(input) BY <1>2 DEF environments
<1>6. E # {} => (OneEnvironment(input) /\ \E e : E = {e})
  <2>1. /\ Cardinality(E) \in Nat /\ (Cardinality(E) = 0 <=> E = {})
        /\ OneEnvironment(s) <=> \E e : E = {e}
    BY <1>2, EnvironmentPlaces
  <2>2. Cardinality(E) <= 1 BY <1>5
  <2>3. OneEnvironment(s) <=> Cardinality(E) = 1 BY DEF OneEnvironment
  <2>4. OneEnvironment(input) <=> OneEnvironment(s) BY <1>5 DEF OneEnvironment
  <2> HIDE DEF E
  <2>5. QED BY <2>1, <2>2, <2>3, <2>4
<1>7. OneEnvironment(input) => E # {}
  <2>1. OneEnvironment(s) <=> \E e : E = {e} BY <1>2, EnvironmentPlaces
  <2>2. OneEnvironment(input) <=> OneEnvironment(s) BY <1>5 DEF OneEnvironment
  <2>3. QED BY <2>1, <2>2
<1>8. \A m \in Records("materials") : m.spectral # None =>
        (maps_resolve(pictures, m.spectral) <=> fits(m))
  <2> TAKE m \in Records("materials")
  <2> HAVE m.spectral # None
  <2>1. m.spectral \in MaterialSpectrum BY DEF RecordTypes, MaterialType
  <2>2. QED BY <2>1, MapsResolve
<1>9. MapsInRange <=> \A m \in Records("materials") : m.spectral # None => fits(m)
  BY MapsInRangeSaid
<1>10. punctual_lights(s) = {ls[i] : i \in DOMAIN ls \ E} BY DEF punctual_lights
<1>11. validate_spectral_transport(s) <=>
         IF env = None
           THEN punctual_lights(s) = {} /\ \A i \in DOMAIN ms : ms[i].spectral = None
           ELSE /\ env.valid
                /\ \A l \in punctual_lights(s) : l.valid
                /\ \A i \in DOMAIN ms : /\ transport_valid(ms[i], env)
                                        /\ maps_resolve(pictures, ms[i].spectral)
  BY DEF validate_spectral_transport, All
<1>12. env = IF E = {} THEN None ELSE ls[CHOOSE e \in E : TRUE]
  BY DEF spectral_environment
<1>13. \A l \in Records("lights") : l # None
  BY CompilationAssumption DEF RecordTypes
<1>14. E \subseteq DOMAIN ls BY DEF environments
<1>15. Environments \subseteq Records("lights") BY DEF Environments
<1>16. \A l : \A m \in Records("materials") : Fits(m, l) => m.spectral # None
  BY DEF Fits
<1>17. \A l : \A m \in Records("materials") : transport_valid(m, l) <=> Fits(m, l)
  BY TransportFits
<1> HIDE DEF ls, ms, E, env, pictures, fits
<1>18. CASE E = {}
  <2>1. env = None BY <1>12, <1>18
  <2>2. punctual_lights(s) = Records("lights") BY <1>4, <1>10, <1>18
  <2>3. validate_spectral_transport(s) <=>
          Records("lights") = {} /\ \A m \in Records("materials") : m.spectral = None
    BY <1>3, <1>11, <2>1, <2>2
  <2>4. QED BY <1>7, <1>9, <1>18, <2>3, SpectralSaid
<1>19. CASE E # {}
  <2>1. PICK e : E = {e} BY <1>6, <1>19
  <2>2. env = ls[e] /\ env \in Environments /\ Environments = {env}
    BY <1>4, <1>12, <2>1
  <2>3. env # None BY <1>13, <1>15, <2>2
  <2>4. Records("lights") = punctual_lights(s) \cup {env}
    BY <1>4, <1>10, <1>14, <2>1, <2>2
  <2>5. validate_spectral_transport(s) <=>
          /\ \A l \in Records("lights") : l.valid
          /\ \A m \in Records("materials") : Fits(m, env) /\ maps_resolve(pictures, m.spectral)
    BY <1>3, <1>11, <1>17, <2>3, <2>4
  <2>6. (\A m \in Records("materials") : Fits(m, env) /\ maps_resolve(pictures, m.spectral))
          <=> (\A m \in Records("materials") : Fits(m, env)) /\ MapsInRange
    BY <1>8, <1>9, <1>16
  <2>7. Records("lights") # {} BY <1>15, <2>2
  <2>8. Spectral <=> /\ \A l \in Records("lights") : l.valid
                     /\ \A m \in Records("materials") : Fits(m, env)
    BY <1>6, <1>19, <2>2, <2>7, SpectralSaid
  <2>9. QED BY <2>5, <2>6, <2>8
<1>20. QED BY <1>18, <1>19

------------------------------------------------------
(* What the two validations establish. *)
Described ==
    /\ \A r \in RegistryNames : Unique(r)
    /\ Textures /\ SetUp /\ MapsInRange /\ Meshed /\ References

(* What FrameScene::create asks, but for the hierarchy. *)
Framed ==
    /\ \A r \in FrameRegistries : Unique(r)
    /\ Textures /\ Meshed /\ References /\ Spectral /\ MapsInRange

(* The transform of every instance is representable. *)
Representable == \A i \in Ids("instances") : from_matrix(Lineage[i])

(* The description sorts four more registries than the frame. *)
LEMMA FrameNames ==
  /\ FrameRegistries \subseteq RegistryNames
  /\ RegistryNames = FrameRegistries \cup {"films", "cameras", "render_options", "lights"}
  BY DEF FrameRegistries, RegistryNames

(* The checks of SceneDescription::create together. *)
LEMMA DescriptionValid ==
  ASSUME input \in Authored, NEW s, s = Sorted(input, DescriptionRegistries)
  PROVE  Says(validate_description(s), Described, OverLimit)
<1> DEFINE ms == s["materials"]
           pictures == s["host_image_textures"]
           shares == shares_identifier(s.constant_textures, s.host_image_textures)
           All_unique == \A r \in RegistryNames : Unique(r)
           setup == validate_render_setup(s)
           apart == (\A r \in RegistryNames : no_duplicates(s[r])) /\ ~shares
           pictured == textures_valid(s) /\ \A i \in DOMAIN ms :
                         ms[i].spectral # None => maps_resolve(pictures, ms[i].spectral)
           v == validate_description(s)
<1>1. /\ SortedFrom(s, RegistryNames) /\ RecordTypes
      /\ DescriptionRegistries = RegistryNames
      /\ input.active \in [film : Nat, camera : Nat, render_options : Nat]
  BY AuthoredShape, SortedScene
<1>2. (\A r \in RegistryNames : no_duplicates(s[r])) <=> All_unique
  BY <1>1, SortedRegistry
<1>3. ~shares /\ textures_valid(s) <=> Textures BY <1>1, FrameNames, TexturesValid
<1>4. references_resolve(s) <=> Meshed /\ References
  BY <1>1, FrameNames, ReferencesResolve
<1>5. All_unique => Says(setup, SetUp, OverLimit)
  BY <1>1, RenderSetupValid DEF RegistryNames
<1>6. Records("materials") = {ms[i] : i \in DOMAIN ms}
  BY <1>1, SortedRegistry DEF RegistryNames
<1>7. All_unique =>
        ((\A m \in Records("materials") : m.spectral # None => maps_resolve(pictures, m.spectral))
           <=> MapsInRange)
  <2> HAVE All_unique
  <2>1. Unique("host_image_textures") BY DEF RegistryNames
  <2>2. \A m \in Records("materials") : m.spectral # None => m.spectral \in MaterialSpectrum
    BY <1>1 DEF RecordTypes, MaterialType
  <2>3. \A m \in Records("materials") : m.spectral # None =>
          (maps_resolve(pictures, m.spectral) <=> MapsFit(m.spectral))
    BY <1>1, <2>1, <2>2, FrameNames, MapsResolve
  <2> HIDE DEF pictures, All_unique
  <2>4. QED BY <2>3, MapsInRangeSaid
<1>8. v = first_refusal(<<checked(apart), setup, checked(pictured), checked(references_resolve(s))>>)
  BY <1>1 DEF validate_description, All
<1>9. /\ v = "ok" <=> /\ checked(apart) = "ok" /\ setup = "ok"
                      /\ checked(pictured) = "ok" /\ checked(references_resolve(s)) = "ok"
      /\ v # "ok" => v \in {checked(apart), setup, checked(pictured), checked(references_resolve(s))}
  BY <1>8, FourChecks
<1>10. /\ checked(apart) = IF apart THEN "ok" ELSE "invalid_argument"
       /\ checked(pictured) = IF pictured THEN "ok" ELSE "invalid_argument"
       /\ checked(references_resolve(s)) = IF references_resolve(s) THEN "ok" ELSE "invalid_argument"
  BY DEF checked
<1>11. Described <=> All_unique /\ Textures /\ SetUp /\ MapsInRange /\ Meshed /\ References
  BY DEF Described
<1>12. apart <=> All_unique /\ ~shares
  BY <1>2
<1> HIDE DEF ms, pictures, shares, All_unique, setup, v, apart
<1>13. pictured <=> textures_valid(s) /\ \A m \in Records("materials") :
                     m.spectral # None => maps_resolve(pictures, m.spectral)
  BY <1>6
<1> HIDE DEF pictured
<1>14. apart /\ pictured /\ references_resolve(s) /\ SetUp <=> Described
  BY <1>3, <1>4, <1>7, <1>11, <1>12, <1>13
<1>15. ASSUME ~apart PROVE Says(v, Described, OverLimit)
  <2>1. ~Described BY <1>14, <1>15
  <2>2. v = "invalid_argument"
    <3>1. v = first_refusal(<<"invalid_argument", setup, checked(pictured), checked(references_resolve(s))>>)
      BY <1>8, <1>10, <1>15
    <3>2. QED BY <3>1, FirstDecides
  <2>3. QED BY <2>1, <2>2 DEF Says, RecordStatus
<1>16. ASSUME apart PROVE Says(v, Described, OverLimit)
  <2>1. Says(setup, SetUp, OverLimit) BY <1>5, <1>12, <1>16
  <2>2. v = "ok" <=> setup = "ok" /\ pictured /\ references_resolve(s)
    BY <1>9, <1>10, <1>16
  <2>3. v = "invalid_argument" => setup = "invalid_argument" \/ ~pictured \/ ~references_resolve(s)
    BY <1>9, <1>10, <1>16
  <2>4. v = "resource_exhausted" => setup = "resource_exhausted" BY <1>9, <1>10
  <2>5. v \in RecordStatus BY <1>9, <1>10, <2>1 DEF Says, RecordStatus
  <2>6. QED BY <1>14, <1>16, <2>1, <2>2, <2>3, <2>4, <2>5 DEF Says
<1>17. QED BY <1>15, <1>16 DEF v

(* The checks of FrameScene::create together. *)
LEMMA FrameValid ==
  ASSUME input \in Authored, Cardinality(environments(input)) <= 1,
         NEW s, s = Sorted(input, FrameRegistries)
  PROVE  validate_frame(s) <=> Framed
<1> DEFINE shares == shares_identifier(s.constant_textures, s.host_image_textures)
           All_unique == \A r \in FrameRegistries : Unique(r)
<1>1. /\ SortedFrom(s, FrameRegistries) /\ RecordTypes
      /\ Identified(input["lights"])
  BY AuthoredShape, SortedScene, FrameNames DEF RegistryNames
<1>2. (\A r \in FrameRegistries : no_duplicates(s[r])) <=> All_unique
  BY <1>1, FrameNames, SortedRegistry
<1>3. ~shares /\ textures_valid(s) <=> Textures BY <1>1, TexturesValid
<1>4. references_resolve(s) <=> Meshed /\ References BY <1>1, ReferencesResolve
<1>5. All_unique => (validate_spectral_transport(s) <=> Spectral /\ MapsInRange)
  <2> HAVE All_unique
  <2>1. Unique("host_image_textures") BY DEF FrameRegistries
  <2>2. QED BY <1>1, <2>1, SpectralTransportValid
<1>6. validate_frame(s) <=>
        /\ \A r \in FrameRegistries : no_duplicates(s[r])
        /\ ~shares /\ textures_valid(s) /\ references_resolve(s) /\ validate_spectral_transport(s)
  BY DEF validate_frame
<1>7. Framed <=> All_unique /\ Textures /\ Meshed /\ References /\ Spectral /\ MapsInRange
  BY DEF Framed
<1> HIDE DEF All_unique, shares
<1>8. QED BY <1>2, <1>3, <1>4, <1>5, <1>6, <1>7

(* What a scene must be, in the two parts a create checks it in. *)
LEMMA WhatHolds ==
  /\ HoldsTogether <=> Framed /\ Rooted /\ Representable
  /\ HoldsTogether /\ RenderSetup <=> Described /\ Spectral /\ Rooted /\ Representable
<1>1. HoldsTogether <=> Framed /\ Rooted /\ Representable
  BY DEF HoldsTogether, Framed, Textures, Meshed, Representable
<1>2. RenderSetup <=> /\ Unique("films") /\ Unique("cameras") /\ Unique("render_options")
                      /\ Unique("lights") /\ SetUp
  BY DEF RenderSetup, SetUp
<1>3. (\A r \in RegistryNames : Unique(r)) <=>
        /\ \A r \in FrameRegistries : Unique(r)
        /\ Unique("films") /\ Unique("cameras") /\ Unique("render_options") /\ Unique("lights")
  BY FrameNames
<1>4. QED BY <1>1, <1>2, <1>3 DEF Framed, Described

------------------------------------------------------
(* Once every instance is resolved there is no cycle: of a set of instances
   one with the shortest transform has its parent outside. *)
LEMMA RootedIfResolved ==
  ASSUME NEW I, Ladder(I), Range(I) = Records("instances"),
         NEW st, NEW wd, Descends(I, st, wd), \A i \in 1 .. Len(I) : st[i] = "resolved"
  PROVE  Rooted
<1> DEFINE n == Len(I)
<1>1. /\ Ids("instances") = ids(I)
      /\ \A i \in 1 .. n : Named("instances", I[i].id) = I[i]
  BY NamedRecord DEF Ladder
<1>2. ids(I) = {I[i].id : i \in 1 .. n} /\ \A i \in 1 .. n : I[i].id \in Nat
  BY IdsListed DEF Ladder, Increasing, Identified
<1>3. InState(I, st, "resolved") = 1 .. n BY DEF InState
<1>4. \A i \in 1 .. n :
        /\ isSeq(wd[i])
        /\ I[i].parent # None => up(I, i) \in 1 .. n /\ wd[i] = wd[up(I, i)] \o << I[i].local >>
  BY <1>3 DEF Descends
<1> SUFFICES ASSUME NEW S \in (SUBSET Ids("instances")) \ {{}}
             PROVE  \E id \in S : Named("instances", id).parent \notin S
  BY DEF Rooted
<1> DEFINE T == {i \in 1 .. n : I[i].id \in S}
           lens == {Len(wd[i]) : i \in T}
<1>5. T # {}
  <2>1. PICK id \in S : TRUE OBVIOUS
  <2>2. id \in ids(I) BY <1>1
  <2>3. PICK i \in 1 .. n : id = I[i].id BY <1>2, <2>2
  <2>4. QED BY <2>3
<1>6. lens # {} /\ lens \in SUBSET Nat
  <2>1. \A i \in T : Len(wd[i]) \in Nat BY <1>4, IsSeqShape
  <2> HIDE DEF T
  <2>2. QED BY <1>5, <2>1
<1>7. PICK least \in lens : \A m \in lens : least <= m
  <2> HIDE DEF lens
  <2>1. QED BY <1>6, LeastElement
<1>8. PICK i \in T : least = Len(wd[i]) OBVIOUS
<1>9. I[i].parent \notin S
  <2> SUFFICES ASSUME I[i].parent \in S PROVE FALSE
    OBVIOUS
  <2>1. I[i].parent # None BY <1>1, <1>2, CompilationAssumption
  <2>2. up(I, i) \in 1 .. n /\ I[up(I, i)].id = I[i].parent BY <2>1, Up
  <2>3. up(I, i) \in T BY <2>2
  <2> DEFINE o == << I[i].local >>
             w == wd[up(I, i)]
  <2>4. isSeq(o) /\ Len(o) = 1 /\ isSeq(w) /\ wd[i] = w \o o
    BY <1>4, <2>1, <2>2, Single
  <2>5. Len(w) \in lens BY <2>3
  <2> HIDE DEF o, w, lens
  <2>6. Len(wd[i]) = Len(w) + Len(o) /\ Len(w) \in Nat
    BY <2>4, Joined, IsSeqShape
  <2>7. QED BY <1>7, <1>8, <2>4, <2>5, <2>6
<1>10. I[i].id \in S /\ Named("instances", I[i].id) = I[i] BY <1>1
<1>11. QED BY <1>9, <1>10

(* A climb that comes back to its chain has found a cycle. *)
LEMMA Cyclic ==
  ASSUME NEW I, Ladder(I), Range(I) = Records("instances"),
         NEW st, NEW ch, Chained(I, st, ch), ch # << >>,
         I[Last(ch)].parent # None, up(I, Last(ch)) \in InState(I, st, "resolving")
  PROVE  ~Rooted
<1> DEFINE m == Len(ch)
           S == {I[ch[k]].id : k \in 1 .. m}
<1>1. /\ isSeq(ch) /\ m \in Nat /\ Range(ch) = {ch[k] : k \in 1 .. m}
      /\ Range(ch) = InState(I, st, "resolving")
      /\ \A k \in 1 .. m - 1 : I[ch[k]].parent # None /\ up(I, ch[k]) = ch[k + 1]
  BY IsSeqShape, IdsListed DEF Chained
<1>2. m # 0 BY <1>1, EmptySeq DEF isSeq
<1>3. Last(ch) = ch[m] BY DEF Last
<1>4. \A k \in 1 .. m : ch[k] \in 1 .. Len(I) BY <1>1 DEF InState
<1>5. /\ Ids("instances") = ids(I)
      /\ \A i \in 1 .. Len(I) : Named("instances", I[i].id) = I[i]
  BY NamedRecord DEF Ladder
<1>6. ids(I) = {I[i].id : i \in 1 .. Len(I)}
  BY IdsListed DEF Ladder, Increasing, Identified
<1>7. \A k \in 1 .. m : I[ch[k]].parent # None /\ \E l \in 1 .. m : up(I, ch[k]) = ch[l]
  <2> TAKE k \in 1 .. m
  <2> HIDE DEF m
  <2>1. CASE k = m
    BY <1>1, <1>3, <2>1
  <2>2. CASE k # m
    <3>1. k \in 1 .. m - 1 /\ k + 1 \in 1 .. m BY <1>1, <2>2
    <3>2. QED BY <1>1, <3>1
  <2>3. QED BY <2>1, <2>2
<1>8. \A k \in 1 .. m : I[ch[k]].parent \in S
  <2> TAKE k \in 1 .. m
  <2>1. I[up(I, ch[k])].id = I[ch[k]].parent BY <1>4, <1>7, Up
  <2>2. QED BY <1>7, <2>1
<1>9. S \in SUBSET Ids("instances") BY <1>4, <1>5, <1>6
<1>10. S # {}
  <2>1. 1 \in 1 .. m BY <1>1, <1>2
  <2>2. QED BY <2>1
<1>11. \A id \in S : Named("instances", id).parent \in S BY <1>4, <1>5, <1>8
<1> HIDE DEF S
<1>12. QED BY <1>9, <1>10, <1>11 DEF Rooted

------------------------------------------------------
(* The list a loop over the instances makes of those that emit. *)
emitting(s, i) ==
    /\ emission(s, s.instances[i]) # None
    /\ emission(s, s.instances[i]).emission # "black"

(* The instances among the first n that emit, in order. *)
Lists(list, n, s) ==
    /\ isSeq(list)
    /\ Range(list) = {i \in 1 .. n : emitting(s, i)}
    /\ \A k, l \in 1 .. Len(list) : k < l => list[k] < list[l]

(* One turn of the loop. *)
LEMMA ListsOn ==
  ASSUME NEW n \in Nat, NEW s, NEW list, Lists(list, n, s),
         NEW list2, list2 = list \o (IF emitting(s, n + 1) THEN << n + 1 >> ELSE << >>)
  PROVE  Lists(list2, n + 1, s)
<1> DEFINE o == IF emitting(s, n + 1) THEN << n + 1 >> ELSE << >>
           E(m) == {i \in 1 .. m : emitting(s, i)}
           p == Len(list)
<1>1. isSeq(list) /\ Range(list) = E(n) /\ \A k, l \in 1 .. p : k < l => list[k] < list[l]
  BY DEF Lists
<1>2. /\ isSeq(o)
      /\ emitting(s, n + 1) => Len(o) = 1 /\ o[1] = n + 1 /\ Range(o) = {n + 1}
      /\ ~emitting(s, n + 1) => Len(o) = 0 /\ Range(o) = {}
  BY Single, NoElement
<1>3. 1 .. n + 1 = (1 .. n) \cup {n + 1} /\ n + 1 \notin 1 .. n OBVIOUS
<1>4. E(n + 1) = E(n) \cup (IF emitting(s, n + 1) THEN {n + 1} ELSE {}) BY <1>3
<1>5. \A i \in E(n) : i \in 1 .. n OBVIOUS
<1>6. list2 = list \o o OBVIOUS
<1> HIDE DEF o, E, p
<1>7. /\ isSeq(list2) /\ Len(list2) = p + Len(o)
      /\ \A k \in 1 .. p : list2[k] = list[k]
      /\ \A k \in 1 .. Len(o) : list2[p + k] = o[k]
      /\ Range(list2) = Range(list) \cup Range(o)
  <2>1. isSeq(list) /\ isSeq(o) BY <1>1, <1>2
  <2>2. /\ isSeq(list \o o) /\ Len(list \o o) = Len(list) + Len(o)
        /\ \A k \in 1 .. Len(list) : (list \o o)[k] = list[k]
        /\ \A k \in 1 .. Len(o) : (list \o o)[Len(list) + k] = o[k]
        /\ Range(list \o o) = Range(list) \cup Range(o)
    BY ONLY <2>1, Joined
  <2>3. QED BY <1>6, <2>2 DEF p
<1>8. Range(list2) = E(n + 1) BY <1>1, <1>2, <1>4, <1>7
<1>9. p \in Nat /\ \A k \in 1 .. p : list[k] \in 1 .. n
  BY <1>1, <1>5, IsSeqShape DEF p
<1>10. \A k, l \in 1 .. Len(list2) : k < l => list2[k] < list2[l]
  <2>1. CASE emitting(s, n + 1)
    <3>1. Len(list2) = p + 1 /\ list2[p + 1] = n + 1
      <4>1. Len(o) = 1 /\ o[1] = n + 1 /\ 1 \in 1 .. 1 BY <1>2, <2>1
      <4>2. Len(list2) = p + 1 BY <1>7, <4>1
      <4>3. list2[p + 1] = o[1] BY <1>7, <4>1
      <4>4. QED BY <4>1, <4>2, <4>3
    <3> TAKE k, l \in 1 .. Len(list2)
    <3> HAVE k < l
    <3>2. k \in 1 .. p /\ (l \in 1 .. p \/ l = p + 1) BY <1>9, <3>1
    <3>3. CASE l \in 1 .. p
      BY <1>1, <1>7, <3>2, <3>3
    <3>4. CASE l = p + 1
      <4>1. list[k] \in 1 .. n /\ list2[k] = list[k] BY <1>7, <1>9, <3>2
      <4>2. list2[k] < n + 1 BY <4>1
      <4>3. QED BY <3>1, <3>4, <4>2
    <3>5. QED BY <3>2, <3>3, <3>4
  <2>2. CASE ~emitting(s, n + 1)
    <3>1. Len(list2) = p BY <1>2, <1>7, <1>9, <2>2
    <3>2. QED BY <1>1, <1>7, <3>1
  <2>3. QED BY <2>1, <2>2
<1>11. QED BY <1>7, <1>8, <1>10 DEF Lists, E

(* The loop lists them all. *)
LEMMA EmittersListed ==
  ASSUME NEW s, Len(s.instances) \in Nat
  PROVE  Lists(emitters(s), Len(s.instances), s)
<1> DEFINE N == Len(s.instances)
           more(n) == IF emitting(s, n) THEN << n >> ELSE << >>
           is(f) == f = [n \in 0 .. N |->
                           IF n = 0 THEN << >>
                           ELSE f[n - 1] \o (IF /\ emission(s, s.instances[n]) # None
                                                /\ emission(s, s.instances[n]).emission # "black"
                                             THEN << n >> ELSE << >>)]
           it == CHOOSE f : is(f)
           Q == Seq(Nat)
           next == [at \in (0 .. N) \X Q |-> at[2] \o more(at[1])]
           none == << >>
<1>1. emitters(s) = it[N] BY DEF emitters
<1>2. \A f : is(f) <=> f = [n \in 0 .. N |-> IF n = 0 THEN << >> ELSE f[n - 1] \o more(n)]
  BY DEF emitting
<1> HIDE DEF N, is
<1>3. N \in Nat BY DEF N
<1>4. \E f : is(f)
  <2>1. \A n \in 0 .. N : more(n) \in Q OBVIOUS
  <2>2. next \in [(0 .. N) \X Q -> Q]
    <3> SUFFICES ASSUME NEW at \in (0 .. N) \X Q PROVE at[2] \o more(at[1]) \in Q
      OBVIOUS
    <3>1. at[2] \in Q /\ more(at[1]) \in Q BY <2>1
    <3> HIDE DEF more
    <3>2. QED BY <3>1, ConcatProperties
  <2>3. none \in Q OBVIOUS
  <2> HIDE DEF next, Q, none
  <2>4. \E f : Follows(f, N, Q, none, next) BY <1>3, <2>2, <2>3, Recursion
  <2>5. PICK f : /\ f \in [0 .. N -> Q] /\ f[0] = none
                 /\ \A n \in 1 .. N : f[n] = next[<<n, f[n - 1]>>]
    BY <2>4 DEF Follows
  <2>6. \A n \in 0 .. N : f[n] = IF n = 0 THEN << >> ELSE f[n - 1] \o more(n)
    <3> TAKE n \in 0 .. N
    <3>1. CASE n = 0
      BY <2>5, <3>1 DEF none
    <3>2. CASE n # 0
      <4>1. n \in 1 .. N /\ n - 1 \in 0 .. N BY <1>3, <3>2
      <4>2. <<n, f[n - 1]>> \in (0 .. N) \X Q BY <2>5, <4>1
      <4> HIDE DEF more
      <4>3. next[<<n, f[n - 1]>>] = f[n - 1] \o more(n) BY <4>2 DEF next
      <4>4. QED BY <2>5, <3>2, <4>1, <4>3
    <3>3. QED BY <3>1, <3>2
  <2>7. f = [n \in 0 .. N |-> f[n]] BY <2>5
  <2> HIDE DEF more
  <2>8. is(f) BY <1>2, <2>6, <2>7
  <2>9. QED BY <2>8
<1>5. is(it) BY <1>4
<1> HIDE DEF it, next, Q, none, more
<1>6. \A n \in 0 .. N : it[n] = IF n = 0 THEN << >> ELSE it[n - 1] \o more(n)
  BY <1>2, <1>5
<1> DEFINE A == {n \in 0 .. N : Lists(it[n], n, s)}
<1>7. 0 \in A
  <2>1. it[0] = << >> /\ 0 \in 0 .. N BY <1>3, <1>6
  <2>2. {i \in 1 .. 0 : emitting(s, i)} = {} OBVIOUS
  <2>3. Lists(<< >>, 0, s) BY <2>2, NoElement DEF Lists
  <2>4. QED BY <2>1, <2>3
<1>8. ASSUME NEW n \in 0 .. N, n \in A, n < N PROVE n + 1 \in A
  <2>1. n + 1 \in 0 .. N /\ n + 1 # 0 /\ (n + 1) - 1 = n /\ n \in Nat
    BY <1>3, <1>8
  <2>2. it[n + 1] = it[n] \o more(n + 1) BY <1>6, <2>1
  <2>3. Lists(it[n + 1], n + 1, s) BY <1>8, <2>1, <2>2, ListsOn DEF more
  <2>4. QED BY <2>1, <2>3
<1>9. N \in A
  <2> HIDE DEF A
  <2>1. \A n \in 0 .. N : n \in A BY <1>3, <1>7, <1>8, UpTo
  <2>2. QED BY <1>3, <2>1
<1>10. QED BY <1>1, <1>9 DEF N

(* Of a scene that is framed, they are the emitters. *)
LEMMA EmittersFound ==
  ASSUME NEW s, NEW R, SortedFrom(s, R), FrameRegistries \subseteq R, RecordTypes, Framed,
         Identified(input["lights"])
  PROVE  /\ \A i \in 1 .. Len(s.instances) : emitting(s, i) <=> s.instances[i] \in Emitters
         /\ \A x \in Records("instances") :
              At(s.geometries, x.geometry) = Named("geometries", x.geometry)
<1>1. /\ {"geometries", "materials", "instances"} \subseteq FrameRegistries
      /\ FrameRegistries \subseteq RegistryNames
  BY FrameNames DEF FrameRegistries
<1>2. Records("instances") = {s.instances[i] : i \in 1 .. Len(s.instances)}
  BY <1>1, SortedRegistry
<1>3. \A x \in Records("instances") : x.geometry \in Ids("geometries") /\ x.material \in Ids("materials")
  BY DEF Framed, References
<1>4. \A x \in Records("geometries") \cup Records("materials") : x.id \in Nat
  BY DEF RecordTypes, GeometryType, MaterialType
<1>5. \A x \in Records("geometries") :
        s["geometries"][find_record_index(s["geometries"], x.id)] = x /\ Named("geometries", x.id) = x
  BY <1>1, <1>4, FindsTheRecord DEF Framed
<1>6. \A x \in Records("materials") :
        s["materials"][find_record_index(s["materials"], x.id)] = x /\ Named("materials", x.id) = x
  BY <1>1, <1>4, FindsTheRecord DEF Framed
<1>7. \A id \in Ids("geometries") :
        s["geometries"][find_record_index(s["geometries"], id)] = Named("geometries", id)
  BY <1>5 DEF Ids
<1>8. \A id \in Ids("materials") :
        /\ s["materials"][find_record_index(s["materials"], id)] = Named("materials", id)
        /\ Named("materials", id) \in Records("materials")
  BY <1>6 DEF Ids
<1>9. \A x \in Records("instances") :
        At(s.geometries, x.geometry) = Named("geometries", x.geometry)
  BY <1>3, <1>7 DEF At
<1>10. \A m \in Records("materials") :
         m.spectral # None => m.spectral.emission \in {"black", "lit"}
  <2>1. Spectral /\ Identified(input["lights"]) BY DEF Framed
  <2>2. CASE Records("lights") = {}
    BY <2>1, <2>2, SpectralSaid
  <2>3. CASE Records("lights") # {}
    <3>1. /\ OneEnvironment(input)
          /\ \A m \in Records("materials"), l \in Environments : Fits(m, l)
      BY <2>1, <2>3, SpectralSaid
    <3>2. Environments # {}
      <4>1. OneEnvironment(input) <=> \E e : environments(input) = {e}
        BY <2>1, EnvironmentPlaces DEF Records
      <4>2. environments(input) = {} <=> Environments = {}
        BY <2>1, EnvironmentPlaces DEF Records
      <4>3. QED BY <3>1, <4>1, <4>2
    <3>3. QED BY <3>1, <3>2 DEF Fits
  <2>4. QED BY <2>2, <2>3
<1>11. \A x \in Records("instances") :
         (emission(s, x) # None /\ emission(s, x).emission # "black") <=> x \in Emitters
  <2> TAKE x \in Records("instances")
  <2> DEFINE m == Named("materials", x.material)
  <2>1. m \in Records("materials") /\ At(s.materials, x.material) = m
    BY <1>3, <1>8 DEF At
  <2>2. emission(s, x) = m.spectral BY <2>1 DEF emission
  <2>3. x \in Emitters <=> m.spectral # None /\ m.spectral.emission = "lit"
    BY DEF Emitters
  <2> HIDE DEF m
  <2>4. QED BY <1>10, <2>1, <2>2, <2>3
<1>12. QED BY <1>2, <1>9, <1>11 DEF emitting

------------------------------------------------------
(* Where the instances and the lights of a frame scene are. *)
Placed ==
    /\ \A i \in 1 .. Count : world[i] = Lineage[scene.instances[i].id]
    /\ \A i \in 1 .. Count - 1 : scene.instances[i].id < scene.instances[i + 1].id
    /\ {l.id : l \in Range(derived)} = {i.id : i \in Emitters}
    /\ \A k \in DOMAIN derived : /\ derived[k].transform = Lineage[derived[k].id]
                                 /\ k > 1 => derived[k - 1].id < derived[k].id

(* The invariant speaks of the input alone where it can: what is said of the
   input stays while the input does. *)
LEMMA SameInput ==
  ASSUME input' = input
  PROVE  /\ Lineage' = Lineage /\ Emitters' = Emitters
         /\ HoldsTogether' <=> HoldsTogether
         /\ RenderSetup' <=> RenderSetup
         /\ Placeable' <=> Placeable
         /\ OverLimit' <=> OverLimit
         /\ DescriptionRegistries' = DescriptionRegistries
<1>1. Lineage' = Lineage BY DEF Lineage, Ids, Records, Named
<1>2. Emitters' = Emitters BY DEF Emitters, Records, Named
<1>3. HoldsTogether' <=> HoldsTogether
  BY DEF HoldsTogether, Lineage, Ids, Records, Named, Unique, References, Rooted, Spectral,
    MapsInRange, environments
<1>4. RenderSetup' <=> RenderSetup BY DEF RenderSetup, Ids, Records, Unique
<1>5. Placeable' <=> Placeable BY DEF Placeable, Emitters, Records, Named
<1>6. DescriptionRegistries' = DescriptionRegistries
  BY DEF DescriptionRegistries
<1>7. OverLimit' <=> OverLimit BY DEF OverLimit, Records
<1>8. QED BY <1>1, <1>2, <1>3, <1>4, <1>5, <1>6, <1>7

(* So does what is said of the scene. *)
LEMMA SameScene ==
  ASSUME input' = input, call' = call, scene' = scene
  PROVE  (Accepted' <=> Accepted) /\ Registries' = Registries
<1>1. validate_description(scene)' = validate_description(scene)
  BY DEF validate_description, DescriptionRegistries, All
<1>2. QED BY <1>1 DEF Accepted, Registries, DescriptionRegistries

(* An answer that was justified stays so, and so does the list of answers. *)
LEMMA SameAnswers ==
  ASSUME input' = input, \A c \in Call : answers'[c] = answers[c] \/ Justified(c, answers'[c])
  PROVE  AcceptsWhatHoldsTogether => AcceptsWhatHoldsTogether'
<1>1. /\ HoldsTogether' <=> HoldsTogether
      /\ RenderSetup' <=> RenderSetup
      /\ Placeable' <=> Placeable
      /\ OverLimit' <=> OverLimit
  BY SameInput
<1>2. \A c \in Call : Justified(c, answers[c])' <=> Justified(c, answers'[c])
  BY <1>1 DEF Justified, Call
<1>3. QED BY <1>2 DEF AcceptsWhatHoldsTogether

(* Where a frame scene was created it is in place. *)
LEMMA AnswersSaid == InstancesPlaced <=> (answers["frame"] = "created" => Placed)
  BY DEF InstancesPlaced, Placed

(* The same of the state after a step. *)
LEMMA AnswersSaidNext ==
  InstancesPlaced' <=> (answers'["frame"] = "created" => Placed')
<1>1. InstancesPlaced <=> (answers["frame"] = "created" => Placed)
  BY AnswersSaid
<1>2. (InstancesPlaced <=> (answers["frame"] = "created" => Placed))'
  BY <1>1, PTL
<1>3. QED BY <1>2

(* What is known of the scene once a create has accepted its records. *)
Prepared(I) ==
    /\ Ladder(I) /\ Range(I) = Records("instances")
    /\ Len(I) = Len(input.instances) /\ Len(I) \in Nat
    /\ \A i \in 1 .. Len(I) : I[i].local \in STRING
    /\ SortedFrom(scene, Registries) /\ FrameRegistries \subseteq Registries
    /\ RecordTypes /\ Identified(input["lights"])
    /\ IF call = "frame" THEN Framed ELSE Described /\ ~OverLimit

(* What the checks behind a create have established. *)
LEMMA AcceptedScene ==
  ASSUME CompilationInv, pc \in Resolving \cup {"local_transforms"}
  PROVE  Prepared(scene.instances)
<1> DEFINE I == scene.instances
<1>1. /\ input \in Authored /\ scene = Sorted(input, Registries) /\ Accepted
      /\ call \in {"description", "frame"} /\ (call = "frame" => Cardinality(environments(input)) <= 1)
  BY CompilationAssumption DEF CompilationInv, Running, Resolving, Call
<1>2. /\ DescriptionRegistries = RegistryNames /\ RecordTypes
      /\ \A r \in RegistryNames : Identified(input[r])
  BY <1>1, AuthoredShape
<1>3. Registries \subseteq RegistryNames /\ FrameRegistries \subseteq Registries
  BY <1>2, FrameNames DEF Registries
<1>4. SortedFrom(scene, Registries) BY <1>1, <1>3, SortedScene
<1>5. IF call = "frame" THEN Framed ELSE Described /\ ~OverLimit
  <2>1. CASE call = "frame"
    BY <1>1, <2>1, FrameValid DEF Accepted, Registries
  <2>2. CASE call = "description"
    <3>1. Says(validate_description(scene), Described, OverLimit)
      BY <1>1, <2>2, DescriptionValid DEF Registries
    <3>2. validate_description(scene) = "ok" BY <1>1, <2>2 DEF Accepted
    <3>3. QED BY <2>2, <3>1, <3>2 DEF Says
  <2>3. QED BY <1>1, <2>1, <2>2
<1>6. "instances" \in RegistryNames /\ "instances" \in FrameRegistries /\ "lights" \in RegistryNames
  BY DEF RegistryNames, FrameRegistries
<1>7. Unique("instances") /\ References BY <1>5, <1>6 DEF Framed, Described
<1>8. Increasing(I) /\ Len(I) = Len(input["instances"]) /\ Len(I) \in Nat
  BY <1>3, <1>4, <1>6, <1>7, SortedRegistry
<1>9. Range(I) = Records("instances") /\ ids(I) = Ids("instances")
  BY <1>4, <1>6 DEF SortedFrom
<1>10. \A i \in 1 .. Len(I) : I[i] \in Records("instances")
  BY <1>4, <1>6, SortedRegistry
<1>11. Ladder(I) BY <1>7, <1>8, <1>9, <1>10 DEF Ladder, References
<1>12. \A i \in 1 .. Len(I) : I[i].local \in STRING
  BY <1>2, <1>10 DEF RecordTypes, InstanceType
<1>13. QED BY <1>2, <1>3, <1>4, <1>5, <1>6, <1>8, <1>9, <1>11, <1>12 DEF Prepared

(* The transform of a resolved instance is its lineage. *)
LEMMA WorldIsLineage ==
  ASSUME NEW I, Prepared(I), NEW st, NEW wd, Descends(I, st, wd),
         NEW i \in InState(I, st, "resolved")
  PROVE  Lineage[I[i].id] = wd[i] /\ I[i].id \in Ids("instances")
<1>1. PICK f : Climbs(f, I) /\ Lineage = f[Len(I)] BY LineageClimbs DEF Prepared
<1>2. f[Len(I)][I[i].id] = wd[i] BY <1>1, ClimbsToWorld DEF Prepared
<1>3. I[i].id \in Ids("instances")
  <2>1. i \in 1 .. Len(I) /\ isSeq(I)
    BY DEF InState, Prepared, Ladder, Increasing, Identified
  <2>2. I[i] \in Range(I) BY <2>1, IsSeqShape
  <2>3. QED BY <2>2 DEF Prepared, Ids
<1>4. QED BY <1>1, <1>2, <1>3

(* A local transform is the last matrix of its lineage. *)
LEMMA LocalInLineage ==
  ASSUME NEW I, Prepared(I), NEW i \in 1 .. Len(I)
  PROVE  I[i].id \in Ids("instances") /\ I[i].local \in Range(Lineage[I[i].id])
<1> DEFINE n == Len(I)
<1>1. PICK f : Climbs(f, I) /\ Lineage = f[n] BY LineageClimbs DEF Prepared
<1>2. n \in Nat /\ Ladder(I) /\ isSeq(I) /\ Range(I) = Records("instances")
  BY DEF Prepared, Ladder, Increasing, Identified
<1>3. \A m \in 0 .. n, k \in 1 .. n :
        f[m][I[k].id] = IF m = 0 \/ I[k].parent = None THEN << I[k].local >>
                        ELSE f[m - 1][I[k].parent] \o << I[k].local >>
  BY <1>1 DEF Climbs
<1>4. \A k \in 1 .. n : I[k].parent # None => \E l \in 1 .. n : I[l].id = I[k].parent
  BY <1>2, Up
<1> DEFINE A == {m \in 0 .. n : \A k \in 1 .. n : /\ isSeq(f[m][I[k].id])
                                                  /\ I[k].local \in Range(f[m][I[k].id])}
<1> HIDE DEF n
<1>5. 0 \in A
  <2>1. 0 \in 0 .. n BY <1>2
  <2>2. \A k \in 1 .. n : f[0][I[k].id] = << I[k].local >> BY <1>3, <2>1
  <2>3. \A x : isSeq(<< x >>) /\ Range(<< x >>) = {x} BY Single
  <2>4. QED BY <2>1, <2>2, <2>3
<1>6. ASSUME NEW m \in 0 .. n, m \in A, m < n PROVE m + 1 \in A
  <2>1. m + 1 \in 0 .. n /\ m + 1 # 0 /\ (m + 1) - 1 = m BY <1>2, <1>6
  <2> SUFFICES ASSUME NEW k \in 1 .. n
               PROVE  isSeq(f[m + 1][I[k].id]) /\ I[k].local \in Range(f[m + 1][I[k].id])
    BY <2>1
  <2> DEFINE o == << I[k].local >>
  <2>2. isSeq(o) /\ Range(o) = {I[k].local} BY Single
  <2>3. f[m + 1][I[k].id] = IF I[k].parent = None THEN o ELSE f[m][I[k].parent] \o o
    BY <1>3, <2>1
  <2>4. I[k].parent # None => isSeq(f[m][I[k].parent]) BY <1>4, <1>6
  <2> HIDE DEF o
  <2>5. I[k].parent # None => /\ isSeq(f[m][I[k].parent] \o o)
                              /\ Range(f[m][I[k].parent] \o o) = Range(f[m][I[k].parent]) \cup Range(o)
    BY <2>2, <2>4, Joined
  <2>6. QED BY <2>2, <2>3, <2>5
<1>7. n \in A
  <2> HIDE DEF A
  <2>1. \A m \in 0 .. n : m \in A BY <1>2, <1>5, <1>6, UpTo
  <2>2. QED BY <1>2, <2>1
<1>8. I[i].id \in Ids("instances")
  <2>1. I[i] \in Range(I) BY <1>2, IsSeqShape
  <2>2. QED BY <1>2, <2>1 DEF Ids
<1>9. QED BY <1>1, <1>7, <1>8 DEF n

------------------------------------------------------
(* A create returns what it can justify. *)
LEMMA Returns ==
  ASSUME CompilationInv, pc # "done", NEW status, Return(status), Justified(call, status),
         input' = input, call = "frame" /\ status = "created" => Placed'
  PROVE  CompilationInv'
<1>1. /\ input \in Inputs /\ call \in {"description", "frame"} /\ DOMAIN answers = Call
      /\ call = "frame" => Cardinality(environments(input)) <= 1
      /\ answers["frame"] = None
      /\ AcceptsWhatHoldsTogether
  BY DEF CompilationInv, Call
<1>2. /\ answers' = [answers EXCEPT ![call] = status]
      /\ IF call = "description" /\ Cardinality(environments(input)) <= 1
           THEN call' = "frame" /\ pc' = "create"
           ELSE call' = call /\ pc' = "done"
  BY DEF Return
<1>3. None # "created" BY CompilationAssumption DEF Answer
<1>4. /\ DOMAIN answers' = Call
      /\ answers'[call] = status
      /\ \A c \in Call : c # call => answers'[c] = answers[c]
  BY <1>1, <1>2 DEF Call
<1>5. /\ input' \in Inputs /\ call' \in Call /\ pc' \in Places
      /\ call' = "frame" => Cardinality(environments(input')) <= 1
  BY <1>1, <1>2 DEF Call, Places
<1>6. answers'["frame"] # None => call' = "frame" /\ pc' = "done"
  BY <1>1, <1>2, <1>4 DEF Call
<1>7. Running'
  <2>1. pc' \in {"create", "done"} BY <1>2
  <2>2. pc' \notin Resolving \cup {"local_transforms"} /\ pc' \notin Resolving
    BY <2>1 DEF Resolving
  <2>3. QED BY <2>1, <2>2 DEF Running
<1>8. AcceptsWhatHoldsTogether' BY <1>1, <1>4, SameAnswers
<1>9. InstancesPlaced'
  <2>1. InstancesPlaced' <=> (answers'["frame"] = "created" => Placed')
    BY AnswersSaidNext
  <2>2. answers'["frame"] = "created" => call = "frame" /\ status = "created"
    BY <1>1, <1>3, <1>4 DEF Call
  <2>3. QED BY <2>1, <2>2
<1>10. QED BY <1>4, <1>5, <1>6, <1>7, <1>8, <1>9 DEF CompilationInv

(* It refuses as invalid what does not hold together. *)
LEMMA Refuses ==
  ASSUME CompilationInv, pc # "done", Refuse("invalid_argument"),
         IF call = "frame" THEN ~(HoldsTogether /\ Placeable) ELSE ~(HoldsTogether /\ RenderSetup)
  PROVE  CompilationInv'
<1>1. Justified(call, "invalid_argument") BY DEF Justified, Answer
<1>2. Return("invalid_argument") /\ input' = input BY DEF Refuse
<1>3. QED BY <1>1, <1>2, Returns

(* It goes on. *)
LEMMA GoesOn ==
  ASSUME CompilationInv, pc # "done", UNCHANGED <<input, call, answers>>,
         pc' \in Places, Running'
  PROVE  CompilationInv'
<1>1. /\ input \in Inputs /\ call \in Call /\ DOMAIN answers = Call
      /\ call = "frame" => Cardinality(environments(input)) <= 1
      /\ answers["frame"] = None
      /\ AcceptsWhatHoldsTogether
  BY DEF CompilationInv
<1>2. AcceptsWhatHoldsTogether' BY <1>1, SameAnswers
<1>3. InstancesPlaced'
  <2>1. InstancesPlaced' <=> (answers'["frame"] = "created" => Placed')
    BY AnswersSaidNext
  <2>2. answers'["frame"] # "created" BY <1>1, CompilationAssumption DEF Answer
  <2>3. QED BY <2>1, <2>2
<1>4. QED BY <1>1, <1>2, <1>3 DEF CompilationInv

(* It goes on resolving. *)
LEMMA ResolvesOn ==
  ASSUME CompilationInv, pc \in Resolving \cup {"local_transforms"},
         UNCHANGED <<input, call, scene, answers>>, pc' \in Resolving, Hierarchic'
  PROVE  CompilationInv'
<1>1. scene = Sorted(input, Registries) /\ Accepted
  BY DEF CompilationInv, Running, Resolving
<1>2. scene' = Sorted(input', Registries') /\ Accepted' BY <1>1, SameScene
<1>3. Running' BY <1>2 DEF Running
<1>4. pc # "done" /\ pc' \in Places BY DEF Resolving, Places
<1>5. QED BY <1>3, <1>4, GoesOn

(* Sorting begins a create. *)
LEMMA CreateStep == ASSUME CompilationInv, create PROVE CompilationInv'
<1>1. /\ pc = "create" /\ pc' = "validate" /\ UNCHANGED <<input, call, answers>>
      /\ scene' = Sorted(input, Registries)
  BY DEF create, Registries
<1>2. Registries' = Registries BY <1>1, SameInput DEF Registries
<1>3. scene' = Sorted(input', Registries') BY <1>1, <1>2
<1>4. Running' BY <1>1, <1>3 DEF Running, Resolving
<1>5. QED BY <1>1, <1>4, GoesOn DEF Places

(* Validation lets through what holds together so far. *)
LEMMA ValidateStep == ASSUME CompilationInv, validate PROVE CompilationInv'
<1>1. pc = "validate" /\ scene = Sorted(input, Registries)
  BY DEF validate, CompilationInv, Running
<1>2. CASE Accepted
  <2>1. pc' = "local_transforms" /\ UNCHANGED <<input, call, scene, answers>>
    BY <1>2 DEF validate, Accepted, checked
  <2>2. scene' = Sorted(input', Registries') /\ Accepted'
    BY <1>1, <1>2, <2>1, SameScene
  <2>3. Running' BY <2>1, <2>2 DEF Running, Resolving
  <2>4. QED BY <1>1, <2>1, <2>3, GoesOn DEF Places
<1>3. CASE ~Accepted
  <2> DEFINE said == validate_description(scene)
  <2>1. /\ input \in Authored /\ call \in {"description", "frame"}
        /\ call = "frame" => Cardinality(environments(input)) <= 1
    BY CompilationAssumption DEF CompilationInv, Call
  <2>2. CASE call = "frame"
    <3>1. Refuse("invalid_argument") BY <1>3, <2>2 DEF validate, Accepted, checked
    <3>2. ~Framed BY <1>1, <1>3, <2>1, <2>2, FrameValid DEF Accepted, Registries
    <3>3. ~HoldsTogether BY <3>2, WhatHolds
    <3>4. QED BY <1>1, <2>2, <3>1, <3>3, Refuses
  <2>3. CASE call = "description"
    <3>1. Refuse(said) /\ said # "ok" BY <1>3, <2>3 DEF validate, Accepted
    <3>2. Says(said, Described, OverLimit)
      BY <1>1, <2>1, <2>3, DescriptionValid DEF Registries
    <3> HIDE DEF said
    <3>3. HoldsTogether /\ RenderSetup => Described BY WhatHolds
    <3>4. said \in {"invalid_argument", "resource_exhausted"}
      BY <3>1, <3>2 DEF Says, RecordStatus
    <3>5. Justified(call, said) BY <2>3, <3>2, <3>3, <3>4 DEF Says, Justified, Answer
    <3>6. Return(said) /\ input' = input BY <3>1 DEF Refuse
    <3>7. QED BY <1>1, <2>3, <3>5, <3>6, Returns
  <2>4. QED BY <2>1, <2>2, <2>3
<1>4. QED BY <1>2, <1>3

(* A matrix of one is invertible unless it is singular. *)
LEMMA OneMatrix == ASSUME NEW x, ~from_matrix(<< x >>) PROVE x = "singular"
<1> DEFINE huge == {i \in DOMAIN << x >> : << x >>[i] = "huge"}
<1>1. Range(<< x >>) = {x} /\ DOMAIN << x >> = {1}
  <2>1. isSeq(<< x >>) /\ Len(<< x >>) = 1 /\ Range(<< x >>) = {x} BY Single
  <2>2. DOMAIN << x >> = 1 .. 1 BY <2>1, IsSeqShape
  <2>3. 1 .. 1 = {1} OBVIOUS
  <2>4. QED BY <2>1, <2>2, <2>3
<1>2. Cardinality(huge) <= 1
  <2>1. huge = {} \/ huge = {1} BY <1>1
  <2>2. Cardinality({}) = 0 /\ Cardinality({1}) = 1 BY FS_EmptySet, FS_Singleton
  <2> HIDE DEF huge
  <2>3. QED BY <2>1, <2>2
<1>3. from_matrix(<< x >>) <=> "singular" \notin Range(<< x >>) /\ Cardinality(huge) <= 1
  BY DEF from_matrix
<1> HIDE DEF huge
<1>4. QED BY <1>1, <1>2, <1>3

(* What refuses a lineage refuses the scene. *)
LEMMA NotRepresentable ==
  ASSUME CompilationInv, pc \in Resolving \cup {"local_transforms"}, Refuse("invalid_argument"),
         ~Representable \/ ~Rooted
  PROVE  CompilationInv'
<1>1. ~HoldsTogether BY WhatHolds
<1>2. pc # "done" BY DEF Resolving
<1>3. QED BY <1>1, <1>2, Refuses

(* A local transform that is refused refuses its lineage. *)
LEMMA LocalsStep == ASSUME CompilationInv, local_transforms PROVE CompilationInv'
<1> DEFINE I == scene.instances
<1>1. pc = "local_transforms" /\ Prepared(I) /\ isSeq(I)
  BY AcceptedScene DEF local_transforms, Prepared, Ladder, Increasing, Identified
<1>2. Len(I) \in Nat /\ DOMAIN I = 1 .. Len(I) /\ Count = Len(I)
  BY <1>1, IsSeqShape DEF Count
<1>3. CASE \A i \in DOMAIN I : from_matrix(<< I[i].local >>)
  <2>1. /\ states' = [i \in 1 .. Len(I) |-> "unresolved"]
        /\ world' = [i \in 1 .. Len(I) |-> None]
        /\ start' = 1 /\ pc' = "next_start"
        /\ UNCHANGED <<input, call, scene, answers>>
    BY <1>3 DEF local_transforms, All, Count
  <2>2. /\ Descends(I, states', world')
        /\ InState(I, states', "resolved") = {} /\ InState(I, states', "resolving") = {}
    BY <2>1, StartDescends
  <2>3. 1 \in 1 .. Len(I) + 1 /\ \A i \in 1 .. Len(I) : ~(i < 1) BY <1>2
  <2>4. Hierarchic' BY <2>1, <2>2, <2>3 DEF Hierarchic, Count
  <2>5. QED BY <1>1, <2>1, <2>4, ResolvesOn DEF Resolving
<1>4. CASE ~(\A i \in DOMAIN I : from_matrix(<< I[i].local >>))
  <2>1. Refuse("invalid_argument") BY <1>4 DEF local_transforms, All
  <2>2. PICK i \in 1 .. Len(I) : ~from_matrix(<< I[i].local >>) BY <1>2, <1>4
  <2>3. I[i].local = "singular" BY <2>2, OneMatrix
  <2>4. I[i].id \in Ids("instances") /\ "singular" \in Range(Lineage[I[i].id])
    BY <1>1, <2>3, LocalInLineage
  <2>5. ~Representable BY <2>4 DEF Representable, from_matrix
  <2>6. QED BY <1>1, <2>1, <2>5, NotRepresentable
<1>5. QED BY <1>3, <1>4

(* What a step of the resolution starts from. *)
LEMMA ResolvingScene ==
  ASSUME CompilationInv, pc \in Resolving, NEW I, I = scene.instances
  PROVE  /\ Prepared(I) /\ Ladder(I) /\ Hierarchic
         /\ Count = Len(I) /\ Len(I) \in Nat
         /\ \A i \in 1 .. Len(I) : I[i].parent # None =>
              /\ up(I, i) \in 1 .. Len(I) /\ up(I, i) # None
<1>1. Prepared(I) /\ Hierarchic BY AcceptedScene DEF CompilationInv, Running
<1>2. Ladder(I) /\ Len(I) \in Nat /\ Count = Len(I) BY <1>1 DEF Prepared, Count
<1>3. \A i \in 1 .. Len(I) : I[i].parent # None => up(I, i) \in 1 .. Len(I)
  BY <1>2, Up
<1>4. None \notin 1 .. Len(I) BY <1>2, CompilationAssumption
<1>5. QED BY <1>1, <1>2, <1>3, <1>4

(* A chain starts where nothing is being resolved. *)
LEMMA NoChain ==
  ASSUME NEW I, NEW st, InState(I, st, "resolving") = {}
  PROVE  Chained(I, st, << >>)
  BY NoElement DEF Chained

(* The loop takes up the next instance that is not resolved. *)
LEMMA NextStartStep == ASSUME CompilationInv, next_start PROVE CompilationInv'
<1> DEFINE I == scene.instances
<1>1. /\ pc = "next_start" /\ pc \in Resolving
      /\ UNCHANGED <<input, call, scene, answers, states, world>>
  BY DEF next_start, Resolving
<1>2. Hierarchic /\ Count = Len(I) /\ Len(I) \in Nat BY <1>1, ResolvingScene
<1>3. /\ Descends(I, states, world)
      /\ \A i \in InState(I, states, "resolved") : from_matrix(world[i])
      /\ start \in 1 .. Count + 1
      /\ \A i \in 1 .. Count : i < start => states[i] = "resolved"
      /\ InState(I, states, "resolving") = {}
  BY <1>1, <1>2 DEF Hierarchic
<1>4. CASE start > Count
  <2>1. pc' = "resolved" /\ start' = start /\ start = Count + 1
    BY <1>2, <1>3, <1>4 DEF next_start
  <2>2. Hierarchic' BY <1>1, <1>3, <2>1 DEF Hierarchic, Count
  <2>3. QED BY <1>1, <2>1, <2>2, ResolvesOn DEF Resolving
<1>5. CASE start \in 1 .. Count /\ states[start] = "resolved"
  <2>1. pc' = "next_start" /\ start' = start + 1
    BY <1>1, <1>2, <1>5 DEF next_start
  <2>2. start + 1 \in 1 .. Count + 1 /\ \A i \in 1 .. Count : i < start + 1 => states[i] = "resolved"
    BY <1>2, <1>3, <1>5
  <2>3. Hierarchic' BY <1>1, <1>3, <2>1, <2>2 DEF Hierarchic, Count
  <2>4. QED BY <1>1, <2>1, <2>3, ResolvesOn
<1>6. CASE start \in 1 .. Count /\ states[start] # "resolved"
  <2>1. pc' = "climb" /\ start' = start /\ chain' = << >> /\ current' = start
    BY <1>2, <1>6 DEF next_start
  <2>2. Chained(I, states, << >>) BY <1>3, NoChain
  <2>3. start <= Count BY <1>2, <1>6
  <2>4. Hierarchic' BY <1>1, <1>3, <1>6, <2>1, <2>2, <2>3 DEF Hierarchic, Count
  <2>5. QED BY <1>1, <2>1, <2>4, ResolvesOn DEF Resolving
<1>7. QED BY <1>2, <1>3, <1>4, <1>5, <1>6

(* A turn of the climb: it meets what is resolved, or its own chain, or goes on. *)
LEMMA ClimbStep == ASSUME CompilationInv, climb PROVE CompilationInv'
<1> DEFINE I == scene.instances
           parent == I[current].parent
           index == IF parent = None THEN None ELSE find_record_index(I, parent)
<1>1. pc = "climb" /\ pc \in Resolving BY DEF climb, Resolving
<1>2. /\ Prepared(I) /\ Ladder(I) /\ Hierarchic /\ Count = Len(I) /\ Len(I) \in Nat
      /\ \A i \in 1 .. Len(I) : I[i].parent # None =>
           /\ up(I, i) \in 1 .. Len(I) /\ up(I, i) # None
  BY <1>1, ResolvingScene
<1>3. /\ Descends(I, states, world) /\ Chained(I, states, chain)
      /\ \A i \in InState(I, states, "resolved") : from_matrix(world[i])
      /\ start \in 1 .. Count + 1 /\ start <= Count
      /\ \A i \in 1 .. Count : i < start => states[i] = "resolved"
      /\ current \in 1 .. Count
      /\ chain = << >> => current = start /\ states[start] # "resolved"
      /\ chain # << >> => /\ chain[1] = start /\ I[Last(chain)].parent # None
                          /\ up(I, Last(chain)) = current
  BY <1>1, <1>2 DEF Hierarchic
<1>4. states[current] \in {"unresolved", "resolving", "resolved"}
  BY <1>2, <1>3 DEF Descends
<1>5. parent # None => index = up(I, current) /\ index \in 1 .. Len(I) /\ index # None
  BY <1>2, <1>3 DEF up
<1>6. CASE states[current] = "resolved"
  <2>1. pc' = "unwind" /\ UNCHANGED <<input, call, scene, answers, states, world, chain, current, start>>
    BY <1>6 DEF climb, hierarchy
  <2>2. chain # << >> /\ states[up(I, Last(chain))] = "resolved" BY <1>3, <1>6
  <2>3. Hierarchic' BY <1>3, <1>6, <2>1, <2>2 DEF Hierarchic, Count
  <2>4. QED BY <1>1, <2>1, <2>3, ResolvesOn DEF Resolving
<1>7. CASE states[current] = "resolving"
  <2>1. Refuse("invalid_argument") BY <1>7 DEF climb
  <2>2. current \in InState(I, states, "resolving")
    BY <1>2, <1>3, <1>7 DEF InState
  <2>3. chain # << >> BY <1>3, <2>2, NoElement DEF Chained
  <2>4. ~Rooted BY <1>2, <1>3, <2>2, <2>3, Cyclic DEF Prepared
  <2>5. QED BY <1>1, <2>1, <2>4, NotRepresentable
<1>8. CASE states[current] = "unresolved"
  <2>1. /\ states' = [states EXCEPT ![current] = "resolving"]
        /\ chain' = Append(chain, current)
        /\ IF parent = None THEN pc' = "unwind" /\ current' = current
                            ELSE current' = index /\ pc' = pc
        /\ UNCHANGED <<input, call, scene, answers, world, start>>
    BY <1>5, <1>8 DEF climb
  <2>2. /\ Descends(I, states', world)
        /\ InState(I, states', "resolved") = InState(I, states, "resolved")
        /\ InState(I, states', "resolving") = InState(I, states, "resolving") \cup {current}
        /\ current \notin InState(I, states, "resolving")
    <3>1. Descends(I, states, world) /\ current \in 1 .. Len(I) /\ states[current] = "unresolved"
      BY <1>2, <1>3, <1>8
    <3>2. Becomes(states', states, current, "resolving") BY <2>1 DEF Becomes
    <3> HIDE DEF I
    <3>3. QED BY ONLY <3>1, <3>2, ClimbsOn
  <2>3. /\ Chained(I, states', chain') /\ chain' # << >> /\ Last(chain') = current
        /\ chain'[1] = start
    <3>1. /\ Chained(I, states, chain) /\ current \notin InState(I, states, "resolving")
          /\ InState(I, states', "resolving") = InState(I, states, "resolving") \cup {current}
          /\ chain # << >> => I[Last(chain)].parent # None /\ up(I, Last(chain)) = current
      BY <1>3, <2>2
    <3>2. Extends(chain', chain, current) BY <1>3, <2>1, Extended DEF Chained
    <3> HIDE DEF I
    <3>3. /\ Chained(I, states', chain') /\ chain' # << >> /\ Last(chain') = current
          /\ chain = << >> => chain'[1] = current
          /\ chain # << >> => chain'[1] = chain[1]
      BY ONLY <3>1, <3>2, ChainGrows
    <3>4. QED BY <1>3, <3>3
  <2>4. \A i \in 1 .. Count : i < start => states'[i] = "resolved"
    BY <1>2, <1>3, <2>2 DEF InState
  <2>5. CASE parent = None
    <3>1. pc' = "unwind" BY <2>1, <2>5
    <3>2. Hierarchic'
      BY <1>3, <2>1, <2>2, <2>3, <2>4, <2>5, <3>1 DEF Hierarchic, Count
    <3>3. QED BY <1>1, <2>1, <3>1, <3>2, ResolvesOn DEF Resolving
  <2>6. CASE parent # None
    <3>1. pc' = "climb" /\ current' = up(I, current) /\ current' \in 1 .. Count
      BY <1>1, <1>2, <1>5, <2>1, <2>6
    <3>2. Hierarchic'
      BY <1>3, <2>1, <2>2, <2>3, <2>4, <2>6, <3>1 DEF Hierarchic, Count
    <3>3. QED BY <1>1, <2>1, <3>1, <3>2, ResolvesOn DEF Resolving
  <2>7. QED BY <2>5, <2>6
<1>9. QED BY <1>4, <1>6, <1>7, <1>8

(* A turn of the way back: the parent is resolved, and so is the instance then. *)
LEMMA UnwindStep == ASSUME CompilationInv, unwind PROVE CompilationInv'
<1> DEFINE I == scene.instances
           i == Last(chain)
           matrix == matrix_of(I, world, i)
           st2 == [states EXCEPT ![i] = "resolved"]
           wd2 == [world EXCEPT ![i] = matrix]
<1>1. pc = "unwind" /\ pc \in Resolving /\ chain # << >>
  BY DEF unwind, Resolving
<1>2. /\ Prepared(I) /\ Ladder(I) /\ Hierarchic /\ Count = Len(I) /\ Len(I) \in Nat
      /\ \A k \in 1 .. Len(I) : I[k].parent # None =>
           /\ up(I, k) \in 1 .. Len(I) /\ up(I, k) # None
  BY <1>1, ResolvingScene
<1>3. /\ Descends(I, states, world) /\ Chained(I, states, chain)
      /\ \A k \in InState(I, states, "resolved") : from_matrix(world[k])
      /\ start \in 1 .. Count + 1 /\ start <= Count
      /\ \A k \in 1 .. Count : k < start => states[k] = "resolved"
      /\ chain[1] = start
      /\ I[i].parent # None => states[up(I, i)] = "resolved"
  BY <1>1, <1>2 DEF Hierarchic
<1>4. i \in InState(I, states, "resolving")
  BY <1>1, <1>3, Shortened DEF Chained, Extends
<1>5. i \in 1 .. Len(I) /\ states[i] = "resolving" BY <1>4 DEF InState
<1>6. /\ Descends(I, st2, wd2)
      /\ InState(I, st2, "resolved") = InState(I, states, "resolved") \cup {i}
      /\ InState(I, st2, "resolving") = InState(I, states, "resolving") \ {i}
      /\ wd2[i] = matrix
      /\ \A k \in InState(I, states, "resolved") : wd2[k] = world[k]
  <2>1. /\ Ladder(I) /\ Descends(I, states, world) /\ i \in 1 .. Len(I)
        /\ states[i] = "resolving" /\ (I[i].parent # None => states[up(I, i)] = "resolved")
    BY <1>2, <1>3, <1>5
  <2>2. Becomes(st2, states, i, "resolved") /\ Becomes(wd2, world, i, matrix_of(I, world, i))
    BY DEF Becomes
  <2> HIDE DEF I, i, st2, wd2
  <2>3. /\ Descends(I, st2, wd2)
        /\ InState(I, st2, "resolved") = InState(I, states, "resolved") \cup {i}
        /\ InState(I, st2, "resolving") = InState(I, states, "resolving") \ {i}
        /\ wd2[i] = matrix_of(I, world, i)
        /\ \A k \in InState(I, states, "resolved") : wd2[k] = world[k]
    BY ONLY <2>1, <2>2, UnwindsOn
  <2>4. QED BY <2>3
<1>7. I[i].parent # None => find_record_index(I, I[i].parent) = up(I, i) /\ up(I, i) # None
  BY <1>2, <1>5 DEF up
<1>8. matrix = IF I[i].parent = None THEN << I[i].local >>
               ELSE composed(world[find_record_index(I, I[i].parent)], I[i].local)
  BY <1>7 DEF matrix_of, composed
<1>9. CASE from_matrix(matrix)
  <2>1. /\ world' = wd2 /\ states' = st2 /\ chain' = Front(chain)
        /\ UNCHANGED <<input, call, pc, scene, answers, current, start>>
    BY <1>3, <1>7, <1>8, <1>9 DEF unwind
  <2> HIDE DEF st2, wd2, matrix
  <2>2. \A k \in InState(I, states', "resolved") : from_matrix(world'[k])
    BY <1>3, <1>6, <1>9, <2>1
  <2>3. \A k \in 1 .. Count : k < start => states'[k] = "resolved"
    BY <1>2, <1>3, <1>6, <2>1 DEF InState
  <2>4. /\ Chained(I, states', chain')
        /\ chain' = << >> => chain[1] = i
        /\ chain' # << >> => chain'[1] = chain[1] /\ up(I, Last(chain')) = i
    BY <1>1, <1>3, <1>6, <2>1, ChainShrinks
  <2>5. states'[i] = "resolved" BY <1>6, <2>1 DEF InState
  <2>6. Hierarchic'
    BY <1>1, <1>3, <1>6, <2>1, <2>2, <2>3, <2>4, <2>5 DEF Hierarchic, Count
  <2>7. QED BY <1>1, <2>1, <2>6, ResolvesOn
<1>10. CASE ~from_matrix(matrix)
  <2>1. Refuse("invalid_argument") BY <1>3, <1>7, <1>8, <1>10 DEF unwind
  <2> HIDE DEF st2, wd2, matrix
  <2>2. Lineage[I[i].id] = matrix /\ I[i].id \in Ids("instances")
    BY <1>2, <1>6, WorldIsLineage
  <2>3. ~Representable BY <1>10, <2>2 DEF Representable
  <2>4. QED BY <1>1, <2>1, <2>3, NotRepresentable
<1>11. QED BY <1>9, <1>10

(* With the chain empty the start is resolved. *)
LEMMA ChainUnwoundStep == ASSUME CompilationInv, chain_unwound PROVE CompilationInv'
<1> DEFINE I == scene.instances
<1>1. /\ pc = "unwind" /\ pc \in Resolving /\ chain = << >>
      /\ start' = start + 1 /\ pc' = "next_start"
      /\ UNCHANGED <<input, call, scene, answers, states, world>>
  BY DEF chain_unwound, Resolving
<1>2. Hierarchic /\ Count = Len(I) /\ Len(I) \in Nat BY <1>1, ResolvingScene
<1>3. /\ Descends(I, states, world) /\ Chained(I, states, << >>)
      /\ \A k \in InState(I, states, "resolved") : from_matrix(world[k])
      /\ start \in 1 .. Count + 1 /\ start <= Count
      /\ \A k \in 1 .. Count : k < start => states[k] = "resolved"
      /\ states[start] = "resolved"
  BY <1>1, <1>2 DEF Hierarchic
<1>4. InState(I, states, "resolving") = {} BY <1>3, NoElement DEF Chained
<1>5. start + 1 \in 1 .. Count + 1 /\ \A k \in 1 .. Count : k < start + 1 => states[k] = "resolved"
  BY <1>2, <1>3
<1>6. Hierarchic' BY <1>1, <1>3, <1>4, <1>5 DEF Hierarchic, Count
<1>7. QED BY <1>1, <1>6, ResolvesOn DEF Resolving

(* Once every instance is resolved each is where its lineage says. *)
LEMMA AllResolved ==
  ASSUME CompilationInv, pc = "resolved", NEW I, I = scene.instances
  PROVE  /\ Prepared(I) /\ Count = Len(I) /\ Rooted /\ Representable
         /\ \A i \in 1 .. Len(I) : world[i] = Lineage[I[i].id]
<1>1. Prepared(I) /\ Ladder(I) /\ Hierarchic /\ Count = Len(I) /\ Len(I) \in Nat
  BY ResolvingScene DEF Resolving
<1>2. /\ Descends(I, states, world)
      /\ \A k \in InState(I, states, "resolved") : from_matrix(world[k])
      /\ start = Count + 1
      /\ \A k \in 1 .. Count : k < start => states[k] = "resolved"
  BY <1>1 DEF Hierarchic
<1>3. \A k \in 1 .. Len(I) : states[k] = "resolved" BY <1>1, <1>2
<1>4. \A k \in 1 .. Len(I) : k \in InState(I, states, "resolved")
  BY <1>3 DEF InState
<1>5. Rooted BY <1>1, <1>2, <1>3, RootedIfResolved DEF Prepared
<1>6. \A k \in 1 .. Len(I) : world[k] = Lineage[I[k].id]
  <2> TAKE k \in 1 .. Len(I)
  <2>1. k \in InState(I, states, "resolved") BY <1>4
  <2>2. QED BY <1>1, <1>2, <2>1, WorldIsLineage
<1>7. \A k \in 1 .. Len(I) : from_matrix(Lineage[I[k].id]) BY <1>2, <1>4, <1>6
<1>8. Ids("instances") = {I[k].id : k \in 1 .. Len(I)}
  <2>1. Range(I) = {I[k] : k \in 1 .. Len(I)}
    BY <1>1, IdsListed DEF Prepared, Ladder, Increasing, Identified
  <2>2. QED BY <1>1, <2>1 DEF Prepared, Ids
<1>9. Representable BY <1>7, <1>8 DEF Representable
<1>10. QED BY <1>1, <1>5, <1>6, <1>9

(* A description returns what its records deserve. *)
LEMMA DescribeStep == ASSUME CompilationInv, describe PROVE CompilationInv'
<1> DEFINE I == scene.instances
<1>1. pc = "resolved" /\ pc \in Resolving /\ pc \notin {"create", "done"} /\ call = "description"
  BY DEF describe, Resolving
<1>2. Prepared(I) /\ Rooted /\ Representable BY <1>1, AllResolved
<1>3. input \in Authored BY CompilationAssumption DEF CompilationInv
<1>4. Registries = RegistryNames
  BY <1>1, <1>3, AuthoredShape, FrameNames DEF Registries
<1>5. /\ Described /\ ~OverLimit
      /\ SortedFrom(scene, RegistryNames) /\ RecordTypes /\ Identified(input["lights"])
  BY <1>1, <1>2, <1>4 DEF Prepared
<1>6. Unique("lights") BY <1>5, FrameNames DEF Described
<1>7. validate_spectral_records(scene) <=> Spectral
  BY <1>5, <1>6, SpectralRecordsValid
<1>8. HoldsTogether /\ RenderSetup <=> Spectral BY <1>2, <1>5, WhatHolds
<1>9. CASE Spectral
  <2>1. Justified(call, "created") BY <1>1, <1>5, <1>8, <1>9 DEF Justified, Answer
  <2>2. Return("created") /\ input' = input BY <1>7, <1>9 DEF describe
  <2>3. QED BY <1>1, <2>1, <2>2, Returns
<1>10. CASE ~Spectral
  <2>1. Refuse("invalid_argument") BY <1>7, <1>10 DEF describe
  <2>2. QED BY <1>1, <1>8, <1>10, <2>1, Refuses
<1>11. QED BY <1>9, <1>10

(* What the list of the emitters shows. *)
LEMMA EmittersPlaced ==
  ASSUME NEW I, Prepared(I), I = scene.instances, call = "frame",
         NEW lit, lit = emitters(scene)
  PROVE  /\ isSeq(lit) /\ DOMAIN lit = 1 .. Len(lit) /\ Len(lit) \in Nat
         /\ \A k \in 1 .. Len(lit) : lit[k] \in 1 .. Len(I)
         /\ \A k, l \in 1 .. Len(lit) : k < l => lit[k] < lit[l]
         /\ Emitters = {I[lit[k]] : k \in 1 .. Len(lit)}
         /\ Placeable <=> \A k \in DOMAIN lit : At(scene.geometries, I[lit[k]].geometry).mesh # "degenerate"
<1> DEFINE n == Len(I)
           named(x) == At(scene.geometries, x.geometry)
<1>1. /\ SortedFrom(scene, Registries) /\ FrameRegistries \subseteq Registries
      /\ RecordTypes /\ Identified(input["lights"]) /\ Framed
      /\ n \in Nat /\ isSeq(I) /\ Range(I) = Records("instances")
  BY DEF Prepared, Ladder, Increasing, Identified
<1>2. Lists(lit, n, scene) BY <1>1, EmittersListed
<1>3. /\ \A i \in 1 .. n : emitting(scene, i) <=> I[i] \in Emitters
      /\ \A x \in Records("instances") : named(x) = Named("geometries", x.geometry)
  BY <1>1, EmittersFound
<1>4. Records("instances") = {I[i] : i \in 1 .. n} BY <1>1, IdsListed
<1>5. /\ isSeq(lit) /\ Range(lit) = {i \in 1 .. n : emitting(scene, i)}
      /\ \A k, l \in 1 .. Len(lit) : k < l => lit[k] < lit[l]
  BY <1>2 DEF Lists
<1>6. /\ DOMAIN lit = 1 .. Len(lit) /\ Len(lit) \in Nat
      /\ Range(lit) = {lit[k] : k \in 1 .. Len(lit)}
  BY <1>5, IsSeqShape, IdsListed
<1>7. \A k \in 1 .. Len(lit) : lit[k] \in 1 .. n BY <1>5, <1>6
<1>8. Emitters \subseteq Records("instances") BY DEF Emitters
<1>9. Emitters = {I[i] : i \in Range(lit)} BY <1>3, <1>4, <1>5, <1>8
<1>10. Emitters = {I[lit[k]] : k \in 1 .. Len(lit)} BY <1>6, <1>9
<1>11. \A k \in 1 .. Len(lit) : named(I[lit[k]]) = Named("geometries", I[lit[k]].geometry)
  BY <1>3, <1>4, <1>7
<1>12. Placeable <=> \A k \in 1 .. Len(lit) : Named("geometries", I[lit[k]].geometry).mesh # "degenerate"
  BY <1>10 DEF Placeable
<1>13. Placeable <=> \A k \in DOMAIN lit : named(I[lit[k]]).mesh # "degenerate"
  BY <1>6, <1>11, <1>12
<1>14. QED BY <1>5, <1>6, <1>7, <1>10, <1>13

(* A frame scene returns what its records deserve, its lights in place. *)
LEMMA DeriveStep == ASSUME CompilationInv, derive_mesh_area_lights PROVE CompilationInv'
<1> DEFINE I == scene.instances
           lit == emitters(scene)
           fits == \A k \in DOMAIN lit : At(scene.geometries, I[lit[k]].geometry).mesh # "degenerate"
<1>1. pc = "resolved" /\ pc \notin {"create", "done"} /\ call = "frame"
  BY DEF derive_mesh_area_lights
<1>2. /\ Prepared(I) /\ Count = Len(I) /\ Rooted /\ Representable
      /\ \A i \in 1 .. Len(I) : world[i] = Lineage[I[i].id]
  BY <1>1, AllResolved
<1>3. /\ isSeq(lit) /\ DOMAIN lit = 1 .. Len(lit) /\ Len(lit) \in Nat
      /\ \A k \in 1 .. Len(lit) : lit[k] \in 1 .. Len(I)
      /\ \A k, l \in 1 .. Len(lit) : k < l => lit[k] < lit[l]
      /\ Emitters = {I[lit[k]] : k \in 1 .. Len(lit)}
      /\ Placeable <=> fits
  BY <1>1, <1>2, EmittersPlaced
<1>4. HoldsTogether BY <1>1, <1>2, WhatHolds DEF Prepared
<1>5. Len(I) \in Nat /\ \A i, j \in 1 .. Len(I) : i < j => I[i].id < I[j].id
  BY <1>2 DEF Prepared, Ladder, Increasing
<1>6. CASE fits
  <2>1. Justified(call, "created") BY <1>1, <1>3, <1>4, <1>6 DEF Justified, Answer
  <2>2. /\ derived' = [k \in DOMAIN lit |-> [id |-> I[lit[k]].id, transform |-> world[lit[k]]]]
        /\ Return("created") /\ UNCHANGED <<input, scene, hierarchy>>
    BY <1>6 DEF derive_mesh_area_lights
  <2> HIDE DEF lit
  <2>3. /\ DOMAIN derived' = 1 .. Len(lit)
        /\ \A k \in 1 .. Len(lit) : /\ derived'[k].id = I[lit[k]].id
                                    /\ derived'[k].transform = world[lit[k]]
    BY <1>3, <2>2
  <2>4. /\ input' = input /\ scene' = scene /\ world' = world
        /\ Lineage' = Lineage /\ Emitters' = Emitters /\ Count' = Count
    BY <2>2, SameInput DEF hierarchy, Count
  <2>5. \A k \in 1 .. Len(lit) : derived'[k].transform = Lineage[derived'[k].id]
    BY <1>2, <1>3, <2>3
  <2>6. \A k \in 1 .. Len(lit) : k > 1 => derived'[k - 1].id < derived'[k].id
    <3> TAKE k \in 1 .. Len(lit)
    <3> HAVE k > 1
    <3>1. k - 1 \in 1 .. Len(lit) /\ k - 1 < k BY <1>3
    <3>2. lit[k - 1] < lit[k] /\ lit[k - 1] \in 1 .. Len(I) /\ lit[k] \in 1 .. Len(I)
      BY <1>3, <3>1
    <3>3. I[lit[k - 1]].id < I[lit[k]].id BY <1>5, <3>2
    <3>4. QED BY <2>3, <3>1, <3>3
  <2>7. {l.id : l \in Range(derived')} = {i.id : i \in Emitters}
    <3>1. Range(derived') = {derived'[k] : k \in 1 .. Len(lit)}
      BY <2>3 DEF Range
    <3>2. {l.id : l \in Range(derived')} = {I[lit[k]].id : k \in 1 .. Len(lit)}
      BY <2>3, <3>1
    <3>3. {i.id : i \in Emitters} = {I[lit[k]].id : k \in 1 .. Len(lit)} BY <1>3
    <3>4. QED BY <3>2, <3>3
  <2>8. \A i \in 1 .. Count - 1 : I[i].id < I[i + 1].id
    <3> TAKE i \in 1 .. Count - 1
    <3>1. i \in 1 .. Len(I) /\ i + 1 \in 1 .. Len(I) /\ i < i + 1 BY <1>2, <1>5
    <3>2. QED BY <1>5, <3>1
  <2>9. Placed' BY <1>2, <2>3, <2>4, <2>5, <2>6, <2>7, <2>8 DEF Placed
  <2>10. QED BY <1>1, <2>1, <2>2, <2>9, Returns
<1>7. CASE ~fits
  <2>1. Refuse("invalid_argument") BY <1>7 DEF derive_mesh_area_lights
  <2>2. QED BY <1>1, <1>3, <1>7, <2>1, Refuses
<1>8. QED BY <1>6, <1>7

(* Exhausted memory says nothing of the records. *)
LEMMA ExhaustStep == ASSUME CompilationInv, exhaust_memory PROVE CompilationInv'
<1>1. pc # "done" /\ Return("host_memory_exhausted") /\ input' = input
  BY DEF exhaust_memory
<1>2. Justified(call, "host_memory_exhausted") BY DEF Justified, Answer
<1>3. QED BY <1>1, <1>2, Returns

------------------------------------------------------
(* A create begins with nothing answered. *)
LEMMA CompilationStarts == ASSUME CompilationInit PROVE CompilationInv
<1>1. /\ input \in Inputs /\ call = "description" /\ pc = "create"
      /\ answers = [c \in Call |-> None]
  BY DEF CompilationInit
<1>2. DOMAIN answers = Call /\ answers["description"] = None /\ answers["frame"] = None
  BY <1>1 DEF Call
<1>3. AcceptsWhatHoldsTogether
  BY <1>2, CompilationAssumption DEF AcceptsWhatHoldsTogether, Justified, Answer, Call
<1>4. InstancesPlaced BY <1>2, AnswersSaid, CompilationAssumption DEF Answer
<1>5. Running BY <1>1 DEF Running, Resolving
<1>6. QED BY <1>1, <1>2, <1>3, <1>4, <1>5 DEF CompilationInv, Call, Places

(* What changes nothing keeps it. *)
LEMMA CompilationStutters == ASSUME CompilationInv, UNCHANGED compilation PROVE CompilationInv'
<1>1. /\ input' = input /\ call' = call /\ pc' = pc /\ scene' = scene /\ states' = states
      /\ world' = world /\ chain' = chain /\ current' = current /\ start' = start
      /\ derived' = derived /\ answers' = answers
  BY DEF compilation
<1>2. /\ input \in Inputs /\ call \in Call /\ pc \in Places /\ DOMAIN answers = Call
      /\ call = "frame" => Cardinality(environments(input)) <= 1
      /\ answers["frame"] # None => call = "frame" /\ pc = "done"
      /\ Running /\ AcceptsWhatHoldsTogether /\ InstancesPlaced
  BY DEF CompilationInv
<1>3. Lineage' = Lineage /\ Emitters' = Emitters /\ Count' = Count
  BY <1>1, SameInput DEF Count
<1>4. Running'
  <2>1. scene = Sorted(input, Registries) => scene' = Sorted(input', Registries')
    BY <1>1, SameScene
  <2>2. Accepted => Accepted' BY <1>1, SameScene
  <2>3. Hierarchic => Hierarchic' BY <1>1, <1>3 DEF Hierarchic
  <2>4. QED BY <1>1, <1>2, <2>1, <2>2, <2>3 DEF Running
<1>5. AcceptsWhatHoldsTogether' BY <1>1, <1>2, SameAnswers
<1>6. InstancesPlaced'
  <2>1. Placed => Placed' BY <1>1, <1>3 DEF Placed
  <2>2. QED BY <1>1, <1>2, <2>1, AnswersSaid, AnswersSaidNext
<1>7. QED BY <1>1, <1>2, <1>4, <1>5, <1>6 DEF CompilationInv

(* Every step of either create keeps the invariant: what the sorted scene,
   the partly resolved hierarchy and the answers have to do with the input. *)
THEOREM CompilationCorrect == CompilationSpec => []CompilationInv
<1>1. CompilationInit => CompilationInv BY CompilationStarts
<1>2. CompilationInv /\ [CompilationNext]_compilation => CompilationInv'
  <2> SUFFICES ASSUME CompilationInv, [CompilationNext]_compilation PROVE CompilationInv'
    OBVIOUS
  <2>1. CASE create
    BY <2>1, CreateStep
  <2>2. CASE validate
    BY <2>2, ValidateStep
  <2>3. CASE local_transforms
    BY <2>3, LocalsStep
  <2>4. CASE next_start
    BY <2>4, NextStartStep
  <2>5. CASE climb
    BY <2>5, ClimbStep
  <2>6. CASE unwind
    BY <2>6, UnwindStep
  <2>7. CASE chain_unwound
    BY <2>7, ChainUnwoundStep
  <2>8. CASE describe
    BY <2>8, DescribeStep
  <2>9. CASE derive_mesh_area_lights
    BY <2>9, DeriveStep
  <2>10. CASE exhaust_memory
    BY <2>10, ExhaustStep
  <2>11. CASE UNCHANGED compilation
    BY <2>11, CompilationStutters
  <2>12. QED BY <2>1, <2>2, <2>3, <2>4, <2>5, <2>6, <2>7, <2>8, <2>9, <2>10, <2>11
    DEF CompilationNext
<1>3. QED BY <1>1, <1>2, PTL DEF CompilationSpec

(* Unless its memory is refused each create returns a scene for exactly the
   records that hold together and are within the limits, whatever the order they
   come in and whichever check looks at them first, and says truly why not. *)
THEOREM CompilationAccepts == CompilationSpec => []AcceptsWhatHoldsTogether
<1>1. CompilationInv => AcceptsWhatHoldsTogether BY DEF CompilationInv
<1>2. QED BY <1>1, CompilationCorrect, PTL

(* A compiled frame scene places every instance where its lineage says, and
   lists the mesh lights by increasing instance, where their instances are. *)
THEOREM CompilationPlaces == CompilationSpec => []InstancesPlaced
<1>1. CompilationInv => InstancesPlaced BY DEF CompilationInv
<1>2. QED BY <1>1, CompilationCorrect, PTL
=============================================================================
