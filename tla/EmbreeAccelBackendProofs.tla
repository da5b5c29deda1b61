----------------------- MODULE EmbreeAccelBackendProofs -----------------------
(***************************************************************************)
(* For every set of frame scenes, whichever Embree calls fail and in        *)
(* whichever order: the backend answers from the snapshot it published, and *)
(* each of its steps is one of the interface's contract or invisible to it. *)
(* Then the same question asked of the trees the CUDA backend builds and    *)
(* uploads: for every scene that fits the stack and every ray, the traversal *)
(* gives the answer of testing every triangle.                              *)
(***************************************************************************)
EXTENDS EmbreeAccelBackend, SceneClosestHit, SequenceTheorems, FiniteSetTheorems,
        WellFoundedInduction, TLAPS

Instance == [geometry : Geometry, object_to_world : Transform]
Met      == [geometry : Geometry, object_to_world : Transform \cup {Torn}]

(* The sequences of the state and of the scenes as functions. *)
LEMMA SceneShape ==
  ASSUME NEW s \in Scene
  PROVE  /\ s.instances \in Seq(Instance)
         /\ Len(s.instances) \in Nat
         /\ DOMAIN s.instances = 1 .. Len(s.instances)
         /\ \A i \in DOMAIN s.instances : s.instances[i] \in Instance
<1>1. s.instances \in Seq(Instance) BY EmbreeAssumption DEF Instance
<1>2. QED BY <1>1, LenProperties, ElementOfSeq

LEMMA StateShape ==
  ASSUME TypeOK, PublishedInv
  PROVE  /\ Len(instances) \in Nat
         /\ instances \in Seq(Instance) /\ DOMAIN instances = 1 .. Len(instances)
         /\ mappings \in Seq(Mapping) /\ DOMAIN mappings = 1 .. Len(instances)
         /\ traversed \in Seq(Met) /\ DOMAIN traversed = 1 .. Len(instances)
         /\ meshes \in Seq(Geometry) /\ Len(meshes) \in Nat /\ DOMAIN meshes = 1 .. Len(meshes)
         /\ \A i \in 1 .. Len(instances) : /\ instances[i] \in Instance
                                           /\ mappings[i] \in Mapping
                                           /\ traversed[i] \in Met
<1>1. /\ instances \in Seq(Instance) /\ mappings \in Seq(Mapping)
      /\ traversed \in Seq(Met) /\ meshes \in Seq(Geometry)
  BY DEF TypeOK, Contract!Instance, Instance, Mapping, Met
<1>2. Len(mappings) = Len(instances) /\ Len(traversed) = Len(instances)
  BY DEF PublishedInv
<1>3. QED BY <1>1, <1>2, LenProperties, ElementOfSeq

LEMMA UpdateShape ==
  ASSUME TypeOK, call # NoCall
  PROVE  /\ call \in Update
         /\ call.target \in Scene
         /\ source = call.target.instances
         /\ Len(source) \in Nat
         /\ DOMAIN source = 1 .. Len(source)
         /\ \A i \in 1 .. Len(source) : source[i] \in Instance
         /\ call.meshes \in Seq(Geometry)
         /\ Len(call.meshes) \in Nat
         /\ DOMAIN call.meshes = 1 .. Len(call.meshes)
         /\ call.mappings \in Seq(Mapping)
         /\ Len(call.mappings) \in Nat
         /\ DOMAIN call.mappings = 1 .. Len(call.mappings)
         /\ call.next \in Nat \ {0}
<1>1. call \in Update BY DEF TypeOK, Update, Mapping
<1>2. /\ call.target \in Scene /\ call.next \in Nat \ {0}
      /\ call.meshes \in Seq(Geometry) /\ call.mappings \in Seq(Mapping)
  BY <1>1 DEF Update
<1>3. QED BY <1>1, <1>2, SceneShape, LenProperties DEF source

(* TypeOK field by field, for the steps that change only the call. *)
LEMMA TypeKept ==
  ASSUME TypeOK, UNCHANGED state, call' = NoCall \/ call' \in Update
  PROVE  TypeOK'
  BY DEF TypeOK, state, Update

LEMMA PublishedKept == ASSUME PublishedInv, UNCHANGED state PROVE PublishedInv'
  BY DEF PublishedInv, state

(* An update that is abandoned leaves what was published. *)
LEMMA Abandoned == ASSUME IInv, UNCHANGED state, call' = NoCall PROVE IInv'
<1>1. TypeOK' /\ PublishedInv' BY TypeKept, PublishedKept DEF IInv
<1>2. CandidateInv' /\ RefitInv' BY DEF CandidateInv, RefitInv
<1>3. UpdateInv' BY DEF IInv, UpdateInv, state
<1>4. QED BY <1>1, <1>2, <1>3 DEF IInv

------------------------------------------------------
(* The beginning of an update. *)

LEMMA Begun ==
  ASSUME NEW operation \in {"create", "rebuild", "refit"}, NEW s \in Scene,
         NEW stage \in {"mesh", "transform"}
  PROVE  Call(operation, s, stage) \in Update
<1>1. << >> \in Seq(Geometry) /\ << >> \in Seq(Mapping) OBVIOUS
<1>2. QED BY <1>1 DEF Call, Update

LEMMA BeginBuild ==
  ASSUME IInv, NEW s \in Scene, create(s) \/ rebuild(s)
  PROVE  IInv'
<1>0. PICK operation \in {"create", "rebuild"} :
         /\ call' = Call(operation, s, "mesh")
         /\ operation = "create" <=> scene = NoScene
         /\ operation # "create" => build_statistics.commits < MaxCommits
  BY DEF create, rebuild
<1>1. UNCHANGED state /\ Contract!prepare_instances(s) BY DEF create, rebuild
<1>2. /\ call' \in Update /\ call'.operation = operation /\ call'.target = s
      /\ call'.stage = "mesh" /\ call'.next = 1
      /\ call'.meshes = << >> /\ call'.mappings = << >>
  BY <1>0, Begun DEF Call
<1>3. TypeOK' /\ PublishedInv' BY <1>1, <1>2, TypeKept, PublishedKept DEF IInv
<1>4. CandidateInv'
  <2>1. /\ Len(s.instances) \in Nat
        /\ DOMAIN s.instances = 1 .. Len(s.instances)
        /\ source' = s.instances
    BY <1>2, SceneShape DEF source
  <2>2. scene' = scene BY <1>1 DEF state
  <2>3. DOMAIN << >> = {} /\ Len(<< >>) = 0 OBVIOUS
  <2>4. \A i \in 1 .. Len(s.instances) : ~(i < 1) BY <2>1
  <2>5. QED BY <1>0, <1>2, <2>1, <2>2, <2>3, <2>4 DEF CandidateInv
<1>5. RefitInv' BY <1>2 DEF RefitInv
<1>6. UpdateInv'
  BY <1>0, <1>1, <1>2 DEF IInv, UpdateInv, state, Contract!prepare_instances
<1>7. QED BY <1>3, <1>4, <1>5, <1>6 DEF IInv

------------------------------------------------------
(* The construction of a candidate. *)

(* What CandidateInv and RefitInv say of a construction in progress. *)
LEMMA Building ==
  ASSUME IInv, at("mesh") \/ at("attach")
  PROVE  /\ call # NoCall /\ call.operation \in {"create", "rebuild"}
         /\ call.operation = "create" <=> scene = NoScene
         /\ call.next \in Nat /\ call.next >= 1 /\ call.next <= Len(source) + 1
         /\ \A j, k \in DOMAIN call.meshes : j # k => call.meshes[j] # call.meshes[k]
         /\ \A i \in DOMAIN source :
               call.stage = "attach" \/ i < call.next
                   => existing(call.meshes, source[i].geometry) # {}
         /\ Len(call.mappings) = IF call.stage = "mesh" THEN 0 ELSE call.next - 1
         /\ \A i \in DOMAIN call.mappings : /\ Reaches(call.meshes, call.mappings[i], source[i])
                                            /\ Holds(call.mappings[i], source[i])
<1>1. call # NoCall /\ call.stage \in {"mesh", "attach"} BY DEF at
<1>2. call \in Update /\ call.next \in Nat /\ call.next >= 1
  BY <1>1, UpdateShape DEF IInv
<1>3. call.operation # "refit" BY <1>1 DEF IInv, RefitInv
<1>4. call.operation \in {"create", "rebuild"} BY <1>2, <1>3 DEF Update
<1>5. QED BY <1>1, <1>2, <1>3, <1>4 DEF IInv, CandidateInv

Candidate(stage, next, ms, maps) ==
    /\ next <= Len(source) + 1
    /\ \A j, k \in DOMAIN ms : j # k => ms[j] # ms[k]
    /\ \A i \in DOMAIN source :
          stage = "attach" \/ i < next => existing(ms, source[i].geometry) # {}
    /\ Len(maps) = IF stage = "mesh" THEN 0 ELSE next - 1
    /\ \A i \in DOMAIN maps : Reaches(ms, maps[i], source[i]) /\ Holds(maps[i], source[i])

(* A step of the construction changes the position and grows the candidate. *)
LEMMA Built ==
  ASSUME IInv, at("mesh") \/ at("attach"), UNCHANGED state,
         NEW stage \in {"mesh", "attach"}, NEW next \in Nat \ {0},
         NEW ms \in Seq(Geometry), NEW maps \in Seq(Mapping),
         call' = [call EXCEPT !.stage = stage, !.next = next, !.meshes = ms, !.mappings = maps],
         Candidate(stage, next, ms, maps)
  PROVE  IInv'
<1>1. /\ call # NoCall /\ call.operation \in {"create", "rebuild"}
      /\ call.operation = "create" <=> scene = NoScene
      /\ call \in Update
  BY Building, UpdateShape DEF IInv
<1>2. /\ call' \in Update /\ call'.operation = call.operation /\ call'.target = call.target
      /\ call'.stage = stage /\ call'.next = next /\ call'.meshes = ms /\ call'.mappings = maps
  BY <1>1 DEF Update
<1>3. source' = source BY <1>2 DEF source
<1>4. TypeOK' /\ PublishedInv' BY <1>2, TypeKept, PublishedKept DEF IInv
<1>5. CandidateInv'
  <2>1. scene' = scene BY DEF state
  <2>2. QED BY <1>1, <1>2, <1>3, <2>1 DEF CandidateInv, Candidate, existing
<1>6. RefitInv' BY <1>1, <1>2 DEF RefitInv
<1>7. UpdateInv'
  BY <1>1, <1>2 DEF IInv, UpdateInv, state, Contract!prepare_instances
<1>8. QED BY <1>4, <1>5, <1>6, <1>7 DEF IInv

LEMMA BuildMesh == ASSUME IInv, build_mesh PROVE IInv'
<1> DEFINE g  == source[call.next].geometry
           ms == IF existing(call.meshes, g) # {} THEN call.meshes ELSE Append(call.meshes, g)
           old == call.meshes
           m  == Len(old)
<1>0. /\ at("mesh") /\ call.next <= Len(source)
      /\ call' = [call EXCEPT !.next = @ + 1, !.meshes = ms]
      /\ UNCHANGED state
  BY DEF build_mesh, unfinished
<1>1. /\ call \in Update /\ call.stage = "mesh"
      /\ call.next \in Nat \ {0} /\ Len(source) \in Nat /\ DOMAIN source = 1 .. Len(source)
      /\ old \in Seq(Geometry) /\ m \in Nat /\ DOMAIN old = 1 .. m
      /\ call.mappings \in Seq(Mapping)
      /\ g \in Geometry
  BY <1>0, UpdateShape DEF IInv, at, Instance
<1>2. /\ \A j, k \in DOMAIN old : j # k => old[j] # old[k]
      /\ \A i \in DOMAIN source : i < call.next => existing(old, source[i].geometry) # {}
      /\ Len(call.mappings) = 0
      /\ \A i \in DOMAIN call.mappings : /\ Reaches(old, call.mappings[i], source[i])
                                         /\ Holds(call.mappings[i], source[i])
  BY <1>0, <1>1, Building
<1>3. call' = [call EXCEPT !.stage = "mesh", !.next = call.next + 1, !.meshes = ms,
                           !.mappings = call.mappings]
  BY <1>0, <1>1 DEF Update
<1>4. /\ ms \in Seq(Geometry)
      /\ \A j, k \in DOMAIN ms : j # k => ms[j] # ms[k]
      /\ existing(ms, g) # {}
      /\ \A i \in DOMAIN source : existing(old, source[i].geometry) # {}
                                     => existing(ms, source[i].geometry) # {}
  <2>1. CASE existing(old, g) # {}
    BY <1>1, <1>2, <2>1
  <2>2. CASE existing(old, g) = {}
    <3>1. /\ ms = Append(old, g) /\ ms \in Seq(Geometry)
          /\ DOMAIN ms = 1 .. (m + 1)
          /\ ms[m + 1] = g
          /\ \A j \in 1 .. m : ms[j] = old[j]
      BY <1>1, <2>2, AppendProperties, LenProperties
    <3> HIDE DEF ms
    <3>2. \A j \in 1 .. m : old[j] # g BY <1>1, <2>2 DEF existing
    <3>3. \A j, k \in DOMAIN ms : j # k => ms[j] # ms[k]
      BY <1>1, <1>2, <3>1, <3>2
    <3>4. existing(ms, g) # {} BY <1>1, <3>1 DEF existing
    <3>5. \A geometry : existing(old, geometry) \subseteq existing(ms, geometry)
      BY <1>1, <3>1 DEF existing
    <3>6. QED BY <3>1, <3>3, <3>4, <3>5
  <2>3. QED BY <2>1, <2>2
<1>5. \A i \in DOMAIN source : i < call.next + 1 => existing(ms, source[i].geometry) # {}
  <2> SUFFICES ASSUME NEW i \in DOMAIN source, i < call.next + 1
               PROVE  existing(ms, source[i].geometry) # {}
    OBVIOUS
  <2>1. i < call.next \/ i = call.next BY <1>1
  <2> HIDE DEF ms, old
  <2>2. QED BY <1>2, <1>4, <2>1
<1>6. DOMAIN call.mappings = {} BY <1>1, <1>2, LenProperties
<1> HIDE DEF ms, old
<1>7. call.next + 1 \in Nat \ {0} /\ call.next + 1 <= Len(source) + 1
  BY <1>0, <1>1
<1>8. Candidate("mesh", call.next + 1, ms, call.mappings)
  BY <1>2, <1>4, <1>5, <1>6, <1>7 DEF Candidate
<1>9. QED BY <1>0, <1>1, <1>3, <1>4, <1>7, <1>8, Built

LEMMA MeshesBuilt == ASSUME IInv, meshes_built PROVE IInv'
<1>0. /\ at("mesh") /\ ~(call.next <= Len(source))
      /\ call' = [call EXCEPT !.stage = "attach", !.next = 1]
      /\ UNCHANGED state
  BY DEF meshes_built, unfinished
<1>1. /\ call \in Update /\ call.stage = "mesh"
      /\ call.next \in Nat \ {0} /\ Len(source) \in Nat /\ DOMAIN source = 1 .. Len(source)
      /\ call.meshes \in Seq(Geometry) /\ call.mappings \in Seq(Mapping)
  BY <1>0, UpdateShape DEF IInv, at
<1>2. call' = [call EXCEPT !.stage = "attach", !.next = 1, !.meshes = call.meshes,
                           !.mappings = call.mappings]
  BY <1>0, <1>1 DEF Update
<1>3. \A i \in DOMAIN source : i < call.next BY <1>0, <1>1
<1>4. Len(call.mappings) = 0 /\ DOMAIN call.mappings = {}
  BY <1>0, <1>1, Building, LenProperties
<1>5. /\ \A j, k \in DOMAIN call.meshes : j # k => call.meshes[j] # call.meshes[k]
      /\ \A i \in DOMAIN source : existing(call.meshes, source[i].geometry) # {}
  BY <1>0, <1>3, Building
<1>6. 1 <= Len(source) + 1 /\ Len(call.mappings) = 1 - 1 BY <1>1, <1>4
<1>7. Candidate("attach", 1, call.meshes, call.mappings)
  BY <1>4, <1>5, <1>6 DEF Candidate
<1>8. /\ "attach" \in {"mesh", "attach"} /\ 1 \in Nat \ {0}
      /\ at("mesh") \/ at("attach")
  BY <1>0
<1>9. QED BY <1>0, <1>1, <1>2, <1>7, <1>8, Built

(* With one mesh per geometry the first of a geometry is the only one. *)
LEMMA MeshIndex ==
  ASSUME NEW ms \in Seq(Geometry), NEW geometry, existing(ms, geometry) # {},
         \A j, k \in DOMAIN ms : j # k => ms[j] # ms[k]
  PROVE  /\ mesh_index(ms, geometry) \in DOMAIN ms
         /\ ms[mesh_index(ms, geometry)] = geometry
<1>1. PICK j \in DOMAIN ms : ms[j] = geometry BY DEF existing
<1>2. DOMAIN ms = 1 .. Len(ms) /\ Len(ms) \in Nat BY LenProperties
<1>3. \A k \in 1 .. j - 1 : k \in DOMAIN ms /\ k # j BY <1>1, <1>2
<1>4. \E i \in DOMAIN ms : ms[i] = geometry /\ \A k \in 1 .. i - 1 : ms[k] # geometry
  BY <1>1, <1>3
<1>5. QED BY <1>4 DEF mesh_index

LEMMA AttachInstance == ASSUME IInv, attach_instance PROVE IInv'
<1> DEFINE inst == source[call.next]
           e    == [mesh      |-> mesh_index(call.meshes, inst.geometry),
                    set       |-> inst.object_to_world,
                    committed |-> inst.object_to_world]
           maps == Append(call.mappings, e)
           m    == Len(call.mappings)
<1>0. /\ at("attach") /\ call.next <= Len(source)
      /\ call' = [call EXCEPT !.next = @ + 1, !.mappings = maps]
      /\ UNCHANGED state
  BY DEF attach_instance, unfinished
<1>1. /\ call \in Update /\ call.stage = "attach"
      /\ call.next \in Nat \ {0} /\ Len(source) \in Nat /\ DOMAIN source = 1 .. Len(source)
      /\ call.meshes \in Seq(Geometry) /\ DOMAIN call.meshes = 1 .. Len(call.meshes)
      /\ Len(call.meshes) \in Nat
      /\ call.mappings \in Seq(Mapping) /\ m \in Nat
      /\ inst \in Instance
  BY <1>0, UpdateShape DEF IInv, at
<1>2. /\ \A j, k \in DOMAIN call.meshes : j # k => call.meshes[j] # call.meshes[k]
      /\ \A i \in DOMAIN source : existing(call.meshes, source[i].geometry) # {}
      /\ m = call.next - 1
      /\ \A i \in DOMAIN call.mappings : /\ Reaches(call.meshes, call.mappings[i], source[i])
                                         /\ Holds(call.mappings[i], source[i])
  BY <1>0, <1>1, Building
<1>3. /\ mesh_index(call.meshes, inst.geometry) \in DOMAIN call.meshes
      /\ call.meshes[mesh_index(call.meshes, inst.geometry)] = inst.geometry
  <2>1. call.next \in DOMAIN source BY <1>0, <1>1
  <2>2. existing(call.meshes, inst.geometry) # {} BY <1>2, <2>1
  <2> HIDE DEF inst
  <2>3. QED BY <1>1, <1>2, <2>2, MeshIndex
<1>4. e \in Mapping /\ Reaches(call.meshes, e, inst) /\ Holds(e, inst)
  BY <1>1, <1>3 DEF Mapping, Instance, Reaches, Holds
<1> HIDE DEF e
<1>5. /\ maps \in Seq(Mapping) /\ Len(maps) = m + 1 /\ DOMAIN maps = 1 .. (m + 1)
      /\ maps[m + 1] = e
      /\ DOMAIN call.mappings = 1 .. m
      /\ \A i \in 1 .. m : maps[i] = call.mappings[i]
  BY <1>1, <1>4, AppendProperties, LenProperties
<1>6. call' = [call EXCEPT !.stage = "attach", !.next = call.next + 1, !.meshes = call.meshes,
                           !.mappings = maps]
  BY <1>0, <1>1 DEF Update
<1> HIDE DEF maps, m, inst
<1>7. /\ call.next + 1 \in Nat \ {0} /\ call.next + 1 <= Len(source) + 1
      /\ Len(maps) = (call.next + 1) - 1 /\ m + 1 = call.next
  BY <1>0, <1>1, <1>2, <1>5
<1>8. \A i \in DOMAIN maps : /\ Reaches(call.meshes, maps[i], source[i])
                             /\ Holds(maps[i], source[i])
  <2> SUFFICES ASSUME NEW i \in 1 .. (m + 1)
               PROVE  Reaches(call.meshes, maps[i], source[i]) /\ Holds(maps[i], source[i])
    BY <1>5
  <2>1. i \in 1 .. m \/ i = m + 1 BY <1>1
  <2>2. QED BY <1>2, <1>4, <1>5, <1>7, <2>1 DEF inst
<1>9. Candidate("attach", call.next + 1, call.meshes, maps)
  BY <1>2, <1>7, <1>8 DEF Candidate
<1>10. QED BY <1>0, <1>1, <1>5, <1>6, <1>7, <1>9, Built

(* What traversal meets once a top-level scene over maps is committed. *)
LEMMA MetShape ==
  ASSUME NEW ms \in Seq(Geometry), NEW insts \in Seq(Instance), NEW maps \in Seq(Mapping),
         Len(maps) = Len(insts),
         \A i \in DOMAIN insts : Reaches(ms, maps[i], insts[i]) /\ Holds(maps[i], insts[i])
  PROVE  /\ met(maps, ms) \in Seq(Met)
         /\ Len(met(maps, ms)) = Len(insts)
         /\ \A i \in DOMAIN insts : met(maps, ms)[i] = insts[i]
<1> DEFINE n == Len(insts)
           t == met(maps, ms)
<1>1. n \in Nat /\ DOMAIN insts = 1 .. n /\ DOMAIN maps = 1 .. n
  BY LenProperties
<1>2. t = [i \in 1 .. n |-> [geometry |-> ms[maps[i].mesh], object_to_world |-> maps[i].committed]]
  BY <1>1 DEF met
<1> HIDE DEF t, n
<1>3. ASSUME NEW i \in 1 .. n
      PROVE  t[i] = insts[i] /\ t[i] \in Met
  <2>1. insts[i] \in Instance BY <1>1, <1>3, ElementOfSeq DEF n
  <2>2. ms[maps[i].mesh] = insts[i].geometry /\ maps[i].committed = insts[i].object_to_world
    BY <1>1, <1>3 DEF Reaches, Holds
  <2>3. t[i] = [geometry |-> insts[i].geometry, object_to_world |-> insts[i].object_to_world]
    BY <1>2, <2>2
  <2>4. QED BY <2>1, <2>3 DEF Instance, Met
<1>4. t \in [1 .. n -> Met] BY <1>2, <1>3
<1>5. t \in Seq(Met) /\ Len(t) = n BY <1>1, <1>4, SeqDef, LenProperties
<1>6. QED BY <1>1, <1>3, <1>5 DEF n, t

(* The publication of a whole scene that was built. *)
LEMMA CommitTopScene == ASSUME IInv, commit_top_scene PROVE IInv'
<1>0. /\ at("attach") /\ ~(call.next <= Len(source))
      /\ instances' = source /\ meshes' = call.meshes /\ mappings' = call.mappings
      /\ traversed' = met(call.mappings, call.meshes)
      /\ queryable' = TRUE /\ call' = NoCall
  BY DEF commit_top_scene, unfinished
<1>1. /\ scene' = call.target
      /\ build_statistics' \in [commits : 0 .. MaxCommits, rebuilds : 0 .. MaxCommits,
                                refits : 0 .. MaxCommits]
      /\ build_statistics'.rebuilds <= build_statistics'.commits
      /\ build_statistics'.refits <= build_statistics'.commits
  <2> DEFINE b == build_statistics
  <2>1. /\ b \in [commits : 0 .. MaxCommits, rebuilds : 0 .. MaxCommits, refits : 0 .. MaxCommits]
        /\ b.rebuilds <= b.commits /\ b.refits <= b.commits
        /\ call # NoCall /\ call.operation # "create" => b.commits < MaxCommits
        /\ MaxCommits \in Nat \ {0}
    BY EmbreeAssumption DEF IInv, TypeOK, UpdateInv
  <2>2. CASE call.operation = "create"
    <3>1. scene' = call.target /\ b' = [commits |-> 1, rebuilds |-> 0, refits |-> 0]
      BY <2>2 DEF commit_top_scene, Contract!NoStatistics
    <3>2. QED BY <2>1, <3>1
  <2>3. CASE call.operation = "rebuild"
    <3>1. /\ scene' = call.target
          /\ b' = [b EXCEPT !.commits = b.commits + 1, !.rebuilds = b.rebuilds + 1]
      BY <2>3 DEF commit_top_scene, Contract!publish_rebuild
    <3>2. b.commits < MaxCommits BY <1>0, <2>1, <2>3 DEF at
    <3>3. /\ b'.commits = b.commits + 1 /\ b'.rebuilds = b.rebuilds + 1 /\ b'.refits = b.refits
          /\ b' = [commits |-> b.commits + 1, rebuilds |-> b.rebuilds + 1, refits |-> b.refits]
      BY <2>1, <3>1
    <3> HIDE DEF b
    <3>4. b.commits \in Nat /\ b.rebuilds \in Nat /\ b.refits \in Nat BY <2>1
    <3>5. QED BY <2>1, <3>1, <3>2, <3>3, <3>4 DEF b
  <2>4. QED BY <1>0, <2>2, <2>3, Building
<1>2. /\ call \in Update /\ call.target \in Scene /\ source = call.target.instances
      /\ source \in Seq(Instance) /\ Len(source) \in Nat /\ DOMAIN source = 1 .. Len(source)
      /\ call.meshes \in Seq(Geometry) /\ call.mappings \in Seq(Mapping)
      /\ DOMAIN call.mappings = 1 .. Len(call.mappings)
      /\ call.next \in Nat \ {0} /\ call.stage = "attach"
  BY <1>0, UpdateShape, SceneShape DEF IInv, at
<1>3. call.next = Len(source) + 1 BY <1>0, <1>2, Building
<1>4. /\ Len(call.mappings) = Len(source)
      /\ \A i \in DOMAIN source : /\ Reaches(call.meshes, call.mappings[i], source[i])
                                  /\ Holds(call.mappings[i], source[i])
  <2>1. Len(call.mappings) = call.next - 1 BY <1>0, <1>2, Building
  <2>2. Len(call.mappings) = Len(source) BY <1>2, <1>3, <2>1
  <2>3. QED BY <1>0, <1>2, <2>2, Building
<1>5. /\ traversed' \in Seq(Met) /\ Len(traversed') = Len(source)
      /\ \A i \in DOMAIN source : traversed'[i] = source[i]
  BY <1>0, <1>2, <1>4, MetShape
<1>6. TypeOK'
  <2>1. /\ scene' \in Scene \cup {NoScene}
        /\ instances' \in Seq(Contract!Instance) /\ meshes' \in Seq(Geometry)
        /\ mappings' \in Seq(Mapping) /\ queryable' \in BOOLEAN
    BY <1>0, <1>1, <1>2 DEF Contract!Instance, Instance
  <2>2. traversed' \in Seq([geometry : Geometry, object_to_world : Transform \cup {Torn}])
    BY <1>5 DEF Met
  <2>3. QED BY <1>0, <1>1, <2>1, <2>2 DEF TypeOK
<1>7. PublishedInv'
  <2>1. call.target # NoScene BY <1>2, EmbreeAssumption
  <2>2. QED BY <1>0, <1>1, <1>2, <1>4, <1>5, <2>1 DEF PublishedInv, Reaches, Holds
<1>8. CandidateInv' /\ RefitInv' /\ UpdateInv'
  BY <1>0, <1>1 DEF CandidateInv, RefitInv, UpdateInv
<1>9. QED BY <1>6, <1>7, <1>8 DEF IInv

------------------------------------------------------
(* The in-place refit and its rollback. *)

(* What is known while a refit is running. *)
LEMMA Refitting ==
  ASSUME IInv, at("transform") \/ at("commit_geometry") \/ at("restore")
  PROVE  /\ call \in Update /\ call # NoCall /\ call.operation = "refit"
         /\ scene \in Scene /\ instances = scene.instances
         /\ Contract!validate_refit_scene(scene, call.target)
         /\ Contract!prepare_instances(call.target)
         /\ build_statistics.commits < MaxCommits
         /\ call.next \in Nat /\ call.next >= 1 /\ call.next <= Len(instances) + 1
         /\ Len(source) = Len(instances) /\ source \in Seq(Instance)
         /\ \A i \in 1 .. Len(instances) : /\ source[i] \in Instance
                                           /\ source[i].geometry = instances[i].geometry
<1>1. call # NoCall /\ call.stage \in {"transform", "commit_geometry", "restore"}
  BY DEF at
<1>2. call \in Update /\ call.target \in Scene /\ source = call.target.instances
      /\ call.next \in Nat \ {0}
  BY <1>1, UpdateShape DEF IInv
<1>3. call.operation = "refit" BY <1>1 DEF IInv, CandidateInv
<1>4. /\ scene \in Scene /\ instances = scene.instances
      /\ Contract!validate_refit_scene(scene, call.target)
      /\ call.next <= Len(instances) + 1
  BY <1>1, <1>3 DEF IInv, RefitInv, TypeOK, PublishedInv
<1>5. Contract!prepare_instances(call.target) /\ build_statistics.commits < MaxCommits
  BY <1>1, <1>3 DEF IInv, UpdateInv
<1>6. /\ Len(source) = Len(instances) /\ source \in Seq(Instance)
      /\ \A i \in DOMAIN instances : instances[i].geometry = source[i].geometry
  BY <1>2, <1>4, SceneShape DEF Contract!validate_refit_scene
<1>7. \A i \in 1 .. Len(instances) : source[i] \in Instance
  BY <1>6, ElementOfSeq
<1>8. DOMAIN instances = 1 .. Len(instances) BY StateShape DEF IInv
<1>9. QED BY <1>1, <1>2, <1>3, <1>4, <1>5, <1>6, <1>7, <1>8

(* Where the instances stand in a refit. *)
LEMMA Standing ==
  ASSUME IInv, at("transform") \/ at("commit_geometry") \/ at("restore")
  PROVE  /\ queryable <=> call.stage # "restore" /\ ~call.changed
         /\ call.stage = "commit_geometry" =>
               /\ call.changed
               /\ call.next <= Len(instances)
               /\ mappings[call.next].set = source[call.next].object_to_world
         /\ \A i \in 1 .. Len(instances) :
               /\ i < call.next =>
                     Holds(mappings[i], IF call.stage = "restore" THEN instances[i] ELSE source[i])
               /\ i > call.next /\ call.stage # "restore" => Holds(mappings[i], instances[i])
               /\ i = call.next /\ call.stage = "transform" => Holds(mappings[i], instances[i])
<1>1. call # NoCall /\ call.operation = "refit" BY Refitting
<1>2. DOMAIN instances = 1 .. Len(instances) BY StateShape DEF IInv
<1>3. QED BY <1>1, <1>2 DEF IInv, RefitInv

LEMMA BeginRefit == ASSUME IInv, NEW s \in Scene, refit(s) PROVE IInv'
<1>0. /\ call' = Call("refit", s, "transform")
      /\ scene # NoScene /\ queryable
      /\ Contract!validate_refit_scene(scene, s)
      /\ Contract!prepare_instances(s)
      /\ build_statistics.commits < MaxCommits
      /\ UNCHANGED state
  BY DEF refit
<1>1. /\ call' \in Update /\ call'.operation = "refit" /\ call'.target = s
      /\ call'.stage = "transform" /\ call'.next = 1 /\ call'.changed = FALSE
  BY <1>0, Begun DEF Call
<1>2. TypeOK' /\ PublishedInv' BY <1>0, <1>1, TypeKept, PublishedKept DEF IInv
<1>3. CandidateInv' BY <1>1 DEF CandidateInv
<1>4. RefitInv'
  <2>1. /\ Len(instances) \in Nat /\ DOMAIN instances = 1 .. Len(instances)
        /\ \A i \in DOMAIN instances : Holds(mappings[i], instances[i])
    BY <1>0, StateShape DEF IInv, PublishedInv
  <2>2. /\ 1 <= Len(instances) + 1
        /\ \A i \in DOMAIN instances : ~(i < 1)
    BY <2>1
  <2>3. UNCHANGED <<scene, instances, mappings, queryable>> BY <1>0 DEF state
  <2>4. QED BY <1>0, <1>1, <2>1, <2>2, <2>3 DEF RefitInv, Contract!validate_refit_scene
<1>5. UpdateInv'
  BY <1>0, <1>1 DEF IInv, UpdateInv, state, Contract!prepare_instances
<1>6. QED BY <1>2, <1>3, <1>4, <1>5 DEF IInv

(* One mapping is replaced. *)
Remap(i, set, committed) ==
    [mappings EXCEPT ![i] = [mappings[i] EXCEPT !.set = set, !.committed = committed]]

LEMMA Remapped ==
  ASSUME IInv, NEW i \in 1 .. Len(instances), NEW set \in Transform, NEW committed \in Transform,
         NEW maps, maps = Remap(i, set, committed)
  PROVE  /\ maps \in Seq(Mapping)
         /\ Len(maps) = Len(instances)
         /\ maps[i].set = set /\ maps[i].committed = committed
         /\ \A j \in 1 .. Len(instances) : /\ maps[j].mesh = mappings[j].mesh
                                           /\ j # i => maps[j] = mappings[j]
<1> DEFINE e == [mappings[i] EXCEPT !.set = set, !.committed = committed]
<1>1. /\ mappings \in Seq(Mapping) /\ mappings[i] \in Mapping
      /\ Len(mappings) = Len(instances)
      /\ DOMAIN mappings = 1 .. Len(instances)
  BY StateShape DEF IInv, PublishedInv
<1>2. /\ e \in Mapping
      /\ e.mesh = mappings[i].mesh /\ e.set = set /\ e.committed = committed
  BY <1>1 DEF Mapping
<1> HIDE DEF e
<1>3. maps = [mappings EXCEPT ![i] = e] BY DEF e, Remap
<1>4. maps \in Seq(Mapping) /\ Len(maps) = Len(mappings)
  BY <1>1, <1>2, <1>3, ExceptSeq
<1>5. maps[i] = e /\ \A j \in 1 .. Len(instances) : j # i => maps[j] = mappings[j]
  BY <1>1, <1>3
<1>6. QED BY <1>1, <1>2, <1>4, <1>5

LEMMA Torn1 ==
  ASSUME IInv, NEW i \in 1 .. Len(instances), Tear(i)
  PROVE  /\ traversed' \in Seq(Met) /\ Len(traversed') = Len(instances)
         /\ \A j \in 1 .. Len(instances) : traversed'[j].geometry = traversed[j].geometry
<1> DEFINE e == [traversed[i] EXCEPT !.object_to_world = Torn]
<1>1. /\ traversed \in Seq(Met) /\ traversed[i] \in Met
      /\ Len(traversed) = Len(instances)
      /\ DOMAIN traversed = 1 .. Len(instances)
  BY StateShape DEF IInv, PublishedInv
<1>2. e \in Met /\ e.geometry = traversed[i].geometry BY <1>1 DEF Met
<1>3. traversed' = [traversed EXCEPT ![i] = e] BY DEF Tear
<1> HIDE DEF e
<1>4. traversed' \in Seq(Met) /\ Len(traversed') = Len(traversed)
  BY <1>1, <1>2, <1>3, ExceptSeq
<1>5. QED BY <1>1, <1>2, <1>3, <1>4

(* An edit of the retained scene while it is not queryable. *)
LEMMA Edited ==
  ASSUME IInv, at("transform") \/ at("commit_geometry") \/ at("restore"),
         UNCHANGED <<scene, build_statistics, instances, meshes>>,
         queryable' = FALSE,
         mappings' \in Seq(Mapping), Len(mappings') = Len(instances),
         \A i \in 1 .. Len(instances) : mappings'[i].mesh = mappings[i].mesh,
         traversed' \in Seq(Met), Len(traversed') = Len(instances),
         \A i \in 1 .. Len(instances) : traversed'[i].geometry = traversed[i].geometry,
         \/ call' = NoCall
         \/ call' \in Update /\ call'.operation = "refit" /\ call'.target = call.target,
         RefitInv'
  PROVE  IInv'
<1>1. TypeOK'
  <2>1. TypeOK BY DEF IInv
  <2>2. mappings' \in Seq(Mapping) OBVIOUS
  <2>3. traversed' \in Seq([geometry : Geometry, object_to_world : Transform \cup {Torn}])
    BY DEF Met
  <2>4. call' = NoCall \/ call' \in Update OBVIOUS
  <2>5. QED BY <2>1, <2>2, <2>3, <2>4 DEF TypeOK, Update
<1>2. PublishedInv'
  <2>1. DOMAIN instances = 1 .. Len(instances) BY StateShape DEF IInv
  <2>2. PublishedInv /\ scene \in Scene BY Refitting DEF IInv
  <2>3. QED BY <2>1, <2>2 DEF PublishedInv, Reaches
<1>3. CandidateInv' BY DEF CandidateInv
<1>4. UpdateInv'
  <2>1. /\ Contract!prepare_instances(call.target) /\ build_statistics.commits < MaxCommits
        /\ UpdateInv
    BY Refitting DEF IInv
  <2>2. QED BY <2>1 DEF UpdateInv, Contract!prepare_instances
<1>5. QED BY <1>1, <1>2, <1>3, <1>4 DEF IInv

(* A refit that fails starts its rollback at the first instance. *)
LEMMA RollBack ==
  ASSUME IInv, at("transform") \/ at("commit_geometry"), roll_back,
         UNCHANGED <<scene, build_statistics, instances, meshes>>, queryable' = FALSE
  PROVE  /\ call' \in Update /\ call'.operation = "refit" /\ call'.target = call.target
         /\ RefitInv'
<1>1. /\ call \in Update /\ call.operation = "refit" /\ scene \in Scene
      /\ Contract!validate_refit_scene(scene, call.target)
  BY Refitting
<1>2. /\ call' \in Update /\ call'.operation = "refit" /\ call'.target = call.target
      /\ call'.stage = "restore" /\ call'.next = 1
  <2>1. call' = [call EXCEPT !.stage = "restore", !.next = 1] /\ 1 \in Nat \ {0}
    BY DEF roll_back
  <2>2. /\ call'.operation = call.operation /\ call'.target = call.target
        /\ call'.stage = "restore" /\ call'.next = 1
    BY <1>1, <2>1 DEF Update
  <2>3. call' \in Update BY <1>1, <2>1 DEF Update
  <2>4. QED BY <1>1, <2>2, <2>3
<1>3. Len(instances) \in Nat /\ DOMAIN instances = 1 .. Len(instances)
  BY StateShape DEF IInv
<1>4. 1 <= Len(instances) + 1 /\ \A i \in DOMAIN instances : ~(i < 1) BY <1>3
<1>5. scene # NoScene BY <1>1, EmbreeAssumption
<1>6. QED BY <1>1, <1>2, <1>4, <1>5 DEF RefitInv, Contract!validate_refit_scene

LEMMA SkipInstance == ASSUME IInv, skip_instance PROVE IInv'
<1>0. /\ at("transform") /\ call.next <= Len(source)
      /\ instances[call.next].object_to_world = source[call.next].object_to_world
      /\ call' = [call EXCEPT !.next = @ + 1]
      /\ UNCHANGED state
  BY DEF skip_instance, unfinished, differs
<1>1. /\ call \in Update /\ call.operation = "refit" /\ call.stage = "transform"
      /\ call.next \in Nat /\ call.next >= 1 /\ Len(source) = Len(instances)
      /\ Contract!validate_refit_scene(scene, call.target) /\ scene # NoScene
      /\ Len(instances) \in Nat /\ DOMAIN instances = 1 .. Len(instances)
  BY <1>0, Refitting, StateShape, EmbreeAssumption DEF IInv, at
<1>2. call.next + 1 \in Nat \ {0} /\ call.next + 1 <= Len(instances) + 1
  BY <1>0, <1>1
<1>3. /\ call' = [call EXCEPT !.next = call.next + 1]
      /\ call'.operation = "refit" /\ call'.target = call.target /\ call'.stage = "transform"
      /\ call'.changed = call.changed /\ call'.next = call.next + 1
      /\ call' \in Update
  BY <1>0, <1>1, <1>2 DEF Update
<1>4. TypeOK' /\ PublishedInv' BY <1>0, <1>3, TypeKept, PublishedKept DEF IInv
<1>5. CandidateInv' BY <1>3 DEF CandidateInv
<1>6. RefitInv'
  <2>1. /\ UNCHANGED <<scene, instances, mappings, queryable>> /\ source' = source
    BY <1>0, <1>3 DEF state, source
  <2>2. ASSUME NEW i \in 1 .. Len(instances)
        PROVE  /\ i < call.next + 1 => Holds(mappings[i], source[i])
               /\ i >= call.next + 1 => Holds(mappings[i], instances[i])
    <3>1. /\ i < call.next => Holds(mappings[i], source[i])
          /\ i >= call.next => Holds(mappings[i], instances[i])
      BY <1>0, <1>1, Standing
    <3>2. i < call.next + 1 => i < call.next \/ i = call.next BY <1>1
    <3>3. i >= call.next + 1 => i >= call.next BY <1>1
    <3>4. QED BY <1>0, <1>1, <3>1, <3>2, <3>3 DEF Holds
  <2>3. \A i \in 1 .. Len(instances) :
           i > call.next + 1 \/ i = call.next + 1 => i >= call.next + 1
    BY <1>1
  <2>4. queryable <=> ~call.changed BY <1>0, <1>1, Standing
  <2>5. QED
    BY <1>1, <1>2, <1>3, <2>1, <2>2, <2>3, <2>4 DEF RefitInv, Contract!validate_refit_scene
<1>7. UpdateInv'
  <2>1. /\ Contract!prepare_instances(call.target) /\ build_statistics.commits < MaxCommits
        /\ UpdateInv
    BY <1>0, Refitting DEF IInv
  <2>2. build_statistics' = build_statistics BY <1>0 DEF state
  <2>3. QED BY <2>1, <2>2, <1>3 DEF UpdateInv, Contract!prepare_instances
<1>8. QED BY <1>4, <1>5, <1>6, <1>7 DEF IInv

LEMMA SetTransform == ASSUME IInv, set_transform PROVE IInv'
<1> DEFINE i == call.next
           t == source[i].object_to_world
           stored == [mappings EXCEPT ![i].set = t]
<1>0. /\ at("transform") /\ i <= Len(source)
      /\ queryable' = FALSE /\ Tear(i)
      /\ \/ mappings' = stored
            /\ \/ call' = [call EXCEPT !.stage = "commit_geometry", !.changed = TRUE]
               \/ roll_back
         \/ UNCHANGED mappings /\ roll_back
      /\ UNCHANGED <<scene, build_statistics, instances, meshes>>
  BY DEF set_transform, unfinished
<1>1. /\ call \in Update /\ call.operation = "refit" /\ call.stage = "transform"
      /\ i \in 1 .. Len(instances) /\ source[i] \in Instance /\ t \in Transform
      /\ Contract!validate_refit_scene(scene, call.target) /\ scene # NoScene
      /\ Len(instances) \in Nat /\ DOMAIN instances = 1 .. Len(instances)
  BY <1>0, Refitting, StateShape, EmbreeAssumption DEF IInv, at, Instance
<1>2. /\ mappings[i] \in Mapping /\ mappings \in Seq(Mapping)
      /\ mappings[i].set \in Transform /\ mappings[i].committed \in Transform
      /\ Len(mappings) = Len(instances)
  BY <1>1, StateShape DEF IInv, Mapping, PublishedInv
<1>3. stored = Remap(i, t, mappings[i].committed)
  <2>1. [mappings[i] EXCEPT !.set = t]
           = [mappings[i] EXCEPT !.set = t, !.committed = mappings[i].committed]
    BY <1>2 DEF Mapping
  <2>2. QED BY <2>1 DEF Remap
<1> HIDE DEF stored
<1>4. /\ stored \in Seq(Mapping) /\ Len(stored) = Len(instances)
      /\ \A j \in 1 .. Len(instances) : stored[j].mesh = mappings[j].mesh
      /\ stored[i].set = t
      /\ \A j \in 1 .. Len(instances) : j # i => stored[j] = mappings[j]
  <2>1. i \in 1 .. Len(instances) /\ t \in Transform /\ mappings[i].committed \in Transform
    BY <1>1, <1>2
  <2> HIDE DEF i, t
  <2>2. QED BY <1>3, <2>1, Remapped
<1>5. /\ traversed' \in Seq(Met) /\ Len(traversed') = Len(instances)
      /\ \A j \in 1 .. Len(instances) : traversed'[j].geometry = traversed[j].geometry
  BY <1>0, <1>1, Torn1
<1>6. /\ mappings' \in Seq(Mapping) /\ Len(mappings') = Len(instances)
      /\ \A j \in 1 .. Len(instances) : mappings'[j].mesh = mappings[j].mesh
  BY <1>0, <1>2, <1>4
<1>7. CASE roll_back
  BY <1>0, <1>5, <1>6, <1>7, RollBack, Edited
<1>8. CASE /\ mappings' = stored
           /\ call' = [call EXCEPT !.stage = "commit_geometry", !.changed = TRUE]
  <2>1. /\ call'.operation = "refit" /\ call'.target = call.target
        /\ call'.stage = "commit_geometry" /\ call'.changed = TRUE /\ call'.next = i
        /\ call' \in Update
    BY <1>1, <1>8 DEF Update
  <2>2. source' = source BY <2>1 DEF source
  <2>3. \A j \in 1 .. Len(instances) :
           /\ j < i => Holds(stored[j], source[j])
           /\ j > i => Holds(stored[j], instances[j])
    <3> SUFFICES ASSUME NEW j \in 1 .. Len(instances)
                 PROVE  /\ j < i => Holds(stored[j], source[j])
                        /\ j > i => Holds(stored[j], instances[j])
      OBVIOUS
    <3>1. /\ j < i => Holds(mappings[j], source[j])
          /\ j > i => Holds(mappings[j], instances[j])
      BY <1>0, <1>1, Standing
    <3>2. j < i \/ j > i => j # i BY <1>1
    <3>3. QED BY <1>4, <3>1, <3>2
  <2>4. RefitInv'
    BY <1>0, <1>1, <1>4, <1>8, <2>1, <2>2, <2>3 DEF RefitInv, Contract!validate_refit_scene
  <2>5. QED BY <1>0, <1>5, <1>6, <2>1, <2>4, Edited
<1>9. QED BY <1>0, <1>7, <1>8

LEMMA CommitGeometry == ASSUME IInv, commit_geometry PROVE IInv'
<1> DEFINE i == call.next
           stored == [mappings EXCEPT ![i].committed = mappings[i].set]
<1>0. /\ at("commit_geometry")
      /\ \/ mappings' = stored
            /\ \/ call' = [call EXCEPT !.stage = "transform", !.next = @ + 1]
               \/ roll_back
         \/ UNCHANGED mappings /\ roll_back
      /\ UNCHANGED <<scene, build_statistics, instances, meshes, traversed, queryable>>
  BY DEF commit_geometry
<1>1. /\ call \in Update /\ call.operation = "refit" /\ call.stage = "commit_geometry"
      /\ i \in 1 .. Len(instances) /\ call.changed /\ ~queryable
      /\ mappings[i].set = source[i].object_to_world
      /\ Contract!validate_refit_scene(scene, call.target) /\ scene # NoScene
      /\ Len(instances) \in Nat /\ DOMAIN instances = 1 .. Len(instances)
  <2>1. call.stage = "commit_geometry" BY <1>0 DEF at
  <2>2. /\ call.changed /\ call.next <= Len(instances)
        /\ mappings[i].set = source[i].object_to_world /\ ~queryable
    BY <1>0, <2>1, Standing
  <2>3. QED BY <1>0, <2>1, <2>2, Refitting, StateShape, EmbreeAssumption DEF IInv
<1>2. /\ mappings[i] \in Mapping /\ mappings \in Seq(Mapping)
      /\ mappings[i].set \in Transform
      /\ Len(mappings) = Len(instances)
      /\ traversed \in Seq(Met) /\ Len(traversed) = Len(instances)
  BY <1>1, StateShape DEF IInv, Mapping, PublishedInv
<1>3. stored = Remap(i, mappings[i].set, mappings[i].set)
  <2>1. [mappings[i] EXCEPT !.committed = mappings[i].set]
           = [mappings[i] EXCEPT !.set = mappings[i].set, !.committed = mappings[i].set]
    BY <1>2 DEF Mapping
  <2>2. QED BY <2>1 DEF Remap
<1> HIDE DEF stored
<1>4. /\ stored \in Seq(Mapping) /\ Len(stored) = Len(instances)
      /\ \A j \in 1 .. Len(instances) : stored[j].mesh = mappings[j].mesh
      /\ stored[i].set = mappings[i].set /\ stored[i].committed = mappings[i].set
      /\ \A j \in 1 .. Len(instances) : j # i => stored[j] = mappings[j]
  BY <1>1, <1>2, <1>3, Remapped
<1>5. /\ mappings' \in Seq(Mapping) /\ Len(mappings') = Len(instances)
      /\ \A j \in 1 .. Len(instances) : mappings'[j].mesh = mappings[j].mesh
      /\ traversed' \in Seq(Met) /\ Len(traversed') = Len(instances)
      /\ \A j \in 1 .. Len(instances) : traversed'[j].geometry = traversed[j].geometry
      /\ queryable' = FALSE
  <2>1. queryable' = FALSE BY <1>0, <1>1 DEF IInv, TypeOK
  <2>2. QED BY <1>0, <1>2, <1>4, <2>1
<1>6. CASE roll_back
  BY <1>0, <1>5, <1>6, RollBack, Edited
<1>7. CASE /\ mappings' = stored
           /\ call' = [call EXCEPT !.stage = "transform", !.next = @ + 1]
  <2>1. i + 1 \in Nat \ {0} /\ i + 1 <= Len(instances) + 1 BY <1>1
  <2>2. /\ call' = [call EXCEPT !.stage = "transform", !.next = i + 1]
        /\ call'.operation = "refit" /\ call'.target = call.target
        /\ call'.stage = "transform" /\ call'.changed = call.changed /\ call'.next = i + 1
        /\ call' \in Update
    BY <1>1, <1>7, <2>1 DEF Update
  <2>3. source' = source BY <2>2 DEF source
  <2>4. \A j \in 1 .. Len(instances) :
           /\ j < i + 1 => Holds(stored[j], source[j])
           /\ j > i + 1 => Holds(stored[j], instances[j])
           /\ j = i + 1 => Holds(stored[j], instances[j])
    <3> SUFFICES ASSUME NEW j \in 1 .. Len(instances)
                 PROVE  /\ j < i + 1 => Holds(stored[j], source[j])
                        /\ j >= i + 1 => Holds(stored[j], instances[j])
      BY <1>1
    <3>1. /\ j < i => Holds(mappings[j], source[j])
          /\ j > i => Holds(mappings[j], instances[j])
      BY <1>0, <1>1, Standing
    <3>2. /\ j < i + 1 => j = i \/ (j < i /\ j # i)
          /\ j >= i + 1 => j > i /\ j # i
      BY <1>1
    <3>3. Holds(stored[i], source[i]) BY <1>1, <1>4 DEF Holds
    <3>4. QED BY <1>4, <3>1, <3>2, <3>3
  <2>5. RefitInv'
    BY <1>0, <1>1, <1>5, <1>7, <2>1, <2>2, <2>3, <2>4 DEF RefitInv, Contract!validate_refit_scene
  <2>6. QED BY <1>0, <1>5, <2>2, <2>5, Edited
<1>8. QED BY <1>0, <1>6, <1>7

(* The end of a refit: every instance stands at the new snapshot. *)
LEMMA RefitDone ==
  ASSUME IInv, at("transform"), ~(call.next <= Len(source))
  PROVE  LET t == IF call.changed THEN met(mappings, meshes) ELSE traversed
         IN  /\ t \in Seq(Met) /\ Len(t) = Len(source)
             /\ \A i \in DOMAIN source : /\ t[i] = source[i]
                                         /\ Reaches(meshes, mappings[i], source[i])
                                         /\ Holds(mappings[i], source[i])
<1>1. /\ call.stage = "transform" /\ call.next \in Nat
      /\ Len(source) = Len(instances) /\ source \in Seq(Instance)
      /\ Len(instances) \in Nat /\ DOMAIN instances = 1 .. Len(instances)
      /\ DOMAIN source = 1 .. Len(instances)
      /\ \A i \in 1 .. Len(instances) : /\ source[i] \in Instance /\ instances[i] \in Instance
                                        /\ source[i].geometry = instances[i].geometry
  BY Refitting, StateShape, LenProperties DEF IInv, at
<1>2. /\ mappings \in Seq(Mapping) /\ Len(mappings) = Len(source)
      /\ traversed \in Seq(Met) /\ Len(traversed) = Len(source)
      /\ meshes \in Seq(Geometry)
  BY <1>1, StateShape DEF IInv, PublishedInv
<1>3. ASSUME NEW i \in 1 .. Len(instances)
      PROVE  Reaches(meshes, mappings[i], source[i]) /\ Holds(mappings[i], source[i])
  <2>1. Reaches(meshes, mappings[i], instances[i])
    BY <1>1 DEF IInv, PublishedInv
  <2>2. i < call.next BY <1>1
  <2>3. QED BY <1>1, <2>1, <2>2, Standing DEF Reaches
<1>4. CASE call.changed
  BY <1>1, <1>2, <1>3, <1>4, MetShape
<1>5. CASE ~call.changed
  <2>1. queryable BY <1>1, <1>5, Standing
  <2>2. ASSUME NEW i \in 1 .. Len(instances) PROVE traversed[i] = source[i]
    <3>1. traversed[i] = instances[i] /\ Holds(mappings[i], instances[i])
      BY <1>1, <2>1 DEF IInv, PublishedInv
    <3>2. /\ instances[i].object_to_world = source[i].object_to_world
          /\ instances[i].geometry = source[i].geometry
      BY <1>1, <1>3, <3>1 DEF Holds
    <3>3. QED BY <1>1, <3>1, <3>2 DEF Instance
  <2>3. QED BY <1>1, <1>2, <1>3, <1>5, <2>2
<1>6. QED BY <1>4, <1>5

LEMMA CommitRefit == ASSUME IInv, commit_refit PROVE IInv'
<1> DEFINE t == IF call.changed THEN met(mappings, meshes) ELSE traversed
<1>0. /\ at("transform") /\ ~(call.next <= Len(source))
      /\ UNCHANGED <<meshes, mappings>>
      /\ \/ /\ instances' = source /\ traversed' = t /\ queryable' = TRUE
            /\ Contract!publish_refit(call.target)
            /\ call' = NoCall
         \/ /\ call.changed /\ roll_back
            /\ UNCHANGED <<scene, build_statistics, instances, traversed, queryable>>
  BY DEF commit_refit, unfinished
<1>1. /\ call.stage = "transform" /\ call.target \in Scene /\ source = call.target.instances
      /\ call # NoCall
      /\ source \in Seq(Instance) /\ Len(source) \in Nat /\ DOMAIN source = 1 .. Len(source)
  BY <1>0, UpdateShape, SceneShape DEF IInv, at
<1>2. /\ mappings \in Seq(Mapping) /\ Len(mappings) = Len(instances)
      /\ traversed \in Seq(Met) /\ Len(traversed) = Len(instances)
      /\ Len(source) = Len(instances)
      /\ meshes \in Seq(Geometry)
  BY <1>0, StateShape, Refitting DEF IInv, PublishedInv
<1>3. CASE /\ call.changed /\ roll_back
           /\ UNCHANGED <<scene, build_statistics, instances, traversed, queryable>>
  <2>1. queryable' = FALSE BY <1>0, <1>3, Standing DEF IInv, TypeOK
  <2>2. QED BY <1>0, <1>2, <1>3, <2>1, RollBack, Edited
<1>4. CASE /\ instances' = source /\ traversed' = t /\ queryable' = TRUE
           /\ Contract!publish_refit(call.target)
           /\ call' = NoCall
  <2>1. /\ t \in Seq(Met) /\ Len(t) = Len(source)
        /\ \A i \in DOMAIN source : /\ t[i] = source[i]
                                    /\ Reaches(meshes, mappings[i], source[i])
                                    /\ Holds(mappings[i], source[i])
    BY <1>0, RefitDone
  <2> HIDE DEF t
  <2>2. /\ scene' = call.target
        /\ build_statistics' \in [commits : 0 .. MaxCommits, rebuilds : 0 .. MaxCommits,
                                  refits : 0 .. MaxCommits]
        /\ build_statistics'.rebuilds <= build_statistics'.commits
        /\ build_statistics'.refits <= build_statistics'.commits
    <3> DEFINE b == build_statistics
    <3>1. /\ b \in [commits : 0 .. MaxCommits, rebuilds : 0 .. MaxCommits, refits : 0 .. MaxCommits]
          /\ b.rebuilds <= b.commits /\ b.refits <= b.commits
          /\ b.commits < MaxCommits
          /\ MaxCommits \in Nat \ {0}
      BY <1>0, Refitting, EmbreeAssumption DEF IInv, TypeOK, UpdateInv
    <3>2. /\ scene' = call.target
          /\ b' = [b EXCEPT !.commits = b.commits + 1, !.refits = b.refits + 1]
      BY <1>4 DEF Contract!publish_refit
    <3>3. /\ b'.commits = b.commits + 1 /\ b'.rebuilds = b.rebuilds /\ b'.refits = b.refits + 1
          /\ b' = [commits |-> b.commits + 1, rebuilds |-> b.rebuilds, refits |-> b.refits + 1]
      BY <3>1, <3>2
    <3> HIDE DEF b
    <3>4. b.commits \in Nat /\ b.rebuilds \in Nat /\ b.refits \in Nat BY <3>1
    <3>5. QED BY <3>1, <3>2, <3>3, <3>4 DEF b
  <2>3. TypeOK'
    <3>1. /\ scene' \in Scene \cup {NoScene}
          /\ instances' \in Seq(Contract!Instance) /\ meshes' \in Seq(Geometry)
          /\ mappings' \in Seq(Mapping) /\ queryable' \in BOOLEAN
      BY <1>0, <1>1, <1>2, <1>4, <2>2 DEF Contract!Instance, Instance
    <3>2. traversed' \in Seq([geometry : Geometry, object_to_world : Transform \cup {Torn}])
      BY <1>4, <2>1 DEF Met
    <3>3. QED BY <1>4, <2>2, <3>1, <3>2 DEF TypeOK
  <2>4. PublishedInv'
    <3>1. call.target # NoScene BY <1>1, EmbreeAssumption
    <3>2. UNCHANGED <<meshes, mappings>> /\ Len(mappings) = Len(source)
      BY <1>0, <1>2
    <3>3. \A i \in DOMAIN source : t[i].geometry = source[i].geometry BY <2>1
    <3>4. QED BY <1>1, <1>4, <2>1, <2>2, <3>1, <3>2, <3>3 DEF PublishedInv, Reaches, Holds
  <2>5. CandidateInv' /\ RefitInv' /\ UpdateInv'
    BY <1>4, <2>2 DEF CandidateInv, RefitInv, UpdateInv
  <2>6. QED BY <2>3, <2>4, <2>5 DEF IInv
<1>5. QED BY <1>0, <1>3, <1>4

LEMMA RestoreInstance == ASSUME IInv, restore_instance PROVE IInv'
<1> DEFINE i == call.next
           previous == instances[i].object_to_world
           both  == [mappings EXCEPT ![i].set = previous, ![i].committed = previous]
           first == [mappings EXCEPT ![i].set = previous]
<1>0. /\ at("restore") /\ i <= Len(mappings) /\ Tear(i)
      /\ \/ mappings' = both /\ call' = [call EXCEPT !.next = @ + 1]
         \/ mappings' = first /\ call' = NoCall
      /\ UNCHANGED <<scene, build_statistics, instances, meshes, queryable>>
  BY DEF restore_instance
<1>1. /\ call \in Update /\ call.operation = "refit" /\ call.stage = "restore"
      /\ Contract!validate_refit_scene(scene, call.target) /\ scene # NoScene
      /\ i \in Nat /\ i >= 1 /\ Len(mappings) = Len(instances)
      /\ Len(instances) \in Nat /\ DOMAIN instances = 1 .. Len(instances)
  BY <1>0, Refitting, StateShape, EmbreeAssumption DEF IInv, at, PublishedInv
<1>2. i \in 1 .. Len(instances) BY <1>0, <1>1
<1>3. /\ mappings[i] \in Mapping /\ mappings \in Seq(Mapping)
      /\ mappings[i].committed \in Transform /\ previous \in Transform
  BY <1>2, StateShape DEF IInv, Mapping, Instance
<1>4. queryable' = FALSE /\ queryable = FALSE
  BY <1>0, <1>1, Standing DEF IInv, TypeOK
<1>5. /\ both = Remap(i, previous, previous)
      /\ first = Remap(i, previous, mappings[i].committed)
  <2>1. [mappings[i] EXCEPT !.set = previous]
           = [mappings[i] EXCEPT !.set = previous, !.committed = mappings[i].committed]
    BY <1>3 DEF Mapping
  <2>2. both = Remap(i, previous, previous)
    BY <1>1, <1>2, <1>3, StateShape DEF IInv, Remap
  <2>3. QED BY <2>1, <2>2 DEF Remap
<1>6. /\ traversed' \in Seq(Met) /\ Len(traversed') = Len(instances)
      /\ \A j \in 1 .. Len(instances) : traversed'[j].geometry = traversed[j].geometry
  BY <1>0, <1>2, Torn1
<1> HIDE DEF both, first, previous, i
<1>7. CASE mappings' = first /\ call' = NoCall
  <2>1. /\ first \in Seq(Mapping) /\ Len(first) = Len(instances)
        /\ \A j \in 1 .. Len(instances) : first[j].mesh = mappings[j].mesh
    BY <1>2, <1>3, <1>5, Remapped
  <2>2. RefitInv' BY <1>7 DEF RefitInv
  <2>3. QED BY <1>0, <1>4, <1>6, <1>7, <2>1, <2>2, Edited
<1>8. CASE mappings' = both /\ call' = [call EXCEPT !.next = @ + 1]
  <2>1. /\ both \in Seq(Mapping) /\ Len(both) = Len(instances)
        /\ \A j \in 1 .. Len(instances) : both[j].mesh = mappings[j].mesh
        /\ both[i].set = previous /\ both[i].committed = previous
        /\ \A j \in 1 .. Len(instances) : j # i => both[j] = mappings[j]
    BY <1>2, <1>3, <1>5, Remapped
  <2>2. i + 1 \in Nat \ {0} /\ i + 1 <= Len(instances) + 1 BY <1>1, <1>2
  <2>3. /\ call' = [call EXCEPT !.next = i + 1]
        /\ call'.operation = "refit" /\ call'.target = call.target
        /\ call'.stage = "restore" /\ call'.next = i + 1
        /\ call' \in Update
    BY <1>1, <1>8, <2>2 DEF Update, i
  <2>4. \A j \in 1 .. Len(instances) : j < i + 1 => Holds(both[j], instances[j])
    <3> SUFFICES ASSUME NEW j \in 1 .. Len(instances), j < i + 1
                 PROVE  Holds(both[j], instances[j])
      OBVIOUS
    <3>1. j = i \/ (j < i /\ j # i) BY <1>1
    <3>2. j < i => Holds(mappings[j], instances[j])
      BY <1>0, <1>1, Standing DEF i
    <3>3. Holds(both[i], instances[i]) BY <2>1 DEF Holds, previous
    <3>4. QED BY <2>1, <3>1, <3>2, <3>3
  <2>5. RefitInv'
    BY <1>0, <1>1, <1>4, <1>8, <2>2, <2>3, <2>4 DEF RefitInv, Contract!validate_refit_scene
  <2>6. QED BY <1>0, <1>4, <1>6, <1>8, <2>1, <2>3, <2>5, Edited
<1>9. QED BY <1>0, <1>7, <1>8

(* The rollback is over: every instance stands at the published snapshot. *)
LEMMA Restored == ASSUME IInv, restored PROVE IInv'
<1>0. /\ at("restore") /\ call.next > Len(mappings)
      /\ traversed' = met(mappings, meshes)
      /\ queryable' = TRUE /\ call' = NoCall
      /\ UNCHANGED <<scene, build_statistics, instances, meshes, mappings>>
  BY DEF restored
<1>1. /\ call.stage = "restore" /\ call.next \in Nat /\ scene \in Scene
      /\ instances \in Seq(Instance)
      /\ Len(instances) \in Nat /\ DOMAIN instances = 1 .. Len(instances)
      /\ mappings \in Seq(Mapping) /\ Len(mappings) = Len(instances)
      /\ meshes \in Seq(Geometry)
  BY <1>0, Refitting, StateShape DEF IInv, at, PublishedInv
<1>2. \A i \in DOMAIN instances : /\ Reaches(meshes, mappings[i], instances[i])
                                  /\ Holds(mappings[i], instances[i])
  <2> SUFFICES ASSUME NEW i \in 1 .. Len(instances)
               PROVE  Reaches(meshes, mappings[i], instances[i]) /\ Holds(mappings[i], instances[i])
    BY <1>1
  <2>1. i < call.next BY <1>0, <1>1
  <2>2. QED BY <1>0, <1>1, <2>1, Standing DEF IInv, PublishedInv
<1>3. /\ traversed' \in Seq(Met) /\ Len(traversed') = Len(instances)
      /\ \A i \in DOMAIN instances : traversed'[i] = instances[i]
  BY <1>0, <1>1, <1>2, MetShape
<1>4. TypeOK'
  <2>1. traversed' \in Seq([geometry : Geometry, object_to_world : Transform \cup {Torn}])
    BY <1>3 DEF Met
  <2>2. TypeOK BY DEF IInv
  <2>3. QED BY <1>0, <2>1, <2>2 DEF TypeOK
<1>5. PublishedInv'
  <2>1. PublishedInv /\ scene # NoScene BY <1>1, EmbreeAssumption DEF IInv
  <2>2. \A i \in DOMAIN instances : traversed'[i].geometry = instances[i].geometry
    BY <1>3
  <2>3. QED BY <1>0, <1>1, <1>2, <1>3, <2>1, <2>2 DEF PublishedInv
<1>6. CandidateInv' /\ RefitInv' /\ UpdateInv'
  BY <1>0 DEF IInv, CandidateInv, RefitInv, UpdateInv
<1>7. QED BY <1>4, <1>5, <1>6 DEF IInv

------------------------------------------------------
(* No object yet, or no longer. *)
LEMMA Nothing == ASSUME Init PROVE IInv
<1>0. /\ scene = NoScene /\ build_statistics = [commits |-> 0, rebuilds |-> 0, refits |-> 0]
      /\ instances = << >> /\ meshes = << >> /\ mappings = << >> /\ traversed = << >>
      /\ queryable = FALSE /\ call = NoCall
  BY DEF Init, Contract!NoStatistics
<1>1. /\ Len(<< >>) = 0 /\ DOMAIN << >> = {}
      /\ << >> \in Seq(Contract!Instance) /\ << >> \in Seq(Geometry) /\ << >> \in Seq(Mapping)
      /\ << >> \in Seq([geometry : Geometry, object_to_world : Transform \cup {Torn}])
  OBVIOUS
<1>2. 0 \in 0 .. MaxCommits BY EmbreeAssumption
<1>3. TypeOK BY <1>0, <1>1, <1>2 DEF TypeOK
<1>4. PublishedInv BY <1>0, <1>1 DEF PublishedInv
<1>5. CandidateInv /\ RefitInv /\ UpdateInv
  BY <1>0 DEF CandidateInv, RefitInv, UpdateInv
<1>6. QED BY <1>3, <1>4, <1>5 DEF IInv

LEMMA Destroyed == ASSUME destroy PROVE IInv'
<1>0. /\ scene' = NoScene /\ build_statistics' = [commits |-> 0, rebuilds |-> 0, refits |-> 0]
      /\ instances' = << >> /\ meshes' = << >> /\ mappings' = << >> /\ traversed' = << >>
      /\ queryable' = FALSE /\ call' = NoCall
  BY DEF destroy, Contract!NoStatistics
<1>1. /\ Len(<< >>) = 0 /\ DOMAIN << >> = {}
      /\ << >> \in Seq(Contract!Instance) /\ << >> \in Seq(Geometry) /\ << >> \in Seq(Mapping)
      /\ << >> \in Seq([geometry : Geometry, object_to_world : Transform \cup {Torn}])
  OBVIOUS
<1>2. 0 \in 0 .. MaxCommits BY EmbreeAssumption
<1>3. TypeOK' BY <1>0, <1>1, <1>2 DEF TypeOK
<1>4. PublishedInv' BY <1>0, <1>1 DEF PublishedInv
<1>5. CandidateInv' /\ RefitInv' /\ UpdateInv'
  BY <1>0 DEF CandidateInv, RefitInv, UpdateInv
<1>6. QED BY <1>3, <1>4, <1>5 DEF IInv

LEMMA Stutters == ASSUME IInv, UNCHANGED vars PROVE IInv'
<1>1. UNCHANGED state /\ call' = call BY DEF vars, state
<1>2. TypeOK' /\ PublishedInv' BY <1>1, PublishedKept DEF IInv, TypeOK, state
<1>3. source' = source BY <1>1 DEF source
<1>4. CandidateInv' /\ RefitInv' /\ UpdateInv'
  BY <1>1, <1>3 DEF IInv, state, CandidateInv, RefitInv, UpdateInv, existing,
    Contract!prepare_instances, Contract!validate_refit_scene
<1>5. QED BY <1>2, <1>4 DEF IInv

LEMMA Inductive == ASSUME IInv, [Next]_vars PROVE IInv'
<1>1. ASSUME NEW s \in Scene, create(s) \/ rebuild(s) PROVE IInv'
  BY <1>1, BeginBuild
<1>2. ASSUME NEW s \in Scene, refit(s) PROVE IInv'
  BY <1>2, BeginRefit
<1>3. CASE build_mesh \/ meshes_built \/ attach_instance \/ commit_top_scene
  BY <1>3, BuildMesh, MeshesBuilt, AttachInstance, CommitTopScene
<1>4. CASE build_fails \/ rollback_fails
  BY <1>4, Abandoned DEF build_fails, rollback_fails
<1>5. CASE skip_instance \/ set_transform \/ commit_geometry \/ commit_refit
  BY <1>5, SkipInstance, SetTransform, CommitGeometry, CommitRefit
<1>6. CASE restore_instance \/ restored
  BY <1>6, RestoreInstance, Restored
<1>7. CASE destroy
  BY <1>7, Destroyed
<1>8. CASE UNCHANGED vars
  BY <1>8, Stutters
<1>9. QED BY <1>1, <1>2, <1>3, <1>4, <1>5, <1>6, <1>7, <1>8 DEF Next

(* In every reachable state, whichever calls failed, the backend is where
   the code's comments assume it: the retained geometries, the candidate
   and the rollback stand as IInv says. *)
THEOREM SpecIInv == Spec => []IInv
<1>1. Init => IInv BY Nothing
<1>2. IInv /\ [Next]_vars => IInv' BY Inductive
<1>3. QED BY <1>1, <1>2, PTL DEF Spec

(* Every variable of the backend keeps its type. *)
THEOREM SpecTypeOK == Spec => []TypeOK
<1>1. IInv => TypeOK BY DEF IInv
<1>2. QED BY <1>1, SpecIInv, PTL

(* A backend that answers queries answers every one of them, geometry,
   transform and description, from the snapshot it published last. *)
THEOREM SpecSnapshotServed == Spec => []SnapshotServed
<1>1. IInv => SnapshotServed
  <2> SUFFICES ASSUME IInv, call = NoCall, queryable
               PROVE  /\ DOMAIN traversed = DOMAIN scene.instances
                      /\ \A i \in DOMAIN traversed :
                            closest_hit(i) = [met |-> scene.instances[i],
                                              described |-> scene.instances[i]]
    BY DEF SnapshotServed
  <2>1. instances = scene.instances BY DEF IInv, PublishedInv
  <2>2. DOMAIN traversed = 1 .. Len(instances) /\ DOMAIN instances = 1 .. Len(instances)
    BY StateShape DEF IInv
  <2>3. \A i \in DOMAIN instances : /\ meshes[mappings[i].mesh] = instances[i].geometry
                                    /\ traversed[i] = instances[i]
    BY DEF IInv, PublishedInv, Reaches
  <2>4. QED BY <2>1, <2>2, <2>3 DEF closest_hit
<1>2. QED BY <1>1, SpecIInv, PTL

(* No edit of an abandoned refit survives in a backend that answers queries. *)
THEOREM SpecRetainedCurrent == Spec => []RetainedCurrent
<1>1. IInv => RetainedCurrent
  <2> SUFFICES ASSUME IInv PROVE RetainedCurrent
    OBVIOUS
  <2>1. DOMAIN mappings = 1 .. Len(instances) /\ DOMAIN instances = 1 .. Len(instances)
    BY StateShape DEF IInv
  <2>2. QED BY <2>1 DEF IInv, PublishedInv, RetainedCurrent, Holds
<1>2. QED BY <1>1, SpecIInv, PTL

------------------------------------------------------
(* The refinement of the contract. *)

(* The steps of a refit that is going on stay within it. *)
LEMMA StillRefitting ==
  ASSUME IInv, at("transform") \/ at("commit_geometry") \/ at("restore"),
         NEW stage \in {"transform", "commit_geometry", "restore"},
         NEW next \in Nat \ {0}, NEW changed \in BOOLEAN,
         call' = [call EXCEPT !.stage = stage, !.next = next, !.changed = changed]
  PROVE  serving /\ serving'
<1>1. call \in Update /\ call # NoCall /\ call.operation = "refit" BY Refitting
<1>2. call' \in Update /\ call'.operation = "refit" BY <1>1 DEF Update
<1>3. call' # NoCall BY <1>2, EmbreeAssumption
<1>4. QED BY <1>1, <1>2, <1>3 DEF serving

(* A refit that fails is still within the update while it rolls back. *)
LEMMA RollingBack ==
  ASSUME IInv, at("transform") \/ at("commit_geometry"), roll_back
  PROVE  serving /\ serving'
<1>1. call \in Update /\ call # NoCall /\ call.operation = "refit" BY Refitting
<1>2. call' \in Update /\ call'.operation = "refit"
  <2>1. call' = [call EXCEPT !.stage = "restore", !.next = 1] /\ 1 \in Nat \ {0}
    BY DEF roll_back
  <2>2. QED BY <1>1, <2>1 DEF Update
<1>3. call' # NoCall BY <1>2, EmbreeAssumption
<1>4. QED BY <1>1, <1>2, <1>3 DEF serving

Visible == << scene, serving, build_statistics >>

(* The steps of a construction that the interface does not show. *)
LEMMA BuildHidden ==
  ASSUME IInv, build_mesh \/ meshes_built \/ attach_instance \/ build_fails
  PROVE  UNCHANGED Visible
<1>1. /\ at("mesh") \/ at("attach")
      /\ UNCHANGED state
      /\ call' = NoCall \/ call'.operation = call.operation
  <2>1. CASE build_mesh \/ meshes_built \/ attach_instance
    <3>1. at("mesh") \/ at("attach")
      BY <2>1 DEF build_mesh, meshes_built, attach_instance
    <3>2. call \in Update BY <3>1, UpdateShape DEF IInv, at
    <3>3. CASE build_mesh
      BY <3>1, <3>2, <3>3 DEF build_mesh, Update
    <3>4. CASE meshes_built
      BY <3>1, <3>2, <3>4 DEF meshes_built, Update
    <3>5. CASE attach_instance
      BY <3>1, <3>2, <3>5 DEF attach_instance, Update
    <3>6. QED BY <2>1, <3>3, <3>4, <3>5
  <2>2. CASE build_fails
    BY <2>2 DEF build_fails
  <2>3. QED BY <2>1, <2>2
<1>2. call.operation # "refit" BY <1>1, Building
<1>3. queryable \in BOOLEAN BY DEF IInv, TypeOK
<1>4. QED BY <1>1, <1>2, <1>3 DEF Visible, serving, state

(* The steps of a refit that the interface does not show. *)
LEMMA RefitHidden ==
  ASSUME IInv, skip_instance \/ set_transform \/ commit_geometry
  PROVE  UNCHANGED Visible
<1>1. /\ at("transform") \/ at("commit_geometry")
      /\ UNCHANGED <<scene, build_statistics>>
  BY DEF skip_instance, set_transform, commit_geometry, state
<1>2. call \in Update /\ call.next + 1 \in Nat \ {0} BY <1>1, Refitting
<1>3. serving /\ serving'
  <2>1. CASE roll_back
    BY <1>1, <2>1, RollingBack
  <2>2. CASE ~roll_back
    <3>1. \/ call' = [call EXCEPT !.next = call.next + 1] /\ at("transform")
          \/ call' = [call EXCEPT !.stage = "commit_geometry", !.changed = TRUE]
          \/ call' = [call EXCEPT !.stage = "transform", !.next = call.next + 1]
      BY <2>2 DEF skip_instance, set_transform, commit_geometry
    <3>2. CASE call' = [call EXCEPT !.next = call.next + 1] /\ at("transform")
      <4>1. call' = [call EXCEPT !.stage = "transform", !.next = call.next + 1,
                                 !.changed = call.changed] /\ call.changed \in BOOLEAN
        BY <1>2, <3>2 DEF Update, at
      <4>2. QED BY <1>1, <1>2, <4>1, StillRefitting
    <3>3. CASE call' = [call EXCEPT !.stage = "commit_geometry", !.changed = TRUE]
      <4>1. call' = [call EXCEPT !.stage = "commit_geometry", !.next = call.next,
                                 !.changed = TRUE] /\ call.next \in Nat \ {0}
        BY <1>2, <3>3 DEF Update
      <4>2. QED BY <1>1, <4>1, StillRefitting
    <3>4. CASE call' = [call EXCEPT !.stage = "transform", !.next = call.next + 1]
      <4>1. call' = [call EXCEPT !.stage = "transform", !.next = call.next + 1,
                                 !.changed = call.changed] /\ call.changed \in BOOLEAN
        BY <1>2, <3>4 DEF Update
      <4>2. QED BY <1>1, <1>2, <4>1, StillRefitting
    <3>5. QED BY <3>1, <3>2, <3>3, <3>4
  <2>3. QED BY <2>1, <2>2
<1>4. QED BY <1>1, <1>3 DEF Visible, serving

(* An update begins: nothing shows. *)
LEMMA BeginHidden ==
  ASSUME IInv, NEW s \in Scene, create(s) \/ rebuild(s) \/ refit(s)
  PROVE  UNCHANGED Visible
<1>1. call = NoCall /\ UNCHANGED state /\ queryable \in BOOLEAN
  BY DEF create, rebuild, refit, IInv, TypeOK
<1>2. \/ call'.operation # "refit"
      \/ queryable
  BY DEF create, rebuild, refit, Call
<1>3. QED BY <1>1, <1>2 DEF Visible, serving, state

(* The whole scene is published: the contract's create or rebuild. *)
LEMMA BuildRefines == ASSUME IInv, commit_top_scene PROVE Contract!Next
<1>1. /\ at("attach") /\ serving'
      /\ \/ /\ call.operation = "create"
            /\ scene' = call.target
            /\ build_statistics' = [Contract!NoStatistics EXCEPT !.commits = 1]
         \/ /\ call.operation = "rebuild"
            /\ Contract!publish_rebuild(call.target)
  BY DEF commit_top_scene, serving
<1>2. call # NoCall /\ (call.operation = "create" <=> scene = NoScene)
  BY <1>1, Building
<1>3. call.target \in Scene /\ Contract!prepare_instances(call.target)
  BY <1>2, UpdateShape DEF IInv, UpdateInv
<1>4. serving' = TRUE BY <1>1 DEF serving
<1>5. Contract!create(call.target) \/ Contract!rebuild(call.target)
  BY <1>1, <1>2, <1>4 DEF Contract!create, Contract!rebuild
<1>6. QED BY <1>3, <1>5 DEF Contract!Next

(* The refit is published, or it fails and its rollback begins. *)
LEMMA RefitRefines == ASSUME IInv, commit_refit PROVE Contract!Next \/ UNCHANGED Visible
<1>1. /\ at("transform")
      /\ \/ queryable' = TRUE /\ Contract!publish_refit(call.target)
         \/ roll_back /\ UNCHANGED <<scene, build_statistics>>
  BY DEF commit_refit
<1>2. CASE roll_back /\ UNCHANGED <<scene, build_statistics>>
  <2>1. serving /\ serving' BY <1>1, <1>2, RollingBack
  <2>2. QED BY <1>2, <2>1 DEF Visible, serving
<1>3. CASE queryable' = TRUE /\ Contract!publish_refit(call.target)
  <2>1. /\ call # NoCall /\ call.operation = "refit" /\ scene \in Scene
        /\ Contract!validate_refit_scene(scene, call.target)
        /\ Contract!prepare_instances(call.target)
    BY <1>1, Refitting
  <2>2. serving /\ serving' BY <1>3, <2>1 DEF serving
  <2>3. serving' = serving BY <2>2 DEF serving
  <2>4. call.target \in Scene /\ scene # NoScene
    BY <2>1, UpdateShape, EmbreeAssumption DEF IInv
  <2>5. Contract!refit(call.target)
    BY <1>3, <2>1, <2>2, <2>3, <2>4 DEF Contract!refit
  <2>6. QED BY <2>1, <2>4, <2>5 DEF Contract!Next
<1>4. QED BY <1>1, <1>2, <1>3

(* A rollback goes on, succeeds, or loses the backend's availability. *)
LEMMA RestoreRefines ==
  ASSUME IInv, restore_instance \/ restored \/ rollback_fails
  PROVE  Contract!Next \/ UNCHANGED Visible
<1>1. at("restore") /\ UNCHANGED <<scene, build_statistics>>
  BY DEF restore_instance, restored, rollback_fails, state
<1>2. /\ call \in Update /\ call # NoCall /\ call.operation = "refit" /\ serving
      /\ call.next + 1 \in Nat \ {0}
  BY <1>1, Refitting DEF serving
<1>3. CASE serving'
  BY <1>1, <1>2, <1>3 DEF Visible, serving
<1>4. CASE ~serving'
  <2>1. serving' = FALSE BY <1>4 DEF serving
  <2>2. Contract!lose BY <1>1, <1>2, <2>1 DEF Contract!lose
  <2>3. QED BY <2>2 DEF Contract!Next
<1>5. QED BY <1>3, <1>4

LEMMA DestroyRefines == ASSUME destroy PROVE Contract!Next
<1>1. serving' = FALSE BY DEF destroy, serving
<1>2. Contract!destroy BY <1>1 DEF destroy, Contract!destroy
<1>3. QED BY <1>2 DEF Contract!Next

(* Every behaviour of the backend, with its geometries, candidates,
   rollbacks and failures, is one the interface allows. *)
THEOREM SpecContract == Spec => ContractSpec
<1>1. Init => Contract!Init
  <2> SUFFICES ASSUME Init PROVE Contract!Init
    OBVIOUS
  <2>1. serving = FALSE BY DEF Init, serving
  <2>2. QED BY <2>1 DEF Init, Contract!Init
<1>2. IInv /\ [Next]_vars => [Contract!Next]_<<scene, serving, build_statistics>>
  <2> SUFFICES ASSUME IInv, [Next]_vars
               PROVE  Contract!Next \/ UNCHANGED Visible
    BY DEF Visible
  <2>1. ASSUME NEW s \in Scene, create(s) \/ rebuild(s) \/ refit(s) PROVE UNCHANGED Visible
    BY <2>1, BeginHidden
  <2>2. CASE build_mesh \/ meshes_built \/ attach_instance \/ build_fails
    BY <2>2, BuildHidden
  <2>3. CASE commit_top_scene
    BY <2>3, BuildRefines
  <2>4. CASE skip_instance \/ set_transform \/ commit_geometry
    BY <2>4, RefitHidden
  <2>5. CASE commit_refit
    BY <2>5, RefitRefines
  <2>6. CASE restore_instance \/ restored \/ rollback_fails
    BY <2>6, RestoreRefines
  <2>7. CASE destroy
    BY <2>7, DestroyRefines
  <2>8. CASE UNCHANGED vars
    BY <2>8 DEF vars, Visible, serving
  <2>9. QED BY <2>1, <2>2, <2>3, <2>4, <2>5, <2>6, <2>7, <2>8 DEF Next
<1>3. QED BY <1>1, <1>2, SpecIInv, PTL DEF Spec, ContractSpec, Contract!Spec

(***************************************************************************)
(* The two-level hierarchy of CUDA.                                         *)
(*                                                                         *)
(* The builder first. A tree hangs in the node array if it is a preorder    *)
(* whose nodes' spans, boxes and heights nest and whose leaves refer to each *)
(* item once. build_node makes such trees, as high as the logarithm of the  *)
(* items, and validate_built_topology accepts them.                         *)
(*                                                                         *)
(* Then the traversal. It is going if its stack holds disjoint subtrees that *)
(* fit what is left of the nodes and of the levels, and every item either   *)
(* has its leaf below the stack or is done with: its hit is no better than  *)
(* the candidate kept. One lemma for each action of SceneClosestHit.        *)
(***************************************************************************)

(* The order below on Nat. *)
Before == {pair \in Nat \X Nat : pair[1] < pair[2]}

(* A set of numbers that is not empty has a least. *)
LEMMA LeastElement ==
  ASSUME NEW A \in SUBSET Nat, A # {}
  PROVE  \E n \in A : \A m \in A : n <= m
<1>1. IsWellFoundedOn(Before, Nat) BY NatLessThanWellFounded DEF OpToRel, Before
<1>2. PICK n \in A : \A m \in A : <<m, n>> \notin Before BY <1>1, WFMin
<1>3. \A m \in A : m \in Nat /\ n \in Nat /\ (<<m, n>> \in Before <=> m < n)
  BY DEF Before
<1>4. \A m \in A : n <= m
  <2> TAKE m \in A
  <2>1. m \in Nat /\ n \in Nat /\ ~(m < n) BY <1>2, <1>3
  <2>2. QED BY <2>1
<1>5. QED BY <1>4

(* A set of numbers that holds n if it holds all below n is Nat. *)
LEMMA AllBelow ==
  ASSUME NEW A \in SUBSET Nat, \A n \in Nat : (\A m \in Nat : m < n => m \in A) => n \in A
  PROVE  A = Nat
<1>1. SUFFICES ASSUME Nat \ A # {} PROVE FALSE
  OBVIOUS
<1>2. PICK n \in Nat \ A : \A m \in Nat \ A : n <= m BY <1>1, LeastElement
<1>3. \A m \in Nat : m < n => m \in A
  <2> SUFFICES ASSUME NEW m \in Nat, m < n, m \notin A PROVE FALSE
    OBVIOUS
  <2>1. n <= m /\ n \in Nat BY <1>2
  <2>2. QED BY <2>1
<1>4. QED BY <1>2, <1>3

------------------------------------------------------
(* A sequence, of whatever it holds. *)
isSeq(s) == s \in Seq(ToSet(s))

(* What a sequence of elements of S is. *)
LEMMA SeqShape ==
  ASSUME NEW S, NEW s \in Seq(S)
  PROVE  /\ isSeq(s) /\ Len(s) \in Nat /\ DOMAIN s = 1 .. Len(s)
         /\ \A i \in 1 .. Len(s) : s[i] \in S
         /\ ToSet(s) \subseteq S
<1>1. /\ Len(s) \in Nat /\ DOMAIN s = 1 .. Len(s)
      /\ \A i \in 1 .. Len(s) : s[i] \in S
      /\ s = [i \in 1 .. Len(s) |-> s[i]]
  BY LenProperties, ElementOfSeq
<1>2. \A i \in 1 .. Len(s) : s[i] \in ToSet(s) BY <1>1 DEF ToSet
<1>3. s \in [1 .. Len(s) -> ToSet(s)] BY <1>1, <1>2
<1>4. s \in Seq(ToSet(s)) BY <1>1, <1>3, SeqDef
<1>5. QED BY <1>1, <1>4 DEF isSeq, ToSet

(* A sequence as a function. *)
LEMMA IsSeqShape ==
  ASSUME NEW s, isSeq(s)
  PROVE  /\ Len(s) \in Nat /\ DOMAIN s = 1 .. Len(s)
         /\ \A i \in 1 .. Len(s) : s[i] \in ToSet(s)
         /\ s = [i \in 1 .. Len(s) |-> s[i]]
  BY SeqShape, LenProperties DEF isSeq

(* A function of 1 .. n is a sequence of length n. *)
LEMMA Made ==
  ASSUME NEW n \in Nat, NEW s, DOMAIN s = 1 .. n, s = [i \in 1 .. n |-> s[i]]
  PROVE  isSeq(s) /\ Len(s) = n
<1>1. \A i \in 1 .. n : s[i] \in ToSet(s) BY DEF ToSet
<1>2. s \in [1 .. n -> ToSet(s)] /\ s \in Seq(ToSet(s)) BY <1>1, SeqDef
<1>3. Len(s) = n BY <1>2, LenProperties
<1>4. QED BY <1>2, <1>3 DEF isSeq

(* A concatenation. *)
LEMMA Joined ==
  ASSUME NEW s, NEW t, isSeq(s), isSeq(t)
  PROVE  /\ isSeq(s \o t) /\ Len(s \o t) = Len(s) + Len(t)
         /\ \A i \in 1 .. Len(s) : (s \o t)[i] = s[i]
         /\ \A i \in 1 .. Len(t) : (s \o t)[Len(s) + i] = t[i]
         /\ ToSet(s \o t) = ToSet(s) \cup ToSet(t)
<1> DEFINE S == ToSet(s) \cup ToSet(t)
           u == s \o t
<1>1. s \in Seq(S) /\ t \in Seq(S) BY SeqMonotonic DEF isSeq
<1>2. /\ u \in Seq(S) /\ Len(u) = Len(s) + Len(t)
      /\ \A i \in 1 .. Len(s) + Len(t) : u[i] = IF i <= Len(s) THEN s[i] ELSE t[i - Len(s)]
  BY <1>1, ConcatProperties
<1>3. isSeq(u) /\ DOMAIN u = 1 .. Len(s) + Len(t)
  BY <1>2, SeqShape, LenProperties
<1>4. Len(s) \in Nat /\ Len(t) \in Nat /\ DOMAIN s = 1 .. Len(s) /\ DOMAIN t = 1 .. Len(t)
  BY IsSeqShape
<1> HIDE DEF u
<1>5. /\ \A i \in 1 .. Len(s) : u[i] = s[i]
      /\ \A i \in 1 .. Len(t) : u[Len(s) + i] = t[i]
  BY <1>2, <1>4
<1>6. ToSet(u) = ToSet(s) \cup ToSet(t)
  <2>1. ASSUME NEW x \in ToSet(u) PROVE x \in ToSet(s) \cup ToSet(t)
    <3>1. PICK i \in 1 .. Len(s) + Len(t) : x = u[i] BY <1>3 DEF ToSet
    <3>2. CASE i <= Len(s)
      BY <1>4, <1>5, <3>1, <3>2 DEF ToSet
    <3>3. CASE ~(i <= Len(s))
      <4>1. i - Len(s) \in 1 .. Len(t) BY <1>4, <3>3
      <4>2. QED BY <1>2, <1>4, <3>1, <3>3, <4>1 DEF ToSet
    <3>4. QED BY <3>2, <3>3
  <2>2. ASSUME NEW x \in ToSet(s) PROVE x \in ToSet(u)
    <3>1. PICK i \in 1 .. Len(s) : x = s[i] BY <1>4 DEF ToSet
    <3>2. u[i] = x /\ i \in DOMAIN u BY <1>3, <1>4, <1>5, <3>1
    <3>3. QED BY <3>2 DEF ToSet
  <2>3. ASSUME NEW x \in ToSet(t) PROVE x \in ToSet(u)
    <3>1. PICK i \in 1 .. Len(t) : x = t[i] BY <1>4 DEF ToSet
    <3>2. u[Len(s) + i] = x /\ Len(s) + i \in DOMAIN u BY <1>3, <1>4, <1>5, <3>1
    <3>3. QED BY <3>2 DEF ToSet
  <2>4. QED BY <2>1, <2>2, <2>3
<1>7. QED BY <1>2, <1>3, <1>5, <1>6 DEF u

(* A sequence of one. *)
LEMMA Single ==
  ASSUME NEW x
  PROVE  isSeq(<< x >>) /\ Len(<< x >>) = 1 /\ << x >>[1] = x /\ ToSet(<< x >>) = {x}
<1>1. << x >> \in Seq({x}) /\ Len(<< x >>) = 1 OBVIOUS
<1>2. isSeq(<< x >>) /\ DOMAIN << x >> = 1 .. 1
  <2> DEFINE t == << x >>
  <2>1. t \in Seq({x}) /\ Len(t) = 1 BY <1>1
  <2> HIDE DEF t
  <2>2. isSeq(t) /\ DOMAIN t = 1 .. 1 BY <2>1, SeqShape
  <2>3. QED BY <2>2 DEF t
<1>3. QED BY <1>2 DEF ToSet

(* The empty sequence. *)
LEMMA NoElement == isSeq(<< >>) /\ Len(<< >>) = 0 /\ ToSet(<< >>) = {} /\ DOMAIN << >> = {}
<1>1. << >> \in Seq({}) OBVIOUS
<1>2. isSeq(<< >>) BY <1>1, SeqShape
<1>3. QED BY <1>2 DEF ToSet

(* A part of a sequence. *)
LEMMA Part ==
  ASSUME NEW S, NEW s \in Seq(S), NEW m \in Nat \ {0}, NEW n \in Nat, n <= Len(s), m <= n + 1
  PROVE  /\ SubSeq(s, m, n) \in Seq(S) /\ Len(SubSeq(s, m, n)) = n - m + 1
         /\ \A i \in 1 .. n - m + 1 : SubSeq(s, m, n)[i] = s[m + i - 1]
<1>1. \A i \in m .. n : s[i] \in S BY SeqShape
<1>2. /\ SubSeq(s, m, n) \in Seq(S)
      /\ Len(SubSeq(s, m, n)) = IF m <= n THEN n - m + 1 ELSE 0
      /\ \A i \in 1 .. n - m + 1 : SubSeq(s, m, n)[i] = s[m + i - 1]
  BY <1>1, SubSeqProperties
<1>3. QED BY <1>2

------------------------------------------------------
(* The rank of an element in a strict total order is the number of elements
   before it: each rank is taken once. *)
rank_in(R, n) == [i \in 1 .. n |-> Cardinality({j \in 1 .. n : <<j, i>> \in R})]

StrictOrder(R, n) ==
    /\ R \in SUBSET ((1 .. n) \X (1 .. n))
    /\ \A i \in 1 .. n : <<i, i>> \notin R
    /\ \A i, j, k \in 1 .. n : <<i, j>> \in R /\ <<j, k>> \in R => <<i, k>> \in R
    /\ \A i, j \in 1 .. n : i # j => <<i, j>> \in R \/ <<j, i>> \in R

RanksOf(rank, R, n) ==
    /\ rank \in [1 .. n -> 0 .. n - 1]
    /\ \A i, j \in 1 .. n : <<j, i>> \in R => rank[j] < rank[i]
    /\ \A k \in 0 .. n - 1 : \E i \in 1 .. n : rank[i] = k
    /\ \A i, j \in 1 .. n : rank[i] = rank[j] => i = j

(* A strict total order gives each of 1 .. n a rank of its own. *)
LEMMA Ranked ==
  ASSUME NEW n \in Nat, NEW R, StrictOrder(R, n)
  PROVE  RanksOf(rank_in(R, n), R, n)
<1> SUFFICES ASSUME NEW rank, rank = rank_in(R, n) PROVE RanksOf(rank, R, n)
  OBVIOUS
<1> DEFINE under(i) == {j \in 1 .. n : <<j, i>> \in R}
<1>1. IsFiniteSet(1 .. n) /\ Cardinality(1 .. n) = n BY FS_Interval
<1>2. \A i \in 1 .. n : /\ IsFiniteSet(under(i)) /\ Cardinality(under(i)) \in Nat
                        /\ Cardinality(under(i)) < n
  <2> TAKE i \in 1 .. n
  <2>1. under(i) \in SUBSET (1 .. n) /\ under(i) # 1 .. n BY DEF StrictOrder
  <2> HIDE DEF under
  <2>2. QED BY <1>1, <2>1, FS_Subset, FS_CardinalityType
<1>3. \A i, j \in 1 .. n : <<j, i>> \in R => Cardinality(under(j)) < Cardinality(under(i))
  <2> TAKE i, j \in 1 .. n
  <2> HAVE <<j, i>> \in R
  <2>1. under(j) \in SUBSET under(i) /\ j \in under(i) /\ j \notin under(j)
    BY DEF StrictOrder
  <2>2. IsFiniteSet(under(i)) BY <1>2
  <2>3. Cardinality(under(j)) \in Nat /\ Cardinality(under(i)) \in Nat BY <1>2
  <2> HIDE DEF under
  <2>4. under(j) # under(i) BY <2>1
  <2>5. QED BY <2>1, <2>2, <2>3, <2>4, FS_Subset
<1>4. \A i \in 1 .. n : rank[i] = Cardinality(under(i)) BY DEF rank_in
<1>5. rank \in [1 .. n -> 0 .. n - 1]
  <2>1. \A i \in 1 .. n : Cardinality(under(i)) \in 0 .. n - 1
    <3> TAKE i \in 1 .. n
    <3>1. Cardinality(under(i)) \in Nat /\ Cardinality(under(i)) < n BY <1>2
    <3> HIDE DEF under
    <3>2. QED BY <3>1
  <2>2. rank = [i \in 1 .. n |-> rank[i]] BY DEF rank_in
  <2> HIDE DEF under
  <2>3. QED BY <1>4, <2>1, <2>2
<1>6. \A i, j \in 1 .. n : <<j, i>> \in R => rank[j] < rank[i] BY <1>3, <1>4
<1> HIDE DEF under
<1>7. \A i, j \in 1 .. n : rank[i] = rank[j] => i = j
  <2> TAKE i, j \in 1 .. n
  <2> HAVE rank[i] = rank[j]
  <2>1. rank[i] \in Int /\ rank[j] \in Int BY <1>5
  <2>2. <<i, j>> \notin R /\ <<j, i>> \notin R BY <1>6, <2>1
  <2>3. QED BY <2>2 DEF StrictOrder
<1>8. rank \in Injection(1 .. n, 0 .. n - 1)
  BY <1>5, <1>7 DEF Injection, IsInjective
<1>9. IsFiniteSet(0 .. n - 1) /\ Cardinality(0 .. n - 1) = n BY FS_Interval
<1>10. rank \in Surjection(1 .. n, 0 .. n - 1) BY <1>1, <1>8, <1>9, FS_Injection
<1>11. \A k \in 0 .. n - 1 : \E i \in 1 .. n : rank[i] = k
  BY <1>10 DEF Surjection
<1>12. QED BY <1>5, <1>6, <1>7, <1>11 DEF RanksOf

(* The elements by increasing rank, a permutation. *)
by_rank(rank, n) == [k \in 1 .. n |-> CHOOSE i \in 1 .. n : rank[i] = k - 1]

(* It lists 1 .. n, each once. *)
LEMMA ByRank ==
  ASSUME NEW n \in Nat, NEW R, StrictOrder(R, n), NEW rank, rank = rank_in(R, n),
         NEW p, p = by_rank(rank, n)
  PROVE  /\ p \in [1 .. n -> 1 .. n]
         /\ \A k, l \in 1 .. n : p[k] = p[l] => k = l
         /\ \A k, l \in 1 .. n : k < l => <<p[k], p[l]>> \in R
         /\ \A i \in 1 .. n : \E k \in 1 .. n : p[k] = i
<1>1. /\ rank \in [1 .. n -> 0 .. n - 1]
      /\ \A i, j \in 1 .. n : <<j, i>> \in R => rank[j] < rank[i]
      /\ \A k \in 0 .. n - 1 : \E i \in 1 .. n : rank[i] = k
      /\ \A i, j \in 1 .. n : rank[i] = rank[j] => i = j
  <2>1. RanksOf(rank, R, n) BY Ranked
  <2>2. QED BY <2>1 DEF RanksOf
<1>2. \A k \in 1 .. n : p[k] \in 1 .. n /\ rank[p[k]] = k - 1
  <2> TAKE k \in 1 .. n
  <2>1. k - 1 \in 0 .. n - 1 OBVIOUS
  <2>2. \E i \in 1 .. n : rank[i] = k - 1 BY <1>1, <2>1
  <2>3. p[k] = CHOOSE i \in 1 .. n : rank[i] = k - 1 BY DEF by_rank
  <2>4. QED BY <2>2, <2>3
<1>3. p \in [1 .. n -> 1 .. n]
  <2>1. p = [k \in 1 .. n |-> p[k]] BY DEF by_rank
  <2>2. QED BY <1>2, <2>1
<1>4. \A k, l \in 1 .. n : p[k] = p[l] => k = l
  <2> TAKE k, l \in 1 .. n
  <2>1. rank[p[k]] = k - 1 /\ rank[p[l]] = l - 1 BY <1>2
  <2>2. QED BY <2>1
<1>5. \A k, l \in 1 .. n : k < l => <<p[k], p[l]>> \in R
  <2> TAKE k, l \in 1 .. n
  <2> HAVE k < l
  <2>1. rank[p[k]] = k - 1 /\ rank[p[l]] = l - 1 /\ p[k] \in 1 .. n /\ p[l] \in 1 .. n
    BY <1>2
  <2>2. p[k] # p[l] BY <1>4
  <2>3. <<p[l], p[k]>> \notin R
    <3>1. ~(rank[p[l]] < rank[p[k]]) BY <2>1
    <3>2. QED BY <1>1, <2>1, <3>1
  <2>4. QED BY <2>1, <2>2, <2>3 DEF StrictOrder
<1>6. \A i \in 1 .. n : \E k \in 1 .. n : p[k] = i
  <2> TAKE i \in 1 .. n
  <2>1. rank[i] \in 0 .. n - 1 /\ rank[i] + 1 \in 1 .. n /\ (rank[i] + 1) - 1 = rank[i]
    BY <1>1
  <2>2. rank[p[rank[i] + 1]] = rank[i] /\ p[rank[i] + 1] \in 1 .. n
    BY <1>2, <2>1
  <2>3. p[rank[i] + 1] = i BY <1>1, <2>2
  <2>4. QED BY <2>1, <2>3
<1>7. QED BY <1>3, <1>4, <1>5, <1>6

Box == [minimum : [Axis -> Int], maximum : [Axis -> Int]]

(* Items that can be sorted. *)
Sortable(S) == \A x \in S : x.bounds \in Box /\ x.stable_key \in Int

(* Keys that differ order them strictly, along any axis. *)
LEMMA PrecedesOrders ==
  ASSUME NEW S, Sortable(S), NEW items \in Seq(S), NEW axis \in Axis,
         NEW R, R = {pair \in (1 .. Len(items)) \X (1 .. Len(items)) :
                       precedes(items, axis, pair[1], pair[2])}
  PROVE  StrictOrder(R, Len(items))
<1> DEFINE n == Len(items)
           middles(i) == items[i].bounds.minimum[axis] + items[i].bounds.maximum[axis]
           key(i) == items[i].stable_key
<1>0. n \in Nat /\ \A i \in 1 .. n : items[i] \in S BY SeqShape
<1>1. \A i \in 1 .. n : middles(i) \in Int /\ key(i) \in Int
  <2> TAKE i \in 1 .. n
  <2>1. items[i] \in S BY <1>0
  <2>2. items[i].bounds \in Box /\ items[i].stable_key \in Int
    BY <2>1 DEF Sortable
  <2>3. QED BY <2>2 DEF Box
<1>2. \A i, j \in 1 .. n :
         precedes(items, axis, i, j)
           <=> \/ middles(i) < middles(j) \/ (middles(i) = middles(j) /\ key(i) < key(j))
               \/ /\ ~(middles(j) < middles(i) \/ (middles(j) = middles(i) /\ key(j) < key(i)))
                  /\ i < j
  BY DEF precedes, before, centroid
<1>3. \A i, j \in 1 .. n : <<i, j>> \in R <=> precedes(items, axis, i, j)
  OBVIOUS
<1> HIDE DEF n, middles, key
<1>4. R \in SUBSET ((1 .. n) \X (1 .. n)) BY DEF n
<1>5. \A i \in 1 .. n : <<i, i>> \notin R BY <1>1, <1>2, <1>3
<1>6. \A i, j, k \in 1 .. n : <<i, j>> \in R /\ <<j, k>> \in R => <<i, k>> \in R
  <2> TAKE i, j, k \in 1 .. n
  <2> HAVE <<i, j>> \in R /\ <<j, k>> \in R
  <2>1. /\ middles(i) \in Int /\ middles(j) \in Int /\ middles(k) \in Int
        /\ key(i) \in Int /\ key(j) \in Int /\ key(k) \in Int
        /\ i \in Int /\ j \in Int /\ k \in Int
    BY <1>0, <1>1
  <2>2. precedes(items, axis, i, j) /\ precedes(items, axis, j, k) BY <1>3
  <2>3. \/ middles(i) < middles(j)
        \/ middles(i) = middles(j) /\ key(i) < key(j)
        \/ middles(i) = middles(j) /\ key(i) = key(j) /\ i < j
    BY <1>2, <2>1, <2>2
  <2>4. \/ middles(j) < middles(k)
        \/ middles(j) = middles(k) /\ key(j) < key(k)
        \/ middles(j) = middles(k) /\ key(j) = key(k) /\ j < k
    BY <1>2, <2>1, <2>2
  <2>5. \/ middles(i) < middles(k)
        \/ middles(i) = middles(k) /\ key(i) < key(k)
        \/ middles(i) = middles(k) /\ key(i) = key(k) /\ i < k
    BY <2>1, <2>3, <2>4
  <2>6. precedes(items, axis, i, k) BY <1>2, <2>1, <2>5
  <2>7. QED BY <1>3, <2>6
<1>7. \A i, j \in 1 .. n : i # j => <<i, j>> \in R \/ <<j, i>> \in R
  BY <1>1, <1>2, <1>3
<1>8. QED BY <1>4, <1>5, <1>6, <1>7 DEF StrictOrder, n

(* Sorted, the items are the same. *)
LEMMA SortedIsThere ==
  ASSUME NEW S, Sortable(S), NEW items \in Seq(S), NEW axis \in Axis
  PROVE  /\ sorted(items, axis) \in Seq(S) /\ Len(sorted(items, axis)) = Len(items)
         /\ ToSet(sorted(items, axis)) = ToSet(items)
<1> DEFINE n == Len(items)
           R == {pair \in (1 .. n) \X (1 .. n) : precedes(items, axis, pair[1], pair[2])}
           rank == rank_in(R, n)
           p == by_rank(rank, n)
           s == sorted(items, axis)
<1>1. n \in Nat /\ DOMAIN items = 1 .. n /\ \A i \in 1 .. n : items[i] \in S
  BY SeqShape
<1>2. StrictOrder(R, n) BY PrecedesOrders
<1>3. \A i \in 1 .. n : rank[i] = Cardinality({j \in DOMAIN items : precedes(items, axis, j, i)})
  <2> TAKE i \in 1 .. n
  <2>1. {j \in 1 .. n : <<j, i>> \in R} = {j \in DOMAIN items : precedes(items, axis, j, i)}
    BY <1>1
  <2>2. QED BY <2>1 DEF rank_in
<1>4. \A k \in 1 .. n :
         p[k] = CHOOSE i \in DOMAIN items :
                  Cardinality({j \in DOMAIN items : precedes(items, axis, j, i)}) = k - 1
  <2> TAKE k \in 1 .. n
  <2>1. p[k] = CHOOSE i \in 1 .. n : rank[i] = k - 1 BY DEF by_rank
  <2>2. \A i : (i \in 1 .. n /\ rank[i] = k - 1)
                 <=> (i \in DOMAIN items
                       /\ Cardinality({j \in DOMAIN items : precedes(items, axis, j, i)}) = k - 1)
    BY <1>1, <1>3
  <2> HIDE DEF rank, p
  <2>3. QED BY <2>1, <2>2
<1>5. s = [k \in 1 .. n |-> items[p[k]]]
  <2> DEFINE place(k) == CHOOSE i \in DOMAIN items :
                  Cardinality({j \in DOMAIN items : precedes(items, axis, j, i)}) = k - 1
  <2>1. s = [k \in 1 .. n |-> items[place(k)]] BY <1>1 DEF sorted, Cardinality
  <2>4. \A k \in 1 .. n : p[k] = place(k) BY <1>4
  <2> HIDE DEF s, p, place, n
  <2>2. \A k \in 1 .. n : s[k] = items[p[k]] BY <2>1, <2>4
  <2>3. s = [k \in 1 .. n |-> s[k]] BY <2>1
  <2>5. QED BY <2>2, <2>3
<1> HIDE DEF R
<1>6. /\ p \in [1 .. n -> 1 .. n]
      /\ \A i \in 1 .. n : \E k \in 1 .. n : p[k] = i
  BY <1>1, <1>2, ByRank
<1> HIDE DEF p, s, n
<1>7. s \in [1 .. n -> S] BY <1>1, <1>5, <1>6
<1>8. s \in Seq(S) BY <1>1, <1>7, SeqDef
<1>9. DOMAIN s = 1 .. n /\ Len(s) = n BY <1>1, <1>7, <1>8, LenProperties
<1>10. ToSet(s) = ToSet(items)
  <2>1. ASSUME NEW x \in ToSet(s) PROVE x \in ToSet(items)
    <3>1. PICK k \in 1 .. n : x = s[k] BY <1>9 DEF ToSet
    <3>2. x = items[p[k]] /\ p[k] \in 1 .. n BY <1>5, <1>6, <3>1
    <3>3. QED BY <1>1, <3>2 DEF ToSet
  <2>2. ASSUME NEW x \in ToSet(items) PROVE x \in ToSet(s)
    <3>1. PICK i \in 1 .. n : x = items[i] BY <1>1 DEF ToSet
    <3>2. PICK k \in 1 .. n : p[k] = i BY <1>6
    <3>3. x = s[k] BY <1>5, <3>1, <3>2
    <3>4. QED BY <1>9, <3>3 DEF ToSet
  <2>3. QED BY <2>1, <2>2
<1>11. QED BY <1>8, <1>9, <1>10 DEF s, n

(* The two halves a call is made with. *)
lower(items) == SubSeq(sorted(items, split_axis(items)), 1, middle(Len(items)))
upper(items) == SubSeq(sorted(items, split_axis(items)), middle(Len(items)) + 1, Len(items))

(* The halves of a sorted sequence: balanced, and together the sequence. *)
LEMMA Halves ==
  ASSUME NEW S, Sortable(S), NEW items \in Seq(S), Len(items) > 1
  PROVE  /\ lower(items) \in Seq(S) /\ upper(items) \in Seq(S)
         /\ middle(Len(items)) \in Nat /\ Len(lower(items)) = middle(Len(items))
         /\ Len(upper(items)) = Len(items) - middle(Len(items))
         /\ Len(lower(items)) \in 1 .. Len(items) - 1
         /\ Len(upper(items)) \in 1 .. Len(items) - 1
         /\ Len(lower(items)) <= Len(upper(items))
         /\ Len(upper(items)) <= Len(lower(items)) + 1
         /\ ToSet(items) = ToSet(lower(items)) \cup ToSet(upper(items))
<1> DEFINE n == Len(items)
           h == middle(n)
           s == sorted(items, split_axis(items))
           l == lower(items)
           u == upper(items)
<1>1. n \in Nat /\ n > 1 BY SeqShape
<1>2. h \in Nat /\ h >= 1 /\ n - h >= 1 /\ h <= n - h /\ n - h <= h + 1
  <2> HIDE DEF n
  <2>1. QED BY <1>1 DEF middle
<1>3. split_axis(items) \in Axis BY DEF split_axis, Axis
<1>4. s \in Seq(S) /\ Len(s) = n /\ ToSet(s) = ToSet(items)
  BY <1>3, SortedIsThere
<1> HIDE DEF n, h, s
<1>5. /\ l \in Seq(S) /\ Len(l) = h
      /\ \A i \in 1 .. h : l[i] = s[i]
  <2>1. l = SubSeq(s, 1, h) BY DEF lower, s, h, n
  <2>2. /\ SubSeq(s, 1, h) \in Seq(S) /\ Len(SubSeq(s, 1, h)) = h - 1 + 1
        /\ \A i \in 1 .. h - 1 + 1 : SubSeq(s, 1, h)[i] = s[1 + i - 1]
    BY <1>1, <1>2, <1>4, Part
  <2>3. QED BY <1>2, <2>1, <2>2
<1>6. /\ u \in Seq(S) /\ Len(u) = n - h
      /\ \A i \in 1 .. n - h : u[i] = s[h + i]
  <2>1. u = SubSeq(s, h + 1, n) BY DEF upper, s, h, n
  <2>2. /\ SubSeq(s, h + 1, n) \in Seq(S) /\ Len(SubSeq(s, h + 1, n)) = n - (h + 1) + 1
        /\ \A i \in 1 .. n - (h + 1) + 1 : SubSeq(s, h + 1, n)[i] = s[h + 1 + i - 1]
    BY SMTT(20), <1>1, <1>2, <1>4, Part
  <2>3. n - (h + 1) + 1 = n - h /\ \A i \in 1 .. n - h : h + 1 + i - 1 = h + i
    BY <1>1, <1>2
  <2>4. QED BY <2>1, <2>2, <2>3
<1>7. /\ DOMAIN s = 1 .. n /\ DOMAIN l = 1 .. h /\ DOMAIN u = 1 .. n - h
  BY <1>4, <1>5, <1>6, SeqShape
<1> HIDE DEF l, u
<1>8. ToSet(s) = ToSet(l) \cup ToSet(u)
  <2>1. ASSUME NEW x \in ToSet(s) PROVE x \in ToSet(l) \cup ToSet(u)
    <3>1. PICK i \in 1 .. n : x = s[i] BY <1>7 DEF ToSet
    <3>2. CASE i <= h
      <4>1. i \in 1 .. h /\ x = l[i] BY <1>1, <1>2, <1>5, <3>1, <3>2
      <4>2. QED BY <1>7, <4>1 DEF ToSet
    <3>3. CASE ~(i <= h)
      <4>1. i - h \in 1 .. n - h /\ h + (i - h) = i BY <1>1, <1>2, <3>1, <3>3
      <4>2. x = u[i - h] BY <1>6, <3>1, <4>1
      <4>3. QED BY <1>7, <4>1, <4>2 DEF ToSet
    <3>4. QED BY <3>2, <3>3
  <2>2. ASSUME NEW x \in ToSet(l) PROVE x \in ToSet(s)
    <3>1. PICK i \in 1 .. h : x = l[i] BY <1>7 DEF ToSet
    <3>2. i \in 1 .. n /\ x = s[i] BY <1>1, <1>2, <1>5, <3>1
    <3>3. QED BY <1>7, <3>2 DEF ToSet
  <2>3. ASSUME NEW x \in ToSet(u) PROVE x \in ToSet(s)
    <3>1. PICK i \in 1 .. n - h : x = u[i] BY <1>7 DEF ToSet
    <3>2. h + i \in 1 .. n /\ x = s[h + i] BY <1>1, <1>2, <1>6, <3>1
    <3>3. QED BY <1>7, <3>2 DEF ToSet
  <2>4. QED BY <2>1, <2>2, <2>3
<1>9. h \in 1 .. n - 1 /\ n - h \in 1 .. n - 1 BY <1>1, <1>2
<1>10. QED BY <1>2, <1>4, <1>5, <1>6, <1>8, <1>9 DEF l, u, h, n

------------------------------------------------------
(* A function that doubles up to n. *)
Doubles(f, n) ==
    /\ f \in [0 .. n -> Nat]
    /\ \A i \in 0 .. n : f[i] = IF i = 0 THEN 1 ELSE 2 * f[i - 1]

(* There is one for each n ... *)
LEMMA DoublesExists == \A n \in Nat : \E f : Doubles(f, n)
<1> DEFINE A == {n \in Nat : \E f : Doubles(f, n)}
<1>1. ASSUME NEW n \in Nat, \A m \in Nat : m < n => m \in A PROVE n \in A
  <2>1. CASE n = 0
    <3> DEFINE f == [i \in 0 .. 0 |-> 1]
    <3>1. Doubles(f, n) BY <2>1 DEF Doubles
    <3>2. QED BY <3>1
  <2>2. CASE n # 0
    <3>1. n - 1 \in Nat /\ n - 1 < n BY <2>2
    <3>2. PICK f : Doubles(f, n - 1) BY <1>1, <3>1
    <3> DEFINE g == [i \in 0 .. n |-> IF i = n THEN 2 * f[n - 1] ELSE f[i]]
    <3>3. \A i \in 0 .. n - 1 : f[i] \in Nat /\ f[i] = IF i = 0 THEN 1 ELSE 2 * f[i - 1]
      BY <3>2 DEF Doubles
    <3>4. g \in [0 .. n -> Nat] BY <3>1, <3>3
    <3>5. \A i \in 0 .. n : g[i] = IF i = 0 THEN 1 ELSE 2 * g[i - 1]
      BY <2>2, <3>1, <3>3
    <3>6. Doubles(g, n) BY <3>4, <3>5 DEF Doubles
    <3>7. QED BY <3>6
  <2>3. QED BY <2>1, <2>2
<1> HIDE DEF A
<1>2. A \in SUBSET Nat BY DEF A
<1>3. A = Nat BY <1>1, <1>2, AllBelow
<1>4. QED BY <1>3 DEF A

(* ... and any two agree where both are defined ... *)
LEMMA DoublesAgree ==
  \A n \in Nat : \A f, g : \A m, l \in Nat :
      Doubles(f, m) /\ Doubles(g, l) /\ n <= m /\ n <= l => f[n] = g[n]
<1> DEFINE A == {n \in Nat : \A f, g : \A m, l \in Nat :
                  Doubles(f, m) /\ Doubles(g, l) /\ n <= m /\ n <= l => f[n] = g[n]}
<1>1. ASSUME NEW n \in Nat, \A m \in Nat : m < n => m \in A PROVE n \in A
  <2> SUFFICES ASSUME NEW f, NEW g, NEW m \in Nat, NEW l \in Nat,
                      Doubles(f, m), Doubles(g, l), n <= m, n <= l
               PROVE  f[n] = g[n]
    OBVIOUS
  <2>1. CASE n = 0
    BY <2>1 DEF Doubles
  <2>2. CASE n # 0
    <3>1. n - 1 \in Nat /\ n - 1 < n /\ n - 1 <= m /\ n - 1 <= l BY <2>2
    <3>2. f[n - 1] = g[n - 1] BY <1>1, <3>1
    <3>3. QED BY <2>2, <3>2 DEF Doubles
  <2>3. QED BY <2>1, <2>2
<1> HIDE DEF A
<1>2. A \in SUBSET Nat BY DEF A
<1>3. A = Nat BY <1>1, <1>2, AllBelow
<1>4. QED BY <1>3 DEF A

(* ... so LeavesWithin is the power of two it is meant to be. *)
LEMMA LeavesDouble ==
  /\ LeavesWithin[0] = 1
  /\ \A n \in Nat : LeavesWithin[n] \in Nat /\ LeavesWithin[n + 1] = 2 * LeavesWithin[n]
<1> DEFINE upto(n) == CHOOSE f : Doubles(f, n)
           F == [n \in Nat |-> upto(n)[n]]
           Is(f) == f = [n \in Nat |-> IF n = 0 THEN 1 ELSE 2 * f[n - 1]]
<1>1. \A n \in Nat : Doubles(upto(n), n) BY DoublesExists
<1> HIDE DEF upto
<1>2. \A n \in Nat : F[n] = IF n = 0 THEN 1 ELSE 2 * F[n - 1]
  <2> TAKE n \in Nat
  <2>1. F[n] = upto(n)[n] /\ Doubles(upto(n), n) BY <1>1
  <2>2. CASE n = 0
    BY <2>1, <2>2 DEF Doubles
  <2>3. CASE n # 0
    <3>1. n - 1 \in Nat /\ n - 1 <= n BY <2>3
    <3>2. F[n - 1] = upto(n - 1)[n - 1] /\ Doubles(upto(n - 1), n - 1)
      BY <1>1, <3>1
    <3>3. upto(n)[n - 1] = upto(n - 1)[n - 1] BY <2>1, <3>1, <3>2, DoublesAgree
    <3>4. upto(n)[n] = 2 * upto(n)[n - 1] BY <2>1, <2>3 DEF Doubles
    <3>5. QED BY <2>1, <2>3, <3>2, <3>3, <3>4
  <2>4. QED BY <2>2, <2>3
<1>3. Is(F) BY <1>2
<1>4. LeavesWithin = CHOOSE f : Is(f) BY DEF LeavesWithin
<1>5. Is(LeavesWithin)
  <2> HIDE DEF F, Is
  <2>1. QED BY <1>3, <1>4
<1> DEFINE A == {n \in Nat : LeavesWithin[n] \in Nat}
<1>6. \A n \in Nat : LeavesWithin[n] = IF n = 0 THEN 1 ELSE 2 * LeavesWithin[n - 1]
  BY <1>5
<1>7. ASSUME NEW n \in Nat, \A m \in Nat : m < n => m \in A PROVE n \in A
  <2>1. CASE n = 0
    BY <1>6, <2>1
  <2>2. CASE n # 0
    <3>1. n - 1 \in A BY <1>7, <2>2
    <3>2. QED BY <1>6, <2>2, <3>1
  <2>3. QED BY <2>1, <2>2
<1> HIDE DEF A
<1>8. A \in SUBSET Nat BY DEF A
<1>9. A = Nat BY <1>7, <1>8, AllBelow
<1>10. \A n \in Nat : LeavesWithin[n] \in Nat BY <1>9 DEF A
<1>11. \A n \in Nat : LeavesWithin[n + 1] = 2 * LeavesWithin[n]
  <2> TAKE n \in Nat
  <2>1. n + 1 \in Nat /\ n + 1 # 0 /\ (n + 1) - 1 = n OBVIOUS
  <2>2. QED BY <1>6, <2>1
<1>12. LeavesWithin[0] = 1 BY <1>6
<1>13. QED BY <1>10, <1>11, <1>12

------------------------------------------------------
(* What a call of build_node is made with. *)
Calls(S) == Seq(S) \X Nat \X Nat

made(node, site) == subtree(node, site[1], site[2], site[3])

(* The calls with up to n items. *)
CallsUpTo(S, n) == {site \in Calls(S) : Len(site[1]) <= n}

(* A call's result: nodes and references. *)
Grown(t) == isSeq(t.nodes) /\ isSeq(t.references)

(* A function that builds the trees of up to n items. *)
Builds(f, S, n) ==
    /\ f = [site \in CallsUpTo(S, n) |-> f[site]]
    /\ \A site \in CallsUpTo(S, n) : f[site] = made(f, site) /\ Grown(f[site])

(* The calls one call makes. *)
first_call(site) == << lower(site[1]), site[2] + 1, site[3] >>
second_call(node, site) ==
    << upper(site[1]), site[2] + 1 + Len(node[first_call(site)].nodes), site[3] + middle(Len(site[1])) >>

(* The parts of a call. *)
LEMMA CallShape ==
  ASSUME NEW S, NEW site \in Calls(S)
  PROVE  /\ site[1] \in Seq(S) /\ site[2] \in Nat /\ site[3] \in Nat
         /\ site = << site[1], site[2], site[3] >> /\ Len(site[1]) \in Nat
  BY SeqShape DEF Calls

(* More than one item: an inner node, then what the two calls make. *)
LEMMA MadeOfParts ==
  ASSUME NEW node, NEW S, Sortable(S), NEW site \in Calls(S), Len(site[1]) > 1
  PROVE  LET l == node[first_call(site)]
             r == node[second_call(node, site)]
         IN  made(node, site)
               = [nodes |-> << internal(split_axis(site[1]), site[2] + 2,
                                        site[2] + 1 + Len(l.nodes) + 1,
                                        unite(Head(l.nodes).bounds, Head(r.nodes).bounds)) >>
                            \o l.nodes \o r.nodes,
                  references |-> l.references \o r.references]
<1>1. site[1] \in Seq(S) /\ Len(site[1]) \in Nat /\ ~(Len(site[1]) <= 1)
  BY CallShape
<1>2. QED BY <1>1 DEF made, subtree, first_call, second_call, lower, upper

(* A call with fewer items, ... *)
LEMMA FirstCall ==
  ASSUME NEW S, Sortable(S), NEW site \in Calls(S), Len(site[1]) > 1
  PROVE  first_call(site) \in Calls(S) /\ Len(first_call(site)[1]) \in 1 .. Len(site[1]) - 1
<1>1. site[1] \in Seq(S) /\ site[2] \in Nat /\ site[3] \in Nat BY CallShape
<1>2. lower(site[1]) \in Seq(S) /\ Len(lower(site[1])) \in 1 .. Len(site[1]) - 1
  BY <1>1, Halves
<1>3. QED BY <1>1, <1>2 DEF first_call, Calls

(* ... and another. *)
LEMMA SecondCall ==
  ASSUME NEW S, Sortable(S), NEW site \in Calls(S), Len(site[1]) > 1,
         NEW node, Grown(node[first_call(site)])
  PROVE  /\ second_call(node, site) \in Calls(S)
         /\ Len(second_call(node, site)[1]) \in 1 .. Len(site[1]) - 1
<1>1. site[1] \in Seq(S) /\ site[2] \in Nat /\ site[3] \in Nat BY CallShape
<1>2. /\ upper(site[1]) \in Seq(S) /\ Len(upper(site[1])) \in 1 .. Len(site[1]) - 1
      /\ middle(Len(site[1])) \in Nat
  BY <1>1, Halves
<1>3. Len(node[first_call(site)].nodes) \in Nat BY IsSeqShape DEF Grown
<1>4. QED BY <1>1, <1>2, <1>3 DEF second_call, Calls

(* A tree depends on the smaller ones only. *)
LEMMA MadeAlike ==
  ASSUME NEW S, Sortable(S), NEW site \in Calls(S), NEW f, NEW g,
         \A a \in Calls(S) : Len(a[1]) < Len(site[1]) => f[a] = g[a] /\ Grown(f[a])
  PROVE  made(f, site) = made(g, site)
<1>1. site[1] \in Seq(S) /\ site[2] \in Nat /\ site[3] \in Nat /\ Len(site[1]) \in Nat
  BY CallShape
<1>2. CASE Len(site[1]) <= 1
  BY <1>2 DEF made, subtree
<1>3. CASE Len(site[1]) > 1
  <2>1. first_call(site) \in Calls(S) /\ Len(first_call(site)[1]) < Len(site[1])
    BY <1>1, <1>3, FirstCall
  <2>2. f[first_call(site)] = g[first_call(site)] /\ Grown(f[first_call(site)])
    BY <2>1
  <2>3. second_call(f, site) \in Calls(S) /\ Len(second_call(f, site)[1]) < Len(site[1])
    BY <1>1, <1>3, <2>2, SecondCall
  <2>4. second_call(f, site) = second_call(g, site) BY <2>2 DEF second_call
  <2>5. f[second_call(f, site)] = g[second_call(g, site)] BY <2>3, <2>4
  <2>6. QED BY <1>3, <2>2, <2>5, MadeOfParts
<1>4. QED BY <1>1, <1>2, <1>3

(* What is made of grown parts is grown. *)
LEMMA MadeGrows ==
  ASSUME NEW S, Sortable(S), NEW site \in Calls(S), NEW f,
         \A a \in Calls(S) : Len(a[1]) < Len(site[1]) => Grown(f[a])
  PROVE  Grown(made(f, site))
<1>1. site[1] \in Seq(S) /\ site[2] \in Nat /\ site[3] \in Nat /\ Len(site[1]) \in Nat
  BY CallShape
<1>2. CASE Len(site[1]) <= 1
  <2>1. made(f, site) = [nodes |-> << leaf(site[1][1], site[3] + 1) >>,
                       references |-> << site[1][1].payload >>]
    BY <1>2 DEF made, subtree
  <2>2. isSeq(<< leaf(site[1][1], site[3] + 1) >>) /\ isSeq(<< site[1][1].payload >>)
    BY Single
  <2>3. QED BY <2>1, <2>2 DEF Grown
<1>3. CASE Len(site[1]) > 1
  <2> DEFINE l == f[first_call(site)]
             r == f[second_call(f, site)]
             parent == internal(split_axis(site[1]), site[2] + 2, site[2] + 1 + Len(l.nodes) + 1,
                                unite(Head(l.nodes).bounds, Head(r.nodes).bounds))
  <2>1. first_call(site) \in Calls(S) /\ Len(first_call(site)[1]) < Len(site[1])
    BY <1>1, <1>3, FirstCall
  <2>2. Grown(l) BY <2>1
  <2>3. second_call(f, site) \in Calls(S) /\ Len(second_call(f, site)[1]) < Len(site[1])
    BY <1>1, <1>3, <2>2, SecondCall
  <2>4. Grown(r) BY <2>3
  <2>5. made(f, site) = [nodes |-> << parent >> \o l.nodes \o r.nodes,
                       references |-> l.references \o r.references]
    BY <1>3, MadeOfParts
  <2> HIDE DEF l, r, parent
  <2>6. isSeq(<< parent >>) /\ isSeq(l.nodes) /\ isSeq(r.nodes)
        /\ isSeq(l.references) /\ isSeq(r.references)
    BY <2>2, <2>4, Single DEF Grown
  <2>7. isSeq(<< parent >> \o l.nodes) /\ isSeq(l.references \o r.references)
    BY <2>6, Joined
  <2>8. isSeq(<< parent >> \o l.nodes \o r.nodes) BY <2>6, <2>7, Joined
  <2>9. QED BY <2>5, <2>7, <2>8 DEF Grown
<1>4. QED BY <1>1, <1>2, <1>3

(* The calls of at most n items can be answered ... *)
LEMMA BuildsExists ==
  ASSUME NEW S, Sortable(S)
  PROVE  \A n \in Nat : \E f : Builds(f, S, n)
<1> DEFINE A == {n \in Nat : \E f : Builds(f, S, n)}
<1>1. ASSUME NEW n \in Nat, \A m \in Nat : m < n => m \in A PROVE n \in A
  <2>1. \E g : \A a \in Calls(S) : Len(a[1]) < n => g[a] = made(g, a) /\ Grown(g[a])
    <3>1. CASE n = 0
      <4>1. \A a \in Calls(S) : Len(a[1]) \in Nat BY CallShape
      <4>2. QED BY <3>1, <4>1
    <3>2. CASE n # 0
      <4>1. n - 1 \in Nat /\ n - 1 < n BY <3>2
      <4>2. PICK g : Builds(g, S, n - 1) BY <1>1, <4>1
      <4>3. \A a \in Calls(S) : Len(a[1]) < n => a \in CallsUpTo(S, n - 1)
        <5> TAKE a \in Calls(S)
        <5>1. Len(a[1]) \in Nat BY CallShape
        <5>2. QED BY <5>1 DEF CallsUpTo
      <4>4. QED BY <4>2, <4>3 DEF Builds
    <3>3. QED BY <3>1, <3>2
  <2>2. PICK g : \A a \in Calls(S) : Len(a[1]) < n => g[a] = made(g, a) /\ Grown(g[a])
    BY <2>1
  <2> DEFINE f == [site \in CallsUpTo(S, n) |-> IF Len(site[1]) < n THEN g[site] ELSE made(g, site)]
  <2>3. \A site \in CallsUpTo(S, n) : f[site] = IF Len(site[1]) < n THEN g[site] ELSE made(g, site)
    OBVIOUS
  <2>4. DOMAIN f = CallsUpTo(S, n) /\ f = [site \in CallsUpTo(S, n) |-> f[site]]
    OBVIOUS
  <2> HIDE DEF f
  <2>5. ASSUME NEW site \in CallsUpTo(S, n) PROVE f[site] = made(f, site) /\ Grown(f[site])
    <3>1. site \in Calls(S) /\ Len(site[1]) \in Nat /\ Len(site[1]) <= n
      BY CallShape DEF CallsUpTo
    <3>2. \A a \in Calls(S) : Len(a[1]) < Len(site[1]) => f[a] = g[a] /\ Grown(f[a])
      <4> TAKE a \in Calls(S)
      <4> HAVE Len(a[1]) < Len(site[1])
      <4>1. Len(a[1]) \in Nat BY CallShape
      <4>2. Len(a[1]) < n /\ a \in CallsUpTo(S, n) BY <3>1, <4>1 DEF CallsUpTo
      <4>3. QED BY <2>2, <2>3, <4>2
    <3>3. made(f, site) = made(g, site) /\ Grown(made(f, site))
      BY <3>1, <3>2, MadeAlike, MadeGrows
    <3>4. f[site] = made(g, site) BY <2>2, <2>3, <3>1
    <3>5. QED BY <3>3, <3>4
  <2>6. Builds(f, S, n) BY <2>4, <2>5 DEF Builds
  <2>7. QED BY <2>6
<1> HIDE DEF A
<1>2. A \in SUBSET Nat BY DEF A
<1>3. A = Nat BY <1>1, <1>2, AllBelow
<1>4. QED BY <1>3 DEF A

(* ... in one way only. *)
LEMMA BuildsAgree ==
  ASSUME NEW S, Sortable(S)
  PROVE  \A n \in Nat : \A f, g : \A m, l \in Nat : \A site \in Calls(S) :
           Builds(f, S, m) /\ Builds(g, S, l) /\ n <= m /\ n <= l /\ Len(site[1]) = n
             => f[site] = g[site]
<1> DEFINE A == {n \in Nat : \A f, g : \A m, l \in Nat : \A site \in Calls(S) :
           Builds(f, S, m) /\ Builds(g, S, l) /\ n <= m /\ n <= l /\ Len(site[1]) = n
             => f[site] = g[site]}
<1>1. ASSUME NEW n \in Nat, \A m \in Nat : m < n => m \in A PROVE n \in A
  <2> SUFFICES ASSUME NEW f, NEW g, NEW m \in Nat, NEW l \in Nat, NEW site \in Calls(S),
                      Builds(f, S, m), Builds(g, S, l), n <= m, n <= l, Len(site[1]) = n
               PROVE  f[site] = g[site]
    OBVIOUS
  <2>1. \A a \in Calls(S) : Len(a[1]) < Len(site[1]) => f[a] = g[a] /\ Grown(f[a])
    <3> TAKE a \in Calls(S)
    <3> HAVE Len(a[1]) < Len(site[1])
    <3>1. Len(a[1]) \in Nat BY CallShape
    <3>2. Len(a[1]) < n /\ Len(a[1]) <= m /\ Len(a[1]) <= l BY <3>1
    <3>3. f[a] = g[a] BY <1>1, <3>1, <3>2
    <3>4. a \in CallsUpTo(S, m) BY <3>2 DEF CallsUpTo
    <3>5. QED BY <3>3, <3>4 DEF Builds
  <2>2. made(f, site) = made(g, site) BY <2>1, MadeAlike
  <2>3. site \in CallsUpTo(S, m) /\ site \in CallsUpTo(S, l) BY DEF CallsUpTo
  <2>4. QED BY <2>2, <2>3 DEF Builds
<1> HIDE DEF A
<1>2. A \in SUBSET Nat BY DEF A
<1>3. A = Nat BY <1>1, <1>2, AllBelow
<1>4. QED BY <1>3 DEF A

(* What every call of the builder returns. *)
Builder(node, S) == \A site \in Calls(S) : node[site] = made(node, site) /\ Grown(node[site])

Is(f, S) == f = [site \in Calls(S) |-> made(f, site)]

(* It answers with nodes and references. *)
LEMMA BuilderGrows ==
  ASSUME NEW S, Sortable(S), NEW f, Is(f, S)
  PROVE  Builder(f, S)
<1>0. \A site \in Calls(S) : f[site] = made(f, site) BY DEF Is
<1> DEFINE A == {n \in Nat : \A site \in Calls(S) : Len(site[1]) = n => Grown(f[site])}
<1>1. ASSUME NEW n \in Nat, \A m \in Nat : m < n => m \in A PROVE n \in A
  <2> SUFFICES ASSUME NEW site \in Calls(S), Len(site[1]) = n PROVE Grown(f[site])
    OBVIOUS
  <2>1. \A a \in Calls(S) : Len(a[1]) < Len(site[1]) => Grown(f[a])
    <3> TAKE a \in Calls(S)
    <3> HAVE Len(a[1]) < Len(site[1])
    <3>1. Len(a[1]) \in Nat BY CallShape
    <3>2. QED BY <1>1, <3>1
  <2>2. Grown(made(f, site)) BY <2>1, MadeGrows
  <2>3. QED BY <1>0, <2>2
<1> HIDE DEF A
<1>2. A \in SUBSET Nat BY DEF A
<1>3. A = Nat BY <1>1, <1>2, AllBelow
<1>4. \A site \in Calls(S) : Len(site[1]) \in Nat BY CallShape
<1>5. QED BY <1>0, <1>3, <1>4 DEF A, Builder

(* There is one, so that CHOOSE finds it. *)
LEMMA BuilderExists ==
  ASSUME NEW S, Sortable(S)
  PROVE  \E f : Is(f, S)
<1> DEFINE upto(n) == CHOOSE f : Builds(f, S, n)
           F == [site \in Calls(S) |-> upto(Len(site[1]))[site]]
<1>1. \A n \in Nat : Builds(upto(n), S, n) BY BuildsExists
<1>2. DOMAIN F = Calls(S) /\ F = [site \in Calls(S) |-> F[site]] OBVIOUS
<1>3. \A site \in Calls(S) : F[site] = upto(Len(site[1]))[site] OBVIOUS
<1> HIDE DEF upto, F
<1>4. ASSUME NEW site \in Calls(S) PROVE F[site] = made(F, site)
  <2> DEFINE n == Len(site[1])
  <2>1. n \in Nat BY CallShape
  <2>2. \A a \in Calls(S) : Len(a[1]) < n => F[a] = upto(n)[a] /\ Grown(F[a])
    <3> TAKE a \in Calls(S)
    <3> HAVE Len(a[1]) < n
    <3>1. Len(a[1]) \in Nat /\ Len(a[1]) <= n BY <2>1, CallShape
    <3>2. Builds(upto(n), S, n) /\ Builds(upto(Len(a[1])), S, Len(a[1]))
      BY <1>1, <2>1, <3>1
    <3>3. F[a] = upto(n)[a] BY <1>3, <2>1, <3>1, <3>2, BuildsAgree
    <3>4. a \in CallsUpTo(S, n) BY <3>1 DEF CallsUpTo
    <3>5. QED BY <3>2, <3>3, <3>4 DEF Builds
  <2>3. made(F, site) = made(upto(n), site) BY <2>2, MadeAlike
  <2>4. site \in CallsUpTo(S, n) /\ Builds(upto(n), S, n)
    BY <1>1, <2>1 DEF CallsUpTo
  <2>5. upto(n)[site] = made(upto(n), site) BY <2>4 DEF Builds
  <2>6. QED BY <1>3, <2>3, <2>5
<1>5. F = [site \in Calls(S) |-> made(F, site)] BY <1>2, <1>4
<1>6. QED BY <1>5 DEF Is

(* build_node unfolds. *)
LEMMA BuildUnfolds ==
  ASSUME NEW items, Sortable(ToSet(items)), isSeq(items), NEW o \in Nat, NEW r \in Nat
  PROVE  \E node : /\ Builder(node, ToSet(items))
                   /\ build_node(items, o, r) = node[<< items, o, r >>]
                   /\ << items, o, r >> \in Calls(ToSet(items))
<1> DEFINE S == ToSet(items)
           node == CHOOSE f : Is(f, S)
<1>1. Is(node, S) BY BuilderExists
<1>2. Builder(node, S) BY <1>1, BuilderGrows
<1>3. build_node(items, o, r) = node[<< items, o, r >>]
  BY DEF build_node, Is, Calls, made, ToSet
<1>4. << items, o, r >> \in Calls(S) BY DEF Calls, isSeq
<1>5. QED BY <1>2, <1>3, <1>4

(* The lesser of two. *)
LEMMA MinPair ==
  ASSUME NEW a \in Int, NEW b \in Int
  PROVE  Min({a, b}) = IF a <= b THEN a ELSE b
<1> DEFINE m == IF a <= b THEN a ELSE b
<1>1. m \in {a, b} /\ \A x \in {a, b} : m <= x OBVIOUS
<1>2. \A x \in {a, b} : (\A y \in {a, b} : x <= y) => x = m OBVIOUS
<1> HIDE DEF m
<1>3. Min({a, b}) = m BY <1>1, <1>2 DEF Min
<1>4. QED BY <1>3 DEF m

(* The greater of two. *)
LEMMA MaxPair ==
  ASSUME NEW a \in Int, NEW b \in Int
  PROVE  Max({a, b}) = IF a >= b THEN a ELSE b
<1> DEFINE m == IF a >= b THEN a ELSE b
<1>1. m \in {a, b} /\ \A x \in {a, b} : m >= x OBVIOUS
<1>2. \A x \in {a, b} : (\A y \in {a, b} : x >= y) => x = m OBVIOUS
<1> HIDE DEF m
<1>3. Max({a, b}) = m BY <1>1, <1>2 DEF Max
<1>4. QED BY <1>3 DEF m

(* A box around another. *)
Encloses(outer, inner) ==
    \A k \in Axis : outer.minimum[k] <= inner.minimum[k] /\ inner.maximum[k] <= outer.maximum[k]

(* Boxes around boxes. *)
LEMMA EnclosesChain ==
  ASSUME NEW a \in Box, NEW b \in Box, NEW c \in Box, Encloses(a, b), Encloses(b, c)
  PROVE  Encloses(a, c)
  BY DEF Encloses, Box

(* unite is around both. *)
LEMMA UniteEncloses ==
  ASSUME NEW a \in Box, NEW b \in Box
  PROVE  unite(a, b) \in Box /\ Encloses(unite(a, b), a) /\ Encloses(unite(a, b), b)
<1>1. \A k \in Axis : /\ a.minimum[k] \in Int /\ b.minimum[k] \in Int
                      /\ a.maximum[k] \in Int /\ b.maximum[k] \in Int
  BY DEF Box
<1>2. \A k \in Axis :
         /\ Min({a.minimum[k], b.minimum[k]}) \in Int
         /\ Min({a.minimum[k], b.minimum[k]}) <= a.minimum[k]
         /\ Min({a.minimum[k], b.minimum[k]}) <= b.minimum[k]
         /\ Max({a.maximum[k], b.maximum[k]}) \in Int
         /\ a.maximum[k] <= Max({a.maximum[k], b.maximum[k]})
         /\ b.maximum[k] <= Max({a.maximum[k], b.maximum[k]})
  <2> TAKE k \in Axis
  <2>1. /\ a.minimum[k] \in Int /\ b.minimum[k] \in Int
        /\ a.maximum[k] \in Int /\ b.maximum[k] \in Int
    BY <1>1
  <2>2. QED BY <2>1, MinPair, MaxPair
<1>3. /\ unite(a, b) = [minimum |-> [k \in Axis |-> Min({a.minimum[k], b.minimum[k]})],
                        maximum |-> [k \in Axis |-> Max({a.maximum[k], b.maximum[k]})]]
  BY DEF unite, Min, Max
<1> DEFINE lo == [k \in Axis |-> Min({a.minimum[k], b.minimum[k]})]
           hi == [k \in Axis |-> Max({a.maximum[k], b.maximum[k]})]
<1>4. lo \in [Axis -> Int] /\ hi \in [Axis -> Int] BY <1>2
<1>5. \A k \in Axis : /\ lo[k] <= a.minimum[k] /\ lo[k] <= b.minimum[k]
                      /\ a.maximum[k] <= hi[k] /\ b.maximum[k] <= hi[k]
  BY <1>2
<1>6. unite(a, b) = [minimum |-> lo, maximum |-> hi] BY <1>3
<1> HIDE DEF lo, hi
<1>7. unite(a, b) \in Box BY <1>4, <1>6 DEF Box
<1>8. QED BY <1>5, <1>6, <1>7 DEF Encloses

------------------------------------------------------
(* The lengths of the halves, as numbers of their own. *)
LEMMA HalfLengths ==
  ASSUME NEW S, Sortable(S), NEW items \in Seq(S), Len(items) > 1,
         NEW n, n = Len(items), NEW a, a = Len(lower(items)), NEW b, b = Len(upper(items))
  PROVE  /\ n \in Nat /\ a \in Nat /\ b \in Nat /\ 0 < a /\ 0 < b /\ a < n /\ b < n
         /\ a <= b /\ b <= a + 1 /\ a + b = n /\ middle(n) = a
<1>1. n \in Nat BY SeqShape
<1>2. /\ middle(n) \in Nat /\ a = middle(n) /\ b = n - middle(n)
      /\ a \in 1 .. n - 1 /\ b \in 1 .. n - 1 /\ a <= b /\ b <= a + 1
  BY Halves
<1>3. QED BY ONLY <1>1, <1>2

(* A tree of n leaves has 2n - 1 nodes and n references. *)
LEMMA Lengths ==
  ASSUME NEW S, Sortable(S), NEW node, Builder(node, S)
  PROVE  \A site \in Calls(S) : Len(site[1]) > 0 =>
            /\ Len(node[site].nodes) = 2 * Len(site[1]) - 1
            /\ Len(node[site].references) = Len(site[1])
<1> DEFINE A == {n \in Nat : \A site \in Calls(S) : Len(site[1]) = n /\ n > 0 =>
                                /\ Len(node[site].nodes) = 2 * n - 1
                                /\ Len(node[site].references) = n}
<1>1. ASSUME NEW n \in Nat, \A m \in Nat : m < n => m \in A PROVE n \in A
  <2> SUFFICES ASSUME NEW site \in Calls(S), Len(site[1]) = n, n > 0
               PROVE  /\ Len(node[site].nodes) = 2 * n - 1
                      /\ Len(node[site].references) = n
    OBVIOUS
  <2>0. node[site] = made(node, site) /\ site[1] \in Seq(S)
    BY CallShape DEF Builder
  <2>1. CASE n = 1
    <3>1. made(node, site) = [nodes |-> << leaf(site[1][1], site[3] + 1) >>,
                            references |-> << site[1][1].payload >>]
      BY <2>1 DEF made, subtree
    <3>2. QED BY <2>0, <2>1, <3>1, Single
  <2>2. CASE n > 1
    <3> DEFINE l == node[first_call(site)]
               r == node[second_call(node, site)]
               parent == internal(split_axis(site[1]), site[2] + 2, site[2] + 1 + Len(l.nodes) + 1,
                                  unite(Head(l.nodes).bounds, Head(r.nodes).bounds))
               a == Len(lower(site[1]))
               b == Len(upper(site[1]))
    <3>1. /\ n \in Nat /\ a \in Nat /\ b \in Nat /\ 0 < a /\ 0 < b /\ a < n /\ b < n
          /\ a + b = n
      BY <2>0, <2>2, HalfLengths
    <3>2. first_call(site) \in Calls(S) /\ Len(first_call(site)[1]) = a
      BY <2>2, FirstCall DEF first_call
    <3>3. Grown(l) /\ Len(l.nodes) = 2 * a - 1 /\ Len(l.references) = a
      <4>1. a \in A BY <1>1, <3>1
      <4>2. QED BY <3>1, <3>2, <4>1 DEF Builder
    <3>4. second_call(node, site) \in Calls(S) /\ Len(second_call(node, site)[1]) = b
      BY <2>2, <3>3, SecondCall DEF second_call
    <3>5. Grown(r) /\ Len(r.nodes) = 2 * b - 1 /\ Len(r.references) = b
      <4>1. b \in A BY <1>1, <3>1
      <4>2. QED BY <3>1, <3>4, <4>1 DEF Builder
    <3>6. made(node, site) = [nodes |-> << parent >> \o l.nodes \o r.nodes,
                            references |-> l.references \o r.references]
      BY <2>2, MadeOfParts
    <3> HIDE DEF l, r, parent, a, b
    <3>7. isSeq(<< parent >>) /\ Len(<< parent >>) = 1 BY Single
    <3>8. isSeq(<< parent >> \o l.nodes) /\ Len(<< parent >> \o l.nodes) = 1 + (2 * a - 1)
      BY <3>3, <3>7, Joined DEF Grown
    <3>9. /\ isSeq(r.nodes)
          /\ Len((<< parent >> \o l.nodes) \o r.nodes)
                = Len(<< parent >> \o l.nodes) + Len(r.nodes)
      BY <3>5, <3>8, Joined DEF Grown
    <3>10. Len(l.references \o r.references) = a + b
      BY <3>3, <3>5, Joined DEF Grown
    <3>11. 1 + (2 * a - 1) + (2 * b - 1) = 2 * n - 1 BY ONLY <3>1
    <3> DEFINE w == (<< parent >> \o l.nodes) \o r.nodes
               v == l.references \o r.references
    <3>12. node[site].nodes = w /\ node[site].references = v
      <4>1. node[site] = [nodes |-> w, references |-> v] BY <2>0, <3>6
      <4> HIDE DEF w, v
      <4>2. QED BY <4>1
    <3>13. Len(w) = 2 * n - 1 /\ Len(v) = n
      <4>1. Len(w) = 1 + (2 * a - 1) + (2 * b - 1) BY <3>5, <3>8, <3>9
      <4>2. Len(v) = n BY <3>1, <3>10
      <4>3. QED BY <3>11, <4>1, <4>2
    <3>14. QED BY <3>12, <3>13
  <2>3. QED BY <2>1, <2>2
<1> HIDE DEF A
<1>2. A \in SUBSET Nat BY DEF A
<1>3. A = Nat BY <1>1, <1>2, AllBelow
<1>4. \A site \in Calls(S) : Len(site[1]) \in Nat BY CallShape
<1>5. QED BY <1>3, <1>4 DEF A

(* A tree with its two arrays at these offsets. *)
Stands(nodes, refs, t, o, r) ==
    /\ \A j \in 1 .. Len(t.nodes) : nodes[o + j] = t.nodes[j]
    /\ \A i \in 1 .. Len(t.references) : refs[r + i] = t.references[i]

(* Then so do its two subtrees. *)
LEMMA StandsInHalves ==
  ASSUME NEW S, Sortable(S), NEW node, Builder(node, S), NEW site \in Calls(S), Len(site[1]) > 1,
         NEW nodes, NEW refs, Stands(nodes, refs, node[site], site[2], site[3])
  PROVE  LET a == Len(lower(site[1])) IN
         /\ a = Len(first_call(site)[1])
         /\ Len(upper(site[1])) = Len(second_call(node, site)[1])
         /\ first_call(site) \in Calls(S)
         /\ first_call(site)[2] = site[2] + 1 /\ first_call(site)[3] = site[3]
         /\ second_call(node, site) \in Calls(S)
         /\ second_call(node, site)[2] = site[2] + 2 * a
         /\ second_call(node, site)[3] = site[3] + a
         /\ Stands(nodes, refs, node[first_call(site)], site[2] + 1, site[3])
         /\ Stands(nodes, refs, node[second_call(node, site)], site[2] + 2 * a, site[3] + a)
         /\ nodes[site[2] + 1]
              = internal(split_axis(site[1]), site[2] + 2, site[2] + 2 * a + 1,
                         unite(nodes[site[2] + 2].bounds, nodes[site[2] + 2 * a + 1].bounds))
<1> DEFINE l == node[first_call(site)]
           r == node[second_call(node, site)]
           parent == internal(split_axis(site[1]), site[2] + 2, site[2] + 1 + Len(l.nodes) + 1,
                              unite(Head(l.nodes).bounds, Head(r.nodes).bounds))
           a == Len(lower(site[1]))
           b == Len(upper(site[1]))
           n == Len(site[1])
           o == site[2]
           q == site[3]
<1>0. node[site] = made(node, site) /\ site[1] \in Seq(S) /\ n \in Nat /\ o \in Nat /\ q \in Nat
  BY CallShape DEF Builder
<1>1. /\ a \in Nat /\ b \in Nat /\ 0 < a /\ 0 < b /\ a < n /\ b < n
      /\ a + b = n /\ middle(n) = a
  <2>1. site[1] \in Seq(S) /\ Len(site[1]) > 1 /\ Sortable(S) BY <1>0
  <2>2. QED BY ONLY <2>1, HalfLengths
<1>2. /\ first_call(site) \in Calls(S) /\ Len(first_call(site)[1]) = a
      /\ first_call(site)[2] = o + 1 /\ first_call(site)[3] = q
  BY FirstCall DEF first_call
<1>3. Grown(l) /\ Len(l.nodes) = 2 * a - 1 /\ Len(l.references) = a
  BY <1>1, <1>2, Lengths DEF Builder
<1>4. /\ second_call(node, site) \in Calls(S) /\ Len(second_call(node, site)[1]) = b
      /\ second_call(node, site)[2] = o + 1 + (2 * a - 1) /\ second_call(node, site)[3] = q + a
  BY <1>1, <1>3, SecondCall DEF second_call
<1>5. Grown(r) /\ Len(r.nodes) = 2 * b - 1 /\ Len(r.references) = b
  BY <1>1, <1>4, Lengths DEF Builder
<1>6. node[site] = [nodes |-> << parent >> \o l.nodes \o r.nodes,
                  references |-> l.references \o r.references]
  BY <1>0, MadeOfParts
<1> DEFINE p == << parent >>
           u == p \o l.nodes
           w == u \o r.nodes
           v == l.references \o r.references
<1>7. isSeq(p) /\ Len(p) = 1 /\ p[1] = parent BY Single
<1>8. node[site].nodes = w /\ node[site].references = v
  <2>1. node[site] = [nodes |-> w, references |-> v] BY <1>6
  <2> HIDE DEF w, v
  <2>2. QED BY <2>1
<1> HIDE DEF p, l, r, n, a, b, o, q, parent
<1>9. /\ isSeq(u) /\ Len(u) = 2 * a /\ u[1] = parent
      /\ \A j \in 1 .. 2 * a - 1 : u[1 + j] = l.nodes[j]
  <2>0. isSeq(p) /\ isSeq(l.nodes) BY <1>3, <1>7 DEF Grown
  <2>1. /\ isSeq(u) /\ Len(u) = Len(p) + Len(l.nodes)
        /\ \A j \in 1 .. Len(p) : u[j] = p[j]
        /\ \A j \in 1 .. Len(l.nodes) : u[Len(p) + j] = l.nodes[j]
    BY ONLY <2>0, Joined
  <2> HIDE DEF u
  <2>2. QED BY <1>1, <1>3, <1>7, <2>1
<1> HIDE DEF u
<1>10. /\ Len(w) = 2 * a + (2 * b - 1) /\ \A j \in 1 .. 2 * a : w[j] = u[j]
       /\ \A j \in 1 .. 2 * b - 1 : w[2 * a + j] = r.nodes[j]
  <2>0. isSeq(u) /\ isSeq(r.nodes) BY <1>5, <1>9 DEF Grown
  <2>1. /\ Len(w) = Len(u) + Len(r.nodes)
        /\ \A j \in 1 .. Len(u) : w[j] = u[j]
        /\ \A j \in 1 .. Len(r.nodes) : w[Len(u) + j] = r.nodes[j]
    BY ONLY <2>0, Joined
  <2> HIDE DEF w
  <2>2. QED BY <1>1, <1>5, <1>9, <2>1
<1>11. /\ Len(v) = a + b /\ \A j \in 1 .. a : v[j] = l.references[j]
       /\ \A j \in 1 .. b : v[a + j] = r.references[j]
  <2> DEFINE x == l.references
             y == r.references
  <2>0. isSeq(x) /\ isSeq(y) BY <1>3, <1>5 DEF Grown
  <2> HIDE DEF x, y
  <2>3. /\ Len(x \o y) = Len(x) + Len(y)
        /\ \A j \in 1 .. Len(x) : (x \o y)[j] = x[j]
        /\ \A j \in 1 .. Len(y) : (x \o y)[Len(x) + j] = y[j]
    BY ONLY <2>0, Joined
  <2>1. /\ Len(v) = Len(l.references) + Len(r.references)
        /\ \A j \in 1 .. Len(l.references) : v[j] = l.references[j]
        /\ \A j \in 1 .. Len(r.references) :
              v[Len(l.references) + j] = r.references[j]
    BY ONLY <2>3 DEF x, y
  <2> HIDE DEF v
  <2>2. QED BY <1>1, <1>3, <1>5, <2>1
<1> HIDE DEF w, v
<1>12. /\ \A j \in 1 .. 2 * a + (2 * b - 1) : nodes[o + j] = w[j]
       /\ \A j \in 1 .. a + b : refs[q + j] = v[j]
  BY <1>8, <1>10, <1>11 DEF Stands, o, q
<1>13. \A j \in 1 .. 2 * a - 1 : nodes[o + 1 + j] = l.nodes[j]
  <2> TAKE j \in 1 .. 2 * a - 1
  <2>1. /\ 1 + j \in 1 .. 2 * a /\ 1 + j \in 1 .. 2 * a + (2 * b - 1)
        /\ o + (1 + j) = o + 1 + j
    BY <1>0, <1>1
  <2>2. QED BY <1>9, <1>10, <1>12, <2>1
<1>14. \A j \in 1 .. 2 * b - 1 : nodes[o + 2 * a + j] = r.nodes[j]
  <2> TAKE j \in 1 .. 2 * b - 1
  <2>1. 2 * a + j \in 1 .. 2 * a + (2 * b - 1) /\ o + (2 * a + j) = o + 2 * a + j
    BY <1>0, <1>1
  <2>2. QED BY <1>10, <1>12, <2>1
<1>15. nodes[o + 1] = parent
  <2>1. 1 \in 1 .. 2 * a /\ 1 \in 1 .. 2 * a + (2 * b - 1) BY <1>1
  <2>2. QED BY <1>9, <1>10, <1>12, <2>1
<1>16. \A j \in 1 .. a : refs[q + j] = l.references[j]
  <2> TAKE j \in 1 .. a
  <2>1. j \in 1 .. a + b BY <1>1
  <2>2. QED BY <1>11, <1>12, <2>1
<1>17. \A j \in 1 .. b : refs[q + a + j] = r.references[j]
  <2> TAKE j \in 1 .. b
  <2>1. a + j \in 1 .. a + b /\ q + (a + j) = q + a + j BY <1>0, <1>1
  <2>2. QED BY <1>11, <1>12, <2>1
<1>18. Stands(nodes, refs, l, o + 1, q) BY <1>3, <1>13, <1>16 DEF Stands
<1>19. Stands(nodes, refs, r, o + 2 * a, q + a) BY <1>5, <1>14, <1>17 DEF Stands
<1>20. Head(l.nodes) = nodes[o + 2] /\ Head(r.nodes) = nodes[o + 2 * a + 1]
  <2>1. 1 \in 1 .. 2 * a - 1 /\ 1 \in 1 .. 2 * b - 1 /\ o + 1 + 1 = o + 2
    BY <1>0, <1>1
  <2>2. Head(l.nodes) = l.nodes[1] /\ Head(r.nodes) = r.nodes[1] OBVIOUS
  <2>3. QED BY <1>13, <1>14, <2>1, <2>2
<1>21. o + 1 + Len(l.nodes) + 1 = o + 2 * a + 1 /\ o + 1 + (2 * a - 1) = o + 2 * a
  BY <1>0, <1>1, <1>3
<1>22. parent = internal(split_axis(site[1]), o + 2, o + 2 * a + 1,
                         unite(nodes[o + 2].bounds, nodes[o + 2 * a + 1].bounds))
  BY <1>20, <1>21 DEF parent, o
<1>23. QED BY <1>2, <1>4, <1>15, <1>18, <1>19, <1>21, <1>22 DEF a, b, o, q, l, r

------------------------------------------------------
(* The shape of a tree of k items after o nodes and r references, in
   preorder: span counts the nodes of a subtree, height its levels. *)
Extent(k, o) == o + 1 .. o + 2 * k - 1

IsLeaf(nodes, refs, S, k, r, span, n) ==
    /\ nodes[n].kind = "leaf" /\ span[n] = 1
    /\ nodes[n].reference_offset \in r + 1 .. r + k
    /\ \E x \in S : nodes[n].bounds = x.bounds /\ refs[nodes[n].reference_offset] = x.payload

IsBranch(nodes, k, o, span, height, n) ==
    LET second == n + 1 + span[n + 1] IN
    /\ nodes[n].kind = "internal"
    /\ nodes[n].first_child = n + 1 /\ nodes[n].second_child = second
    /\ n + 1 \in Extent(k, o) /\ second \in Extent(k, o)
    /\ span[n] = 1 + span[n + 1] + span[second]
    /\ height[n + 1] < height[n] /\ height[second] < height[n]
    /\ nodes[n].bounds = unite(nodes[n + 1].bounds, nodes[second].bounds)

Sized(nodes, k, o, span, height) ==
    /\ k \in Nat \ {0} /\ o \in Nat /\ span[o + 1] = 2 * k - 1
    /\ \A n \in Extent(k, o) :
          /\ span[n] \in Nat \ {0} /\ n + span[n] <= o + 2 * k
          /\ height[n] \in Nat /\ nodes[n].bounds \in Box

Nested(nodes, k, o, span) ==
    \A n, m \in Extent(k, o) : n <= m /\ m < n + span[n] => Encloses(nodes[n].bounds, nodes[m].bounds)

Leaves(nodes, k, o) == {n \in Extent(k, o) : nodes[n].kind = "leaf"}

Referenced(nodes, refs, S, k, o, r) ==
    /\ \A x \in S : \E n \in Leaves(nodes, k, o) :
          nodes[n].bounds = x.bounds /\ refs[nodes[n].reference_offset] = x.payload
    /\ \A i \in r + 1 .. r + k : \E n \in Leaves(nodes, k, o) : nodes[n].reference_offset = i
    /\ \A n, m \in Leaves(nodes, k, o) :
          nodes[n].reference_offset = nodes[m].reference_offset => n = m

Hangs(nodes, refs, S, k, o, r, span, height) ==
    /\ r \in Nat
    /\ Sized(nodes, k, o, span, height)
    /\ \A n \in Extent(k, o) : \/ IsLeaf(nodes, refs, S, k, r, span, n)
                               \/ IsBranch(nodes, k, o, span, height, n)
    /\ Nested(nodes, k, o, span)
    /\ Referenced(nodes, refs, S, k, o, r)

(* Of at most h levels below the root. *)
Hung(nodes, refs, S, k, o, r, h) ==
    \E span, height : Hangs(nodes, refs, S, k, o, r, span, height) /\ height[o + 1] <= h

(* Two trees under one parent. *)
LEMMA Combined ==
  ASSUME NEW nodes, NEW refs, NEW S, NEW T, NEW a, NEW b, NEW o, NEW r, NEW sa, NEW sb,
         NEW ha, NEW hb, NEW h \in Nat, NEW axis, o \in Nat,
         Hangs(nodes, refs, S, a, o + 1, r, sa, ha),
         Hangs(nodes, refs, T, b, o + 2 * a, r + a, sb, hb),
         ha[o + 2] < h, hb[o + 2 * a + 1] < h,
         nodes[o + 1] = internal(axis, o + 2, o + 2 * a + 1,
                                 unite(nodes[o + 2].bounds, nodes[o + 2 * a + 1].bounds))
  PROVE  Hung(nodes, refs, S \cup T, a + b, o, r, h)
<1> DEFINE k == a + b
           E == Extent(k, o)
           A == Extent(a, o + 1)
           B == Extent(b, o + 2 * a)
           second == o + 2 * a + 1
           span == [n \in E |-> IF n = o + 1 THEN 2 * k - 1 ELSE IF n \in A THEN sa[n] ELSE sb[n]]
           height == [n \in E |-> IF n = o + 1 THEN h ELSE IF n \in A THEN ha[n] ELSE hb[n]]
<1>1. a \in Nat /\ a > 0 /\ b \in Nat /\ b > 0 /\ o \in Nat /\ r \in Nat
  BY DEF Hangs, Sized
<1>2. /\ E = {o + 1} \cup A \cup B /\ o + 1 \notin A /\ o + 1 \notin B /\ A \cap B = {}
      /\ o + 2 \in A /\ second \in B /\ E \subseteq Nat
      /\ A = o + 2 .. o + 2 * a /\ B = o + 2 * a + 1 .. o + 2 * a + 2 * b - 1
      /\ E = o + 1 .. o + 2 * a + 2 * b - 1
      /\ k \in Nat \ {0} /\ second = (o + 2 * a) + 1 /\ o + 2 = (o + 1) + 1
  BY <1>1 DEF Extent
<1>3. /\ \A n \in A : span[n] = sa[n] /\ height[n] = ha[n]
      /\ \A n \in B : span[n] = sb[n] /\ height[n] = hb[n]
      /\ span[o + 1] = 2 * k - 1 /\ height[o + 1] = h
  BY <1>2
<1> HIDE DEF span, height, A, B, E, k, second
<1>4. /\ sa[o + 2] = 2 * a - 1
      /\ \A n \in A : /\ sa[n] \in Nat \ {0} /\ n + sa[n] <= o + 1 + 2 * a
                      /\ ha[n] \in Nat /\ nodes[n].bounds \in Box
  BY <1>2 DEF Hangs, Sized, A
<1>5. /\ sb[second] = 2 * b - 1
      /\ \A n \in B : /\ sb[n] \in Nat \ {0} /\ n + sb[n] <= o + 2 * a + 2 * b
                      /\ hb[n] \in Nat /\ nodes[n].bounds \in Box
  BY <1>2 DEF Hangs, Sized, B
<1>6. /\ nodes[o + 1].kind = "internal" /\ nodes[o + 1].first_child = o + 2
      /\ nodes[o + 1].second_child = second
      /\ nodes[o + 1].bounds = unite(nodes[o + 2].bounds, nodes[second].bounds)
  BY DEF internal, second
<1>7. /\ nodes[o + 1].bounds \in Box
      /\ Encloses(nodes[o + 1].bounds, nodes[o + 2].bounds)
      /\ Encloses(nodes[o + 1].bounds, nodes[second].bounds)
  BY <1>2, <1>4, <1>5, <1>6, UniteEncloses
<1>8. Sized(nodes, k, o, span, height)
  <2>1. ASSUME NEW n \in E
        PROVE  /\ span[n] \in Nat \ {0} /\ n + span[n] <= o + 2 * k
               /\ height[n] \in Nat /\ nodes[n].bounds \in Box
    <3>1. CASE n = o + 1
      BY <1>1, <1>2, <1>3, <1>7, <3>1 DEF k
    <3>2. CASE n \in A
      <4>1. n + sa[n] <= o + 2 * k BY <1>1, <1>2, <1>4, <3>2 DEF k
      <4>2. QED BY <1>3, <1>4, <3>2, <4>1
    <3>3. CASE n \in B
      <4>1. n + sb[n] <= o + 2 * k BY <1>1, <1>2, <1>5, <3>3 DEF k
      <4>2. QED BY <1>3, <1>5, <3>3, <4>1
    <3>4. QED BY <1>2, <3>1, <3>2, <3>3
  <2>2. QED BY <1>1, <1>2, <1>3, <2>1 DEF Sized, E
<1>9. ASSUME NEW n \in E
      PROVE  \/ IsLeaf(nodes, refs, S \cup T, k, r, span, n)
             \/ IsBranch(nodes, k, o, span, height, n)
  <2>1. CASE n = o + 1
    <3>1. /\ n + 1 = o + 2 /\ n + 1 + span[n + 1] = second
          /\ span[n] = 1 + span[n + 1] + span[second]
          /\ n + 1 \in E /\ second \in E
      <4>1. span[o + 2] = 2 * a - 1 /\ span[second] = 2 * b - 1 /\ span[o + 1] = 2 * k - 1
        BY <1>2, <1>3, <1>4, <1>5
      <4>2. o + 2 \in E /\ second \in E /\ second = o + 2 + (2 * a - 1)
        BY <1>1, <1>2
      <4>3. 2 * k - 1 = 1 + (2 * a - 1) + (2 * b - 1) /\ n + 1 = o + 2
        BY <1>1, <2>1 DEF k
      <4>4. QED BY <2>1, <4>1, <4>2, <4>3
    <3>2. height[n + 1] < height[n] /\ height[second] < height[n]
      BY <1>2, <1>3, <2>1, <3>1 DEF second
    <3>3. QED BY <1>6, <2>1, <3>1, <3>2 DEF IsBranch, E
  <2>2. CASE n \in A
    <3>1. CASE IsLeaf(nodes, refs, S, a, r, sa, n)
      <4>1. r + 1 .. r + a \subseteq r + 1 .. r + k BY <1>1 DEF k
      <4>2. QED BY <1>3, <2>2, <3>1, <4>1 DEF IsLeaf
    <3>2. CASE IsBranch(nodes, a, o + 1, sa, ha, n)
      <4> DEFINE s == n + 1 + sa[n + 1]
      <4>1. /\ n + 1 \in A /\ s \in A
            /\ nodes[n].kind = "internal"
            /\ nodes[n].first_child = n + 1 /\ nodes[n].second_child = s
            /\ sa[n] = 1 + sa[n + 1] + sa[s]
            /\ ha[n + 1] < ha[n] /\ ha[s] < ha[n]
            /\ nodes[n].bounds = unite(nodes[n + 1].bounds, nodes[s].bounds)
        BY <3>2 DEF IsBranch, A
      <4>2. span[n + 1] = sa[n + 1] BY <1>3, <4>1
      <4> HIDE DEF s
      <4>3. /\ span[s] = sa[s] /\ span[n] = sa[n] /\ height[n + 1] = ha[n + 1]
            /\ height[s] = ha[s] /\ height[n] = ha[n] /\ n + 1 \in E /\ s \in E
        BY <1>2, <1>3, <2>2, <4>1
      <4>4. n + 1 + span[n + 1] = s BY <4>2 DEF s
      <4>5. QED BY <4>1, <4>2, <4>3, <4>4 DEF IsBranch, E
    <3>3. QED BY <2>2, <3>1, <3>2 DEF Hangs, A
  <2>3. CASE n \in B
    <3>1. CASE IsLeaf(nodes, refs, T, b, r + a, sb, n)
      <4>1. r + a + 1 .. r + a + b \subseteq r + 1 .. r + k BY <1>1 DEF k
      <4>2. QED BY <1>3, <2>3, <3>1, <4>1 DEF IsLeaf
    <3>2. CASE IsBranch(nodes, b, o + 2 * a, sb, hb, n)
      <4> DEFINE s == n + 1 + sb[n + 1]
      <4>1. /\ n + 1 \in B /\ s \in B
            /\ nodes[n].kind = "internal"
            /\ nodes[n].first_child = n + 1 /\ nodes[n].second_child = s
            /\ sb[n] = 1 + sb[n + 1] + sb[s]
            /\ hb[n + 1] < hb[n] /\ hb[s] < hb[n]
            /\ nodes[n].bounds = unite(nodes[n + 1].bounds, nodes[s].bounds)
        BY <3>2 DEF IsBranch, B
      <4>2. span[n + 1] = sb[n + 1] BY <1>3, <4>1
      <4> HIDE DEF s
      <4>3. /\ span[s] = sb[s] /\ span[n] = sb[n] /\ height[n + 1] = hb[n + 1]
            /\ height[s] = hb[s] /\ height[n] = hb[n] /\ n + 1 \in E /\ s \in E
        BY <1>2, <1>3, <2>3, <4>1
      <4>4. n + 1 + span[n + 1] = s BY <4>2 DEF s
      <4>5. QED BY <4>1, <4>2, <4>3, <4>4 DEF IsBranch, E
    <3>3. QED BY <2>3, <3>1, <3>2 DEF Hangs, B
  <2>4. QED BY <1>2, <2>1, <2>2, <2>3
<1>10. Nested(nodes, k, o, span)
  <2> SUFFICES ASSUME NEW n \in E, NEW m \in E, n <= m, m < n + span[n]
               PROVE  Encloses(nodes[n].bounds, nodes[m].bounds)
    BY DEF Nested, E
  <2>1. CASE n = o + 1
    <3>1. CASE m = o + 1
      <4>1. nodes[n].bounds \in Box BY <1>7, <2>1
      <4>2. QED BY <2>1, <3>1, <4>1 DEF Encloses, Box
    <3>2. CASE m \in A
      <4>1. o + 2 <= m /\ m < o + 2 + sa[o + 2] BY <1>1, <1>2, <1>4, <3>2
      <4>2. Encloses(nodes[o + 2].bounds, nodes[m].bounds)
        BY <1>2, <3>2, <4>1 DEF Hangs, Nested, A
      <4>3. QED BY <1>2, <1>4, <1>7, <2>1, <3>2, <4>2, EnclosesChain
    <3>3. CASE m \in B
      <4>1. second <= m /\ m < second + sb[second]
        BY <1>1, <1>2, <1>5, <3>3 DEF second
      <4>2. Encloses(nodes[second].bounds, nodes[m].bounds)
        BY <1>2, <3>3, <4>1 DEF Hangs, Nested, B
      <4>3. QED BY <1>2, <1>5, <1>7, <2>1, <3>3, <4>2, EnclosesChain
    <3>4. QED BY <1>2, <3>1, <3>2, <3>3
  <2>2. CASE n \in A
    <3>1. m \in A /\ m < n + sa[n]
      <4>1. span[n] = sa[n] /\ n + sa[n] <= o + 1 + 2 * a /\ sa[n] \in Nat
        BY <1>3, <1>4, <2>2
      <4>2. QED BY <1>1, <1>2, <2>2, <4>1
    <3>2. QED BY <2>2, <3>1 DEF Hangs, Nested, A
  <2>3. CASE n \in B
    <3>1. m \in B /\ m < n + sb[n]
      <4>1. span[n] = sb[n] /\ n + sb[n] <= o + 2 * a + 2 * b /\ sb[n] \in Nat
        BY <1>3, <1>5, <2>3
      <4>2. QED BY <1>1, <1>2, <2>3, <4>1
    <3>2. QED BY <2>3, <3>1 DEF Hangs, Nested, B
  <2>4. QED BY <1>2, <2>1, <2>2, <2>3
<1>11. Referenced(nodes, refs, S \cup T, k, o, r)
  <2> DEFINE LA == Leaves(nodes, a, o + 1)
             LB == Leaves(nodes, b, o + 2 * a)
             L == Leaves(nodes, k, o)
  <2>1. L = LA \cup LB /\ LA \subseteq A /\ LB \subseteq B
    BY <1>2, <1>6 DEF Leaves, A, B, E
  <2>2. \A n \in LA : nodes[n].reference_offset \in r + 1 .. r + a
    <3> TAKE n \in LA
    <3>1. n \in A /\ nodes[n].kind = "leaf" BY DEF Leaves, A
    <3>2. QED BY <3>1 DEF Hangs, A, IsLeaf, IsBranch
  <2>3. \A n \in LB : nodes[n].reference_offset \in r + a + 1 .. r + a + b
    <3> TAKE n \in LB
    <3>1. n \in B /\ nodes[n].kind = "leaf" BY DEF Leaves, B
    <3>2. QED BY <3>1 DEF Hangs, B, IsLeaf, IsBranch
  <2>4. Referenced(nodes, refs, S, a, o + 1, r) /\ Referenced(nodes, refs, T, b, o + 2 * a, r + a)
    BY DEF Hangs
  <2> HIDE DEF LA, LB, L
  <2>5. \A x \in S \cup T : \E n \in L :
          nodes[n].bounds = x.bounds /\ refs[nodes[n].reference_offset] = x.payload
    BY <2>1, <2>4 DEF Referenced, LA, LB
  <2>6. \A i \in r + 1 .. r + k : \E n \in L : nodes[n].reference_offset = i
    <3> TAKE i \in r + 1 .. r + k
    <3>1. CASE i <= r + a
      <4>1. i \in r + 1 .. r + a BY <1>1, <3>1
      <4>2. QED BY <2>1, <2>4, <4>1 DEF Referenced, LA
    <3>2. CASE ~(i <= r + a)
      <4>1. i \in r + a + 1 .. r + a + b BY <1>1, <3>2 DEF k
      <4>2. QED BY <2>1, <2>4, <4>1 DEF Referenced, LB
    <3>3. QED BY <3>1, <3>2
  <2>7. \A n, m \in L : nodes[n].reference_offset = nodes[m].reference_offset => n = m
    <3> TAKE n, m \in L
    <3> HAVE nodes[n].reference_offset = nodes[m].reference_offset
    <3>1. (n \in LA /\ m \in LA) \/ (n \in LB /\ m \in LB)
      BY <1>1, <2>1, <2>2, <2>3
    <3>2. QED BY <2>4, <3>1 DEF Referenced, LA, LB
  <2>8. QED BY <2>5, <2>6, <2>7 DEF Referenced, L
<1>12. Hangs(nodes, refs, S \cup T, k, o, r, span, height)
  BY <1>1, <1>8, <1>9, <1>10, <1>11 DEF Hangs, E
<1>13. QED BY <1>3, <1>12 DEF k, Hung

(* Half of the leaves fit in one level fewer. *)
LEMMA AlmostHalf ==
  ASSUME NEW k \in Nat, NEW b \in Nat, b <= k - b + 1, NEW h \in Nat \ {0},
         k <= LeavesWithin[h]
  PROVE  b <= LeavesWithin[h - 1] /\ h - 1 \in Nat
<1> DEFINE w == LeavesWithin[h - 1]
<1>1. h - 1 \in Nat /\ (h - 1) + 1 = h OBVIOUS
<1>2. w \in Nat /\ LeavesWithin[h] = 2 * w BY <1>1, LeavesDouble
<1> HIDE DEF w
<1>3. k <= 2 * w BY <1>2
<1>4. b <= w BY <1>2, <1>3
<1>5. QED BY <1>1, <1>4 DEF w

(* A single item. *)
LEMMA OneLeafHangs ==
  ASSUME NEW nodes, NEW refs, NEW x, x.bounds \in Box, NEW o \in Nat, NEW r \in Nat,
         nodes[o + 1] = leaf(x, r + 1), refs[r + 1] = x.payload
  PROVE  Hung(nodes, refs, {x}, 1, o, r, 0)
<1> DEFINE E == Extent(1, o)
           span == [n \in E |-> 1]
           height == [n \in E |-> 0]
<1>1. E = {o + 1} /\ o + 1 \in E /\ r + 1 .. r + 1 = {r + 1} BY DEF Extent
<1>2. /\ nodes[o + 1].kind = "leaf" /\ nodes[o + 1].bounds = x.bounds
      /\ nodes[o + 1].reference_offset = r + 1
  BY DEF leaf
<1>3. span[o + 1] = 1 /\ height[o + 1] = 0 BY <1>1
<1> HIDE DEF span, height, E
<1>4. Sized(nodes, 1, o, span, height) BY <1>1, <1>2, <1>3 DEF Sized, E
<1>5. \A n \in E : IsLeaf(nodes, refs, {x}, 1, r, span, n)
  BY <1>1, <1>2, <1>3 DEF IsLeaf
<1>6. Nested(nodes, 1, o, span) BY <1>1, <1>2 DEF Nested, E, Encloses, Box
<1>7. Leaves(nodes, 1, o) = {o + 1} BY <1>1, <1>2 DEF Leaves, E
<1>8. Referenced(nodes, refs, {x}, 1, o, r) BY <1>1, <1>2, <1>7 DEF Referenced
<1>9. QED BY <1>3, <1>4, <1>5, <1>6, <1>8 DEF Hangs, E, Hung

(* What the builder makes hangs so, as high as its leaves need. *)
LEMMA Shape ==
  ASSUME NEW S, Sortable(S), NEW node, Builder(node, S)
  PROVE  \A site \in Calls(S) : \A nodes, refs : \A h \in Nat :
            /\ Len(site[1]) > 0 /\ Len(site[1]) <= LeavesWithin[h]
            /\ Stands(nodes, refs, node[site], site[2], site[3])
            => Hung(nodes, refs, ToSet(site[1]), Len(site[1]), site[2], site[3], h)
<1> DEFINE hangs(site, nodes, refs, h) ==
               Hung(nodes, refs, ToSet(site[1]), Len(site[1]), site[2], site[3], h)
           A == {n \in Nat : \A site \in Calls(S) : \A nodes, refs : \A h \in Nat :
                    /\ n > 0 /\ Len(site[1]) = n /\ n <= LeavesWithin[h]
                    /\ Stands(nodes, refs, node[site], site[2], site[3])
                    => hangs(site, nodes, refs, h)}
<1>1. ASSUME NEW n \in Nat, \A m \in Nat : m < n => m \in A PROVE n \in A
  <2> SUFFICES ASSUME NEW site \in Calls(S), NEW nodes, NEW refs, NEW h \in Nat,
                      n > 0, Len(site[1]) = n, n <= LeavesWithin[h],
                      Stands(nodes, refs, node[site], site[2], site[3])
               PROVE  hangs(site, nodes, refs, h)
    OBVIOUS
  <2>0. /\ node[site] = made(node, site) /\ site[1] \in Seq(S) /\ site[2] \in Nat /\ site[3] \in Nat
    BY CallShape DEF Builder
  <2> DEFINE o == site[2]
             r == site[3]
  <2>1. CASE n = 1
    <3> DEFINE x == site[1][1]
    <3>1. made(node, site) = [nodes |-> << leaf(x, r + 1) >>, references |-> << x.payload >>]
      BY <2>1 DEF made, subtree
    <3>2. node[site].nodes = << leaf(x, r + 1) >> /\ node[site].references = << x.payload >>
      BY <2>0, <3>1
    <3>3. nodes[o + 1] = leaf(x, r + 1) /\ refs[r + 1] = x.payload
      <4>1. /\ Len(<< leaf(x, r + 1) >>) = 1 /\ << leaf(x, r + 1) >>[1] = leaf(x, r + 1)
            /\ Len(<< x.payload >>) = 1 /\ << x.payload >>[1] = x.payload
        BY Single
      <4> HIDE DEF x, o, r
      <4>2. QED BY <3>2, <4>1 DEF Stands, o, r
    <3>4. ToSet(site[1]) = {x} /\ x \in S
      <4>1. DOMAIN site[1] = 1 .. 1 /\ site[1][1] \in S BY <2>0, <2>1, SeqShape
      <4>2. QED BY <4>1 DEF ToSet
    <3>5. x.bounds \in Box BY <3>4 DEF Sortable
    <3>6. Hung(nodes, refs, {x}, 1, o, r, 0)
      <4> HIDE DEF x, o, r
      <4>1. o \in Nat /\ r \in Nat BY <2>0 DEF o, r
      <4>2. QED BY ONLY <3>3, <3>5, <4>1, OneLeafHangs
    <3>7. PICK span, height : Hangs(nodes, refs, {x}, 1, o, r, span, height) /\ height[o + 1] <= 0
      BY <3>6 DEF Hung
    <3>8. height[o + 1] <= h
      <4>1. height[o + 1] \in Nat BY <2>0, <3>7 DEF Hangs, Sized, Extent
      <4>2. QED BY <3>7, <4>1
    <3>9. QED BY <2>1, <3>4, <3>7, <3>8 DEF Hung
  <2>2. CASE n > 1
    <3> DEFINE a == Len(lower(site[1]))
               b == Len(upper(site[1]))
               first == first_call(site)
               second == second_call(node, site)
    <3>1. /\ a \in Nat /\ b \in Nat /\ 0 < a /\ 0 < b /\ a < n /\ b < n
          /\ a <= b /\ b <= a + 1 /\ a + b = n
      <4>1. site[1] \in Seq(S) /\ Len(site[1]) > 1 /\ Sortable(S) /\ n = Len(site[1])
        BY <2>0, <2>2
      <4>2. QED BY ONLY <4>1, HalfLengths
    <3>2. h \in Nat \ {0}
      <4>1. h # 0 BY <2>2, LeavesDouble
      <4>2. QED BY <4>1
    <3>3. /\ h - 1 \in Nat /\ b <= LeavesWithin[h - 1] /\ a <= LeavesWithin[h - 1]
      <4>0. h - 1 \in Nat BY <3>2
      <4>1. b <= n - b + 1 /\ LeavesWithin[h - 1] \in Nat
        <5>1. LeavesWithin[h - 1] \in Nat BY <4>0, LeavesDouble
        <5>2. b <= n - b + 1 BY ONLY <3>1
        <5>3. QED BY <5>1, <5>2
      <4>2. b <= LeavesWithin[h - 1] /\ h - 1 \in Nat
        BY <3>1, <3>2, <4>1, AlmostHalf
      <4>3. QED BY <3>1, <4>1, <4>2
    <3>4. /\ a = Len(first[1]) /\ b = Len(second[1])
          /\ first \in Calls(S) /\ first[2] = o + 1 /\ first[3] = r
          /\ second \in Calls(S) /\ second[2] = o + 2 * a /\ second[3] = r + a
          /\ Stands(nodes, refs, node[first], o + 1, r)
          /\ Stands(nodes, refs, node[second], o + 2 * a, r + a)
          /\ nodes[o + 1]
               = internal(split_axis(site[1]), o + 2, o + 2 * a + 1,
                          unite(nodes[o + 2].bounds, nodes[o + 2 * a + 1].bounds))
      BY <2>2, StandsInHalves
    <3>5. first[1] = lower(site[1]) /\ second[1] = upper(site[1])
      BY DEF first_call, second_call
    <3>6. ToSet(site[1]) = ToSet(first[1]) \cup ToSet(second[1])
      BY <2>0, <2>2, <3>5, Halves
    <3> HIDE DEF a, b, first, second
    <3>7. PICK sa, ha : /\ Hangs(nodes, refs, ToSet(first[1]), a, o + 1, r, sa, ha)
                        /\ ha[o + 1 + 1] <= h - 1
      <4>1. a \in A BY <1>1, <3>1
      <4>2. hangs(first, nodes, refs, h - 1) BY <3>1, <3>3, <3>4, <4>1
      <4>3. QED BY <3>4, <4>2 DEF Hung
    <3>8. PICK sb, hb : /\ Hangs(nodes, refs, ToSet(second[1]), b, o + 2 * a, r + a, sb, hb)
                        /\ hb[o + 2 * a + 1] <= h - 1
      <4>1. b \in A BY <1>1, <3>1
      <4>2. hangs(second, nodes, refs, h - 1) BY <3>1, <3>3, <3>4, <4>1
      <4>3. QED BY <3>4, <4>2 DEF Hung
    <3>9. ha[o + 2] < h /\ hb[o + 2 * a + 1] < h
      <4>1. o + 1 + 1 = o + 2 /\ o + 2 \in Extent(a, o + 1) /\ o + 2 * a + 1 \in Extent(b, o + 2 * a)
        BY SMTT(20), <2>0, <3>1 DEF Extent
      <4>2. ha[o + 2] \in Nat /\ hb[o + 2 * a + 1] \in Nat
        BY <3>7, <3>8, <4>1 DEF Hangs, Sized
      <4>3. QED BY <3>2, <3>7, <3>8, <4>1, <4>2
    <3>10. Hung(nodes, refs, ToSet(first[1]) \cup ToSet(second[1]), a + b, o, r, h)
      <4> HIDE DEF o, r
      <4>1. o \in Nat /\ h \in Nat BY <2>0 DEF o
      <4>2. QED BY ONLY <3>4, <3>7, <3>8, <3>9, <4>1, Combined
    <3>11. QED BY <3>1, <3>6, <3>10
  <2>3. QED BY <2>1, <2>2
<1> HIDE DEF A, hangs
<1>2. A \in SUBSET Nat BY DEF A
<1>3. A = Nat BY <1>1, <1>2, AllBelow
<1>4. \A site \in Calls(S) : Len(site[1]) \in Nat BY CallShape
<1>5. QED BY <1>3, <1>4 DEF A, hangs

(* The same of build_node. *)
LEMMA BuildStands ==
  ASSUME NEW items, isSeq(items), Sortable(ToSet(items)), Len(items) > 0,
         NEW o \in Nat, NEW r \in Nat, NEW t, t = build_node(items, o, r)
  PROVE  /\ Grown(t) /\ Len(t.nodes) = 2 * Len(items) - 1 /\ Len(t.references) = Len(items)
         /\ \A nodes, refs : \A h \in Nat :
               Len(items) <= LeavesWithin[h] /\ Stands(nodes, refs, t, o, r)
                 => Hung(nodes, refs, ToSet(items), Len(items), o, r, h)
<1> DEFINE S == ToSet(items)
           site == << items, o, r >>
<1>1. PICK node : Builder(node, S) /\ t = node[site] /\ site \in Calls(S)
  BY BuildUnfolds
<1>2. site[1] = items /\ site[2] = o /\ site[3] = r OBVIOUS
<1> HIDE DEF site
<1>3. Grown(t) BY <1>1 DEF Builder
<1>4. Len(t.nodes) = 2 * Len(items) - 1 /\ Len(t.references) = Len(items)
  BY <1>1, <1>2, Lengths
<1>5. ASSUME NEW nodes, NEW refs, NEW h \in Nat,
             Len(items) <= LeavesWithin[h], Stands(nodes, refs, t, o, r)
      PROVE  Hung(nodes, refs, S, Len(items), o, r, h)
  BY <1>1, <1>2, <1>5, Shape
<1>6. QED BY <1>3, <1>4, <1>5

------------------------------------------------------
(* What a bottom tree is built of. *)
blas_items(triangles) ==
    [i \in DOMAIN triangles |->
        [bounds |-> primitive_bounds(triangles[i]), stable_key |-> i, payload |-> i]]

(* One item for each triangle. *)
LEMMA BlasItems ==
  ASSUME NEW triangles \in Seq(Triangle)
  PROVE  LET items == blas_items(triangles) IN
         /\ isSeq(items) /\ Len(items) = Len(triangles) /\ Sortable(ToSet(items))
         /\ ToSet(items) = {[bounds |-> primitive_bounds(triangles[i]), stable_key |-> i,
                             payload |-> i] : i \in 1 .. Len(triangles)}
         /\ \A i \in 1 .. Len(triangles) : primitive_bounds(triangles[i]) \in Box
<1> DEFINE items == blas_items(triangles)
           n == Len(triangles)
           item(i) == [bounds |-> primitive_bounds(triangles[i]), stable_key |-> i, payload |-> i]
<1>1. n \in Nat /\ DOMAIN triangles = 1 .. n /\ \A i \in 1 .. n : triangles[i] \in Triangle
  BY SeqShape
<1>2. items = [i \in 1 .. n |-> item(i)] BY <1>1 DEF blas_items
<1>3. \A i \in 1 .. n : primitive_bounds(triangles[i]) \in Box
  BY <1>1 DEF primitive_bounds, Triangle, Box
<1>4. \A i \in 1 .. n : item(i).bounds \in Box /\ item(i).stable_key \in Int
  BY <1>1, <1>3
<1> HIDE DEF items, item, n
<1>5. DOMAIN items = 1 .. n /\ items = [i \in 1 .. n |-> items[i]]
      /\ \A i \in 1 .. n : items[i] = item(i)
  BY <1>2
<1>6. isSeq(items) /\ Len(items) = n BY <1>1, <1>5, Made
<1>7. ToSet(items) = {item(i) : i \in 1 .. n} BY <1>5 DEF ToSet
<1>8. Sortable(ToSet(items)) BY <1>4, <1>7 DEF Sortable
<1>9. QED BY <1>3, <1>6, <1>7, <1>8 DEF items, item, n

(* The tree of a geometry. *)
IsTreeOf(t, triangles, k, o, r) ==
    t = build_node(blas_items(triangles), o, r) /\ k = Len(triangles)

(* It hangs wherever it stands. *)
LEMMA BlasStands ==
  ASSUME NEW triangles \in Seq(Triangle), triangles # << >>, NEW o \in Nat, NEW r \in Nat,
         NEW t, NEW k, IsTreeOf(t, triangles, k, o, r)
  PROVE  /\ k \in Nat /\ k > 0
         /\ Grown(t) /\ Len(t.nodes) = 2 * k - 1 /\ Len(t.references) = k
         /\ \A nodes, refs : \A h \in Nat :
               k <= LeavesWithin[h] /\ Stands(nodes, refs, t, o, r)
                 => Hung(nodes, refs, ToSet(blas_items(triangles)), k, o, r, h)
<1> DEFINE items == blas_items(triangles)
<1>1. k \in Nat /\ k > 0
  <2>1. k \in Nat /\ k # 0 BY SeqShape, EmptySeq DEF IsTreeOf
  <2>2. QED BY <2>1
<1>2. isSeq(items) /\ Len(items) = k /\ Sortable(ToSet(items)) /\ t = build_node(items, o, r)
  BY BlasItems DEF IsTreeOf
<1> HIDE DEF items
<1>3. /\ Grown(t) /\ Len(t.nodes) = 2 * Len(items) - 1 /\ Len(t.references) = Len(items)
      /\ \A nodes, refs : \A h \in Nat :
            Len(items) <= LeavesWithin[h] /\ Stands(nodes, refs, t, o, r)
              => Hung(nodes, refs, ToSet(items), Len(items), o, r, h)
  BY <1>1, <1>2, BuildStands
<1>4. QED BY <1>1, <1>2, <1>3 DEF items

(* One record of the hierarchy for each geometry. *)
blas_tree(triangles, T) ==
    build_node(blas_items(triangles), T.node_offset, T.primitive_reference_offset)

IsRange(B, triangles, T) ==
    /\ T.node_offset \in Nat /\ T.root_node = T.node_offset + 1
    /\ T.node_count = 2 * Len(triangles) - 1
    /\ T.primitive_reference_offset \in Nat
    /\ T.primitive_reference_count = Len(triangles)
    /\ T.node_offset + T.node_count <= Len(B.blas_nodes)
    /\ T.primitive_reference_offset + T.primitive_reference_count <= Len(B.primitive_references)
    /\ Stands(B.blas_nodes, B.primitive_references, blas_tree(triangles, T),
              T.node_offset, T.primitive_reference_offset)

nodes_upto(B, b) == IF b = 0 THEN 0 ELSE B.blases[b].node_offset + B.blases[b].node_count

references_upto(B, b) ==
    IF b = 0 THEN 0 ELSE B.blases[b].primitive_reference_offset
                          + B.blases[b].primitive_reference_count

BuiltUpTo(B, geometries, g) ==
    /\ B = [blases |-> B.blases, blas_nodes |-> B.blas_nodes,
            primitive_references |-> B.primitive_references,
            tlas_nodes |-> << >>, instance_references |-> << >>]
    /\ isSeq(B.blases) /\ isSeq(B.blas_nodes) /\ isSeq(B.primitive_references)
    /\ Len(B.blases) = g
    /\ \A b \in 1 .. g : /\ IsRange(B, geometries[b], B.blases[b])
                         /\ B.blases[b].node_offset = nodes_upto(B, b - 1)
                         /\ B.blases[b].primitive_reference_offset = references_upto(B, b - 1)
    /\ Len(B.blas_nodes) = nodes_upto(B, g)
    /\ Len(B.primitive_references) = references_upto(B, g)

(* None yet. *)
LEMMA NothingBuilt ==
  ASSUME NEW geometries
  PROVE  BuiltUpTo(nothing_built, geometries, 0)
  BY NoElement DEF BuiltUpTo, nothing_built, nodes_upto, references_upto

(* One more. *)
LEMMA AddBlas ==
  ASSUME NEW geometries \in Seq(Seq(Triangle)), NEW g \in 1 .. Len(geometries),
         \A i \in 1 .. Len(geometries) : geometries[i] # << >>, NEW B, BuiltUpTo(B, geometries, g - 1)
  PROVE  BuiltUpTo(add_blas(B, geometries[g]), geometries, g)
<1> DEFINE triangles == geometries[g]
           k == Len(triangles)
           o == Len(B.blas_nodes)
           r == Len(B.primitive_references)
           t == build_node(blas_items(triangles), o, r)
           T == [root_node |-> o + 1, node_offset |-> o, node_count |-> Len(t.nodes),
                 primitive_reference_offset |-> r, primitive_reference_count |-> k]
           N == B.blas_nodes \o t.nodes
           P == B.primitive_references \o t.references
           R == Append(B.blases, T)
           C == add_blas(B, triangles)
<1>0. /\ g \in Nat /\ g - 1 \in Nat /\ 0 < g /\ Len(geometries) \in Nat
      /\ \A i \in 1 .. Len(geometries) : geometries[i] \in Seq(Triangle)
  BY SeqShape
<1>1. triangles \in Seq(Triangle) /\ triangles # << >> BY <1>0
<1>2. isSeq(B.blases) /\ isSeq(B.blas_nodes) /\ isSeq(B.primitive_references)
      /\ Len(B.blases) = g - 1 /\ o \in Nat /\ r \in Nat
  BY IsSeqShape DEF BuiltUpTo
<1>3. /\ k \in Nat /\ k > 0
      /\ Grown(t) /\ Len(t.nodes) = 2 * k - 1 /\ Len(t.references) = k
  <2>1. IsTreeOf(t, triangles, k, o, r) BY DEF IsTreeOf
  <2> HIDE DEF o, r, triangles, t, k
  <2>2. o \in Nat /\ r \in Nat BY <1>2
  <2>3. QED BY ONLY <1>1, <2>1, <2>2, BlasStands
<1>4. C = [blases |-> R, blas_nodes |-> N, primitive_references |-> P,
           tlas_nodes |-> << >>, instance_references |-> << >>]
  <2> DEFINE x == B.blases
             y == B.blas_nodes
             z == B.primitive_references
  <2>1. B = [blases |-> x, blas_nodes |-> y, primitive_references |-> z,
             tlas_nodes |-> << >>, instance_references |-> << >>]
    BY DEF BuiltUpTo
  <2>2. C = [B EXCEPT !.blas_nodes = N, !.primitive_references = P, !.blases = R]
    BY DEF add_blas, blas_items
  <2> HIDE DEF N, P, R, C, x, y, z
  <2>3. QED BY <2>1, <2>2
<1> HIDE DEF C, T
<1>5. /\ isSeq(N) /\ Len(N) = o + (2 * k - 1)
      /\ \A i \in 1 .. o : N[i] = B.blas_nodes[i]
      /\ \A i \in 1 .. 2 * k - 1 : N[o + i] = t.nodes[i]
  <2> DEFINE x == B.blas_nodes
             y == t.nodes
  <2>1. isSeq(x) /\ isSeq(y) BY <1>2, <1>3 DEF Grown
  <2>2. Len(x) = o /\ Len(y) = 2 * k - 1 BY <1>3
  <2> HIDE DEF x, y, o, k
  <2>3. /\ isSeq(x \o y) /\ Len(x \o y) = Len(x) + Len(y)
        /\ \A i \in 1 .. Len(x) : (x \o y)[i] = x[i]
        /\ \A i \in 1 .. Len(y) : (x \o y)[Len(x) + i] = y[i]
    BY ONLY <2>1, Joined
  <2>4. N = x \o y BY DEF x, y
  <2> HIDE DEF N
  <2>5. QED BY <2>2, <2>3, <2>4 DEF x, y
<1>6. /\ isSeq(P) /\ Len(P) = r + k
      /\ \A i \in 1 .. r : P[i] = B.primitive_references[i]
      /\ \A i \in 1 .. k : P[r + i] = t.references[i]
  <2> DEFINE x == B.primitive_references
             y == t.references
  <2>1. isSeq(x) /\ isSeq(y) BY <1>2, <1>3 DEF Grown
  <2>2. Len(x) = r /\ Len(y) = k BY <1>3
  <2> HIDE DEF x, y, r, k
  <2>3. /\ isSeq(x \o y) /\ Len(x \o y) = Len(x) + Len(y)
        /\ \A i \in 1 .. Len(x) : (x \o y)[i] = x[i]
        /\ \A i \in 1 .. Len(y) : (x \o y)[Len(x) + i] = y[i]
    BY ONLY <2>1, Joined
  <2>4. P = x \o y BY DEF x, y
  <2> HIDE DEF P
  <2>5. QED BY <2>2, <2>3, <2>4 DEF x, y
<1>7. /\ isSeq(R) /\ Len(R) = g /\ R[g] = T
      /\ \A b \in 1 .. g - 1 : R[b] = B.blases[b]
  <2> DEFINE s == B.blases
             V == ToSet(s) \cup {T}
  <2>1. s \in Seq(V) /\ T \in V /\ Len(s) = g - 1
    BY <1>2, SeqMonotonic DEF isSeq
  <2> HIDE DEF s, V
  <2>2. /\ Append(s, T) \in Seq(V) /\ Len(Append(s, T)) = Len(s) + 1
        /\ \A i \in 1 .. Len(s) : Append(s, T)[i] = s[i]
        /\ Append(s, T)[Len(s) + 1] = T
    BY <2>1, AppendProperties
  <2>3. isSeq(Append(s, T)) BY <2>2, SeqShape
  <2>4. R = Append(s, T) /\ (g - 1) + 1 = g BY <1>0 DEF s
  <2> HIDE DEF R
  <2>5. QED BY <2>1, <2>2, <2>3, <2>4 DEF s
<1>8. C.blases = R /\ C.blas_nodes = N /\ C.primitive_references = P
  <2> HIDE DEF R, N, P
  <2>1. QED BY <1>4
<1>9. /\ T.root_node = o + 1 /\ T.node_offset = o /\ T.node_count = 2 * k - 1
      /\ T.primitive_reference_offset = r /\ T.primitive_reference_count = k
  <2> HIDE DEF t, o, r, k
  <2>1. QED BY <1>3 DEF T
<1> HIDE DEF R, N, P, o, r, k, triangles, t
<1>10. /\ \A b \in 0 .. g - 1 : /\ nodes_upto(C, b) = nodes_upto(B, b)
                               /\ references_upto(C, b) = references_upto(B, b)
       /\ nodes_upto(C, g) = o + (2 * k - 1) /\ references_upto(C, g) = r + k
  <2>1. ASSUME NEW b \in 0 .. g - 1
        PROVE  nodes_upto(C, b) = nodes_upto(B, b) /\ references_upto(C, b) = references_upto(B, b)
    BY <1>0, <1>7, <1>8 DEF nodes_upto, references_upto
  <2>2. nodes_upto(C, g) = o + (2 * k - 1) /\ references_upto(C, g) = r + k
    BY <1>0, <1>7, <1>8, <1>9 DEF nodes_upto, references_upto
  <2>3. QED BY <2>1, <2>2
<1>11. IsRange(C, triangles, T)
  <2>1. blas_tree(triangles, T) = t BY <1>9 DEF blas_tree, t
  <2>2. Stands(N, P, t, o, r) BY <1>3, <1>5, <1>6 DEF Stands
  <2>3. QED BY <1>1, <1>2, <1>5, <1>6, <1>8, <1>9, <2>1, <2>2 DEF IsRange, k
<1>12. ASSUME NEW b \in 1 .. g - 1 PROVE IsRange(C, geometries[b], B.blases[b])
  <2> DEFINE D == B.blases[b]
             u == blas_tree(geometries[b], D)
             m == Len(geometries[b])
  <2>1. IsRange(B, geometries[b], D) BY DEF BuiltUpTo
  <2>2. b \in 1 .. Len(geometries) /\ geometries[b] \in Seq(Triangle) /\ m \in Nat
    BY <1>0, SeqShape
  <2>3. /\ D.node_offset \in Nat /\ D.node_count = 2 * m - 1
        /\ D.node_offset + D.node_count <= o
        /\ D.primitive_reference_offset \in Nat /\ D.primitive_reference_count = m
        /\ D.primitive_reference_offset + D.primitive_reference_count <= r
    BY <2>1 DEF IsRange, o, r
  <2>4. /\ D.node_offset + D.node_count <= Len(N)
        /\ D.primitive_reference_offset + D.primitive_reference_count <= Len(P)
    <3>1. o <= Len(N) /\ r <= Len(P) /\ Len(N) \in Nat /\ Len(P) \in Nat
      BY <1>2, <1>3, <1>5, <1>6
    <3> HIDE DEF D, N, P
    <3>2. QED BY ONLY SMTT(20), <1>2, <2>2, <2>3, <3>1
  <2>5. /\ geometries[b] # << >>
        /\ IsTreeOf(u, geometries[b], m, D.node_offset, D.primitive_reference_offset)
    BY <2>2 DEF blas_tree, IsTreeOf
  <2>11. /\ D.node_offset + (2 * m - 1) <= o
         /\ D.primitive_reference_offset + m <= r
    BY <2>3
  <2> HIDE DEF D, u, m
  <2>6. Len(u.nodes) = 2 * m - 1 /\ Len(u.references) = m
    <3>1. geometries[b] \in Seq(Triangle)
          /\ D.node_offset \in Nat /\ D.primitive_reference_offset \in Nat
      BY <2>2, <2>3 DEF m
    <3>2. QED BY ONLY <2>5, <3>1, BlasStands
  <2>7. Stands(N, P, u, D.node_offset, D.primitive_reference_offset)
    <3>1. ASSUME NEW j \in 1 .. Len(u.nodes) PROVE N[D.node_offset + j] = u.nodes[j]
      <4>1. B.blas_nodes[D.node_offset + j] = u.nodes[j]
        BY <2>1 DEF IsRange, Stands, u
      <4>2. D.node_offset + j \in 1 .. o
        <5>1. j \in Nat /\ 0 < j /\ j <= 2 * m - 1 BY <2>2, <2>6
        <5> DEFINE off == D.node_offset
        <5>2. off \in Nat /\ off + (2 * m - 1) <= o /\ m \in Nat
          BY <2>2, <2>3, <2>11
        <5> HIDE DEF off
        <5>3. off + j \in 1 .. o BY ONLY <1>2, <5>1, <5>2
        <5>4. QED BY <5>3 DEF off
      <4>3. QED BY <1>5, <4>1, <4>2
    <3>2. ASSUME NEW j \in 1 .. Len(u.references)
          PROVE  P[D.primitive_reference_offset + j] = u.references[j]
      <4>1. B.primitive_references[D.primitive_reference_offset + j] = u.references[j]
        BY <2>1 DEF IsRange, Stands, u
      <4>2. D.primitive_reference_offset + j \in 1 .. r
        <5>1. j \in Nat /\ 0 < j /\ j <= m BY <2>2, <2>6
        <5>2. /\ D.primitive_reference_offset \in Nat /\ r \in Nat /\ m \in Nat
              /\ D.primitive_reference_offset + m <= r
          BY <1>2, <2>2, <2>3, <2>11
        <5>3. QED BY ONLY <5>1, <5>2
      <4>3. QED BY <1>6, <4>1, <4>2
    <3>3. QED BY <3>1, <3>2 DEF Stands
  <2>8. D.root_node = D.node_offset + 1 BY <2>1 DEF IsRange
  <2>9. IsRange(C, geometries[b], D)
    BY <1>8, <2>3, <2>4, <2>7, <2>8 DEF IsRange, u, m
  <2>10. QED BY <2>9 DEF D
<1>13. /\ o = nodes_upto(B, g - 1) /\ r = references_upto(B, g - 1)
       /\ \A b \in 1 .. g - 1 : /\ B.blases[b].node_offset = nodes_upto(B, b - 1)
                                /\ B.blases[b].primitive_reference_offset
                                     = references_upto(B, b - 1)
  BY DEF BuiltUpTo, o, r
<1>14. ASSUME NEW b \in 1 .. g
       PROVE  /\ IsRange(C, geometries[b], C.blases[b])
              /\ C.blases[b].node_offset = nodes_upto(C, b - 1)
              /\ C.blases[b].primitive_reference_offset = references_upto(C, b - 1)
  <2>1. CASE b = g
    <3>1. g - 1 \in 0 .. g - 1 /\ C.blases[b] = T BY <1>0, <1>7, <1>8, <2>1
    <3>2. nodes_upto(C, g - 1) = o /\ references_upto(C, g - 1) = r
      BY <1>10, <1>13, <3>1
    <3>3. QED BY <1>9, <1>11, <2>1, <3>1, <3>2 DEF triangles
  <2>2. CASE b # g
    <3>1. b \in 1 .. g - 1 /\ b - 1 \in 0 .. g - 1 BY <1>0, <2>2
    <3>2. C.blases[b] = B.blases[b] BY <1>7, <1>8, <3>1
    <3>3. QED BY <1>10, <1>12, <1>13, <3>1, <3>2
  <2>3. QED BY <2>1, <2>2
<1>15. BuiltUpTo(C, geometries, g)
  <2>1. Len(N) = nodes_upto(C, g) /\ Len(P) = references_upto(C, g)
    BY <1>5, <1>6, <1>10
  <2>2. QED BY <1>4, <1>5, <1>6, <1>7, <1>8, <1>14, <2>1 DEF BuiltUpTo
<1>16. QED BY <1>15 DEF C, triangles

------------------------------------------------------
(* The fold of build_blases unfolds. *)
Assembled(f, geometries, n) ==
    f = [g \in 0 .. n |-> IF g = 0 THEN nothing_built ELSE add_blas(f[g - 1], geometries[g])]

(* There is such an f, so that build_blases finds it. *)
LEMMA AssembledExists ==
  ASSUME NEW geometries
  PROVE  \A n \in Nat : \E f : Assembled(f, geometries, n)
<1> DEFINE A == {n \in Nat : \E f : Assembled(f, geometries, n)}
           first == [g \in 0 .. 0 |-> nothing_built]
<1>1. ASSUME NEW n \in Nat, \A m \in Nat : m < n => m \in A PROVE n \in A
  <2>1. CASE n = 0
    <3>1. Assembled(first, geometries, 0) BY DEF Assembled
    <3>2. QED BY <2>1, <3>1
  <2>2. CASE n # 0
    <3>1. n - 1 \in Nat /\ n - 1 < n BY <2>2
    <3>2. PICK f : Assembled(f, geometries, n - 1) BY <1>1, <3>1
    <3> DEFINE h == [g \in 0 .. n |-> IF g = n THEN add_blas(f[n - 1], geometries[n]) ELSE f[g]]
    <3>3. \A g \in 0 .. n - 1 :
             f[g] = IF g = 0 THEN nothing_built ELSE add_blas(f[g - 1], geometries[g])
      BY <3>2 DEF Assembled
    <3>4. \A g \in 0 .. n :
             h[g] = IF g = 0 THEN nothing_built ELSE add_blas(h[g - 1], geometries[g])
      <4> TAKE g \in 0 .. n
      <4>1. CASE g = n
        BY <2>2, <3>1, <4>1
      <4>2. CASE g # n
        <5>1. g \in 0 .. n - 1 /\ (g # 0 => g - 1 \in 0 .. n /\ g - 1 # n)
          BY <4>2
        <5>2. QED BY <3>3, <4>2, <5>1
      <4>3. QED BY <4>1, <4>2
    <3>5. h = [g \in 0 .. n |-> h[g]] OBVIOUS
    <3> HIDE DEF h
    <3>6. Assembled(h, geometries, n) BY <3>4, <3>5 DEF Assembled
    <3>7. QED BY <3>6
  <2>3. QED BY <2>1, <2>2
<1> HIDE DEF A
<1>2. A \in SUBSET Nat BY DEF A
<1>3. A = Nat BY <1>1, <1>2, AllBelow
<1>4. QED BY <1>3 DEF A

(* Every geometry has its tree. *)
LEMMA BlasesBuilt ==
  ASSUME NEW geometries \in Seq(Seq(Triangle)),
         \A i \in 1 .. Len(geometries) : geometries[i] # << >>
  PROVE  BuiltUpTo(build_blases(geometries), geometries, Len(geometries))
<1> DEFINE m == Len(geometries)
           f == CHOOSE f : Assembled(f, geometries, m)
<1>1. m \in Nat BY SeqShape
<1>2. Assembled(f, geometries, m) BY <1>1, AssembledExists
<1>3. build_blases(geometries) = f[m] BY DEF build_blases, Assembled
<1> HIDE DEF f
<1>4. \A g \in 0 .. m :
         f[g] = IF g = 0 THEN nothing_built ELSE add_blas(f[g - 1], geometries[g])
  BY <1>2 DEF Assembled
<1> DEFINE A == {n \in Nat : n <= m => BuiltUpTo(f[n], geometries, n)}
<1>5. ASSUME NEW n \in Nat, \A l \in Nat : l < n => l \in A PROVE n \in A
  <2> SUFFICES ASSUME n <= m PROVE BuiltUpTo(f[n], geometries, n)
    OBVIOUS
  <2>1. CASE n = 0
    BY <1>1, <1>4, <2>1, NothingBuilt
  <2>2. CASE n # 0
    <3>1. n - 1 \in Nat /\ n - 1 < n /\ n - 1 <= m /\ n \in 1 .. m /\ n \in 0 .. m
      BY <1>1, <2>2
    <3>2. BuiltUpTo(f[n - 1], geometries, n - 1) BY <1>5, <3>1
    <3>3. f[n] = add_blas(f[n - 1], geometries[n]) BY <1>4, <2>2, <3>1
    <3>4. QED BY <3>1, <3>2, <3>3, AddBlas
  <2>3. QED BY <2>1, <2>2
<1> HIDE DEF A
<1>6. A \in SUBSET Nat BY DEF A
<1>7. A = Nat BY <1>5, <1>6, AllBelow
<1>8. QED BY <1>1, <1>3, <1>7 DEF A

------------------------------------------------------
(* The least and the greatest of finitely many numbers. *)
LEMMA SomeLeast ==
  \A n \in Nat : \A f : n > 0 /\ (\A i \in 1 .. n : f[i] \in Int)
                    => \E m \in 1 .. n : \A i \in 1 .. n : f[m] <= f[i]
<1> DEFINE A == {n \in Nat : \A f : n > 0 /\ (\A i \in 1 .. n : f[i] \in Int)
                    => \E m \in 1 .. n : \A i \in 1 .. n : f[m] <= f[i]}
<1>1. ASSUME NEW n \in Nat, \A m \in Nat : m < n => m \in A PROVE n \in A
  <2> SUFFICES ASSUME NEW f, n > 0, \A i \in 1 .. n : f[i] \in Int
               PROVE  \E m \in 1 .. n : \A i \in 1 .. n : f[m] <= f[i]
    OBVIOUS
  <2>1. CASE n = 1
    BY <2>1
  <2>2. CASE n # 1
    <3>1. n - 1 \in Nat /\ n - 1 < n /\ n - 1 > 0 /\ \A i \in 1 .. n - 1 : f[i] \in Int
      BY <2>2
    <3>2. PICK m \in 1 .. n - 1 : \A i \in 1 .. n - 1 : f[m] <= f[i]
      BY <1>1, <3>1
    <3>3. CASE f[m] <= f[n]
      <4>1. m \in 1 .. n OBVIOUS
      <4>2. \A i \in 1 .. n : f[m] <= f[i] BY <3>2, <3>3
      <4>3. QED BY <4>1, <4>2
    <3>4. CASE ~(f[m] <= f[n])
      <4>1. \A i \in 1 .. n - 1 : f[n] <= f[i]
        <5> TAKE i \in 1 .. n - 1
        <5>1. f[m] \in Int /\ f[n] \in Int /\ f[i] \in Int /\ f[m] <= f[i]
          BY <3>1, <3>2
        <5>2. QED BY <3>4, <5>1
      <4>2. \A i \in 1 .. n : f[n] <= f[i] BY <4>1
      <4>3. n \in 1 .. n OBVIOUS
      <4>4. QED BY <4>2, <4>3
    <3>5. QED BY <3>3, <3>4
  <2>3. QED BY <2>1, <2>2
<1> HIDE DEF A
<1>2. A \in SUBSET Nat BY DEF A
<1>3. A = Nat BY <1>1, <1>2, AllBelow
<1>4. QED BY <1>3 DEF A

(* The least of a finite set of numbers. *)
LEMMA MinOf ==
  ASSUME NEW n \in Nat, n > 0, NEW f, \A i \in 1 .. n : f[i] \in Int,
         NEW X, X = {f[i] : i \in 1 .. n}
  PROVE  Min(X) \in Int /\ \A i \in 1 .. n : Min(X) <= f[i]
<1>1. PICK m \in 1 .. n : \A i \in 1 .. n : f[m] <= f[i] BY SomeLeast
<1>2. f[m] \in X /\ \A y \in X : f[m] <= y BY <1>1
<1>3. Min(X) \in X /\ \A y \in X : Min(X) <= y BY <1>2 DEF Min
<1>4. QED BY <1>3

(* The greatest. *)
LEMMA MaxOf ==
  ASSUME NEW n \in Nat, n > 0, NEW f, \A i \in 1 .. n : f[i] \in Int,
         NEW X, X = {f[i] : i \in 1 .. n}
  PROVE  Max(X) \in Int /\ \A i \in 1 .. n : Max(X) >= f[i]
<1> DEFINE h == [i \in 1 .. n |-> -f[i]]
<1>1. \A i \in 1 .. n : h[i] \in Int /\ h[i] = -f[i] OBVIOUS
<1> HIDE DEF h
<1>2. PICK m \in 1 .. n : \A i \in 1 .. n : h[m] <= h[i] BY <1>1, SomeLeast
<1>3. f[m] \in X /\ \A y \in X : f[m] >= y
  <2>1. \A i \in 1 .. n : f[m] >= f[i]
    <3> TAKE i \in 1 .. n
    <3>1. h[m] <= h[i] /\ h[m] = -f[m] /\ h[i] = -f[i] /\ f[m] \in Int /\ f[i] \in Int
      BY <1>1, <1>2
    <3>2. QED BY <3>1
  <2>2. QED BY <2>1
<1>4. Max(X) \in X /\ \A y \in X : Max(X) >= y BY <1>3 DEF Max
<1>5. QED BY <1>4

(* A box that is moved is a box. *)
LEMMA MovedBox ==
  ASSUME NEW b \in Box, NEW d \in Int
  PROVE  /\ moved(b, d) \in Box
         /\ moved(b, d).minimum[1] = b.minimum[1] + d /\ moved(b, d).minimum[2] = b.minimum[2]
         /\ moved(b, d).maximum[1] = b.maximum[1] + d /\ moved(b, d).maximum[2] = b.maximum[2]
<1>1. /\ b.minimum \in [Axis -> Int] /\ b.maximum \in [Axis -> Int] /\ Axis = {1, 2}
  BY DEF Box, Axis
<1> DEFINE lo == [b.minimum EXCEPT ![1] = @ + d]
           hi == [b.maximum EXCEPT ![1] = @ + d]
<1>2. /\ lo \in [Axis -> Int] /\ hi \in [Axis -> Int]
      /\ lo[1] = b.minimum[1] + d /\ lo[2] = b.minimum[2]
      /\ hi[1] = b.maximum[1] + d /\ hi[2] = b.maximum[2]
  BY <1>1
<1>3. moved(b, d) = [minimum |-> lo, maximum |-> hi] BY DEF moved
<1> HIDE DEF lo, hi
<1>4. QED BY <1>2, <1>3 DEF Box

(* The box of an instance encloses its triangles, each where it was moved. *)
LEMMA InstanceBounds ==
  ASSUME NEW triangles \in Seq(Triangle), triangles # << >>, NEW d \in Int
  PROVE  /\ instance_bounds(triangles, d) \in Box
         /\ \A i \in 1 .. Len(triangles) :
               Encloses(instance_bounds(triangles, d),
                        moved(primitive_bounds(triangles[i]), d))
<1> DEFINE n == Len(triangles)
           box(i) == moved(primitive_bounds(triangles[i]), d)
           world == {box(i) : i \in 1 .. n}
           lo == [k \in Axis |-> Min({b.minimum[k] : b \in world})]
           hi == [k \in Axis |-> Max({b.maximum[k] : b \in world})]
<1>1. n \in Nat /\ n > 0 /\ DOMAIN triangles = 1 .. n
  <2>1. n \in Nat /\ n # 0 /\ DOMAIN triangles = 1 .. n BY SeqShape, EmptySeq
  <2>2. QED BY <2>1
<1>2. \A i \in 1 .. n : box(i) \in Box BY BlasItems, MovedBox
<1>3. instance_bounds(triangles, d) = [minimum |-> lo, maximum |-> hi]
  BY <1>1 DEF instance_bounds, Min, Max
<1> HIDE DEF box
<1>4. ASSUME NEW k \in Axis
      PROVE  /\ lo[k] \in Int /\ hi[k] \in Int
             /\ \A i \in 1 .. n : lo[k] <= box(i).minimum[k] /\ box(i).maximum[k] <= hi[k]
  <2> DEFINE f == [i \in 1 .. n |-> box(i).minimum[k]]
             g == [i \in 1 .. n |-> box(i).maximum[k]]
             X == {b.minimum[k] : b \in world}
             Y == {b.maximum[k] : b \in world}
  <2>1. /\ \A i \in 1 .. n : f[i] = box(i).minimum[k] /\ g[i] = box(i).maximum[k]
        /\ \A i \in 1 .. n : f[i] \in Int /\ g[i] \in Int
    BY <1>2 DEF Box
  <2> HIDE DEF f, g
  <2>2. X = {f[i] : i \in 1 .. n} /\ Y = {g[i] : i \in 1 .. n} BY <2>1
  <2>3. lo[k] = Min(X) /\ hi[k] = Max(Y) OBVIOUS
  <2> HIDE DEF X, Y, lo, hi, n
  <2>4. Min(X) \in Int /\ \A i \in 1 .. n : Min(X) <= f[i]
    BY <1>1, <2>1, <2>2, MinOf
  <2>5. Max(Y) \in Int /\ \A i \in 1 .. n : Max(Y) >= g[i]
    BY <1>1, <2>1, <2>2, MaxOf
  <2>6. QED BY <2>1, <2>3, <2>4, <2>5
<1>5. lo = [k \in Axis |-> lo[k]] /\ hi = [k \in Axis |-> hi[k]] OBVIOUS
<1> HIDE DEF lo, hi
<1>6. lo \in [Axis -> Int] /\ hi \in [Axis -> Int] BY <1>4, <1>5
<1>7. instance_bounds(triangles, d) \in Box BY <1>3, <1>6 DEF Box
<1>8. ASSUME NEW i \in 1 .. n PROVE Encloses(instance_bounds(triangles, d), box(i))
  BY <1>3, <1>4 DEF Encloses
<1>9. QED BY <1>7, <1>8 DEF box

------------------------------------------------------
(* The search of validate_tree: its stack holds subtrees that adjoin. *)
place(st, j, last) == IF j <= Len(st) THEN st[j] ELSE last

Adjoin(st, span, E, p, last) ==
    /\ st \in Seq(E) /\ place(st, 1, last) = p
    /\ \A j \in 1 .. Len(st) : place(st, j, last) + span[place(st, j, last)] = place(st, j + 1, last)

(* The search pops the first ... *)
LEMMA AdjoinPops ==
  ASSUME NEW E, NEW span, NEW last, NEW p, NEW st, Adjoin(st, span, E, p, last), st # << >>
  PROVE  /\ Head(st) = p /\ p \in E
         /\ Adjoin(Tail(st), span, E, p + span[p], last)
<1> DEFINE t == Tail(st)
           n == Len(st)
<1>1. st \in Seq(E) /\ n \in Nat /\ DOMAIN st = 1 .. n BY SeqShape DEF Adjoin
<1>2. n > 0 BY <1>1, EmptySeq
<1>3. /\ t \in Seq(E) /\ Len(t) = n - 1 /\ \A i \in 1 .. n - 1 : t[i] = st[i + 1]
      /\ Head(st) = st[1]
  BY <1>1, HeadTailProperties
<1>4. \A j \in Nat \ {0} : place(t, j, last) = place(st, j + 1, last)
  <2> HIDE DEF t, n
  <2>1. QED BY <1>1, <1>3 DEF place, n
<1>5. p = st[1] /\ p \in E BY <1>1, <1>2, SeqShape DEF Adjoin, place
<1>6. place(t, 1, last) = p + span[p]
  <2>1. 1 \in 1 .. n /\ place(st, 1, last) = p BY <1>1, <1>2 DEF Adjoin
  <2>2. p + span[p] = place(st, 1 + 1, last) BY <2>1 DEF Adjoin
  <2> HIDE DEF t
  <2>3. QED BY <1>4, <2>2
<1>7. ASSUME NEW j \in 1 .. Len(t)
      PROVE  place(t, j, last) + span[place(t, j, last)] = place(t, j + 1, last)
  <2>1. j + 1 \in 1 .. n /\ j \in Nat \ {0} /\ j + 1 \in Nat \ {0} BY <1>1, <1>3
  <2>2. place(st, j + 1, last) + span[place(st, j + 1, last)] = place(st, j + 1 + 1, last)
    BY <2>1 DEF Adjoin
  <2> HIDE DEF t
  <2>3. QED BY <1>4, <2>1, <2>2
<1> HIDE DEF t
<1>8. QED BY <1>3, <1>5, <1>6, <1>7 DEF Adjoin, t

(* ... and pushes its two children. *)
LEMMA AdjoinPushes ==
  ASSUME NEW E, NEW span, NEW last, NEW p, NEW st, Adjoin(st, span, E, p, last),
         NEW f \in E, NEW s \in E, f + span[f] = s, s + span[s] = p
  PROVE  Adjoin(<< f, s >> \o st, span, E, f, last)
<1> DEFINE c == << f, s >>
           t == c \o st
           n == Len(st)
<1>1. c \in Seq(E) /\ Len(c) = 2 /\ c[1] = f /\ c[2] = s OBVIOUS
<1>2. st \in Seq(E) /\ n \in Nat BY SeqShape DEF Adjoin
<1> HIDE DEF c
<1>3. /\ t \in Seq(E) /\ Len(t) = 2 + n
      /\ \A i \in 1 .. 2 + n : t[i] = IF i <= 2 THEN c[i] ELSE st[i - 2]
  <2>1. c \in Seq(E) /\ st \in Seq(E) BY <1>1, <1>2
  <2>2. /\ c \o st \in Seq(E) /\ Len(c \o st) = Len(c) + Len(st)
        /\ \A i \in 1 .. Len(c) + Len(st) :
              (c \o st)[i] = IF i <= Len(c) THEN c[i] ELSE st[i - Len(c)]
    BY ONLY <2>1, ConcatProperties
  <2> HIDE DEF t
  <2>3. t = c \o st /\ Len(c) = 2 /\ Len(st) = n BY <1>1 DEF t
  <2>4. QED BY <2>2, <2>3
<1> HIDE DEF t
<1>4. /\ place(t, 1, last) = f /\ place(t, 2, last) = s
      /\ \A j \in Nat \ {0} : place(t, j + 2, last) = place(st, j, last)
  <2>1. t[1] = f /\ t[2] = s BY <1>1, <1>2, <1>3
  <2>2. place(t, 1, last) = f /\ place(t, 2, last) = s
    BY <1>2, <1>3, <2>1 DEF place
  <2>3. ASSUME NEW j \in Nat \ {0} PROVE place(t, j + 2, last) = place(st, j, last)
    <3>1. CASE j <= n
      <4>1. j + 2 \in 1 .. 2 + n /\ ~(j + 2 <= 2) /\ (j + 2) - 2 = j /\ j + 2 <= Len(t)
        BY <1>2, <1>3, <3>1
      <4>2. QED BY <1>3, <3>1, <4>1 DEF place
    <3>2. CASE ~(j <= n)
      BY <1>2, <1>3, <3>2 DEF place
    <3>3. QED BY <3>1, <3>2
  <2>4. QED BY <2>2, <2>3
<1>5. place(st, 1, last) = p BY DEF Adjoin
<1>6. ASSUME NEW j \in 1 .. Len(t)
      PROVE  place(t, j, last) + span[place(t, j, last)] = place(t, j + 1, last)
  <2>1. CASE j = 1
    BY <1>4, <2>1
  <2>2. CASE j = 2
    <3>1. place(t, 3, last) = p
      <4>1. 1 \in Nat \ {0} /\ 1 + 2 = 3 OBVIOUS
      <4>2. QED BY <1>4, <1>5, <4>1
    <3>2. QED BY SMTT(20), <1>4, <2>2, <3>1
  <2>3. CASE j > 2
    <3> DEFINE i == j - 2
    <3>1. i \in 1 .. n /\ i \in Nat \ {0} /\ i + 1 \in Nat \ {0} /\ i + 2 = j /\ (i + 1) + 2 = j + 1
      BY <1>2, <1>3, <2>3
    <3>2. place(st, i, last) + span[place(st, i, last)] = place(st, i + 1, last)
      BY <3>1 DEF Adjoin
    <3>3. place(t, j, last) = place(st, i, last) /\ place(t, j + 1, last) = place(st, i + 1, last)
      <4> HIDE DEF i
      <4>1. QED BY <1>4, <3>1
    <3>4. QED BY <3>2, <3>3
  <2>4. QED BY <1>2, <1>3, <2>1, <2>2, <2>3
<1>7. QED BY <1>3, <1>4, <1>6 DEF Adjoin, t, c

(* The search unfolds. *)
search_step(nodes, t) ==
    IF t.stack = << >> \/ Head(t.stack) \in t.seen THEN t
    ELSE [stack |-> children(nodes[Head(t.stack)]) \o Tail(t.stack),
          seen  |-> t.seen \cup {Head(t.stack)}]

Searches(f, nodes, root, m) ==
    f = [n \in 0 .. m |-> IF n = 0 THEN [stack |-> << root >>, seen |-> {}]
                          ELSE search_step(nodes, f[n - 1])]

(* There is one for each number of steps. *)
LEMMA SearchesExists ==
  ASSUME NEW nodes, NEW root
  PROVE  \A n \in Nat : \E f : Searches(f, nodes, root, n)
<1> DEFINE start0 == [stack |-> << root >>, seen |-> {}]
           A == {n \in Nat : \E f : Searches(f, nodes, root, n)}
           first == [g \in 0 .. 0 |-> start0]
<1>1. ASSUME NEW n \in Nat, \A m \in Nat : m < n => m \in A PROVE n \in A
  <2>1. CASE n = 0
    <3>1. Searches(first, nodes, root, 0) BY DEF Searches
    <3>2. QED BY <2>1, <3>1
  <2>2. CASE n # 0
    <3>1. n - 1 \in Nat /\ n - 1 < n BY <2>2
    <3>2. PICK f : Searches(f, nodes, root, n - 1) BY <1>1, <3>1
    <3> DEFINE h == [g \in 0 .. n |-> IF g = n THEN search_step(nodes, f[n - 1]) ELSE f[g]]
    <3>3. \A g \in 0 .. n - 1 : f[g] = IF g = 0 THEN start0 ELSE search_step(nodes, f[g - 1])
      BY <3>2 DEF Searches
    <3> HIDE DEF start0
    <3>4. \A g \in 0 .. n : h[g] = IF g = 0 THEN start0 ELSE search_step(nodes, h[g - 1])
      <4> TAKE g \in 0 .. n
      <4>1. CASE g = n
        BY <2>2, <3>1, <4>1
      <4>2. CASE g # n
        <5>1. g \in 0 .. n - 1 /\ (g # 0 => g - 1 \in 0 .. n /\ g - 1 # n)
          BY <4>2
        <5>2. QED BY <3>3, <4>2, <5>1
      <4>3. QED BY <4>1, <4>2
    <3>5. h = [g \in 0 .. n |-> h[g]] OBVIOUS
    <3> HIDE DEF h
    <3>6. Searches(h, nodes, root, n) BY <3>4, <3>5 DEF Searches, start0
    <3>7. QED BY <3>6
  <2>3. QED BY <2>1, <2>2
<1> HIDE DEF A
<1>2. A \in SUBSET Nat BY DEF A
<1>3. A = Nat BY <1>1, <1>2, AllBelow
<1>4. QED BY <1>3 DEF A

(* The search sees every node of a tree once. *)
LEMMA SearchSees ==
  ASSUME NEW nodes, NEW refs, NEW S, NEW k, NEW o, NEW r, NEW span, NEW height,
         Hangs(nodes, refs, S, k, o, r, span, height)
  PROVE  search(nodes, o + 1, 2 * k - 1) = [stack |-> << >>, seen |-> Extent(k, o)]
<1> DEFINE N == 2 * k - 1
           E == Extent(k, o)
           last == o + 2 * k
           f == CHOOSE f : Searches(f, nodes, o + 1, N)
<1>1. k \in Nat /\ k > 0 /\ o \in Nat /\ N \in Nat /\ N > 0 /\ span[o + 1] = N
  BY DEF Hangs, Sized
<1>2. Searches(f, nodes, o + 1, N) BY <1>1, SearchesExists
<1>3. search(nodes, o + 1, N) = f[N] BY DEF search, Searches, search_step
<1> HIDE DEF f
<1>4. \A n \in 0 .. N : f[n] = IF n = 0 THEN [stack |-> << o + 1 >>, seen |-> {}]
                               ELSE search_step(nodes, f[n - 1])
  BY <1>2 DEF Searches
<1>5. E = o + 1 .. o + N /\ E \subseteq Nat /\ o + 1 \in E /\ last = o + 1 + N
  BY <1>1 DEF Extent
<1> DEFINE good(n) == /\ Adjoin(f[n].stack, span, E, o + n + 1, last)
                      /\ f[n].seen = o + 1 .. o + n
                      /\ f[n] = [stack |-> f[n].stack, seen |-> f[n].seen]
           A == {n \in Nat : n <= N => good(n)}
<1> HIDE DEF E
<1>6. ASSUME NEW n \in Nat, \A m \in Nat : m < n => m \in A PROVE n \in A
  <2> SUFFICES ASSUME n <= N PROVE good(n)
    OBVIOUS
  <2>1. CASE n = 0
    <3> DEFINE st == << o + 1 >>
    <3>1. f[n].stack = st /\ f[n].seen = {} BY <1>1, <1>4, <2>1
    <3>2. st \in Seq(E) /\ Len(st) = 1 /\ st[1] = o + 1 BY <1>5
    <3> HIDE DEF st, last, N
    <3>3. place(st, 1, last) = o + 1 /\ place(st, 2, last) = last
      BY <3>2 DEF place
    <3>4. Adjoin(st, span, E, o + 1, last) BY <1>1, <1>5, <3>2, <3>3 DEF Adjoin
    <3>5. f[n] = [stack |-> f[n].stack, seen |-> f[n].seen]
      <4>1. f[n] = [stack |-> st, seen |-> {}] BY <1>1, <1>4, <2>1 DEF st
      <4>2. QED BY <3>1, <4>1
    <3>6. QED BY <1>1, <2>1, <3>1, <3>4, <3>5
  <2>2. CASE n # 0
    <3> DEFINE t == f[n - 1]
               p == o + n
    <3>1. n - 1 \in Nat /\ n - 1 < n /\ n - 1 <= N /\ n \in 0 .. N /\ o + (n - 1) + 1 = p
          /\ o + n + 1 = p + 1 /\ p \in Nat
      BY <1>1, <2>2
    <3>2. Adjoin(t.stack, span, E, p, last) /\ t.seen = o + 1 .. o + (n - 1)
      <4>1. good(n - 1) BY <1>6, <3>1
      <4>2. QED BY <3>1, <4>1
    <3>3. f[n] = search_step(nodes, t) BY <1>4, <2>2, <3>1
    <3> HIDE DEF t
    <3>4. t.stack # << >>
      <4>1. p < last BY <1>1, <3>1
      <4>2. t.stack = << >> => place(t.stack, 1, last) = last
        BY NoElement DEF place
      <4>3. QED BY <1>1, <3>1, <3>2, <4>1, <4>2 DEF Adjoin
    <3>5. Head(t.stack) = p /\ p \in E /\ Adjoin(Tail(t.stack), span, E, p + span[p], last)
      BY <3>2, <3>4, AdjoinPops
    <3>6. p \notin t.seen BY <1>1, <3>1, <3>2
    <3>7. f[n] = [stack |-> children(nodes[p]) \o Tail(t.stack), seen |-> t.seen \cup {p}]
      BY <3>3, <3>4, <3>5, <3>6 DEF search_step
    <3> DEFINE u == children(nodes[p]) \o Tail(t.stack)
    <3>8. f[n].stack = u /\ f[n].seen = t.seen \cup {p}
      <4> HIDE DEF u
      <4>1. f[n] = [stack |-> u, seen |-> t.seen \cup {p}] BY <3>7 DEF u
      <4>2. QED BY <4>1
    <3>9. f[n].seen = o + 1 .. o + n BY <1>1, <3>1, <3>2, <3>8
    <3>10. Adjoin(u, span, E, p + 1, last)
      <4>1. CASE IsLeaf(nodes, refs, S, k, r, span, p)
        <5>1. children(nodes[p]) = << >> /\ span[p] = 1
          BY <4>1 DEF IsLeaf, children
        <5>2. Tail(t.stack) \in Seq(E) BY <3>5 DEF Adjoin
        <5>3. << >> \o Tail(t.stack) = Tail(t.stack) BY <5>2, ConcatEmptySeq
        <5>4. QED BY <3>5, <5>1, <5>3
      <4>2. CASE IsBranch(nodes, k, o, span, height, p)
        <5> DEFINE s == p + 1 + span[p + 1]
        <5>1. /\ children(nodes[p]) = << p + 1, s >>
              /\ p + 1 \in E /\ s \in E /\ span[p] = 1 + span[p + 1] + span[s]
          BY <4>2 DEF IsBranch, children, E
        <5>2. span[p + 1] \in Nat /\ span[s] \in Nat BY <5>1 DEF Hangs, Sized, E
        <5> HIDE DEF s
        <5>3. (p + 1) + span[p + 1] = s /\ s + span[s] = p + span[p]
          BY <3>1, <5>1, <5>2 DEF s
        <5>4. QED BY <3>5, <5>1, <5>3, AdjoinPushes
      <4>3. QED BY <3>5, <4>1, <4>2 DEF Hangs, E
    <3>11. f[n] = [stack |-> f[n].stack, seen |-> f[n].seen]
      <4> HIDE DEF u
      <4>1. f[n] = [stack |-> u, seen |-> t.seen \cup {p}] BY <3>7 DEF u
      <4>2. QED BY <3>8, <4>1
    <3>12. QED BY <3>1, <3>8, <3>9, <3>10, <3>11
  <2>3. QED BY <2>1, <2>2
<1> HIDE DEF A, good
<1>7. A \in SUBSET Nat BY DEF A
<1>8. A = Nat BY <1>6, <1>7, AllBelow
<1>9. good(N) BY <1>1, <1>8 DEF A
<1>10. f[N].stack = << >>
  <2> DEFINE st == f[N].stack
  <2>1. Adjoin(st, span, E, last, last)
    <3>1. o + N + 1 = last BY <1>1
    <3> HIDE DEF last, N
    <3>2. QED BY <1>9, <3>1 DEF good
  <2>2. ASSUME st # << >> PROVE FALSE
    <3>1. last \in E BY <2>1, <2>2, AdjoinPops
    <3>2. QED BY <1>1, <1>5, <3>1
  <2>3. QED BY <2>2
<1>11. f[N].seen = E BY <1>5, <1>9 DEF good
<1>12. f[N] = [stack |-> f[N].stack, seen |-> f[N].seen] BY <1>9 DEF good
<1>13. QED BY <1>3, <1>10, <1>11, <1>12 DEF E

(* A tree of this shape passes validate_tree. *)
LEMMA TreeValid ==
  ASSUME NEW nodes, NEW refs, NEW S, NEW k, NEW o, NEW r, NEW h,
         Hung(nodes, refs, S, k, o, r, h), NEW count, count = 2 * k - 1, NEW root, root = o + 1
  PROVE  validate_tree(nodes, o, count, root, r, k)
<1> DEFINE E == Extent(k, o)
           L == Leaves(nodes, k, o)
           R == r + 1 .. r + k
<1>1. PICK span, height : Hangs(nodes, refs, S, k, o, r, span, height)
  BY DEF Hung
<1>2. k \in Nat /\ k > 0 /\ o \in Nat /\ r \in Nat BY <1>1 DEF Hangs, Sized
<1>3. E = o + 1 .. o + count BY <1>2 DEF Extent
<1>4. L = {n \in E : nodes[n].kind = "leaf"} BY DEF Leaves
<1>5. count = checked_expected_node_count(k)
  BY <1>2 DEF checked_expected_node_count
<1> HIDE DEF E
<1>6. ASSUME NEW n \in E \ L
      PROVE  /\ ToSet(children(nodes[n])) \subseteq E
             /\ nodes[n].bounds = unite(nodes[nodes[n].first_child].bounds,
                                        nodes[nodes[n].second_child].bounds)
  <2>1. n \in E /\ nodes[n].kind # "leaf" BY <1>4
  <2>2. IsBranch(nodes, k, o, span, height, n)
    BY <1>1, <2>1 DEF Hangs, E, IsLeaf
  <2> DEFINE f == n + 1
             s == n + 1 + span[n + 1]
  <2>3. /\ children(nodes[n]) = << f, s >> /\ f \in E /\ s \in E
        /\ nodes[n].bounds = unite(nodes[f].bounds, nodes[s].bounds)
        /\ nodes[n].first_child = f /\ nodes[n].second_child = s
    BY <2>1, <2>2 DEF IsBranch, children, E
  <2> HIDE DEF f, s
  <2>4. << f, s >> \in Seq(E) BY <2>3
  <2>5. ToSet(<< f, s >>) \subseteq E
    <3> DEFINE c == << f, s >>
    <3>1. c \in Seq(E) BY <2>4
    <3> HIDE DEF c
    <3>2. ToSet(c) \subseteq E BY <3>1, SeqShape
    <3>3. QED BY <3>2 DEF c
  <2>6. QED BY <2>3, <2>5
<1>7. search(nodes, root, count) = [stack |-> << >>, seen |-> E]
  BY <1>1, SearchSees DEF E
<1>8. Referenced(nodes, refs, S, k, o, r) BY <1>1 DEF Hangs
<1>9. \A n \in L : nodes[n].reference_offset \in R
  <2> TAKE n \in L
  <2>1. n \in E /\ nodes[n].kind = "leaf" BY <1>4
  <2>2. IsLeaf(nodes, refs, S, k, r, span, n)
    BY <1>1, <2>1 DEF Hangs, E, IsBranch
  <2>3. QED BY <2>2 DEF IsLeaf
<1>10. /\ \A i \in R : \E n \in L : nodes[n].reference_offset = i
       /\ \A n, m \in L : nodes[n].reference_offset = nodes[m].reference_offset => n = m
  BY <1>8 DEF Referenced
<1> HIDE DEF L, R
<1>11. {nodes[n].reference_offset : n \in L} = R BY <1>9, <1>10
<1>12. IsFiniteSet(R) /\ Cardinality(R) = k
  <2>1. r + 1 \in Int /\ r + k \in Int /\ (r + k) - (r + 1) + 1 = k /\ r + 1 <= r + k
    BY <1>2
  <2>2. QED BY <2>1, FS_Interval DEF R
<1>13. Cardinality(L) = k
  <2> DEFINE g == [i \in R |-> CHOOSE n \in L : nodes[n].reference_offset = i]
  <2>1. \A i \in R : g[i] \in L /\ nodes[g[i]].reference_offset = i BY <1>10
  <2>2. g = [i \in R |-> g[i]] OBVIOUS
  <2> HIDE DEF g
  <2>3. g \in [R -> L] BY <2>1, <2>2
  <2>4. g \in Injection(R, L) BY <2>1, <2>3 DEF Injection, IsInjective
  <2>5. \A n \in L : \E i \in R : g[i] = n BY <1>9, <1>10, <2>1
  <2>6. g \in Surjection(R, L) BY <2>3, <2>5 DEF Surjection
  <2>7. ExistsBijection(R, L) BY <2>4, <2>6 DEF ExistsBijection, Bijection
  <2>8. QED BY <1>12, <2>7, FS_Bijection
<1>14. QED
  BY <1>2, <1>3, <1>4, <1>5, <1>6, <1>7, <1>11, <1>13 DEF validate_tree, R, Cardinality, ToSet

(* What the leaves refer to, in the order of the references. *)
LEMMA References ==
  ASSUME NEW nodes, NEW refs, NEW S, NEW k, NEW o, NEW r, NEW h,
         Hung(nodes, refs, S, k, o, r, h)
  PROVE  /\ \A i \in r + 1 .. r + k : \E x \in S : refs[i] = x.payload
         /\ \A x \in S : \E i \in r + 1 .. r + k : refs[i] = x.payload
<1>1. PICK span, height : Hangs(nodes, refs, S, k, o, r, span, height)
  BY DEF Hung
<1>2. \A n \in Leaves(nodes, k, o) :
         /\ nodes[n].reference_offset \in r + 1 .. r + k
         /\ \E x \in S : refs[nodes[n].reference_offset] = x.payload
  <2> TAKE n \in Leaves(nodes, k, o)
  <2>1. n \in Extent(k, o) /\ nodes[n].kind = "leaf" BY DEF Leaves
  <2>2. IsLeaf(nodes, refs, S, k, r, span, n) BY <1>1, <2>1 DEF Hangs, IsBranch
  <2>3. QED BY <2>2 DEF IsLeaf
<1>3. Referenced(nodes, refs, S, k, o, r) BY <1>1 DEF Hangs
<1>4. \A i \in r + 1 .. r + k : \E x \in S : refs[i] = x.payload
  <2> TAKE i \in r + 1 .. r + k
  <2>1. PICK n \in Leaves(nodes, k, o) : nodes[n].reference_offset = i
    BY <1>3 DEF Referenced
  <2>2. QED BY <1>2, <2>1
<1>5. \A x \in S : \E i \in r + 1 .. r + k : refs[i] = x.payload
  <2> TAKE x \in S
  <2>1. PICK n \in Leaves(nodes, k, o) : refs[nodes[n].reference_offset] = x.payload
    BY <1>3 DEF Referenced
  <2>2. QED BY <1>2, <2>1
<1>6. QED BY <1>4, <1>5

------------------------------------------------------
(* What TraversalAssumption says of a scene. *)
Depth == StackCapacity - 1

(* What a scene must be. *)
ValidScene(s) ==
    /\ s.geometries \in Seq(Seq(Triangle)) /\ s.instances \in Seq(PlacedInstance)
    /\ \A g \in 1 .. Len(s.geometries) :
          s.geometries[g] # << >> /\ Len(s.geometries[g]) <= LeavesWithin[Depth]
    /\ Len(s.instances) <= LeavesWithin[Depth]
    /\ \A i \in 1 .. Len(s.instances) : s.instances[i].geometry \in 1 .. Len(s.geometries)

(* What the top tree is built of. *)
instance_reference(s, i) ==
    [instance_id |-> i, blas_index |-> s.instances[i].geometry, visible |-> s.instances[i].visible]

tlas_item(s, i) ==
    [bounds     |-> instance_bounds(s.geometries[s.instances[i].geometry], s.instances[i].shift),
     stable_key |-> i,
     payload    |-> instance_reference(s, i)]

tlas_items(s) == [i \in DOMAIN s.instances |-> tlas_item(s, i)]

(* One item for each instance. *)
LEMMA TlasItems ==
  ASSUME NEW s, ValidScene(s)
  PROVE  LET items == tlas_items(s) IN
         /\ isSeq(items) /\ Len(items) = Len(s.instances) /\ Sortable(ToSet(items))
         /\ ToSet(items) = {tlas_item(s, i) : i \in 1 .. Len(s.instances)}
         /\ \A i \in 1 .. Len(s.instances) : tlas_item(s, i).bounds \in Box
<1> DEFINE items == tlas_items(s)
           n == Len(s.instances)
           item(i) == tlas_item(s, i)
<1>1. /\ n \in Nat /\ DOMAIN s.instances = 1 .. n
      /\ \A i \in 1 .. n : s.instances[i] \in PlacedInstance
  BY SeqShape DEF ValidScene
<1>2. items = [i \in 1 .. n |-> item(i)] BY <1>1 DEF tlas_items
<1>3. ASSUME NEW i \in 1 .. n PROVE item(i).bounds \in Box /\ item(i).stable_key \in Int
  <2> DEFINE g == s.instances[i].geometry
  <2>1. g \in 1 .. Len(s.geometries) /\ s.instances[i].shift \in Int
    BY <1>1 DEF ValidScene, PlacedInstance
  <2>2. s.geometries[g] \in Seq(Triangle) /\ s.geometries[g] # << >>
    BY <2>1, SeqShape DEF ValidScene
  <2>3. instance_bounds(s.geometries[g], s.instances[i].shift) \in Box
    BY <2>1, <2>2, InstanceBounds
  <2>4. QED BY <1>1, <2>3 DEF tlas_item
<1> HIDE DEF items, item, n
<1>4. DOMAIN items = 1 .. n /\ items = [i \in 1 .. n |-> items[i]]
      /\ \A i \in 1 .. n : items[i] = item(i)
  BY <1>2
<1>5. isSeq(items) /\ Len(items) = n BY <1>1, <1>4, Made
<1>6. ToSet(items) = {item(i) : i \in 1 .. n} BY <1>4 DEF ToSet
<1>7. Sortable(ToSet(items)) BY <1>3, <1>6 DEF Sortable
<1>8. QED BY <1>3, <1>5, <1>6, <1>7 DEF items, item, n

(* The hierarchy of a scene. *)
HungScene(B, s) ==
    /\ isSeq(B.blases) /\ Len(B.blases) = Len(s.geometries) /\ ranges_canonical(B)
    /\ \A b \in 1 .. Len(s.geometries) :
          LET T == B.blases[b]
              k == Len(s.geometries[b])
          IN  /\ k \in Nat \ {0} /\ T.node_offset \in Nat
              /\ T.root_node = T.node_offset + 1 /\ T.node_count = 2 * k - 1
              /\ T.primitive_reference_count = k
              /\ Hung(B.blas_nodes, B.primitive_references, ToSet(blas_items(s.geometries[b])),
                      k, T.node_offset, T.primitive_reference_offset, Depth)
    /\ isSeq(B.tlas_nodes) /\ isSeq(B.instance_references)
    /\ Len(B.instance_references) = Len(s.instances)
    /\ IF s.instances = << >>
       THEN B.tlas_nodes = << >> /\ B.instance_references = << >>
       ELSE /\ Len(s.instances) \in Nat \ {0}
            /\ Len(B.tlas_nodes) = 2 * Len(s.instances) - 1
            /\ Hung(B.tlas_nodes, B.instance_references, ToSet(tlas_items(s)),
                    Len(s.instances), 0, 0, Depth)

(* The ranges of the bottom trees follow one another. *)
LEMMA RangesCanonical ==
  ASSUME NEW B, NEW geometries, NEW g \in Nat, BuiltUpTo(B, geometries, g),
         NEW C, C.blases = B.blases, C.blas_nodes = B.blas_nodes,
         C.primitive_references = B.primitive_references
  PROVE  ranges_canonical(C)
<1>1. /\ Len(C.blases) = g
      /\ \A b \in 1 .. g : /\ C.blases[b].node_offset = nodes_upto(B, b - 1)
                           /\ C.blases[b].primitive_reference_offset = references_upto(B, b - 1)
      /\ Len(C.blas_nodes) = nodes_upto(B, g)
      /\ Len(C.primitive_references) = references_upto(B, g)
  BY DEF BuiltUpTo
<1> DEFINE nodes_before(b) ==
               IF b = 1 THEN 0 ELSE C.blases[b - 1].node_offset + C.blases[b - 1].node_count
           references_before(b) ==
               IF b = 1 THEN 0 ELSE C.blases[b - 1].primitive_reference_offset
                                     + C.blases[b - 1].primitive_reference_count
<1>2. \A b \in Nat \ {0} : /\ nodes_upto(B, b - 1) = nodes_before(b)
                          /\ references_upto(B, b - 1) = references_before(b)
  BY DEF nodes_upto, references_upto
<1>3. g + 1 \in Nat \ {0} /\ (g + 1) - 1 = g OBVIOUS
<1>4. nodes_upto(B, g) = nodes_before(g + 1) /\ references_upto(B, g) = references_before(g + 1)
  <2> HIDE DEF nodes_before, references_before
  <2>1. QED BY <1>2, <1>3
<1>5. \A b \in 1 .. g : /\ C.blases[b].node_offset = nodes_before(b)
                        /\ C.blases[b].primitive_reference_offset = references_before(b)
  <2> HIDE DEF nodes_before, references_before
  <2>1. QED BY <1>1, <1>2
<1>6. QED BY <1>1, <1>4, <1>5 DEF ranges_canonical

(* What build_tlas adds to the trees of the geometries. *)
LEMMA TlasBuilt ==
  ASSUME NEW C, C = [blases |-> C.blases, blas_nodes |-> C.blas_nodes,
                     primitive_references |-> C.primitive_references,
                     tlas_nodes |-> << >>, instance_references |-> << >>],
         NEW s, NEW B, B = build_tlas(C, s), NEW t, t = build_node(tlas_items(s), 0, 0)
  PROVE  /\ B.blases = C.blases /\ B.blas_nodes = C.blas_nodes
         /\ B.primitive_references = C.primitive_references
         /\ IF s.instances = << >> THEN B.tlas_nodes = << >> /\ B.instance_references = << >>
            ELSE B.tlas_nodes = t.nodes /\ B.instance_references = t.references
<1> DEFINE x == C.blases
           y == C.blas_nodes
           z == C.primitive_references
<1>1. C = [blases |-> x, blas_nodes |-> y, primitive_references |-> z,
           tlas_nodes |-> << >>, instance_references |-> << >>]
  OBVIOUS
<1>2. CASE s.instances = << >>
  <2>1. B = C BY <1>2 DEF build_tlas
  <2> HIDE DEF x, y, z
  <2>2. B.tlas_nodes = << >> /\ B.instance_references = << >> BY <1>1, <2>1
  <2>3. QED BY <1>2, <2>1, <2>2
<1>3. CASE s.instances # << >>
  <2>1. B = [C EXCEPT !.tlas_nodes = t.nodes, !.instance_references = t.references]
    BY <1>3 DEF build_tlas, tlas_items, tlas_item, instance_reference
  <2> DEFINE u == t.nodes
             v == t.references
  <2>2. B = [C EXCEPT !.tlas_nodes = u, !.instance_references = v] BY <2>1
  <2> HIDE DEF x, y, z, u, v
  <2>3. B = [blases |-> x, blas_nodes |-> y, primitive_references |-> z,
             tlas_nodes |-> u, instance_references |-> v]
    BY <1>1, <2>2
  <2>4. B.blases = x /\ B.blas_nodes = y /\ B.primitive_references = z
        /\ B.tlas_nodes = u /\ B.instance_references = v
    BY <2>3
  <2>5. QED BY <1>3, <2>4 DEF x, y, z, u, v
<1>4. QED BY <1>2, <1>3

(* build_host_bvh makes such trees of a scene. *)
LEMMA BuiltScene ==
  ASSUME NEW s, ValidScene(s), Depth \in Nat, NEW B, B = build_host_bvh(s)
  PROVE  HungScene(B, s)
<1> DEFINE C == build_blases(s.geometries)
           G == Len(s.geometries)
           n == Len(s.instances)
           t == build_node(tlas_items(s), 0, 0)
<1>1. /\ s.geometries \in Seq(Seq(Triangle)) /\ G \in Nat /\ n \in Nat
      /\ \A g \in 1 .. G : /\ s.geometries[g] \in Seq(Triangle) /\ s.geometries[g] # << >>
                           /\ Len(s.geometries[g]) <= LeavesWithin[Depth]
      /\ n <= LeavesWithin[Depth]
      /\ s.instances \in Seq(PlacedInstance)
  BY SeqShape DEF ValidScene
<1>2. BuiltUpTo(C, s.geometries, G) BY <1>1, BlasesBuilt
<1> HIDE DEF C
<1>3. C = [blases |-> C.blases, blas_nodes |-> C.blas_nodes,
           primitive_references |-> C.primitive_references,
           tlas_nodes |-> << >>, instance_references |-> << >>]
  BY <1>2 DEF BuiltUpTo
<1>4. B = build_tlas(C, s) BY DEF build_host_bvh, C
<1>5. /\ B.blases = C.blases /\ B.blas_nodes = C.blas_nodes
      /\ B.primitive_references = C.primitive_references
      /\ IF s.instances = << >> THEN B.tlas_nodes = << >> /\ B.instance_references = << >>
         ELSE B.tlas_nodes = t.nodes /\ B.instance_references = t.references
  BY <1>3, <1>4, TlasBuilt
<1> HIDE DEF G, n, t
<1>6. ranges_canonical(B) BY <1>1, <1>2, <1>5, RangesCanonical
<1>7. isSeq(B.blases) /\ Len(B.blases) = G BY <1>2, <1>5 DEF BuiltUpTo
<1>8. ASSUME NEW b \in 1 .. G, NEW T, T = B.blases[b], NEW k, k = Len(s.geometries[b])
      PROVE  /\ k \in Nat \ {0} /\ T.node_offset \in Nat
             /\ T.root_node = T.node_offset + 1 /\ T.node_count = 2 * k - 1
             /\ T.primitive_reference_count = k
             /\ Hung(B.blas_nodes, B.primitive_references, ToSet(blas_items(s.geometries[b])),
                     k, T.node_offset, T.primitive_reference_offset, Depth)
  <2> DEFINE triangles == s.geometries[b]
             u == blas_tree(triangles, T)
  <2>1. IsRange(C, triangles, T) BY <1>2, <1>5, <1>8 DEF BuiltUpTo
  <2>2. /\ T.node_offset \in Nat /\ T.root_node = T.node_offset + 1
        /\ T.node_count = 2 * k - 1 /\ T.primitive_reference_offset \in Nat
        /\ T.primitive_reference_count = k
        /\ Stands(C.blas_nodes, C.primitive_references, u,
                  T.node_offset, T.primitive_reference_offset)
    BY <1>8, <2>1 DEF IsRange
  <2>3. IsTreeOf(u, triangles, k, T.node_offset, T.primitive_reference_offset)
    BY <1>8 DEF IsTreeOf, blas_tree
  <2>4. triangles \in Seq(Triangle) /\ triangles # << >> /\ k <= LeavesWithin[Depth]
    BY <1>1, <1>8
  <2> HIDE DEF u, triangles
  <2>5. /\ k \in Nat /\ k > 0
        /\ \A nodes, refs : \A h \in Nat :
              k <= LeavesWithin[h]
                /\ Stands(nodes, refs, u, T.node_offset, T.primitive_reference_offset)
                => Hung(nodes, refs, ToSet(blas_items(triangles)), k,
                        T.node_offset, T.primitive_reference_offset, h)
    BY <2>2, <2>3, <2>4, BlasStands
  <2>6. Hung(C.blas_nodes, C.primitive_references, ToSet(blas_items(triangles)),
             k, T.node_offset, T.primitive_reference_offset, Depth)
    BY <2>2, <2>4, <2>5
  <2>7. QED BY <1>5, <2>2, <2>5, <2>6 DEF triangles
<1>9. CASE s.instances = << >>
  <2>1. /\ isSeq(B.tlas_nodes) /\ isSeq(B.instance_references)
        /\ Len(B.instance_references) = Len(s.instances)
    BY <1>5, <1>9, NoElement
  <2>2. QED BY ZenonT(40), <1>5, <1>6, <1>7, <1>8, <1>9, <2>1 DEF HungScene, G
<1>10. CASE s.instances # << >>
  <2>1. n \in Nat \ {0} BY <1>1, <1>10, EmptySeq DEF n
  <2>2. /\ isSeq(tlas_items(s)) /\ Len(tlas_items(s)) = n /\ Sortable(ToSet(tlas_items(s)))
    BY TlasItems DEF n
  <2>3. B.tlas_nodes = t.nodes /\ B.instance_references = t.references
    BY <1>5, <1>10
  <2>4. /\ Grown(t) /\ Len(t.nodes) = 2 * Len(tlas_items(s)) - 1
        /\ Len(t.references) = Len(tlas_items(s))
        /\ \A nodes, refs : \A h \in Nat :
              Len(tlas_items(s)) <= LeavesWithin[h] /\ Stands(nodes, refs, t, 0, 0)
                => Hung(nodes, refs, ToSet(tlas_items(s)), Len(tlas_items(s)), 0, 0, h)
    <3>1. Len(tlas_items(s)) > 0 BY <2>1, <2>2
    <3>2. t = build_node(tlas_items(s), 0, 0) BY DEF t
    <3>3. QED BY <2>2, <3>1, <3>2, BuildStands
  <2>5. Stands(B.tlas_nodes, B.instance_references, t, 0, 0)
    <3>1. \A j \in 1 .. Len(t.nodes) : 0 + j = j BY <2>1, <2>2, <2>4
    <3>2. \A j \in 1 .. Len(t.references) : 0 + j = j BY <2>1, <2>2, <2>4
    <3>3. QED BY <2>3, <3>1, <3>2 DEF Stands
  <2>6. Hung(B.tlas_nodes, B.instance_references, ToSet(tlas_items(s)), n, 0, 0, Depth)
    BY <1>1, <2>2, <2>4, <2>5
  <2>7. isSeq(B.tlas_nodes) /\ isSeq(B.instance_references)
        /\ Len(B.instance_references) = n /\ Len(B.tlas_nodes) = 2 * n - 1
    BY <2>2, <2>3, <2>4 DEF Grown
  <2>8. QED BY <1>6, <1>7, <1>8, <1>10, <2>1, <2>6, <2>7 DEF HungScene, G, n
<1>11. QED BY <1>9, <1>10

(* What the builder makes passes its own checks. *)
LEMMA BuiltSceneValid ==
  ASSUME NEW s, ValidScene(s), Depth \in Nat, NEW B, HungScene(B, s)
  PROVE  validate_built_topology(B)
<1> DEFINE G == Len(s.geometries)
           n == Len(s.instances)
<1>1. G \in Nat /\ DOMAIN B.blases = 1 .. G /\ n \in Nat
      /\ \A g \in 1 .. G : s.geometries[g] \in Seq(Triangle)
  BY SeqShape, IsSeqShape DEF ValidScene, HungScene
<1>2. ASSUME NEW b \in 1 .. G, NEW T, T = B.blases[b]
      PROVE  /\ validate_tree(B.blas_nodes, T.node_offset, T.node_count, T.root_node,
                              T.primitive_reference_offset, T.primitive_reference_count)
             /\ is_permutation([i \in 1 .. T.primitive_reference_count |->
                                  B.primitive_references[T.primitive_reference_offset + i]])
  <2> DEFINE k == Len(s.geometries[b])
             o == T.node_offset
             r == T.primitive_reference_offset
             S == ToSet(blas_items(s.geometries[b]))
             refs == B.primitive_references
  <2>1. /\ k \in Nat \ {0} /\ T.root_node = o + 1 /\ T.node_count = 2 * k - 1
        /\ T.primitive_reference_count = k
        /\ Hung(B.blas_nodes, refs, S, k, o, r, Depth)
    BY <1>2 DEF HungScene
  <2> DEFINE item(i) == [bounds |-> primitive_bounds(s.geometries[b][i]), stable_key |-> i,
                         payload |-> i]
  <2>2. S = {item(i) : i \in 1 .. k} BY <1>1, BlasItems
  <2>13. \A i \in 1 .. k : item(i).payload = i OBVIOUS
  <2>3. /\ \A i \in 1 .. k : \E x \in S : x.payload = i
        /\ \A x \in S : x.payload \in 1 .. k
    <3> HIDE DEF item, S, k
    <3>1. QED BY <2>2, <2>13
  <2>4. r \in Nat BY <2>1 DEF Hung, Hangs
  <2> HIDE DEF k, o, r, S, refs
  <2>5. validate_tree(B.blas_nodes, o, T.node_count, T.root_node, r, k)
    BY <2>1, TreeValid
  <2>6. /\ \A i \in r + 1 .. r + k : \E x \in S : refs[i] = x.payload
        /\ \A x \in S : \E i \in r + 1 .. r + k : refs[i] = x.payload
    BY <2>1, References
  <2> DEFINE p == [i \in 1 .. k |-> refs[r + i]]
  <2>7. /\ DOMAIN p = 1 .. k /\ p = [i \in 1 .. k |-> p[i]]
        /\ \A i \in 1 .. k : p[i] = refs[r + i]
    OBVIOUS
  <2> HIDE DEF p
  <2>8. Len(p) = k BY <2>1, <2>7, Made
  <2>9. ASSUME NEW x \in ToSet(p) PROVE x \in 1 .. k
    <3>1. PICK i \in 1 .. k : x = p[i] BY <2>7 DEF ToSet
    <3>2. r + i \in r + 1 .. r + k /\ x = refs[r + i] BY <2>1, <2>4, <2>7, <3>1
    <3>3. QED BY <2>3, <2>6, <3>2
  <2>10. ASSUME NEW i \in 1 .. k PROVE i \in ToSet(p)
    <3>1. PICK x \in S : x.payload = i BY <2>3
    <3>2. PICK j \in r + 1 .. r + k : refs[j] = i BY <2>6, <3>1
    <3>3. j - r \in 1 .. k /\ r + (j - r) = j BY <2>1, <2>4
    <3>4. p[j - r] = i BY <2>7, <3>2, <3>3
    <3>5. QED BY <2>7, <3>3, <3>4 DEF ToSet
  <2>11. is_permutation(p) BY <2>8, <2>9, <2>10 DEF is_permutation, ToSet
  <2>12. QED BY <2>1, <2>5, <2>11 DEF p, o, r, refs
<1>3. IF B.instance_references = << >>
      THEN B.tlas_nodes = << >>
      ELSE /\ validate_tree(B.tlas_nodes, 0, Len(B.tlas_nodes), 1, 0, Len(B.instance_references))
           /\ is_permutation([i \in DOMAIN B.instance_references |->
                                B.instance_references[i].instance_id])
           /\ \A i \in DOMAIN B.instance_references :
                 B.instance_references[i].blas_index \in DOMAIN B.blases
  <2>1. CASE s.instances = << >>
    BY <2>1 DEF HungScene
  <2>2. CASE s.instances # << >>
    <3> DEFINE refs == B.instance_references
               S == ToSet(tlas_items(s))
               p == [i \in DOMAIN refs |-> refs[i].instance_id]
    <3>1. /\ n \in Nat \ {0} /\ isSeq(refs) /\ Len(refs) = n /\ Len(B.tlas_nodes) = 2 * n - 1
          /\ Hung(B.tlas_nodes, refs, S, n, 0, 0, Depth)
      BY <2>2 DEF HungScene
    <3>2. S = {tlas_item(s, i) : i \in 1 .. n} BY TlasItems
    <3>3. /\ \A i \in 1 .. n : \E x \in S : x.payload = instance_reference(s, i)
          /\ \A x \in S : \E i \in 1 .. n : x.payload = instance_reference(s, i)
      <4>1. \A i \in 1 .. n : tlas_item(s, i).payload = instance_reference(s, i)
        BY DEF tlas_item
      <4>2. QED BY <3>2, <4>1
    <3>4. DOMAIN refs = 1 .. n /\ refs # << >> BY <3>1, IsSeqShape, NoElement
    <3> HIDE DEF refs, S, n
    <3>5. validate_tree(B.tlas_nodes, 0, Len(B.tlas_nodes), 1, 0, n)
      BY <3>1, TreeValid
    <3>6. /\ \A i \in 1 .. n : \E x \in S : refs[i] = x.payload
          /\ \A x \in S : \E i \in 1 .. n : refs[i] = x.payload
      <4>1. /\ \A i \in 0 + 1 .. 0 + n : \E x \in S : refs[i] = x.payload
            /\ \A x \in S : \E i \in 0 + 1 .. 0 + n : refs[i] = x.payload
        <5>1. Hung(B.tlas_nodes, refs, S, n, 0, 0, Depth) BY <3>1
        <5>2. QED BY ONLY <5>1, References
      <4>2. 0 + 1 .. 0 + n = 1 .. n BY <3>1
      <4>3. QED BY <4>1, <4>2
    <3>7. \A i \in 1 .. n : \E j \in 1 .. n : refs[i] = instance_reference(s, j)
      BY <3>3, <3>6
    <3>8. \A j \in 1 .. n : \E i \in 1 .. n : refs[i] = instance_reference(s, j)
      BY <3>3, <3>6
    <3>9. \A j \in 1 .. n : /\ instance_reference(s, j).instance_id = j
                            /\ instance_reference(s, j).blas_index \in 1 .. G
      BY DEF instance_reference, ValidScene, n
    <3>10. /\ DOMAIN p = 1 .. n /\ p = [i \in 1 .. n |-> p[i]]
           /\ \A i \in 1 .. n : p[i] = refs[i].instance_id
      BY <3>4
    <3> HIDE DEF p
    <3>11. Len(p) = n BY <3>1, <3>10, Made
    <3>12. ToSet(p) = 1 .. n
      <4>1. ASSUME NEW x \in ToSet(p) PROVE x \in 1 .. n
        BY <3>7, <3>9, <3>10 DEF ToSet
      <4>2. ASSUME NEW j \in 1 .. n PROVE j \in ToSet(p)
        <5>1. PICK i \in 1 .. n : refs[i] = instance_reference(s, j) BY <3>8
        <5>2. p[i] = j /\ i \in DOMAIN p BY <3>9, <3>10, <5>1
        <5>3. QED BY <5>2 DEF ToSet
      <4>3. QED BY <4>1, <4>2
    <3>13. is_permutation(p) BY <3>11, <3>12 DEF is_permutation, ToSet
    <3>14. \A i \in DOMAIN refs : refs[i].blas_index \in DOMAIN B.blases
      BY <1>1, <3>4, <3>7, <3>9
    <3>15. QED BY <3>1, <3>4, <3>5, <3>13, <3>14 DEF refs, p
  <2>3. QED BY <2>1, <2>2
<1>4. ranges_canonical(B) BY DEF HungScene
<1>5. QED BY <1>1, <1>2, <1>3, <1>4 DEF validate_built_topology

------------------------------------------------------
(* A stack of subtrees: with the nodes visited before, no more nodes than m,
   and room for the path below each entry. *)
Budget(acc, st, v, span, m) ==
    /\ \A j \in 0 .. Len(st) : acc[j] \in Nat /\ v <= acc[j]
    /\ acc[0] = v /\ acc[Len(st)] <= m
    /\ \A j \in 1 .. Len(st) : acc[j] = acc[j - 1] + span[st[j]]

Stacked(st, v, m, span, height, E) ==
    /\ st \in Seq(E) /\ v \in Nat
    /\ \E acc : Budget(acc, st, v, span, m)
    /\ \A j \in 1 .. Len(st) : j + height[st[j]] <= StackCapacity

(* The sizes of a tree. *)
Sizes(span, height, E) == \A n \in E : span[n] \in Nat \ {0} /\ height[n] \in Nat

(* A node below another, and one below the stack. *)
Covers(c, span, n) == c <= n /\ n < c + span[c]

PendingAt(st, span, n) == \E j \in 1 .. Len(st) : Covers(st[j], span, n)

(* The top of a stack and the rest. *)
LEMMA FrontLast ==
  ASSUME NEW E, NEW st \in Seq(E), st # << >>
  PROVE  /\ Front(st) \in Seq(E) /\ Last(st) \in E /\ Len(st) \in Nat \ {0}
         /\ Len(Front(st)) = Len(st) - 1 /\ Last(st) = st[Len(st)]
         /\ \A j \in 1 .. Len(st) - 1 : Front(st)[j] = st[j]
<1> DEFINE n == Len(st)
<1>1. n \in Nat /\ n # 0 /\ st[n] \in E
  <2>1. n \in Nat /\ n # 0 /\ \A j \in 1 .. n : st[j] \in E
    BY SeqShape, EmptySeq
  <2>2. QED BY <2>1
<1>2. /\ SubSeq(st, 1, n - 1) \in Seq(E) /\ Len(SubSeq(st, 1, n - 1)) = (n - 1) - 1 + 1
      /\ \A i \in 1 .. (n - 1) - 1 + 1 : SubSeq(st, 1, n - 1)[i] = st[1 + i - 1]
  <2>1. 1 \in Nat \ {0} /\ n - 1 \in Nat /\ n - 1 <= Len(st) /\ 1 <= (n - 1) + 1
    BY <1>1
  <2> HIDE DEF n
  <2>2. QED BY <2>1, Part
<1>3. (n - 1) - 1 + 1 = n - 1 /\ \A i \in 1 .. n - 1 : 1 + i - 1 = i BY <1>1
<1> DEFINE u == SubSeq(st, 1, n - 1)
<1>4. Front(st) = u /\ Last(st) = st[n] BY DEF Front, Last
<1> HIDE DEF u
<1>5. u \in Seq(E) /\ Len(u) = n - 1 /\ \A i \in 1 .. n - 1 : u[i] = st[i]
  <2> HIDE DEF n
  <2>1. QED BY <1>2, <1>3 DEF u
<1>6. QED BY <1>1, <1>4, <1>5

(* A stack with one more. *)
LEMMA Pushed ==
  ASSUME NEW E, NEW st \in Seq(E), NEW c \in E
  PROVE  /\ st \o << c >> \in Seq(E) /\ Len(st \o << c >>) = Len(st) + 1
         /\ \A j \in 1 .. Len(st) : (st \o << c >>)[j] = st[j]
         /\ (st \o << c >>)[Len(st) + 1] = c
<1> DEFINE t == << c >>
<1>1. t \in Seq(E) /\ Len(t) = 1 /\ t[1] = c /\ Len(st) \in Nat BY SeqShape
<1> HIDE DEF t
<1>2. /\ st \o t \in Seq(E) /\ Len(st \o t) = Len(st) + Len(t)
      /\ \A i \in 1 .. Len(st) + Len(t) :
            (st \o t)[i] = IF i <= Len(st) THEN st[i] ELSE t[i - Len(st)]
  BY <1>1, ConcatProperties
<1> DEFINE u == st \o t
<1>3. /\ u \in Seq(E) /\ Len(u) = Len(st) + 1
      /\ \A i \in 1 .. Len(st) + 1 : u[i] = IF i <= Len(st) THEN st[i] ELSE t[i - Len(st)]
  BY <1>1, <1>2
<1> HIDE DEF u
<1>4. \A j \in 1 .. Len(st) : u[j] = st[j] BY <1>1, <1>3
<1>5. u[Len(st) + 1] = c
  <2>1. Len(st) + 1 \in 1 .. Len(st) + 1 /\ ~(Len(st) + 1 <= Len(st)) /\ (Len(st) + 1) - Len(st) = 1
    BY <1>1
  <2>2. QED BY <1>1, <1>3, <2>1
<1>6. QED BY <1>3, <1>4, <1>5 DEF t, u

(* The top is popped. *)
LEMMA StackPops ==
  ASSUME NEW E, NEW span, NEW height, Sizes(span, height, E), NEW st, NEW v, NEW m \in Nat,
         Stacked(st, v, m, span, height, E), st # << >>
  PROVE  LET c == Last(st) IN
         /\ c \in E /\ v + span[c] <= m /\ v < m
         /\ Stacked(Front(st), v + 1, m - span[c] + 1, span, height, E)
         /\ Len(Front(st)) + 1 + height[c] <= StackCapacity
         /\ \A n : PendingAt(st, span, n) => PendingAt(Front(st), span, n) \/ Covers(c, span, n)
<1> DEFINE c == Last(st)
           u == Front(st)
           l == Len(st)
<1>1. /\ u \in Seq(E) /\ c \in E /\ l \in Nat \ {0} /\ Len(u) = l - 1 /\ c = st[l]
      /\ \A j \in 1 .. l - 1 : u[j] = st[j]
  BY FrontLast DEF Stacked
<1>2. PICK acc : Budget(acc, st, v, span, m) BY DEF Stacked
<1>3. /\ v \in Nat /\ acc[0] = v /\ acc[l] <= m
      /\ \A j \in 0 .. l : acc[j] \in Nat /\ v <= acc[j]
      /\ \A j \in 1 .. l : acc[j] = acc[j - 1] + span[st[j]]
      /\ \A j \in 1 .. l : j + height[st[j]] <= StackCapacity
  BY <1>2 DEF Budget, Stacked
<1> HIDE DEF c, u, l
<1>4. span[c] \in Nat /\ span[c] > 0 /\ height[c] \in Nat BY <1>1 DEF Sizes
<1>5. acc[l] = acc[l - 1] + span[c] /\ acc[l - 1] \in Nat /\ v <= acc[l - 1]
  BY <1>1, <1>3
<1>6. v + span[c] <= m /\ v < m /\ acc[l - 1] <= m - span[c]
  BY <1>1, <1>3, <1>4, <1>5
<1> DEFINE b == [j \in 0 .. l - 1 |-> acc[j] + 1]
<1>7. Budget(b, u, v + 1, span, m - span[c] + 1)
  <2>1. \A j \in 0 .. l - 1 : b[j] = acc[j] + 1 /\ acc[j] \in Nat /\ v <= acc[j]
    BY <1>1, <1>3
  <2>2. 0 \in 0 .. l - 1 /\ l - 1 \in 0 .. l - 1 BY <1>1
  <2> HIDE DEF b
  <2>3. b[0] = v + 1 /\ b[l - 1] <= m - span[c] + 1
    BY <1>3, <1>4, <1>6, <2>1, <2>2
  <2>4. \A j \in 0 .. l - 1 : b[j] \in Nat /\ v + 1 <= b[j] BY <1>3, <2>1
  <2>5. \A j \in 1 .. l - 1 : b[j] = b[j - 1] + span[u[j]]
    <3> TAKE j \in 1 .. l - 1
    <3>1. j \in 0 .. l - 1 /\ j - 1 \in 0 .. l - 1 /\ j \in 1 .. l BY <1>1
    <3>2. acc[j] = acc[j - 1] + span[st[j]] /\ u[j] = st[j] /\ st[j] \in E
      BY <1>1, <1>3, <3>1, SeqShape DEF Stacked, l
    <3>3. span[st[j]] \in Nat BY <3>2 DEF Sizes
    <3>4. b[j] = acc[j] + 1 /\ b[j - 1] = acc[j - 1] + 1 /\ acc[j - 1] \in Nat
      BY <2>1, <3>1
    <3>5. QED
      <4> DEFINE x == acc[j - 1]
                 y == span[st[j]]
      <4>1. x \in Nat /\ y \in Nat /\ b[j] = x + y + 1 /\ b[j - 1] = x + 1 /\ span[u[j]] = y
        BY <3>2, <3>3, <3>4
      <4> HIDE DEF x, y
      <4>2. QED BY ONLY <4>1
  <2>6. QED BY <1>1, <2>3, <2>4, <2>5 DEF Budget
<1>8. \A j \in 1 .. l - 1 : j + height[u[j]] <= StackCapacity
  <2> TAKE j \in 1 .. l - 1
  <2>1. j \in 1 .. l BY <1>1
  <2>2. u[j] = st[j] BY <1>1
  <2>3. j + height[st[j]] <= StackCapacity BY <1>3, <2>1
  <2>4. QED BY <2>2, <2>3
<1>9. Stacked(u, v + 1, m - span[c] + 1, span, height, E)
  BY <1>1, <1>3, <1>7, <1>8 DEF Stacked
<1>10. Len(u) + 1 + height[c] <= StackCapacity
  <2>1. l + height[c] <= StackCapacity /\ Len(u) + 1 = l BY <1>1, <1>3
  <2>2. QED BY <2>1
<1>11. ASSUME NEW n, PendingAt(st, span, n) PROVE PendingAt(u, span, n) \/ Covers(c, span, n)
  <2>1. PICK j \in 1 .. l : Covers(st[j], span, n) BY <1>11 DEF PendingAt, l
  <2>2. CASE j = l
    BY <1>1, <2>1, <2>2
  <2>3. CASE j # l
    <3>1. j \in 1 .. Len(u) /\ u[j] = st[j] BY <1>1, <2>3
    <3>2. QED BY <2>1, <3>1 DEF PendingAt
  <2>4. QED BY <2>2, <2>3
<1>12. QED BY <1>1, <1>6, <1>9, <1>10, <1>11 DEF c, u, l

(* A child is pushed. *)
LEMMA StackPushes ==
  ASSUME NEW E, NEW span, NEW height, Sizes(span, height, E), NEW st, NEW v, NEW m \in Nat,
         Stacked(st, v, m, span, height, E), NEW c \in E,
         Len(st) + 1 + height[c] <= StackCapacity, NEW w, w = st \o << c >>
  PROVE  /\ Stacked(w, v, m + span[c], span, height, E) /\ Len(w) = Len(st) + 1
         /\ \A n : PendingAt(w, span, n) <=> PendingAt(st, span, n) \/ Covers(c, span, n)
<1> DEFINE l == Len(st)
<1>0. st \in Seq(E) /\ v \in Nat /\ l \in Nat BY SeqShape DEF Stacked
<1>1. /\ w \in Seq(E) /\ Len(w) = l + 1 /\ w[l + 1] = c /\ \A j \in 1 .. l : w[j] = st[j]
  BY <1>0, Pushed
<1>2. PICK acc : Budget(acc, st, v, span, m) BY DEF Stacked
<1>3. /\ acc[0] = v /\ acc[l] <= m
      /\ \A j \in 0 .. l : acc[j] \in Nat /\ v <= acc[j]
      /\ \A j \in 1 .. l : acc[j] = acc[j - 1] + span[st[j]]
      /\ \A j \in 1 .. l : j + height[st[j]] <= StackCapacity
  BY <1>2 DEF Budget, Stacked
<1> HIDE DEF l
<1>4. span[c] \in Nat /\ height[c] \in Nat BY DEF Sizes
<1> DEFINE b == [j \in 0 .. l + 1 |-> IF j = l + 1 THEN acc[l] + span[c] ELSE acc[j]]
<1>5. Budget(b, w, v, span, m + span[c])
  <2>1. b[l + 1] = acc[l] + span[c] /\ \A j \in 0 .. l : b[j] = acc[j] BY <1>0
  <2> HIDE DEF b
  <2>2. acc[l] \in Nat /\ v <= acc[l] /\ acc[l] <= m BY <1>0, <1>3
  <2>3. b[0] = v /\ b[l + 1] <= m + span[c] BY <1>0, <1>3, <1>4, <2>1, <2>2
  <2>4. \A j \in 0 .. l + 1 : b[j] \in Nat /\ v <= b[j]
    <3> TAKE j \in 0 .. l + 1
    <3>1. CASE j = l + 1
      BY <1>0, <1>4, <2>1, <2>2, <3>1
    <3>2. CASE j # l + 1
      <4>1. j \in 0 .. l BY <1>0, <3>2
      <4>2. b[j] = acc[j] /\ acc[j] \in Nat /\ v <= acc[j] BY <1>3, <2>1, <4>1
      <4>3. QED BY ONLY <4>2
    <3>3. QED BY <3>1, <3>2
  <2>5. \A j \in 1 .. l + 1 : b[j] = b[j - 1] + span[w[j]]
    <3> TAKE j \in 1 .. l + 1
    <3>1. CASE j = l + 1
      <4>1. j - 1 = l /\ l \in 0 .. l BY <1>0, <3>1
      <4>2. b[j] = acc[l] + span[c] /\ b[j - 1] = acc[l] /\ w[j] = c
        BY <1>1, <2>1, <3>1, <4>1
      <4>3. QED BY <4>2
    <3>2. CASE j # l + 1
      <4>1. j \in 1 .. l /\ j \in 0 .. l /\ j - 1 \in 0 .. l BY <1>0, <3>2
      <4>2. b[j] = acc[j] /\ b[j - 1] = acc[j - 1] /\ w[j] = st[j]
        BY <1>1, <2>1, <4>1
      <4>3. acc[j] = acc[j - 1] + span[st[j]] BY <1>3, <4>1
      <4>4. QED BY <4>2, <4>3
    <3>3. QED BY <3>1, <3>2
  <2>6. QED BY <1>1, <2>3, <2>4, <2>5 DEF Budget
<1>6. \A j \in 1 .. l + 1 : j + height[w[j]] <= StackCapacity
  <2> TAKE j \in 1 .. l + 1
  <2>1. CASE j = l + 1
    BY <1>1, <2>1 DEF l
  <2>2. CASE j # l + 1
    BY <1>0, <1>1, <1>3, <2>2
  <2>3. QED BY <2>1, <2>2
<1>7. Stacked(w, v, m + span[c], span, height, E)
  BY <1>0, <1>1, <1>5, <1>6 DEF Stacked
<1>8. ASSUME NEW n
      PROVE  PendingAt(w, span, n) <=> PendingAt(st, span, n) \/ Covers(c, span, n)
  <2>1. ASSUME PendingAt(w, span, n) PROVE PendingAt(st, span, n) \/ Covers(c, span, n)
    <3>1. PICK j \in 1 .. l + 1 : Covers(w[j], span, n)
      BY <1>1, <2>1 DEF PendingAt
    <3>2. CASE j = l + 1
      BY <1>1, <3>1, <3>2
    <3>3. CASE j # l + 1
      <4>1. j \in 1 .. l /\ w[j] = st[j] BY <1>0, <1>1, <3>3
      <4>2. QED BY <3>1, <4>1 DEF PendingAt, l
    <3>4. QED BY <3>2, <3>3
  <2>2. ASSUME PendingAt(st, span, n) PROVE PendingAt(w, span, n)
    <3>1. PICK j \in 1 .. l : Covers(st[j], span, n) BY <2>2 DEF PendingAt, l
    <3>2. j \in 1 .. l + 1 /\ w[j] = st[j] BY <1>0, <1>1
    <3>3. QED BY <1>1, <3>1, <3>2 DEF PendingAt
  <2>3. ASSUME Covers(c, span, n) PROVE PendingAt(w, span, n)
    <3>1. l + 1 \in 1 .. Len(w) BY <1>0, <1>1
    <3>2. QED BY <1>1, <2>3, <3>1 DEF PendingAt
  <2>4. QED BY <2>1, <2>2, <2>3
<1>9. QED BY <1>1, <1>7, <1>8 DEF l

(* A larger budget. *)
LEMMA StackRoom ==
  ASSUME NEW st, NEW v, NEW m \in Nat, NEW span, NEW height, NEW E,
         Stacked(st, v, m, span, height, E), NEW M \in Nat, m <= M
  PROVE  Stacked(st, v, M, span, height, E)
<1>1. PICK acc : Budget(acc, st, v, span, m) BY DEF Stacked
<1>2. st \in Seq(E) /\ Len(st) \in Nat BY SeqShape DEF Stacked
<1>3. acc[Len(st)] \in Nat /\ acc[Len(st)] <= m BY <1>1, <1>2 DEF Budget
<1>4. acc[Len(st)] <= M BY <1>3
<1>5. Budget(acc, st, v, span, M) BY <1>1, <1>4 DEF Budget
<1>6. QED BY <1>5 DEF Stacked

(* A child is pushed if the ray meets it. *)
hit_child(c, H) == IF c \in H THEN << c >> ELSE << >>

(* One child or none. *)
LEMMA PushesIf ==
  ASSUME NEW E, NEW span, NEW height, Sizes(span, height, E), NEW st, NEW v, NEW m \in Nat,
         Stacked(st, v, m, span, height, E), NEW c \in E, NEW H,
         Len(st) + 1 + height[c] <= StackCapacity, NEW w, w = st \o hit_child(c, H)
  PROVE  /\ Stacked(w, v, m + span[c], span, height, E)
         /\ Len(w) \in Nat /\ Len(w) <= Len(st) + 1
         /\ \A n : PendingAt(w, span, n) <=> PendingAt(st, span, n) \/ (c \in H /\ Covers(c, span, n))
<1>1. st \in Seq(E) /\ Len(st) \in Nat BY SeqShape DEF Stacked
<1>2. CASE c \in H
  <2>1. w = st \o << c >> BY <1>2 DEF hit_child
  <2>2. /\ Stacked(w, v, m + span[c], span, height, E) /\ Len(w) = Len(st) + 1
        /\ \A n : PendingAt(w, span, n) <=> PendingAt(st, span, n) \/ Covers(c, span, n)
    BY <2>1, StackPushes
  <2>3. QED BY <1>1, <1>2, <2>2
<1>3. CASE c \notin H
  <2>1. w = st
    <3>1. hit_child(c, H) = << >> BY <1>3 DEF hit_child
    <3>2. st \o << >> = st BY <1>1, ConcatEmptySeq
    <3>3. QED BY <3>1, <3>2
  <2>2. m + span[c] \in Nat /\ m <= m + span[c] BY DEF Sizes
  <2>3. QED BY <1>1, <1>3, <2>1, <2>2, StackRoom
<1>4. QED BY <1>2, <1>3

(* Both, the farther first. *)
both_children(st, c, d, H) == st \o (hit_child(c, H) \o hit_child(d, H))

(* Room for a child and its levels, after its sibling. *)
HasRoom(st, c, height) == Len(st) + 2 + height[c] <= StackCapacity

(* Two children, one or none. *)
LEMMA PushesBoth ==
  ASSUME NEW E, NEW span, NEW height, Sizes(span, height, E), StackCapacity \in Nat,
         NEW st, NEW v, NEW m \in Nat,
         Stacked(st, v, m, span, height, E), NEW c \in E, NEW d \in E,
         NEW H,
         HasRoom(st, c, height), HasRoom(st, d, height),
         NEW w, w = both_children(st, c, d, H)
  PROVE  /\ Stacked(w, v, m + span[c] + span[d], span, height, E)
         /\ Len(w) <= StackCapacity
         /\ \A n : PendingAt(w, span, n) <=>
                      \/ PendingAt(st, span, n)
                      \/ c \in H /\ Covers(c, span, n)
                      \/ d \in H /\ Covers(d, span, n)
<1> DEFINE x == hit_child(c, H)
           y == hit_child(d, H)
           u == st \o x
<1>1. st \in Seq(E) /\ Len(st) \in Nat /\ x \in Seq(E) /\ y \in Seq(E)
  BY SeqShape DEF Stacked, hit_child
<1>2. /\ span[c] \in Nat /\ span[d] \in Nat /\ height[c] \in Nat /\ height[d] \in Nat
  BY DEF Sizes
<1> HIDE DEF x, y
<1>3. w = u \o y
  <2>1. st \o (x \o y) = (st \o x) \o y BY ONLY <1>1, ConcatAssociative
  <2>2. QED BY <2>1 DEF x, y, both_children
<1>4. Len(st) + 1 + height[c] <= StackCapacity /\ Len(st) + 2 <= StackCapacity
  BY <1>1, <1>2 DEF HasRoom
<1>5. /\ Stacked(u, v, m + span[c], span, height, E)
      /\ Len(u) \in Nat /\ Len(u) <= Len(st) + 1
      /\ \A n : PendingAt(u, span, n) <=> PendingAt(st, span, n) \/ (c \in H /\ Covers(c, span, n))
  BY <1>4, PushesIf DEF x
<1> HIDE DEF u
<1>6. m + span[c] \in Nat /\ Len(u) + 1 + height[d] <= StackCapacity
  BY SMTT(20), <1>1, <1>2, <1>5 DEF HasRoom
<1>7. /\ Stacked(w, v, m + span[c] + span[d], span, height, E)
      /\ Len(w) \in Nat /\ Len(w) <= Len(u) + 1
      /\ \A n : PendingAt(w, span, n) <=> PendingAt(u, span, n) \/ (d \in H /\ Covers(d, span, n))
  BY <1>3, <1>5, <1>6, PushesIf DEF y
<1>8. QED BY <1>1, <1>4, <1>5, <1>7

------------------------------------------------------
(* A traversal under way: an item of the tree has a leaf below a node of the
   stack, or is done with. *)
Pends(nodes, refs, k, o, span, st, x) ==
    \E n \in Leaves(nodes, k, o) :
        /\ nodes[n].bounds = x.bounds /\ refs[nodes[n].reference_offset] = x.payload
        /\ PendingAt(st, span, n)

Walks(t, nodes, refs, S, k, o, r, P, span, height) ==
    /\ Hangs(nodes, refs, S, k, o, r, span, height) /\ height[o + 1] <= Depth
    /\ Stacked(t.stack, t.visited, 2 * k - 1, span, height, Extent(k, o))
    /\ \A x \in S : Pends(nodes, refs, k, o, span, t.stack, x) \/ x \in P

Going(t, nodes, refs, S, k, o, r, P) ==
    \E span, height : Walks(t, nodes, refs, S, k, o, r, P, span, height)

(* The numbers of a tree. *)
LEMMA HungSizes ==
  ASSUME NEW nodes, NEW refs, NEW S, NEW k, NEW o, NEW r, NEW span, NEW height,
         Hangs(nodes, refs, S, k, o, r, span, height)
  PROVE  /\ k \in Nat \ {0} /\ o \in Nat /\ 2 * k - 1 \in Nat \ {0} /\ r \in Nat
         /\ Sizes(span, height, Extent(k, o))
         /\ o + 1 \in Extent(k, o) /\ Extent(k, o) \subseteq Nat
         /\ \A n \in Extent(k, o) : nodes[n].bounds \in Box
         /\ \A n, m \in Extent(k, o) : Covers(n, span, m) => Encloses(nodes[n].bounds, nodes[m].bounds)
<1>1. /\ k \in Nat \ {0} /\ o \in Nat /\ r \in Nat
      /\ \A n \in Extent(k, o) : span[n] \in Nat \ {0} /\ height[n] \in Nat /\ nodes[n].bounds \in Box
      /\ Nested(nodes, k, o, span)
  BY DEF Hangs, Sized
<1>2. o + 1 \in Extent(k, o) /\ Extent(k, o) \subseteq Nat /\ 2 * k - 1 \in Nat \ {0}
  BY <1>1 DEF Extent
<1>3. QED BY <1>1, <1>2 DEF Sizes, Covers, Nested

(* A traversal starts at its root with everything pending. *)
LEMMA GoStart ==
  ASSUME NEW nodes, NEW refs, NEW S, NEW k, NEW o, NEW r, StackCapacity \in Nat \ {0},
         Hung(nodes, refs, S, k, o, r, Depth), NEW t, NEW root, root = o + 1,
         t.stack = << root >>, t.visited = 0
  PROVE  Going(t, nodes, refs, S, k, o, r, {})
<1>1. PICK span, height : Hangs(nodes, refs, S, k, o, r, span, height) /\ height[o + 1] <= Depth
  BY DEF Hung
<1> DEFINE E == Extent(k, o)
           st == << root >>
           N == 2 * k - 1
<1>2. /\ k \in Nat \ {0} /\ o \in Nat /\ N \in Nat \ {0} /\ Sizes(span, height, E)
      /\ root \in E /\ span[root] = N /\ height[root] \in Nat /\ height[root] <= StackCapacity - 1
  <2>1. span[o + 1] = N BY <1>1 DEF Hangs, Sized
  <2>2. QED BY <1>1, <2>1, HungSizes DEF Depth, Sizes
<1>3. st \in Seq(E) /\ Len(st) = 1 /\ st[1] = root BY <1>2
<1> DEFINE acc == [j \in 0 .. 1 |-> IF j = 0 THEN 0 ELSE N]
<1> HIDE DEF st
<1>4. Budget(acc, st, 0, span, N)
  <2> DEFINE n == N
  <2>1. n \in Nat /\ span[root] = n BY <1>2
  <2> HIDE DEF n
  <2>2. acc[0] = 0 /\ acc[1] = n BY DEF n
  <2> HIDE DEF acc
  <2>3. \A j \in 0 .. 1 : acc[j] \in Nat /\ 0 <= acc[j] BY <2>1, <2>2
  <2>4. \A j \in 1 .. 1 : acc[j] = acc[j - 1] + span[st[j]] BY <1>3, <2>1, <2>2
  <2>5. acc[1] <= n BY <2>1, <2>2
  <2>6. QED BY <1>3, <2>2, <2>3, <2>4, <2>5 DEF Budget, n
<1>5. Stacked(st, 0, N, span, height, E)
  <2>1. \A j \in 1 .. 1 : j + height[st[j]] <= StackCapacity BY <1>2, <1>3
  <2>2. QED BY <1>3, <1>4, <2>1 DEF Stacked
<1>6. ASSUME NEW x \in S PROVE Pends(nodes, refs, k, o, span, st, x)
  <2>1. PICK n \in Leaves(nodes, k, o) :
            nodes[n].bounds = x.bounds /\ refs[nodes[n].reference_offset] = x.payload
    BY <1>1 DEF Hangs, Referenced
  <2>2. n \in E BY DEF Leaves
  <2>3. root <= n /\ n < root + span[root] BY <1>2, <2>2 DEF Extent
  <2>4. PendingAt(st, span, n) BY <1>3, <2>3 DEF PendingAt, Covers
  <2>5. QED BY <2>1, <2>4 DEF Pends
<1>7. QED BY <1>1, <1>5, <1>6 DEF Going, Walks, st

(* None of the device's checks stops at the top of the stack. *)
LEMMA GoChecks ==
  ASSUME NEW nodes, NEW refs, NEW S, NEW k, NEW o, NEW r, NEW P, NEW t,
         Going(t, nodes, refs, S, k, o, r, P), t.stack # << >>,
         NEW shift, NEW first, first = o + 1, NEW count, count = 2 * k - 1
  PROVE  ~refuses(t, nodes, first, count, shift)
<1>1. PICK span, height : Walks(t, nodes, refs, S, k, o, r, P, span, height)
  BY DEF Going
<1> DEFINE c == Last(t.stack)
           E == Extent(k, o)
<1>2. /\ k \in Nat \ {0} /\ o \in Nat /\ count \in Nat /\ Sizes(span, height, E)
  BY <1>1, HungSizes DEF Walks
<1>3. c \in E /\ t.visited < count BY <1>1, <1>2, StackPops DEF Walks
<1>4. E = first .. first + count - 1 BY <1>2 DEF Extent
<1>5. t.visited \in Nat /\ ~(t.visited >= count)
  BY <1>1, <1>2, <1>3 DEF Walks, Stacked
<1>6. ASSUME ~is_leaf(t, nodes) PROVE ~bad_children(nodes[c], first, count)
  <2>1. IsBranch(nodes, k, o, span, height, c)
    BY <1>1, <1>3, <1>6 DEF Walks, Hangs, IsLeaf, is_leaf, Last
  <2> DEFINE f == nodes[c].first_child
             s == nodes[c].second_child
  <2>2. /\ f = c + 1 /\ s = c + 1 + span[c + 1] /\ f \in E /\ s \in E
        /\ nodes[c].kind # "leaf"
    BY <2>1 DEF IsBranch
  <2>3. f # s BY <1>2, <1>3, <2>2 DEF Sizes, Extent
  <2> HIDE DEF f, s
  <2>4. << f, s >> \in Seq(E) BY <2>2
  <2>5. ToSet(<< f, s >>) \subseteq E
    <3> DEFINE q == << f, s >>
    <3>1. q \in Seq(E) BY <2>4
    <3> HIDE DEF q
    <3>2. ToSet(q) \subseteq E BY <3>1, SeqShape
    <3>3. QED BY <3>2 DEF q
  <2>6. children(nodes[c]) = << f, s >> BY <2>2 DEF children, f, s
  <2>7. QED BY <1>4, <2>3, <2>5, <2>6 DEF bad_children, f, s, ToSet
<1>7. QED BY <1>3, <1>4, <1>5, <1>6 DEF refuses, Last

(* No more than the stack holds. *)
LEMMA GoFits ==
  ASSUME NEW nodes, NEW refs, NEW S, NEW k, NEW o, NEW r, NEW P, NEW t,
         Going(t, nodes, refs, S, k, o, r, P), StackCapacity \in Nat
  PROVE  Len(t.stack) <= StackCapacity
<1>1. PICK span, height : Walks(t, nodes, refs, S, k, o, r, P, span, height)
  BY DEF Going
<1> DEFINE E == Extent(k, o)
           st == t.stack
<1>2. /\ st \in Seq(E) /\ Sizes(span, height, E)
      /\ \A j \in 1 .. Len(st) : j + height[st[j]] <= StackCapacity
  BY <1>1, HungSizes DEF Walks, Stacked
<1> HIDE DEF st
<1>3. Len(st) \in Nat BY <1>2, SeqShape
<1>4. CASE Len(st) = 0
  BY <1>4 DEF st
<1>5. CASE Len(st) # 0
  <2>1. Len(st) \in 1 .. Len(st) BY <1>3, <1>5
  <2>2. st[Len(st)] \in E BY <1>2, <2>1, SeqShape
  <2>3. height[st[Len(st)]] \in Nat BY <1>2, <2>2 DEF Sizes
  <2>4. Len(st) + height[st[Len(st)]] <= StackCapacity BY <1>2, <2>1
  <2>5. Len(st) <= StackCapacity BY <1>3, <2>3, <2>4
  <2>6. QED BY <2>5 DEF st
<1>6. QED BY <1>4, <1>5

(* The items a missed box encloses. *)
Missed(nodes, S, k, o, shift) ==
    {x \in S : \E d \in Extent(k, o) : /\ ~intersects(nodes[d].bounds, shift)
                                      /\ Encloses(nodes[d].bounds, x.bounds)
                                      /\ nodes[d].bounds \in Box /\ x.bounds \in Box}

(* An inner node is opened: its items pend below its children, or are missed. *)
LEMMA GoOpen ==
  ASSUME NEW nodes, NEW refs, NEW S, NEW k, NEW o, NEW r, NEW P, NEW t,
         Going(t, nodes, refs, S, k, o, r, P), t.stack # << >>, StackCapacity \in Nat,
         NEW shift, ~is_leaf(t, nodes)
  PROVE  /\ Len(opened(t, nodes, shift)) <= StackCapacity
         /\ Going(visited(t, opened(t, nodes, shift)), nodes, refs, S, k, o, r,
                  P \cup Missed(nodes, S, k, o, shift))
<1>1. PICK span, height : Walks(t, nodes, refs, S, k, o, r, P, span, height)
  BY DEF Going
<1> DEFINE E == Extent(k, o)
           N == 2 * k - 1
           v == t.visited
           c == Last(t.stack)
           rest == Front(t.stack)
           w == opened(t, nodes, shift)
           Q == P \cup Missed(nodes, S, k, o, shift)
           M == N - span[c] + 1
<1>2. /\ Hangs(nodes, refs, S, k, o, r, span, height) /\ height[o + 1] <= Depth
      /\ Stacked(t.stack, v, N, span, height, E)
      /\ \A x \in S : Pends(nodes, refs, k, o, span, t.stack, x) \/ x \in P
  BY <1>1 DEF Walks
<1>3. /\ k \in Nat \ {0} /\ o \in Nat /\ N \in Nat /\ Sizes(span, height, E)
      /\ E \subseteq Nat
      /\ \A n \in E : nodes[n].bounds \in Box
      /\ \A n, m \in E : Covers(n, span, m) => Encloses(nodes[n].bounds, nodes[m].bounds)
  BY <1>2, HungSizes
<1> HIDE DEF E, N
<1>4. /\ c \in E /\ v + span[c] <= N
      /\ Stacked(rest, v + 1, M, span, height, E)
      /\ Len(rest) + 1 + height[c] <= StackCapacity
      /\ \A n : PendingAt(t.stack, span, n) => PendingAt(rest, span, n) \/ Covers(c, span, n)
  BY <1>2, <1>3, StackPops
<1>5. v \in Nat /\ span[c] \in Nat \ {0} /\ height[c] \in Nat /\ Len(rest) \in Nat
  <2>1. v \in Nat /\ rest \in Seq(E) BY <1>2, <1>4 DEF Stacked
  <2>2. QED BY <1>3, <1>4, <2>1, SeqShape DEF Sizes
<1>6. M \in Nat /\ M <= N
  <2> DEFINE a == span[c]
  <2>1. a \in Nat \ {0} /\ v \in Nat /\ N \in Nat /\ v + a <= N
    BY <1>3, <1>4, <1>5
  <2> HIDE DEF a, v
  <2>2. N - a + 1 \in Nat /\ N - a + 1 <= N BY ONLY <2>1
  <2>3. QED BY <2>2 DEF a
<1>7. IsBranch(nodes, k, o, span, height, c)
  BY <1>2, <1>4 DEF Hangs, IsLeaf, is_leaf, E, Last
<1> DEFINE f == c + 1
           s == c + 1 + span[c + 1]
<1>8. /\ nodes[c].first_child = f /\ nodes[c].second_child = s
      /\ f \in E /\ s \in E /\ span[c] = 1 + span[f] + span[s]
      /\ height[f] < height[c] /\ height[s] < height[c]
  BY <1>7 DEF IsBranch, E
<1>9. /\ span[f] \in Nat \ {0} /\ span[s] \in Nat \ {0}
      /\ height[f] \in Nat /\ height[s] \in Nat
  BY <1>3, <1>8 DEF Sizes
<1>10. \A n : Covers(c, span, n) /\ n \in E => n = c \/ Covers(f, span, n) \/ Covers(s, span, n)
  <2> DEFINE a == span[c + 1]
             b == span[s]
  <2>1. c \in Nat /\ a \in Nat /\ b \in Nat /\ span[c] = 1 + a + b
    BY <1>3, <1>4, <1>8, <1>9
  <2>2. s = c + 1 + a /\ f = c + 1 OBVIOUS
  <2>3. span[f] = a /\ span[s] = b OBVIOUS
  <2> HIDE DEF f, s, a, b
  <2>4. ASSUME NEW n \in Nat, c <= n, n < c + span[c]
        PROVE  n = c \/ (f <= n /\ n < f + a) \/ (s <= n /\ n < s + b)
    BY ONLY <2>1, <2>2, <2>4
  <2>5. QED BY <1>3, <2>3, <2>4 DEF Covers
<1> DEFINE H == {d \in E : intersects(nodes[d].bounds, shift)}
<1>11. \A d \in E : d \notin H => ~intersects(nodes[d].bounds, shift) OBVIOUS
<1> HIDE DEF f, s, H
(* An item below the node pends on a child that is hit, or is missed.     *)
<1>12. ASSUME NEW st,
              \A n : PendingAt(st, span, n) <=>
                        \/ PendingAt(rest, span, n)
                        \/ c \in H /\ f \in H /\ Covers(f, span, n)
                        \/ c \in H /\ s \in H /\ Covers(s, span, n),
              NEW x \in S
       PROVE  Pends(nodes, refs, k, o, span, st, x) \/ x \in Q
  <2>1. CASE x \in P
    BY <2>1
  <2>2. CASE Pends(nodes, refs, k, o, span, t.stack, x)
    <3>1. PICK n \in Leaves(nodes, k, o) :
              /\ nodes[n].bounds = x.bounds /\ refs[nodes[n].reference_offset] = x.payload
              /\ PendingAt(t.stack, span, n)
      BY <2>2 DEF Pends
    <3>2. n \in E /\ n # c BY DEF Leaves, E, is_leaf, Last
    <3>3. CASE PendingAt(st, span, n)
      BY <3>1, <3>3 DEF Pends
    <3>4. CASE ~PendingAt(st, span, n)
      <4>1. Covers(c, span, n) BY <1>4, <1>12, <3>1, <3>4
      <4>2. PICK d \in {c, f, s} : Covers(d, span, n) /\ d \notin H
        BY <1>10, <1>12, <3>2, <3>4, <4>1
      <4>3. d \in E /\ ~intersects(nodes[d].bounds, shift)
        BY <1>4, <1>8, <1>11, <4>2
      <4>4. Encloses(nodes[d].bounds, x.bounds) /\ nodes[d].bounds \in Box /\ x.bounds \in Box
        BY <1>3, <3>1, <3>2, <4>2, <4>3
      <4>5. QED BY <4>3, <4>4 DEF Missed, E
    <3>5. QED BY <3>3, <3>4
  <2>3. QED BY <1>2, <2>1, <2>2
<1>13. /\ Stacked(w, v + 1, N, span, height, E) /\ Len(w) <= StackCapacity
       /\ \A n : PendingAt(w, span, n) <=>
                    \/ PendingAt(rest, span, n)
                    \/ c \in H /\ f \in H /\ Covers(f, span, n)
                    \/ c \in H /\ s \in H /\ Covers(s, span, n)
  <2>1. CASE c \notin H
    <3>1. w = rest BY <1>4, <1>11, <2>1 DEF opened, Last, Front
    <3>2. Stacked(rest, v + 1, N, span, height, E)
      BY <1>3, <1>4, <1>6, StackRoom
    <3>3. Len(rest) <= StackCapacity BY <1>4, <1>5
    <3>4. QED BY <2>1, <3>1, <3>2, <3>3
  <2>2. CASE c \in H
    <3>1. HasRoom(rest, f, height) /\ HasRoom(rest, s, height)
      BY SMTT(20), <1>4, <1>5, <1>8, <1>9 DEF HasRoom
    <3>2. M + span[f] + span[s] = N /\ M + span[s] + span[f] = N
      <4> DEFINE a == span[f]
                 b == span[s]
                 n == N
      <4>1. a \in Nat /\ b \in Nat /\ n \in Nat /\ span[c] = 1 + a + b /\ M = n - span[c] + 1
        BY <1>3, <1>8, <1>9
      <4> HIDE DEF a, b, n, M
      <4>2. M + a + b = n /\ M + b + a = n BY ONLY <4>1
      <4>3. QED BY <4>2 DEF a, b, n
    <3>3. \/ w = both_children(rest, s, f, H)
          \/ w = both_children(rest, f, s, H)
      BY <1>4, <1>8, <2>2 DEF opened, push_intersecting_children, both_children, hit_child, H,
        Last, Front
    <3> DEFINE v1 == v + 1
    <3>20. Stacked(rest, v1, M, span, height, E) BY <1>4
    <3> HIDE DEF H, w, M, rest, v, v1
    <3>4. CASE w = both_children(rest, s, f, H)
      <4>1. /\ Stacked(w, v1, M + span[s] + span[f], span, height, E)
            /\ Len(w) <= StackCapacity
            /\ \A n : PendingAt(w, span, n) <=>
                         \/ PendingAt(rest, span, n)
                         \/ s \in H /\ Covers(s, span, n)
                         \/ f \in H /\ Covers(f, span, n)
        BY SMTT(20), <1>3, <1>6, <1>8, <3>1, <3>4, <3>20, PushesBoth
      <4>2. QED BY <2>2, <3>2, <4>1 DEF v1
    <3>5. CASE w = both_children(rest, f, s, H)
      <4>1. /\ Stacked(w, v1, M + span[f] + span[s], span, height, E)
            /\ Len(w) <= StackCapacity
            /\ \A n : PendingAt(w, span, n) <=>
                         \/ PendingAt(rest, span, n)
                         \/ f \in H /\ Covers(f, span, n)
                         \/ s \in H /\ Covers(s, span, n)
        BY SMTT(20), <1>3, <1>6, <1>8, <3>1, <3>5, <3>20, PushesBoth
      <4>2. QED BY <2>2, <3>2, <4>1 DEF v1
    <3>6. QED BY <3>3, <3>4, <3>5
  <2>3. QED BY <2>1, <2>2
<1> HIDE DEF w, rest, H, Q
<1>14. \A x \in S : Pends(nodes, refs, k, o, span, w, x) \/ x \in Q
  BY <1>12, <1>13
<1>15. visited(t, w).stack = w /\ visited(t, w).visited = v + 1 BY DEF visited
<1> DEFINE z == visited(t, w)
<1> HIDE DEF z
<1>16. Walks(z, nodes, refs, S, k, o, r, Q, span, height)
  BY <1>2, <1>13, <1>14, <1>15 DEF Walks, z, N, E
<1>17. QED BY <1>13, <1>16 DEF Going, z, w, Q

(* The items of a leaf. *)
Held(nodes, refs, S, n) ==
    {x \in S : nodes[n].bounds = x.bounds /\ refs[nodes[n].reference_offset] = x.payload}

(* A leaf is visited: its items are done with. *)
LEMMA GoPop ==
  ASSUME NEW nodes, NEW refs, NEW S, NEW k, NEW o, NEW r, NEW P, NEW t,
         Going(t, nodes, refs, S, k, o, r, P), t.stack # << >>, is_leaf(t, nodes)
  PROVE  LET c == Last(t.stack) IN
         /\ Going(visited(t, Front(t.stack)), nodes, refs, S, k, o, r,
                  P \cup Held(nodes, refs, S, c))
         /\ nodes[c].reference_offset \in r + 1 .. r + k
         /\ nodes[c].bounds \in Box
         /\ Held(nodes, refs, S, c) # {}
<1>1. PICK span, height : Walks(t, nodes, refs, S, k, o, r, P, span, height)
  BY DEF Going
<1> DEFINE E == Extent(k, o)
           N == 2 * k - 1
           v == t.visited
           c == Last(t.stack)
           rest == Front(t.stack)
           Q == P \cup Held(nodes, refs, S, c)
<1>2. /\ Hangs(nodes, refs, S, k, o, r, span, height) /\ height[o + 1] <= Depth
      /\ Stacked(t.stack, v, N, span, height, E)
      /\ \A x \in S : Pends(nodes, refs, k, o, span, t.stack, x) \/ x \in P
  BY <1>1 DEF Walks
<1>3. /\ N \in Nat /\ Sizes(span, height, E) /\ E \subseteq Nat
      /\ \A n \in E : nodes[n].bounds \in Box
  BY <1>2, HungSizes
<1> HIDE DEF E, N
<1>4. /\ c \in E /\ Stacked(rest, v + 1, N - span[c] + 1, span, height, E)
      /\ \A n : PendingAt(t.stack, span, n) => PendingAt(rest, span, n) \/ Covers(c, span, n)
  BY <1>2, <1>3, StackPops
<1>5. IsLeaf(nodes, refs, S, k, r, span, c)
  BY <1>2, <1>4 DEF Hangs, IsBranch, is_leaf, E, Last
<1>6. span[c] = 1 /\ N - span[c] + 1 = N BY <1>3, <1>5 DEF IsLeaf
<1>7. ASSUME NEW x \in S PROVE Pends(nodes, refs, k, o, span, rest, x) \/ x \in Q
  <2>1. CASE x \in P
    BY <2>1
  <2>2. CASE Pends(nodes, refs, k, o, span, t.stack, x)
    <3>1. PICK n \in Leaves(nodes, k, o) :
              /\ nodes[n].bounds = x.bounds /\ refs[nodes[n].reference_offset] = x.payload
              /\ PendingAt(t.stack, span, n)
      BY <2>2 DEF Pends
    <3>2. CASE PendingAt(rest, span, n)
      BY <3>1, <3>2 DEF Pends
    <3>3. CASE Covers(c, span, n)
      <4>1. n \in E BY DEF Leaves, E
      <4>2. n = c
        <5>1. n \in Nat /\ c \in Nat /\ c <= n /\ n < c + 1
          BY <1>3, <1>4, <1>6, <3>3, <4>1 DEF Covers
        <5> HIDE DEF c
        <5>2. QED BY ONLY <5>1
      <4>3. QED BY <3>1, <4>2 DEF Held
    <3>4. QED BY <1>4, <3>1, <3>2, <3>3
  <2>3. QED BY <1>2, <2>1, <2>2
<1> DEFINE z == visited(t, rest)
<1>8. z.stack = rest /\ z.visited = v + 1 BY DEF visited
<1> HIDE DEF z, rest, Q
<1>9. Walks(z, nodes, refs, S, k, o, r, Q, span, height)
  BY <1>2, <1>4, <1>6, <1>7, <1>8 DEF Walks, N, E
<1>10. Going(z, nodes, refs, S, k, o, r, Q) BY <1>9 DEF Going
<1>11. nodes[c].reference_offset \in r + 1 .. r + k /\ Held(nodes, refs, S, c) # {}
  BY <1>5 DEF IsLeaf, Held
<1>12. QED BY <1>3, <1>4, <1>10, <1>11 DEF z, rest, Q

(* Nothing left on the stack. *)
LEMMA GoEnd ==
  ASSUME NEW nodes, NEW refs, NEW S, NEW k, NEW o, NEW r, NEW P, NEW t,
         Going(t, nodes, refs, S, k, o, r, P), t.stack = << >>
  PROVE  S \subseteq P
<1>1. PICK span, height : Walks(t, nodes, refs, S, k, o, r, P, span, height)
  BY DEF Going
<1>2. ASSUME NEW x \in S PROVE ~Pends(nodes, refs, k, o, span, t.stack, x)
  BY DEF Pends, PendingAt
<1>3. QED BY <1>1, <1>2 DEF Walks

(* What is done with stays done with. *)
LEMMA GoMore ==
  ASSUME NEW nodes, NEW refs, NEW S, NEW k, NEW o, NEW r, NEW P, NEW t,
         Going(t, nodes, refs, S, k, o, r, P), NEW Q, \A x \in S : x \in P => x \in Q
  PROVE  Going(t, nodes, refs, S, k, o, r, Q)
<1>1. PICK span, height : Walks(t, nodes, refs, S, k, o, r, P, span, height)
  BY DEF Going
<1>2. Walks(t, nodes, refs, S, k, o, r, Q, span, height) BY <1>1 DEF Walks
<1>3. QED BY <1>2 DEF Going

------------------------------------------------------
(* What the ray meets. *)
geometry_of(i) == launched.geometries[launched.instances[i].geometry]

ParameterOf(i, t) == parameter(geometry_of(i)[t], launched.instances[i].shift)

IsHit(i, t) ==
    /\ i \in 1 .. Len(launched.instances) /\ launched.instances[i].visible
    /\ t \in 1 .. Len(geometry_of(i)) /\ geometry_of(i)[t].at # None
    /\ ParameterOf(i, t) \in ray.t_min .. ray.t_max

HitOf(i, t) == << ParameterOf(i, t), i, t >>

(* A triangle lies in its box, where a ray meets it. *)
MeetsInside ==
    \A g \in 1 .. Len(launched.geometries) : \A t \in 1 .. Len(launched.geometries[g]) :
        LET triangle == launched.geometries[g][t] IN
        triangle.at # None =>
            /\ triangle.minimum[1] <= triangle.at /\ triangle.at <= triangle.maximum[1]
            /\ triangle.minimum[2] <= ray.origin[2] /\ ray.origin[2] <= triangle.maximum[2]

(* Some levels fit. *)
Capacity == StackCapacity \in Nat \ {0} /\ Depth \in Nat

(* What the launch is given, and what the builder made of it. *)
InputInv ==
    /\ Capacity /\ None \notin Int
    /\ None \notin [instance_id : Nat, blas_index : Nat, visible : BOOLEAN]
    /\ ValidScene(launched) /\ MeetsInside
    /\ ray \in [origin : [Axis -> Int], direction : {-1, 1}, t_min : Int, t_max : Int]
    /\ kernel \in {"closest", "occlusion"}
    /\ HungScene(bvh, launched)

(* The sequences of a scene. *)
LEMMA SceneShapes ==
  ASSUME NEW s, ValidScene(s)
  PROVE  /\ Len(s.instances) \in Nat /\ DOMAIN s.instances = 1 .. Len(s.instances)
         /\ Len(s.geometries) \in Nat /\ DOMAIN s.geometries = 1 .. Len(s.geometries)
         /\ \A i \in 1 .. Len(s.instances) :
               /\ s.instances[i] \in PlacedInstance
               /\ s.instances[i].geometry \in 1 .. Len(s.geometries)
         /\ \A g \in 1 .. Len(s.geometries) :
               /\ s.geometries[g] \in Seq(Triangle) /\ s.geometries[g] # << >>
               /\ Len(s.geometries[g]) \in Nat \ {0}
               /\ DOMAIN s.geometries[g] = 1 .. Len(s.geometries[g])
               /\ \A t \in 1 .. Len(s.geometries[g]) : s.geometries[g][t] \in Triangle
<1>1. s.geometries \in Seq(Seq(Triangle)) /\ s.instances \in Seq(PlacedInstance)
  BY DEF ValidScene
<1>2. /\ Len(s.instances) \in Nat /\ DOMAIN s.instances = 1 .. Len(s.instances)
      /\ \A i \in 1 .. Len(s.instances) : s.instances[i] \in PlacedInstance
  BY <1>1, SeqShape
<1>3. /\ Len(s.geometries) \in Nat /\ DOMAIN s.geometries = 1 .. Len(s.geometries)
      /\ \A g \in 1 .. Len(s.geometries) : s.geometries[g] \in Seq(Triangle)
  BY <1>1, SeqShape
<1>4. ASSUME NEW g \in 1 .. Len(s.geometries)
      PROVE  /\ Len(s.geometries[g]) \in Nat \ {0}
             /\ DOMAIN s.geometries[g] = 1 .. Len(s.geometries[g])
             /\ \A t \in 1 .. Len(s.geometries[g]) : s.geometries[g][t] \in Triangle
  <2> DEFINE q == s.geometries[g]
  <2>1. q \in Seq(Triangle) /\ q # << >> BY <1>3 DEF ValidScene
  <2> HIDE DEF q
  <2>2. /\ Len(q) \in Nat /\ DOMAIN q = 1 .. Len(q)
        /\ \A t \in 1 .. Len(q) : q[t] \in Triangle
    BY <2>1, SeqShape
  <2>3. Len(q) # 0 BY <2>1, EmptySeq
  <2>4. QED BY <2>2, <2>3 DEF q
<1>5. QED BY <1>2, <1>3, <1>4 DEF ValidScene

(* One instance and one of its triangles. *)
LEMMA TriangleShape ==
  ASSUME InputInv, NEW i \in 1 .. Len(launched.instances)
  PROVE  /\ launched.instances[i] \in PlacedInstance /\ launched.instances[i].shift \in Int
         /\ launched.instances[i].visible \in BOOLEAN
         /\ launched.instances[i].geometry \in 1 .. Len(launched.geometries)
         /\ geometry_of(i) \in Seq(Triangle) /\ geometry_of(i) # << >>
         /\ Len(geometry_of(i)) \in Nat \ {0}
         /\ DOMAIN geometry_of(i) = 1 .. Len(geometry_of(i))
         /\ \A t \in 1 .. Len(geometry_of(i)) : geometry_of(i)[t] \in Triangle
<1>1. ValidScene(launched) BY DEF InputInv
<1>2. launched.instances[i] \in PlacedInstance /\ launched.instances[i].geometry \in 1 .. Len(launched.geometries)
  BY <1>1, SceneShapes
<1>3. launched.instances[i].shift \in Int /\ launched.instances[i].visible \in BOOLEAN
  BY <1>2 DEF PlacedInstance
<1>4. QED BY <1>1, <1>2, <1>3, SceneShapes DEF geometry_of

(* The numbers of a ray. *)
LEMMA RayShape ==
  ASSUME InputInv
  PROVE  /\ ray.origin[1] \in Int /\ ray.origin[2] \in Int /\ ray.direction \in {-1, 1}
         /\ ray.t_min \in Int /\ ray.t_max \in Int
         /\ \A shift : local_origin(shift)[1] = ray.origin[1] - shift
<1>1. ray.origin \in [Axis -> Int] /\ 1 \in Axis /\ 2 \in Axis
  BY DEF InputInv, Axis
<1>2. QED BY <1>1 DEF InputInv, local_origin

(* Where a ray meets a triangle. *)
LEMMA ParameterShape ==
  ASSUME InputInv, NEW i \in 1 .. Len(launched.instances), NEW t \in 1 .. Len(geometry_of(i)),
         geometry_of(i)[t].at # None
  PROVE  /\ geometry_of(i)[t].at \in Int
         /\ ParameterOf(i, t)
              = (geometry_of(i)[t].at + launched.instances[i].shift - ray.origin[1]) * ray.direction
         /\ ParameterOf(i, t) \in Int
<1> DEFINE a == geometry_of(i)[t].at
           d == launched.instances[i].shift
           o == ray.origin[1]
           z == ray.direction
<1>1. a \in Int /\ d \in Int BY TriangleShape DEF Triangle
<1>2. o \in Int /\ z \in {-1, 1} /\ local_origin(d)[1] = o - d BY RayShape
<1>3. ParameterOf(i, t) = (a - (o - d)) * z BY <1>2 DEF ParameterOf, parameter
<1> HIDE DEF a, d, o, z
<1>4. (a - (o - d)) * z = (a + d - o) * z /\ (a + d - o) * z \in Int
  <2>1. a - (o - d) = a + d - o /\ a + d - o \in Int BY <1>1, <1>2
  <2>2. QED BY <1>2, <2>1
<1>5. QED BY <1>1, <1>3, <1>4 DEF a, d, o, z

(* The hits of the exhaustive reference are these. *)
LEMMA HitsAre ==
  ASSUME InputInv
  PROVE  /\ \A i, t : IsHit(i, t) => HitOf(i, t) \in Hits
         /\ \A h \in Hits : \E i, t : IsHit(i, t) /\ h = HitOf(i, t)
<1>1. DOMAIN launched.instances = 1 .. Len(launched.instances)
  BY SceneShapes DEF InputInv
<1>2. \A i \in 1 .. Len(launched.instances) : DOMAIN geometry_of(i) = 1 .. Len(geometry_of(i))
  BY TriangleShape
<1>3. ASSUME NEW i, NEW t, IsHit(i, t) PROVE HitOf(i, t) \in Hits
  <2>1. /\ i \in DOMAIN launched.instances /\ launched.instances[i].visible
        /\ t \in DOMAIN geometry_of(i) /\ geometry_of(i)[t].at # None
        /\ ParameterOf(i, t) \in ray.t_min .. ray.t_max
    BY <1>1, <1>2, <1>3 DEF IsHit
  <2> DEFINE Of(j) == {<< parameter(launched.geometries[launched.instances[j].geometry][u],
                                   launched.instances[j].shift), j, u >> :
                       u \in {u \in DOMAIN launched.geometries[launched.instances[j].geometry] :
                                launched.geometries[launched.instances[j].geometry][u].at # None}}
             Those == {Of(j) : j \in {j \in DOMAIN launched.instances : launched.instances[j].visible}}
  <2>2. HitOf(i, t) \in Of(i) /\ HitOf(i, t)[1] = ParameterOf(i, t)
    BY <2>1 DEF HitOf, ParameterOf, geometry_of
  <2>3. Hits = {h \in UNION Those : h[1] \in ray.t_min .. ray.t_max} BY DEF Hits
  <2> HIDE DEF Of
  <2>4. Of(i) \in Those BY <2>1
  <2> HIDE DEF Those
  <2>5. QED BY <2>1, <2>2, <2>3, <2>4
<1>4. ASSUME NEW h \in Hits PROVE \E i, t : IsHit(i, t) /\ h = HitOf(i, t)
  <2>1. PICK i \in DOMAIN launched.instances :
            /\ launched.instances[i].visible
            /\ \E t \in DOMAIN geometry_of(i) : /\ geometry_of(i)[t].at # None
                                                /\ h = HitOf(i, t)
            /\ h[1] \in ray.t_min .. ray.t_max
    BY <1>4 DEF Hits, HitOf, ParameterOf, geometry_of
  <2>2. PICK t \in DOMAIN geometry_of(i) : geometry_of(i)[t].at # None /\ h = HitOf(i, t)
    BY <2>1
  <2>3. h[1] = ParameterOf(i, t) BY <2>2 DEF HitOf
  <2>4. IsHit(i, t) BY <1>1, <1>2, <2>1, <2>2, <2>3 DEF IsHit
  <2>5. QED BY <2>2, <2>4
<1>5. QED BY <1>3, <1>4

------------------------------------------------------
(* The order of hits is total. *)
Triple == Int \X Nat \X Nat

(* The order of the hits is total, ... *)
LEMMA PrecedesShape ==
  ASSUME NEW g \in Triple, NEW h \in Triple
  PROVE  /\ g = h \/ Precedes(g, h) \/ Precedes(h, g)
         /\ ~(Precedes(g, h) /\ Precedes(h, g)) /\ ~Precedes(g, g)
<1>1. /\ g[1] \in Int /\ g[2] \in Nat /\ g[3] \in Nat /\ g = << g[1], g[2], g[3] >>
      /\ h[1] \in Int /\ h[2] \in Nat /\ h[3] \in Nat /\ h = << h[1], h[2], h[3] >>
  BY DEF Triple
<1>2. QED BY <1>1 DEF Precedes

(* ... and transitive. *)
LEMMA PrecedesChain ==
  ASSUME NEW f \in Triple, NEW g \in Triple, NEW h \in Triple, Precedes(f, g), Precedes(g, h)
  PROVE  Precedes(f, h)
<1>1. /\ f[1] \in Int /\ f[2] \in Nat /\ f[3] \in Nat
      /\ g[1] \in Int /\ g[2] \in Nat /\ g[3] \in Nat
      /\ h[1] \in Int /\ h[2] \in Nat /\ h[3] \in Nat
  BY DEF Triple
<1>2. QED BY <1>1 DEF Precedes

------------------------------------------------------
(* What was found so far, and what it answers. *)
Best(c) == << c.parameter, c.instance_id, c.primitive_id >>

CandidateOf(i, t) ==
    [present |-> TRUE, parameter |-> ParameterOf(i, t), instance_id |-> i, primitive_id |-> t]

Found(c) == c = NotFound \/ \E i, t : IsHit(i, t) /\ c = CandidateOf(i, t)

Answers(c, i, t) ==
    IsHit(i, t) =>
        /\ c.present
        /\ kernel = "closest" => Best(c) = HitOf(i, t) \/ Precedes(Best(c), HitOf(i, t))

AllAnswered(c, i) == \A t \in 1 .. Len(geometry_of(i)) : Answers(c, i, t)

(* The numbers of a hit. *)
LEMMA HitShape ==
  ASSUME InputInv, NEW i, NEW t, IsHit(i, t)
  PROVE  /\ HitOf(i, t) \in Triple /\ ParameterOf(i, t) \in Int /\ i \in Nat /\ t \in Nat
         /\ ray.t_min <= ParameterOf(i, t) /\ ParameterOf(i, t) <= ray.t_max
         /\ HitOf(i, t)[1] = ParameterOf(i, t) /\ HitOf(i, t)[2] = i /\ HitOf(i, t)[3] = t
<1>1. /\ i \in 1 .. Len(launched.instances) /\ t \in 1 .. Len(geometry_of(i))
      /\ geometry_of(i)[t].at # None /\ ParameterOf(i, t) \in ray.t_min .. ray.t_max
  BY DEF IsHit
<1>2. ParameterOf(i, t) \in Int BY <1>1, ParameterShape
<1>3. i \in Nat /\ t \in Nat BY <1>1
<1>4. ray.t_min \in Int /\ ray.t_max \in Int BY RayShape
<1>5. QED BY <1>1, <1>2, <1>3, <1>4 DEF HitOf, Triple

(* A candidate is none or one of the hits. *)
LEMMA FoundShape ==
  ASSUME InputInv, NEW c, Found(c)
  PROVE  \/ c = NotFound /\ ~c.present
         \/ /\ c.present /\ Best(c) \in Triple /\ Best(c) \in Hits
            /\ c.parameter \in Int /\ c.parameter <= ray.t_max /\ Best(c)[1] = c.parameter
            /\ Best(c)[2] = c.instance_id /\ Best(c)[3] = c.primitive_id
            /\ c.instance_id \in Nat /\ c.primitive_id \in Nat
<1>1. CASE c = NotFound
  BY <1>1 DEF NotFound
<1>2. CASE \E i, t : IsHit(i, t) /\ c = CandidateOf(i, t)
  <2>1. PICK i, t : IsHit(i, t) /\ c = CandidateOf(i, t) BY <1>2
  <2>2. /\ c.present /\ c.parameter = ParameterOf(i, t) /\ c.instance_id = i
        /\ c.primitive_id = t
    BY <2>1 DEF CandidateOf
  <2>3. Best(c) = HitOf(i, t) BY <2>2 DEF Best, HitOf
  <2>4. HitOf(i, t) \in Hits BY <2>1, HitsAre
  <2>5. QED BY <2>1, <2>2, <2>3, <2>4, HitShape
<1>3. QED BY <1>1, <1>2 DEF Found

(* A hit beyond the current end of the ray cannot change the answer. *)
LEMMA FarAnswered ==
  ASSUME InputInv, Found(closest), NEW i, NEW t,
         IsHit(i, t) => ParameterOf(i, t) > traversal_t_max
  PROVE  Answers(closest, i, t)
<1> SUFFICES ASSUME IsHit(i, t)
             PROVE  /\ closest.present
                    /\ kernel = "closest" =>
                          Best(closest) = HitOf(i, t) \/ Precedes(Best(closest), HitOf(i, t))
  BY DEF Answers
<1>1. /\ ParameterOf(i, t) \in Int /\ ParameterOf(i, t) <= ray.t_max
      /\ HitOf(i, t)[1] = ParameterOf(i, t)
  BY HitShape
<1>2. ray.t_max \in Int BY RayShape
<1>3. kernel = "closest" /\ closest.present /\ ParameterOf(i, t) > closest.parameter
  BY <1>1, <1>2 DEF traversal_t_max
<1>4. Best(closest)[1] = closest.parameter /\ closest.parameter \in Int
  BY <1>3, FoundShape
<1>5. Precedes(Best(closest), HitOf(i, t)) BY <1>1, <1>3, <1>4 DEF Precedes
<1>6. QED BY <1>3, <1>5

------------------------------------------------------
(* A box that is missed holds no point that the ray can still reach. *)
LEMMA MissedBox ==
  ASSUME InputInv, Found(closest), NEW d \in Box, NEW shift \in Int, NEW a \in Int, NEW p,
         ~intersects(d, shift), p = (a - (ray.origin[1] - shift)) * ray.direction,
         d.minimum[1] <= a, a <= d.maximum[1],
         d.minimum[2] <= ray.origin[2], ray.origin[2] <= d.maximum[2], ray.t_min <= p
  PROVE  p > traversal_t_max
<1> DEFINE o == ray.origin[1] - shift
           z == ray.direction
           lo == d.minimum[1]
           hi == d.maximum[1]
           x == (lo - o) * z
           y == (hi - o) * z
           m == ray.t_min
           M == traversal_t_max
<1>1. /\ o \in Int /\ z \in {-1, 1} /\ m \in Int /\ ray.t_max \in Int /\ ray.origin[2] \in Int
      /\ local_origin(shift)[1] = o
  BY RayShape
<1>2. M \in Int
  <2>1. closest.present => closest.parameter \in Int BY FoundShape
  <2>2. QED BY <1>1, <2>1 DEF traversal_t_max
<1>3. lo \in Int /\ hi \in Int /\ d.minimum[2] \in Int /\ d.maximum[2] \in Int
  BY DEF Box, Axis
<1>4. slab(d, shift) = {x, y} BY <1>1 DEF slab
<1>5. near_parameter(d, shift) = Max({m, Min({x, y})})
  BY <1>4 DEF near_parameter, Min, Max
<1>6. ~(Max({m, Min({x, y})}) <= Min({M, Max({x, y})}))
  <2>1. ray.origin[2] \in d.minimum[2] .. d.maximum[2] BY <1>1, <1>3
  <2>2. ~(near_parameter(d, shift) <= Min({M, Max(slab(d, shift))}))
    BY <2>1 DEF intersects, Min, Max
  <2>3. QED BY <1>4, <1>5, <2>2
<1>7. p \in Int /\ x \in Int /\ y \in Int /\ ((x <= p /\ p <= y) \/ (y <= p /\ p <= x))
  <2>1. p = (a - o) * z /\ lo <= a /\ a <= hi /\ a \in Int OBVIOUS
  <2> HIDE DEF o, z, lo, hi
  <2>2. CASE z = 1
    BY <1>1, <1>3, <2>1, <2>2
  <2>3. CASE z = -1
    BY <1>1, <1>3, <2>1, <2>3
  <2>4. QED BY <1>1, <2>2, <2>3
<1>8. m <= p OBVIOUS
<1> HIDE DEF x, y, m, M, o, z
<1>9. /\ Min({x, y}) \in Int /\ Min({x, y}) <= p
      /\ Max({x, y}) \in Int /\ p <= Max({x, y})
  BY <1>7, MinPair, MaxPair
<1> DEFINE n == Min({x, y})
           f == Max({x, y})
           near == Max({m, n})
           far == Min({M, f})
<1>12. ~(near <= far) BY <1>6
<1>20. n \in Int /\ n <= p /\ f \in Int /\ p <= f BY <1>9
<1> HIDE DEF n, f
<1>10. near \in Int /\ near <= p BY <1>1, <1>7, <1>8, <1>20, MaxPair
<1>11. far \in Int /\ (M < p \/ p <= far) BY <1>2, <1>7, <1>20, MinPair
<1> HIDE DEF near, far
<1>13. M < p BY <1>7, <1>10, <1>11, <1>12
<1>14. QED BY <1>2, <1>7, <1>13 DEF M

(* The items of the top tree, and of an instance's. *)
outer == ToSet(tlas_items(launched))

inner(i) == ToSet(blas_items(geometry_of(i)))

(* An item for each triangle, ... *)
LEMMA InnerItems ==
  ASSUME InputInv, NEW i \in 1 .. Len(launched.instances)
  PROVE  /\ \A x \in inner(i) : /\ x.payload \in 1 .. Len(geometry_of(i))
                               /\ x.bounds = primitive_bounds(geometry_of(i)[x.payload])
                               /\ x.bounds \in Box
         /\ \A t \in 1 .. Len(geometry_of(i)) : \E x \in inner(i) : x.payload = t
<1> DEFINE g == geometry_of(i)
           item(t) == [bounds |-> primitive_bounds(g[t]), stable_key |-> t, payload |-> t]
<1>1. g \in Seq(Triangle) BY TriangleShape
<1>2. /\ inner(i) = {item(t) : t \in 1 .. Len(g)}
      /\ \A t \in 1 .. Len(g) : primitive_bounds(g[t]) \in Box
  <2> HIDE DEF g
  <2>1. QED BY <1>1, BlasItems DEF inner, g
<1>3. \A t : item(t).payload = t /\ item(t).bounds = primitive_bounds(g[t])
  OBVIOUS
<1> HIDE DEF g, item
<1>4. QED BY <1>2, <1>3 DEF g

(* ... and for each instance. *)
LEMMA OuterItems ==
  ASSUME InputInv
  PROVE  /\ \A x \in outer :
               /\ x.payload.instance_id \in 1 .. Len(launched.instances)
               /\ x.payload = instance_reference(launched, x.payload.instance_id)
               /\ x.bounds = instance_bounds(geometry_of(x.payload.instance_id),
                                             launched.instances[x.payload.instance_id].shift)
         /\ \A i \in 1 .. Len(launched.instances) : \E x \in outer : x.payload.instance_id = i
<1>1. outer = {tlas_item(launched, i) : i \in 1 .. Len(launched.instances)}
  BY TlasItems DEF InputInv, outer
<1>2. \A i : /\ tlas_item(launched, i).payload = instance_reference(launched, i)
             /\ tlas_item(launched, i).payload.instance_id = i
             /\ tlas_item(launched, i).bounds
                  = instance_bounds(geometry_of(i), launched.instances[i].shift)
  BY DEF tlas_item, instance_reference, geometry_of
<1>3. ASSUME NEW x \in outer
      PROVE  /\ x.payload.instance_id \in 1 .. Len(launched.instances)
             /\ x.payload = instance_reference(launched, x.payload.instance_id)
             /\ x.bounds = instance_bounds(geometry_of(x.payload.instance_id),
                                           launched.instances[x.payload.instance_id].shift)
  <2>1. PICK i \in 1 .. Len(launched.instances) : x = tlas_item(launched, i)
    BY <1>1
  <2>2. /\ x.payload = instance_reference(launched, i) /\ x.payload.instance_id = i
        /\ x.bounds = instance_bounds(geometry_of(i), launched.instances[i].shift)
    BY <1>2, <2>1
  <2>3. QED BY <2>2
<1>4. ASSUME NEW i \in 1 .. Len(launched.instances)
      PROVE  \E x \in outer : x.payload.instance_id = i
  <2>1. tlas_item(launched, i) \in outer /\ tlas_item(launched, i).payload.instance_id = i
    BY <1>1, <1>2
  <2>2. QED BY <2>1
<1>5. QED BY <1>3, <1>4

(* Missed with the instance's own ray, and with the world's. *)
LEMMA MissedInside ==
  ASSUME InputInv, Found(closest),
         NEW i \in 1 .. Len(launched.instances), NEW t \in 1 .. Len(geometry_of(i)),
         NEW d \in Box, Encloses(d, primitive_bounds(geometry_of(i)[t])),
         ~intersects(d, launched.instances[i].shift)
  PROVE  Answers(closest, i, t)
<1> SUFFICES ASSUME IsHit(i, t) PROVE ParameterOf(i, t) > traversal_t_max
  BY FarAnswered
<1> DEFINE q == geometry_of(i)[t]
           s == launched.instances[i].shift
           o == ray.origin[1]
           z == ray.direction
<1>1. /\ q \in Triangle /\ q.at # None /\ q.at \in Int /\ s \in Int
      /\ launched.instances[i].geometry \in 1 .. Len(launched.geometries)
  BY TriangleShape, ParameterShape DEF IsHit
<1>2. /\ ParameterOf(i, t) = (q.at + s - o) * z /\ ParameterOf(i, t) \in Int
      /\ ray.t_min <= ParameterOf(i, t)
  BY <1>1, ParameterShape, HitShape
<1>3. o \in Int /\ z \in {-1, 1} /\ ray.origin[2] \in Int BY RayShape
<1>4. /\ q.minimum[1] <= q.at /\ q.at <= q.maximum[1]
      /\ q.minimum[2] <= ray.origin[2] /\ ray.origin[2] <= q.maximum[2]
  BY <1>1 DEF InputInv, MeetsInside, geometry_of
<1>5. /\ q.minimum[1] \in Int /\ q.minimum[2] \in Int
      /\ q.maximum[1] \in Int /\ q.maximum[2] \in Int
  BY <1>1 DEF Triangle, Axis
<1>6. /\ d.minimum[1] <= q.minimum[1] /\ q.maximum[1] <= d.maximum[1]
      /\ d.minimum[2] <= q.minimum[2] /\ q.maximum[2] <= d.maximum[2]
  BY DEF Encloses, primitive_bounds, Axis
<1>7. /\ d.minimum[1] \in Int /\ d.minimum[2] \in Int
      /\ d.maximum[1] \in Int /\ d.maximum[2] \in Int
  BY DEF Box, Axis
<1>8. /\ d.minimum[1] <= q.at /\ q.at <= d.maximum[1]
      /\ d.minimum[2] <= ray.origin[2] /\ ray.origin[2] <= d.maximum[2]
  <2>1. q.at \in Int /\ ray.origin[2] \in Int BY <1>1, <1>3
  <2> HIDE DEF q, s, o, z
  <2>2. d.minimum[1] <= q.at /\ q.at <= d.maximum[1]
    BY ONLY SMTT(20), <1>4, <1>5, <1>6, <1>7, <2>1
  <2>3. d.minimum[2] <= ray.origin[2] /\ ray.origin[2] <= d.maximum[2]
    BY ONLY SMTT(20), <1>4, <1>5, <1>6, <1>7, <2>1
  <2>4. QED BY <2>2, <2>3
<1>9. ParameterOf(i, t) = (q.at - (o - s)) * z
  <2> DEFINE a == q.at
  <2>1. a \in Int BY <1>1
  <2> HIDE DEF a, s, o, z
  <2>2. a + s - o = a - (o - s) BY <1>1, <1>3, <2>1
  <2>3. QED BY <1>2, <2>2 DEF a
<1> HIDE DEF q, z
<1>10. QED BY <1>1, <1>2, <1>8, <1>9, MissedBox DEF z

(* A box around an instance that the ray misses: all its hits are answered. *)
LEMMA MissedOutside ==
  ASSUME InputInv, Found(closest),
         NEW i \in 1 .. Len(launched.instances), NEW d \in Box,
         Encloses(d, instance_bounds(geometry_of(i), launched.instances[i].shift)),
         ~intersects(d, 0)
  PROVE  AllAnswered(closest, i)
<1> SUFFICES ASSUME NEW t \in 1 .. Len(geometry_of(i)), IsHit(i, t)
             PROVE  ParameterOf(i, t) > traversal_t_max
  BY FarAnswered DEF AllAnswered
<1> DEFINE q == geometry_of(i)[t]
           s == launched.instances[i].shift
           o == ray.origin[1]
           z == ray.direction
           b == primitive_bounds(q)
           w == instance_bounds(geometry_of(i), s)
           m == moved(b, s)
           a == q.at
           world == a + s
<1>1. /\ q \in Triangle /\ q.at # None /\ q.at \in Int /\ s \in Int
      /\ launched.instances[i].geometry \in 1 .. Len(launched.geometries)
      /\ geometry_of(i) \in Seq(Triangle) /\ geometry_of(i) # << >>
  BY TriangleShape, ParameterShape DEF IsHit
<1>2. /\ ParameterOf(i, t) = (q.at + s - o) * z /\ ParameterOf(i, t) \in Int
      /\ ray.t_min <= ParameterOf(i, t)
  BY <1>1, ParameterShape, HitShape
<1>3. o \in Int /\ z \in {-1, 1} /\ ray.origin[2] \in Int BY RayShape
<1>4. /\ q.minimum[1] <= q.at /\ q.at <= q.maximum[1]
      /\ q.minimum[2] <= ray.origin[2] /\ ray.origin[2] <= q.maximum[2]
  BY <1>1 DEF InputInv, MeetsInside, geometry_of
<1>5. /\ q.minimum[1] \in Int /\ q.minimum[2] \in Int
      /\ q.maximum[1] \in Int /\ q.maximum[2] \in Int
      /\ b \in Box /\ b.minimum = q.minimum /\ b.maximum = q.maximum
  <2> HIDE DEF q
  <2>1. q.minimum \in [Axis -> Int] /\ q.maximum \in [Axis -> Int]
    BY <1>1 DEF Triangle
  <2>2. 1 \in Axis /\ 2 \in Axis BY DEF Axis
  <2>3. b \in Box /\ b.minimum = q.minimum /\ b.maximum = q.maximum
    BY <2>1 DEF Box, primitive_bounds
  <2>4. QED BY <2>1, <2>2, <2>3
<1>6. /\ m \in Box /\ m.minimum[1] = q.minimum[1] + s /\ m.minimum[2] = q.minimum[2]
      /\ m.maximum[1] = q.maximum[1] + s /\ m.maximum[2] = q.maximum[2]
  <2>1. /\ moved(b, s) \in Box
        /\ moved(b, s).minimum[1] = b.minimum[1] + s /\ moved(b, s).minimum[2] = b.minimum[2]
        /\ moved(b, s).maximum[1] = b.maximum[1] + s /\ moved(b, s).maximum[2] = b.maximum[2]
    <3>1. b \in Box /\ s \in Int BY <1>1, <1>5
    <3> HIDE DEF b, s
    <3>2. QED BY ONLY <3>1, MovedBox
  <2>2. b.minimum = q.minimum /\ b.maximum = q.maximum BY <1>5
  <2> HIDE DEF b, s, q
  <2>3. QED BY ONLY <2>1, <2>2 DEF m
<1>7. w \in Box /\ Encloses(w, m) BY <1>1, InstanceBounds
<1>8. Encloses(d, m) BY <1>6, <1>7, EnclosesChain
<1> HIDE DEF m
<1>9. /\ d.minimum[1] <= m.minimum[1] /\ m.maximum[1] <= d.maximum[1]
      /\ d.minimum[2] <= m.minimum[2] /\ m.maximum[2] <= d.maximum[2]
  BY <1>8 DEF Encloses, Axis
<1>10. /\ d.minimum[1] \in Int /\ d.minimum[2] \in Int
       /\ d.maximum[1] \in Int /\ d.maximum[2] \in Int
  BY DEF Box, Axis
<1>11. /\ d.minimum[1] <= world /\ world <= d.maximum[1] /\ world \in Int
       /\ d.minimum[2] <= ray.origin[2] /\ ray.origin[2] <= d.maximum[2]
  <2>1. a \in Int /\ s \in Int /\ q.minimum[1] <= a /\ a <= q.maximum[1]
    BY <1>1, <1>4
  <2>2. /\ q.minimum[1] \in Int /\ q.minimum[2] \in Int
        /\ q.maximum[1] \in Int /\ q.maximum[2] \in Int
    BY <1>5
  <2> HIDE DEF a, s, q, o, z, b
  <2>3. /\ d.minimum[1] <= q.minimum[1] + s /\ q.maximum[1] + s <= d.maximum[1]
        /\ d.minimum[2] <= q.minimum[2] /\ q.maximum[2] <= d.maximum[2]
    BY ONLY <1>6, <1>9
  <2>4. d.minimum[1] <= world /\ world <= d.maximum[1] /\ world \in Int
    <3> DEFINE dl == d.minimum[1]
               dh == d.maximum[1]
               ql == q.minimum[1]
               qh == q.maximum[1]
    <3>1. /\ dl \in Int /\ dh \in Int /\ ql \in Int /\ qh \in Int /\ a \in Int /\ s \in Int
          /\ dl <= ql + s /\ qh + s <= dh /\ ql <= a /\ a <= qh
      BY <1>10, <2>1, <2>2, <2>3
    <3> HIDE DEF dl, dh, ql, qh
    <3>2. dl <= a + s /\ a + s <= dh /\ a + s \in Int BY ONLY <3>1
    <3>3. QED BY <3>2 DEF dl, dh
  <2>5. ray.origin[2] \in Int BY <1>3
  <2>6. d.minimum[2] <= ray.origin[2] /\ ray.origin[2] <= d.maximum[2]
    BY ONLY <1>4, <1>10, <2>2, <2>3, <2>5
  <2>7. QED BY <2>4, <2>6
<1>12. ParameterOf(i, t) = (world - (o - 0)) * z
  <2>1. a \in Int BY <1>1
  <2> HIDE DEF a, s, o, z
  <2>2. a + s - o = world - (o - 0) BY <1>1, <1>3, <2>1
  <2>3. QED BY <1>2, <2>2 DEF a
<1> HIDE DEF world, z
<1>13. 0 \in Int OBVIOUS
<1>14. QED BY <1>2, <1>11, <1>12, <1>13, MissedBox DEF z

------------------------------------------------------
(* The traversals under way. *)
OuterDone(c, ref) ==
    {x \in outer : \/ ref # None /\ ref.instance_id = x.payload.instance_id
                   \/ AllAnswered(c, x.payload.instance_id)}

InnerDone(c, i) == {x \in inner(i) : Answers(c, i, x.payload)}

tree_of(i) == bvh.blases[launched.instances[i].geometry]

OuterGoing(t, c, ref) ==
    Going(t, bvh.tlas_nodes, bvh.instance_references, outer, Len(launched.instances), 0, 0,
          OuterDone(c, ref))

InnerGoing(t, c, i) ==
    Going(t, bvh.blas_nodes, bvh.primitive_references, inner(i), Len(geometry_of(i)),
          tree_of(i).node_offset, tree_of(i).primitive_reference_offset, InnerDone(c, i))

(* The inner traversal is in instance i. *)
Entered(ref, i) ==
    /\ i \in 1 .. Len(launched.instances) /\ launched.instances[i].visible
    /\ ref = instance_reference(launched, i)

(* Both traversals are going. *)
Underway(t, b, ref, c) ==
    /\ launched.instances # << >>
    /\ kernel = "occlusion" => ~c.present
    /\ OuterGoing(t, c, ref)
    /\ \A i : Entered(ref, i) => InnerGoing(b, c, i)

(* Neither stack overflows. *)
Fitting == Len(tlas.stack) <= StackCapacity /\ Len(blas.stack) <= StackCapacity

(* The inductive invariant. *)
TraceIInv ==
    /\ InputInv
    /\ status \in {"queued", "running", "hit", "miss"}
    /\ Found(closest)
    /\ Fitting
    /\ reference = None \/ \E i : Entered(reference, i)
    /\ status = "queued" => tlas = Traversal /\ blas = Traversal
                            /\ reference = None /\ closest = NotFound
    /\ status = "running" => Underway(tlas, blas, reference, closest)
    /\ AnswersExhaustively

(* An instance and its tree. *)
LEMMA EnteredShape ==
  ASSUME InputInv, NEW ref, NEW i, Entered(ref, i)
  PROVE  /\ i \in 1 .. Len(launched.instances) /\ launched.instances[i].visible
         /\ ref # None /\ ref.instance_id = i /\ ref.visible = TRUE
         /\ ref.blas_index = launched.instances[i].geometry
         /\ bvh.blases[ref.blas_index] = tree_of(i)
         /\ launched.geometries[ref.blas_index] = geometry_of(i)
         /\ shift_of(ref) = launched.instances[i].shift
<1>1. i \in 1 .. Len(launched.instances) /\ launched.instances[i].visible
      /\ ref = instance_reference(launched, i)
  BY DEF Entered
<1>2. /\ launched.instances[i].visible \in BOOLEAN
      /\ launched.instances[i].geometry \in 1 .. Len(launched.geometries) /\ i \in Nat
  BY <1>1, TriangleShape
<1>3. ref \in [instance_id : Nat, blas_index : Nat, visible : BOOLEAN]
  BY <1>1, <1>2 DEF instance_reference
<1>4. ref.instance_id = i /\ ref.blas_index = launched.instances[i].geometry
      /\ ref.visible = launched.instances[i].visible
  BY <1>1 DEF instance_reference
<1>5. QED BY <1>1, <1>2, <1>3, <1>4 DEF InputInv, tree_of, geometry_of, shift_of

(* The tree of an instance, ... *)
LEMMA TreeShape ==
  ASSUME InputInv, NEW i \in 1 .. Len(launched.instances)
  PROVE  /\ tree_of(i).node_offset \in Nat
         /\ tree_of(i).root_node = tree_of(i).node_offset + 1
         /\ tree_of(i).node_count = 2 * Len(geometry_of(i)) - 1
         /\ Hung(bvh.blas_nodes, bvh.primitive_references, inner(i), Len(geometry_of(i)),
                 tree_of(i).node_offset, tree_of(i).primitive_reference_offset, Depth)
<1>1. launched.instances[i].geometry \in 1 .. Len(launched.geometries) /\ HungScene(bvh, launched)
  BY TriangleShape DEF InputInv
<1>2. QED BY <1>1 DEF HungScene, tree_of, geometry_of, inner

(* ... and the one of all instances, if there is any. *)
LEMMA OuterShape ==
  ASSUME InputInv
  PROVE  /\ (bvh.tlas_nodes = << >>) <=> (launched.instances = << >>)
         /\ launched.instances # << >> =>
               /\ Len(launched.instances) \in Nat \ {0}
               /\ Len(bvh.tlas_nodes) = 2 * Len(launched.instances) - 1
               /\ Hung(bvh.tlas_nodes, bvh.instance_references, outer,
                       Len(launched.instances), 0, 0, Depth)
<1>1. HungScene(bvh, launched) BY DEF InputInv
<1>2. CASE launched.instances = << >>
  BY <1>1, <1>2 DEF HungScene
<1>3. CASE launched.instances # << >>
  <2>1. /\ Len(launched.instances) \in Nat \ {0}
        /\ Len(bvh.tlas_nodes) = 2 * Len(launched.instances) - 1
        /\ Hung(bvh.tlas_nodes, bvh.instance_references, outer, Len(launched.instances), 0, 0, Depth)
    BY <1>1, <1>3 DEF HungScene, outer
  <2>2. Len(bvh.tlas_nodes) # 0 BY <2>1
  <2>3. bvh.tlas_nodes # << >> BY <2>2
  <2>4. QED BY <1>3, <2>1, <2>3
<1>4. QED BY <1>2, <1>3

------------------------------------------------------
(* A step leaves its inputs, and what is said of them, alone. *)
LEMMA InputKept ==
  ASSUME InputInv, UNCHANGED input
  PROVE  InputInv'
<1>1. launched' = launched /\ ray' = ray /\ kernel' = kernel /\ bvh' = bvh
  BY DEF input
<1>2. QED BY <1>1 DEF InputInv, MeetsInside

(* A step leaves what the launch is given alone, ... *)
LEMMA SceneKept ==
  ASSUME UNCHANGED input
  PROVE  /\ \A i : geometry_of(i)' = geometry_of(i)
         /\ \A i, t : /\ ParameterOf(i, t)' = ParameterOf(i, t) /\ HitOf(i, t)' = HitOf(i, t)
                      /\ IsHit(i, t)' <=> IsHit(i, t)
                      /\ CandidateOf(i, t)' = CandidateOf(i, t)
         /\ Hits' = Hits /\ outer' = outer
         /\ \A i : inner(i)' = inner(i) /\ tree_of(i)' = tree_of(i)
<1>1. launched' = launched /\ ray' = ray /\ kernel' = kernel /\ bvh' = bvh
  BY DEF input
<1>2. \A i : geometry_of(i)' = geometry_of(i) BY <1>1 DEF geometry_of
<1>3. \A i, t : ParameterOf(i, t)' = ParameterOf(i, t)
  BY <1>1 DEF ParameterOf, parameter, local_origin, geometry_of
<1>4. \A i, t : HitOf(i, t)' = HitOf(i, t) /\ CandidateOf(i, t)' = CandidateOf(i, t)
  BY <1>3 DEF HitOf, CandidateOf
<1>5. \A i, t : IsHit(i, t)' <=> IsHit(i, t) BY <1>1, <1>2, <1>3 DEF IsHit
<1>6. Hits' = Hits BY <1>1 DEF Hits, parameter, local_origin
<1>7. outer' = outer BY <1>1 DEF outer
<1>8. \A i : inner(i)' = inner(i) /\ tree_of(i)' = tree_of(i)
  BY <1>1, <1>2 DEF inner, tree_of
<1>9. QED BY <1>2, <1>3, <1>4, <1>5, <1>6, <1>7, <1>8

(* ... and then what is done depends only on the candidate, ... *)
LEMMA DoneKept ==
  ASSUME UNCHANGED input
  PROVE  /\ Found(closest)' <=> Found(closest')
         /\ OuterDone(closest, reference)' = OuterDone(closest', reference')
         /\ \A i : InnerDone(closest, i)' = InnerDone(closest', i)
         /\ \A i : Entered(reference, i)' <=> Entered(reference', i)
<1>1. launched' = launched /\ ray' = ray /\ kernel' = kernel /\ bvh' = bvh
  BY DEF input
<1>2. Found(closest)' <=> Found(closest') BY SceneKept DEF Found, NotFound
<1>3. \A i, t : Answers(closest, i, t)' <=> Answers(closest', i, t)
  BY <1>1, SceneKept DEF Answers, Best, Precedes
<1>4. \A i : AllAnswered(closest, i)' <=> AllAnswered(closest', i)
  BY <1>3, SceneKept DEF AllAnswered
<1>5. \A i : InnerDone(closest, i)' = InnerDone(closest', i)
  BY <1>3, SceneKept DEF InnerDone
<1>6. OuterDone(closest, reference)' = OuterDone(closest', reference')
  BY <1>4, SceneKept DEF OuterDone
<1>7. \A i : Entered(reference, i)' <=> Entered(reference', i)
  BY <1>1 DEF Entered
<1>8. QED BY <1>2, <1>5, <1>6, <1>7

(* ... so it is enough to speak of the state reached. *)
LEMMA UnderwayKept ==
  ASSUME UNCHANGED input, Underway(tlas', blas', reference', closest')
  PROVE  Underway(tlas, blas, reference, closest)'
<1>1. launched' = launched /\ ray' = ray /\ kernel' = kernel /\ bvh' = bvh
  BY DEF input
<1>2. OuterGoing(tlas, closest, reference)'
  BY <1>1, SceneKept, DoneKept DEF Underway, OuterGoing
<1>3. \A i : Entered(reference, i)' => InnerGoing(blas, closest, i)'
  BY <1>1, SceneKept, DoneKept DEF Underway, InnerGoing
<1>4. QED BY <1>1, <1>2, <1>3 DEF Underway

(* What a step has to establish. *)
LEMMA Establishes ==
  ASSUME InputInv, UNCHANGED input, status' \in {"running", "hit", "miss"},
         Found(closest'),
         Len(tlas'.stack) <= StackCapacity, Len(blas'.stack) <= StackCapacity,
         reference' = None \/ \E i : Entered(reference', i),
         status' = "running" => Underway(tlas', blas', reference', closest'),
         status' = "miss" => Hits = {},
         status' = "hit" => Hits # {},
         status' = "hit" /\ kernel = "closest" =>
             Best(closest') \in Hits /\ \A g \in Hits \ {Best(closest')} : Precedes(Best(closest'), g)
  PROVE  TraceIInv'
<1>1. launched' = launched /\ ray' = ray /\ kernel' = kernel /\ bvh' = bvh
  BY DEF input
<1>2. InputInv' /\ Found(closest)' /\ Fitting'
  BY InputKept, DoneKept DEF Fitting
<1>3. (reference = None \/ \E i : Entered(reference, i))' BY DoneKept
<1>4. (status = "running" => Underway(tlas, blas, reference, closest))'
  BY UnderwayKept
<1>5. AnswersExhaustively'
  BY <1>1, SceneKept DEF AnswersExhaustively, Best, Precedes
<1>6. status' # "queued" /\ status' \in {"queued", "running", "hit", "miss"}
  OBVIOUS
<1>7. QED BY <1>2, <1>3, <1>4, <1>5, <1>6 DEF TraceIInv

------------------------------------------------------
(* What a missed node encloses is answered. *)
LEMMA MissedOuter ==
  ASSUME InputInv, Found(closest),
         NEW x \in Missed(bvh.tlas_nodes, outer, Len(launched.instances), 0, 0)
  PROVE  AllAnswered(closest, x.payload.instance_id)
<1>1. /\ x \in outer
      /\ \E d \in Extent(Len(launched.instances), 0) :
            /\ ~intersects(bvh.tlas_nodes[d].bounds, 0)
            /\ Encloses(bvh.tlas_nodes[d].bounds, x.bounds) /\ bvh.tlas_nodes[d].bounds \in Box
  BY DEF Missed
<1>2. PICK d \in Box : ~intersects(d, 0) /\ Encloses(d, x.bounds) BY <1>1
<1>3. PICK i \in 1 .. Len(launched.instances) :
          /\ i = x.payload.instance_id
          /\ x.bounds = instance_bounds(geometry_of(i), launched.instances[i].shift)
  BY <1>1, OuterItems
<1>4. QED BY <1>2, <1>3, MissedOutside

(* A missed triangle is answered. *)
LEMMA MissedInner ==
  ASSUME InputInv, Found(closest), NEW i \in 1 .. Len(launched.instances), NEW k, NEW o,
         NEW x \in Missed(bvh.blas_nodes, inner(i), k, o, launched.instances[i].shift)
  PROVE  Answers(closest, i, x.payload)
<1>1. /\ x \in inner(i)
      /\ \E d \in Extent(k, o) :
            /\ ~intersects(bvh.blas_nodes[d].bounds, launched.instances[i].shift)
            /\ Encloses(bvh.blas_nodes[d].bounds, x.bounds) /\ bvh.blas_nodes[d].bounds \in Box
  BY DEF Missed
<1>2. PICK d \in Box : ~intersects(d, launched.instances[i].shift) /\ Encloses(d, x.bounds)
  BY <1>1
<1>3. PICK t \in 1 .. Len(geometry_of(i)) :
          t = x.payload /\ x.bounds = primitive_bounds(geometry_of(i)[t])
  BY <1>1, InnerItems
<1>4. QED BY <1>2, <1>3, MissedInside

(* A box is around itself. *)
LEMMA EnclosesItself ==
  ASSUME NEW b \in Box
  PROVE  Encloses(b, b)
  BY DEF Box, Encloses

------------------------------------------------------
(* A better candidate answers what the one before it did. *)
LEMMA BetterAnswers ==
  ASSUME InputInv, NEW c, Found(c), NEW i, NEW t, IsHit(i, t), kernel = "closest",
         c.present => Precedes(HitOf(i, t), Best(c)), NEW d, d = CandidateOf(i, t)
  PROVE  /\ Answers(d, i, t) /\ Found(d)
         /\ \A j, u : Answers(c, j, u) => Answers(d, j, u)
<1>1. d.present /\ Best(d) = HitOf(i, t) /\ HitOf(i, t) \in Triple
  BY HitShape DEF CandidateOf, Best, HitOf
<1>2. ASSUME NEW j, NEW u, Answers(c, j, u), IsHit(j, u)
      PROVE  Precedes(Best(d), HitOf(j, u))
  <2>1. c.present /\ (Best(c) = HitOf(j, u) \/ Precedes(Best(c), HitOf(j, u)))
    BY <1>2 DEF Answers
  <2>2. Precedes(HitOf(i, t), Best(c)) /\ Best(c) \in Triple BY <2>1, FoundShape
  <2>3. HitOf(j, u) \in Triple BY <1>2, HitShape
  <2>4. CASE Best(c) = HitOf(j, u)
    BY <1>1, <2>2, <2>4
  <2>5. CASE Precedes(Best(c), HitOf(j, u))
    BY <1>1, <2>2, <2>3, <2>5, PrecedesChain
  <2>6. QED BY <2>1, <2>4, <2>5
<1>3. QED BY <1>1, <1>2 DEF Answers, Found

------------------------------------------------------
(* The initial states. *)
LEMMA InitIInv ==
  ASSUME TraversalAssumption, TraceInit
  PROVE  TraceIInv
<1>1. /\ launched \in Launches /\ ray \in Rays /\ kernel \in {"closest", "occlusion"}
      /\ bvh = build_host_bvh(launched) /\ status = "queued" /\ tlas = Traversal
      /\ blas = Traversal /\ reference = None /\ closest = NotFound
  BY DEF TraceInit
<1>2. /\ StackCapacity \in Nat \ {0} /\ None \notin Int
      /\ None \notin [instance_id : Nat, blas_index : Nat, visible : BOOLEAN]
      /\ ray \in [origin : [Axis -> Int], direction : {-1, 1}, t_min : Int, t_max : Int]
      /\ launched.geometries \in Seq(Seq(Triangle)) /\ launched.instances \in Seq(PlacedInstance)
      /\ \A g \in DOMAIN launched.geometries :
            launched.geometries[g] # << >> /\ FitsStack(Len(launched.geometries[g]))
      /\ FitsStack(Len(launched.instances))
      /\ \A i \in DOMAIN launched.instances : launched.instances[i].geometry \in DOMAIN launched.geometries
      /\ \A g \in DOMAIN launched.geometries : \A t \in DOMAIN launched.geometries[g] :
            launched.geometries[g][t].at # None =>
                /\ launched.geometries[g][t].at \in launched.geometries[g][t].minimum[1]
                                                   .. launched.geometries[g][t].maximum[1]
                /\ ray.origin[2] \in launched.geometries[g][t].minimum[2]
                                       .. launched.geometries[g][t].maximum[2]
  BY <1>1 DEF TraversalAssumption
<1>3. Capacity BY <1>2 DEF Capacity, Depth
<1>4. ValidScene(launched)
  <2>1. /\ DOMAIN launched.geometries = 1 .. Len(launched.geometries)
        /\ DOMAIN launched.instances = 1 .. Len(launched.instances)
    BY <1>2, SeqShape
  <2>2. QED BY <1>2, <2>1 DEF ValidScene, FitsStack, Depth
<1>5. MeetsInside
  <2>1. /\ DOMAIN launched.geometries = 1 .. Len(launched.geometries)
        /\ \A g \in 1 .. Len(launched.geometries) :
              DOMAIN launched.geometries[g] = 1 .. Len(launched.geometries[g])
    BY <1>4, SceneShapes
  <2>2. ASSUME NEW g \in 1 .. Len(launched.geometries), NEW t \in 1 .. Len(launched.geometries[g]),
               launched.geometries[g][t].at # None
        PROVE  LET triangle == launched.geometries[g][t] IN
               /\ triangle.minimum[1] <= triangle.at /\ triangle.at <= triangle.maximum[1]
               /\ triangle.minimum[2] <= ray.origin[2] /\ ray.origin[2] <= triangle.maximum[2]
    <3> DEFINE q == launched.geometries[g][t]
    <3>1. q.at \in q.minimum[1] .. q.maximum[1] /\ ray.origin[2] \in q.minimum[2] .. q.maximum[2]
      BY <1>2, <2>1, <2>2
    <3>2. q \in Triangle BY <1>4, SceneShapes
    <3>3. /\ q.minimum[1] \in Int /\ q.maximum[1] \in Int
          /\ q.minimum[2] \in Int /\ q.maximum[2] \in Int
      BY <3>2 DEF Triangle, Axis
    <3> HIDE DEF q
    <3>4. /\ q.minimum[1] <= q.at /\ q.at <= q.maximum[1]
          /\ q.minimum[2] <= ray.origin[2] /\ ray.origin[2] <= q.maximum[2]
      BY <3>1, <3>3
    <3>5. QED BY <3>4 DEF q
  <2>3. QED BY <2>2 DEF MeetsInside
<1>6. HungScene(bvh, launched) BY <1>1, <1>3, <1>4, BuiltScene DEF Capacity
<1>7. InputInv BY <1>1, <1>2, <1>3, <1>4, <1>5, <1>6 DEF InputInv
<1>8. Fitting
  <2>1. tlas.stack = << >> /\ blas.stack = << >> BY <1>1 DEF Traversal
  <2>2. QED BY <1>2, <2>1 DEF Fitting
<1>9. QED BY <1>1, <1>7, <1>8 DEF TraceIInv, Found, AnswersExhaustively

------------------------------------------------------
(* The steps. *)
LEMMA StepStart ==
  ASSUME TraceIInv, start
  PROVE  TraceIInv'
<1>1. /\ InputInv /\ status = "queued" /\ blas = Traversal /\ reference = None
      /\ closest = NotFound /\ Found(closest) /\ Fitting
  BY DEF TraceIInv, start
<1>2. CASE bvh.tlas_nodes = << >>
  <2>1. /\ status' = "miss" /\ UNCHANGED input /\ tlas' = tlas /\ blas' = blas
        /\ reference' = reference /\ closest' = closest
    BY <1>2 DEF start, stop
  <2>2. Len(launched.instances) = 0 BY <1>1, <1>2, OuterShape
  <2>3. \A i, t : ~IsHit(i, t) BY <2>2 DEF IsHit
  <2>4. Hits = {} BY <1>1, <2>3, HitsAre
  <2>5. QED BY <1>1, <2>1, <2>4, Establishes DEF Fitting
<1>3. CASE bvh.tlas_nodes # << >>
  <2>1. /\ status' = "running" /\ UNCHANGED input /\ tlas' = [stack |-> << 1 >>, visited |-> 0]
        /\ blas' = blas /\ reference' = reference /\ closest' = closest
    BY <1>3 DEF start
  <2>2. /\ launched.instances # << >>
        /\ Hung(bvh.tlas_nodes, bvh.instance_references, outer, Len(launched.instances), 0, 0, Depth)
    BY <1>1, <1>3, OuterShape
  <2>3. StackCapacity \in Nat \ {0} /\ tlas'.stack = << 1 >> /\ tlas'.visited = 0 /\ 1 = 0 + 1
    BY <1>1, <2>1 DEF InputInv, Capacity
  <2>4. Going(tlas', bvh.tlas_nodes, bvh.instance_references, outer, Len(launched.instances), 0, 0, {})
    BY <2>2, <2>3, GoStart
  <2>5. OuterGoing(tlas', closest', reference') BY <2>4, GoMore DEF OuterGoing
  <2>6. \A i : ~Entered(reference', i) BY <1>1, <2>1, EnteredShape
  <2>7. ~closest'.present BY <1>1, <2>1 DEF NotFound
  <2>8. Underway(tlas', blas', reference', closest')
    BY <2>2, <2>5, <2>6, <2>7 DEF Underway
  <2>9. Len(tlas'.stack) <= StackCapacity /\ Len(blas'.stack) <= StackCapacity
    BY <1>1, <2>1, <2>3 DEF Fitting
  <2>10. QED BY <1>1, <2>1, <2>8, <2>9, Establishes
<1>4. QED BY <1>2, <1>3

(* The inner traversal has ended: its instance is done with. *)
LEMMA StepLeave ==
  ASSUME TraceIInv, leave_instance
  PROVE  TraceIInv'
<1>1. /\ InputInv /\ status = "running" /\ Underway(tlas, blas, reference, closest)
      /\ Found(closest) /\ Fitting /\ blas.stack = << >>
  BY DEF TraceIInv, leave_instance
<1>2. PICK i : Entered(reference, i) BY DEF TraceIInv, leave_instance
<1>3. /\ reference' = None /\ UNCHANGED input /\ status' = "running" /\ tlas' = tlas
      /\ blas' = blas /\ closest' = closest
  BY <1>1 DEF leave_instance
<1>4. /\ i \in 1 .. Len(launched.instances) /\ reference # None /\ reference.instance_id = i
  BY <1>1, <1>2, EnteredShape
<1>5. inner(i) \subseteq InnerDone(closest, i)
  <2>1. InnerGoing(blas, closest, i) BY <1>1, <1>2 DEF Underway
  <2>2. QED BY <1>1, <2>1, GoEnd DEF InnerGoing
<1>6. AllAnswered(closest, i)
  <2>1. ASSUME NEW t \in 1 .. Len(geometry_of(i)) PROVE Answers(closest, i, t)
    <3>1. PICK x \in inner(i) : x.payload = t BY <1>1, <1>4, InnerItems
    <3>2. QED BY <1>5, <3>1 DEF InnerDone
  <2>2. QED BY <2>1 DEF AllAnswered
<1>7. OuterGoing(tlas', closest', reference')
  <2>1. \A x \in outer : x \in OuterDone(closest, reference) => x \in OuterDone(closest', reference')
    BY <1>3, <1>4, <1>6 DEF OuterDone
  <2>2. OuterGoing(tlas, closest, reference) BY <1>1 DEF Underway
  <2>3. QED BY <1>3, <2>1, <2>2, GoMore DEF OuterGoing
<1>8. \A j : ~Entered(reference', j) BY <1>1, <1>3, EnteredShape
<1>9. Underway(tlas', blas', reference', closest')
  BY <1>1, <1>3, <1>7, <1>8 DEF Underway
<1>10. QED BY <1>1, <1>3, <1>9, Establishes DEF Fitting

(* The outer traversal has ended: every hit is answered. *)
LEMMA StepFinish ==
  ASSUME TraceIInv, finish
  PROVE  TraceIInv'
<1>1. /\ InputInv /\ status = "running" /\ Underway(tlas, blas, reference, closest)
      /\ Found(closest) /\ Fitting /\ tlas.stack = << >> /\ reference = None
  BY DEF TraceIInv, finish
<1>2. /\ status' = (IF closest.present THEN "hit" ELSE "miss") /\ UNCHANGED input
      /\ tlas' = tlas /\ blas' = blas /\ reference' = reference /\ closest' = closest
  BY DEF finish, stop
<1>3. outer \subseteq OuterDone(closest, reference)
  <2>1. OuterGoing(tlas, closest, reference) BY <1>1 DEF Underway
  <2>2. QED BY <1>1, <2>1, GoEnd DEF OuterGoing
<1>4. ASSUME NEW i, NEW t, IsHit(i, t)
      PROVE  /\ closest.present
             /\ kernel = "closest" =>
                   Best(closest) = HitOf(i, t) \/ Precedes(Best(closest), HitOf(i, t))
  <2>1. i \in 1 .. Len(launched.instances) /\ t \in 1 .. Len(geometry_of(i))
    BY <1>4 DEF IsHit
  <2>2. PICK x \in outer : x.payload.instance_id = i BY <1>1, <2>1, OuterItems
  <2>3. AllAnswered(closest, i) BY <1>1, <1>3, <2>2 DEF OuterDone
  <2>4. QED BY <1>4, <2>1, <2>3 DEF AllAnswered, Answers
<1>5. CASE closest.present
  <2>1. status' = "hit" /\ Best(closest) \in Hits
    BY <1>1, <1>2, <1>5, FoundShape
  <2>2. kernel = "closest" => \A g \in Hits \ {Best(closest)} : Precedes(Best(closest), g)
    BY <1>1, <1>4, HitsAre
  <2>3. QED BY <1>1, <1>2, <2>1, <2>2, Establishes DEF Fitting
<1>6. CASE ~closest.present
  <2>1. status' = "miss" /\ Hits = {} BY <1>1, <1>2, <1>4, <1>6, HitsAre
  <2>2. QED BY <1>1, <1>2, <2>1, Establishes DEF Fitting
<1>7. QED BY <1>5, <1>6

------------------------------------------------------
(* The outer traversal. *)
OuterAt ==
    /\ TraceIInv /\ status = "running" /\ reference = None /\ tlas.stack # << >>

(* What is known there: the guards of the code refuse nothing. *)
LEMMA OuterState ==
  ASSUME OuterAt
  PROVE  /\ InputInv /\ Found(closest) /\ Fitting /\ StackCapacity \in Nat \ {0}
         /\ Underway(tlas, blas, reference, closest) /\ tlas.stack # << >>
         /\ reference = None /\ status = "running"
         /\ Going(tlas, bvh.tlas_nodes, bvh.instance_references, outer, Len(launched.instances),
                  0, 0, OuterDone(closest, reference))
         /\ ~refuses(tlas, bvh.tlas_nodes, 1, Len(bvh.tlas_nodes), 0)
<1>1. /\ InputInv /\ Found(closest) /\ Fitting /\ StackCapacity \in Nat \ {0}
      /\ Underway(tlas, blas, reference, closest) /\ tlas.stack # << >>
      /\ reference = None /\ status = "running" /\ launched.instances # << >>
  BY DEF OuterAt, TraceIInv, InputInv, Capacity, Underway
<1>2. Going(tlas, bvh.tlas_nodes, bvh.instance_references, outer, Len(launched.instances),
            0, 0, OuterDone(closest, reference))
  BY <1>1 DEF Underway, OuterGoing
<1>3. Len(bvh.tlas_nodes) = 2 * Len(launched.instances) - 1 /\ 1 = 0 + 1
  BY <1>1, OuterShape
<1>4. QED BY <1>1, <1>2, <1>3, GoChecks

(* An inner node of the top tree is opened. *)
LEMMA StepOpenTlas ==
  ASSUME OuterAt, open_tlas_node
  PROVE  TraceIInv'
<1>1. /\ InputInv /\ Found(closest) /\ Fitting /\ StackCapacity \in Nat \ {0}
      /\ Underway(tlas, blas, reference, closest) /\ tlas.stack # << >>
      /\ reference = None /\ status = "running"
      /\ Going(tlas, bvh.tlas_nodes, bvh.instance_references, outer, Len(launched.instances),
               0, 0, OuterDone(closest, reference))
  BY OuterState
<1> DEFINE w == opened(tlas, bvh.tlas_nodes, 0)
           Q == OuterDone(closest, reference)
                  \cup Missed(bvh.tlas_nodes, outer, Len(launched.instances), 0, 0)
<1>2. /\ Len(w) <= StackCapacity
      /\ Going(visited(tlas, w), bvh.tlas_nodes, bvh.instance_references, outer,
               Len(launched.instances), 0, 0, Q)
  BY <1>1, GoOpen DEF open_tlas_node
<1>3. Len(w) \in Int /\ ~(Len(w) > StackCapacity)
  <2>1. Going(visited(tlas, w), bvh.tlas_nodes, bvh.instance_references, outer,
              Len(launched.instances), 0, 0, Q)
    BY <1>2
  <2>2. visited(tlas, w).stack = w BY DEF visited
  <2> HIDE DEF w, Q
  <2>3. Len(w) \in Nat BY <2>1, <2>2, SeqShape DEF Going, Walks, Stacked
  <2>4. QED BY <1>1, <1>2, <2>3
<1>4. /\ tlas' = visited(tlas, w) /\ UNCHANGED input /\ status' = "running"
      /\ blas' = blas /\ reference' = reference /\ closest' = closest
  BY <1>1, <1>3 DEF open_tlas_node
<1> HIDE DEF w
<1>5. OuterGoing(tlas', closest', reference')
  <2>1. \A x \in outer : x \in Q => x \in OuterDone(closest, reference)
    BY <1>1, MissedOuter DEF OuterDone
  <2> HIDE DEF Q
  <2>2. Going(visited(tlas, w), bvh.tlas_nodes, bvh.instance_references, outer,
              Len(launched.instances), 0, 0, OuterDone(closest, reference))
    BY <1>2, <2>1, GoMore
  <2>3. QED BY <1>4, <2>2 DEF OuterGoing
<1>6. \A j : ~Entered(reference', j) BY <1>1, <1>4, EnteredShape
<1>7. Underway(tlas', blas', reference', closest')
  BY <1>1, <1>4, <1>5, <1>6 DEF Underway
<1>8. Len(tlas'.stack) <= StackCapacity BY <1>2, <1>4 DEF visited
<1>9. QED BY <1>1, <1>4, <1>7, <1>8, Establishes DEF Fitting

(* A leaf of the outer tree: all it holds is one instance. *)
LEMMA OuterLeaf ==
  ASSUME OuterAt, is_leaf(tlas, bvh.tlas_nodes)
  PROVE  /\ Going(visited(tlas, Front(tlas.stack)), bvh.tlas_nodes, bvh.instance_references,
                  outer, Len(launched.instances), 0, 0,
                  OuterDone(closest, reference)
                    \cup Held(bvh.tlas_nodes, bvh.instance_references, outer, Last(tlas.stack)))
         /\ bvh.tlas_nodes[Last(tlas.stack)].bounds \in Box
         /\ \E i \in 1 .. Len(launched.instances) :
               /\ leaf_instance = instance_reference(launched, i)
               /\ bvh.tlas_nodes[Last(tlas.stack)].bounds
                    = instance_bounds(geometry_of(i), launched.instances[i].shift)
               /\ \A x \in Held(bvh.tlas_nodes, bvh.instance_references, outer, Last(tlas.stack)) :
                     x.payload.instance_id = i
         /\ Len(Front(tlas.stack)) <= StackCapacity
<1>1. /\ InputInv /\ Found(closest) /\ tlas.stack # << >> /\ StackCapacity \in Nat \ {0}
      /\ Going(tlas, bvh.tlas_nodes, bvh.instance_references, outer, Len(launched.instances),
               0, 0, OuterDone(closest, reference))
  BY OuterState
<1> DEFINE H == Held(bvh.tlas_nodes, bvh.instance_references, outer, Last(tlas.stack))
           z == visited(tlas, Front(tlas.stack))
           c == Last(tlas.stack)
<1>2. /\ Going(z, bvh.tlas_nodes, bvh.instance_references, outer, Len(launched.instances), 0, 0,
               OuterDone(closest, reference) \cup H)
      /\ bvh.tlas_nodes[c].bounds \in Box /\ H # {}
  BY <1>1, GoPop
<1>3. PICK y : y \in H BY <1>2
<1>4. /\ y \in outer /\ y.payload = leaf_instance /\ y.bounds = bvh.tlas_nodes[c].bounds
      /\ \A x \in H : x.payload = leaf_instance
  BY <1>3 DEF Held, leaf_instance, Last
<1>5. PICK i \in 1 .. Len(launched.instances) :
          /\ i = y.payload.instance_id /\ y.payload = instance_reference(launched, i)
          /\ y.bounds = instance_bounds(geometry_of(i), launched.instances[i].shift)
  BY <1>1, <1>4, OuterItems
<1>6. Len(Front(tlas.stack)) <= StackCapacity
  <2>1. z.stack = Front(tlas.stack) BY DEF visited
  <2>2. Len(z.stack) <= StackCapacity BY <1>1, <1>2, GoFits
  <2>3. QED BY <2>1, <2>2
<1>7. QED BY <1>2, <1>4, <1>5, <1>6

(* A leaf of the top tree the ray misses, or that is not visible. *)
LEMMA StepSkip ==
  ASSUME OuterAt, skip_leaf
  PROVE  TraceIInv'
<1>1. /\ InputInv /\ Found(closest) /\ Fitting /\ reference = None /\ status = "running"
      /\ Underway(tlas, blas, reference, closest)
  BY OuterState
<1>2. /\ tlas' = visited(tlas, Front(tlas.stack)) /\ UNCHANGED input /\ status' = "running"
      /\ blas' = blas /\ reference' = reference /\ closest' = closest
      /\ is_leaf(tlas, bvh.tlas_nodes)
      /\ ~intersects(bvh.tlas_nodes[Last(tlas.stack)].bounds, 0) \/ ~leaf_instance.visible
  BY <1>1 DEF skip_leaf, Last, Front
<1> DEFINE H == Held(bvh.tlas_nodes, bvh.instance_references, outer, Last(tlas.stack))
           b == bvh.tlas_nodes[Last(tlas.stack)].bounds
           z == visited(tlas, Front(tlas.stack))
           D == OuterDone(closest, reference)
<1>3. /\ Going(z, bvh.tlas_nodes, bvh.instance_references, outer, Len(launched.instances), 0, 0,
               D \cup H)
      /\ b \in Box /\ Len(Front(tlas.stack)) <= StackCapacity
  BY <1>2, OuterLeaf
<1>4. PICK i \in 1 .. Len(launched.instances) :
          /\ leaf_instance = instance_reference(launched, i)
          /\ b = instance_bounds(geometry_of(i), launched.instances[i].shift)
          /\ \A x \in H : x.payload.instance_id = i
  BY <1>2, OuterLeaf
<1>5. AllAnswered(closest, i)
  <2>1. CASE ~intersects(b, 0)
    <3>1. Encloses(b, b) BY <1>3, EnclosesItself
    <3> HIDE DEF b
    <3>2. QED BY <1>1, <1>3, <1>4, <2>1, <3>1, MissedOutside
  <2>2. CASE ~leaf_instance.visible
    <3>1. ~launched.instances[i].visible BY <1>4, <2>2 DEF instance_reference
    <3>2. QED BY <3>1 DEF AllAnswered, Answers, IsHit
  <2>3. QED BY <1>2, <2>1, <2>2
<1>6. \A x \in outer : x \in D \cup H => x \in D BY <1>4, <1>5 DEF OuterDone
<1> HIDE DEF D, H, z
<1>7. Going(z, bvh.tlas_nodes, bvh.instance_references, outer, Len(launched.instances), 0, 0, D)
  BY <1>3, <1>6, GoMore
<1>8. OuterGoing(tlas', closest', reference') BY <1>2, <1>7 DEF OuterGoing, D, z
<1>9. \A j : ~Entered(reference', j) BY <1>1, <1>2, EnteredShape
<1>10. Underway(tlas', blas', reference', closest')
  BY <1>1, <1>2, <1>8, <1>9 DEF Underway
<1>11. Len(tlas'.stack) <= StackCapacity BY <1>2, <1>3 DEF visited
<1>12. QED BY <1>1, <1>2, <1>10, <1>11, Establishes DEF Fitting

(* A leaf of the top tree: its instance is entered. *)
LEMMA StepEnter ==
  ASSUME OuterAt, enter_instance
  PROVE  TraceIInv'
<1>1. /\ InputInv /\ Found(closest) /\ Fitting /\ reference = None /\ status = "running"
      /\ Underway(tlas, blas, reference, closest) /\ StackCapacity \in Nat \ {0}
  BY OuterState
<1>2. /\ tlas' = visited(tlas, Front(tlas.stack)) /\ UNCHANGED input /\ status' = "running"
      /\ reference' = leaf_instance /\ closest' = closest
      /\ blas' = [stack |-> << bvh.blases[leaf_instance.blas_index].root_node >>, visited |-> 0]
      /\ is_leaf(tlas, bvh.tlas_nodes) /\ leaf_instance.visible
  BY <1>1 DEF enter_instance, Last, Front
<1> DEFINE H == Held(bvh.tlas_nodes, bvh.instance_references, outer, Last(tlas.stack))
           z == visited(tlas, Front(tlas.stack))
           D == OuterDone(closest, reference)
           F == OuterDone(closest', reference')
<1>3. /\ Going(z, bvh.tlas_nodes, bvh.instance_references, outer, Len(launched.instances), 0, 0,
               D \cup H)
      /\ Len(Front(tlas.stack)) <= StackCapacity
  BY <1>2, OuterLeaf
<1>4. PICK i \in 1 .. Len(launched.instances) :
          /\ leaf_instance = instance_reference(launched, i)
          /\ \A x \in H : x.payload.instance_id = i
  BY <1>2, OuterLeaf
<1>5. Entered(reference', i)
  <2>1. launched.instances[i].visible BY <1>2, <1>4 DEF instance_reference
  <2>2. QED BY <1>2, <1>4, <2>1 DEF Entered
<1>6. /\ reference' # None /\ reference'.instance_id = i
      /\ bvh.blases[reference'.blas_index] = tree_of(i)
  BY <1>1, <1>5, EnteredShape
<1>7. \A x \in outer : x \in D \cup H => x \in F
  BY <1>1, <1>2, <1>4, <1>6 DEF OuterDone
<1> HIDE DEF D, H, z, F
<1>8. Going(z, bvh.tlas_nodes, bvh.instance_references, outer, Len(launched.instances), 0, 0, F)
  BY <1>3, <1>7, GoMore
<1>9. OuterGoing(tlas', closest', reference') BY <1>2, <1>8 DEF OuterGoing, F, z
<1>10. InnerGoing(blas', closest', i)
  <2> DEFINE T == tree_of(i)
  <2>1. /\ T.root_node = T.node_offset + 1
        /\ Hung(bvh.blas_nodes, bvh.primitive_references, inner(i), Len(geometry_of(i)),
                T.node_offset, T.primitive_reference_offset, Depth)
    BY <1>1, TreeShape
  <2>2. blas'.stack = << T.root_node >> /\ blas'.visited = 0 BY <1>2, <1>6
  <2> HIDE DEF T
  <2>3. Going(blas', bvh.blas_nodes, bvh.primitive_references, inner(i), Len(geometry_of(i)),
              T.node_offset, T.primitive_reference_offset, {})
    BY <1>1, <2>1, <2>2, GoStart
  <2>4. Going(blas', bvh.blas_nodes, bvh.primitive_references, inner(i), Len(geometry_of(i)),
              T.node_offset, T.primitive_reference_offset, InnerDone(closest', i))
    BY <2>3, GoMore
  <2>5. QED BY <2>4 DEF InnerGoing, T
<1>11. \A j : Entered(reference', j) => j = i BY <1>1, <1>6, EnteredShape
<1>12. Underway(tlas', blas', reference', closest')
  BY <1>1, <1>2, <1>9, <1>10, <1>11 DEF Underway
<1>13. Len(tlas'.stack) <= StackCapacity /\ Len(blas'.stack) <= StackCapacity
  <2>1. Len(tlas'.stack) <= StackCapacity BY <1>2, <1>3 DEF visited
  <2>2. Len(blas'.stack) = 1 BY <1>2
  <2>3. QED BY <1>1, <2>1, <2>2
<1>14. QED BY <1>1, <1>2, <1>5, <1>12, <1>13, Establishes

(* A step of the outer traversal. *)
LEMMA StepVisitTlas ==
  ASSUME TraceIInv, visit_tlas
  PROVE  TraceIInv'
<1>1. OuterAt BY DEF OuterAt, visit_tlas
<1>2. ~refuses(tlas, bvh.tlas_nodes, 1, Len(bvh.tlas_nodes), 0)
  BY <1>1, OuterState
<1>3. open_tlas_node \/ skip_leaf \/ enter_instance BY <1>2 DEF visit_tlas
<1>4. QED BY <1>1, <1>3, StepOpenTlas, StepSkip, StepEnter

------------------------------------------------------
(* The traversal of an instance. *)
InnerAt(i) ==
    /\ TraceIInv /\ status = "running" /\ Entered(reference, i) /\ blas.stack # << >>

(* What is known there: the guards of the code refuse nothing. *)
LEMMA InnerState ==
  ASSUME NEW i, InnerAt(i)
  PROVE  /\ InputInv /\ Found(closest) /\ Fitting /\ StackCapacity \in Nat \ {0}
         /\ Underway(tlas, blas, reference, closest) /\ status = "running"
         /\ i \in 1 .. Len(launched.instances) /\ launched.instances[i].visible
         /\ reference # None /\ reference.instance_id = i /\ blas.stack # << >>
         /\ launched.geometries[reference.blas_index] = geometry_of(i)
         /\ shift_of(reference) = launched.instances[i].shift
         /\ \A j : Entered(reference, j) => j = i
         /\ InnerGoing(blas, closest, i)
         /\ ~refuses(blas, bvh.blas_nodes, tree.node_offset + 1, tree.node_count,
                     shift_of(reference))
<1>1. /\ InputInv /\ Found(closest) /\ Fitting /\ StackCapacity \in Nat \ {0}
      /\ Underway(tlas, blas, reference, closest) /\ status = "running"
      /\ Entered(reference, i) /\ blas.stack # << >>
  BY DEF InnerAt, TraceIInv, InputInv, Capacity
<1>2. /\ i \in 1 .. Len(launched.instances) /\ launched.instances[i].visible
      /\ reference # None /\ reference.instance_id = i
      /\ bvh.blases[reference.blas_index] = tree_of(i)
      /\ launched.geometries[reference.blas_index] = geometry_of(i)
      /\ shift_of(reference) = launched.instances[i].shift
  BY <1>1, EnteredShape
<1>3. \A j : Entered(reference, j) => j = i BY <1>1, <1>2, EnteredShape
<1>4. InnerGoing(blas, closest, i) BY <1>1 DEF Underway
<1>5. ~refuses(blas, bvh.blas_nodes, tree.node_offset + 1, tree.node_count, shift_of(reference))
  <2> DEFINE T == tree_of(i)
             o == T.node_offset
             first == o + 1
             s == shift_of(reference)
  <2>1. T.node_count = 2 * Len(geometry_of(i)) - 1 /\ tree = T
    BY <1>1, <1>2, TreeShape DEF tree
  <2>2. Going(blas, bvh.blas_nodes, bvh.primitive_references, inner(i), Len(geometry_of(i)),
              o, T.primitive_reference_offset, InnerDone(closest, i))
    BY <1>4 DEF InnerGoing
  <2>3. first = o + 1 OBVIOUS
  <2> HIDE DEF T, first, s, o
  <2>4. ~refuses(blas, bvh.blas_nodes, first, T.node_count, s)
    BY <1>1, <2>1, <2>2, <2>3, GoChecks
  <2>5. QED BY <2>1, <2>4 DEF first, s, o
<1>6. QED BY <1>1, <1>2, <1>3, <1>4, <1>5

(* An inner node of a bottom tree is opened. *)
LEMMA StepOpenBlas ==
  ASSUME NEW i, InnerAt(i), open_blas_node
  PROVE  TraceIInv'
<1>1. /\ InputInv /\ Found(closest) /\ Fitting /\ StackCapacity \in Nat \ {0}
      /\ Underway(tlas, blas, reference, closest) /\ status = "running"
      /\ i \in 1 .. Len(launched.instances) /\ blas.stack # << >>
      /\ \A j : Entered(reference, j) => j = i
      /\ InnerGoing(blas, closest, i)
  BY InnerState
<1> DEFINE s == launched.instances[i].shift
           w == opened(blas, bvh.blas_nodes, s)
           k == Len(geometry_of(i))
           o == tree_of(i).node_offset
           r == tree_of(i).primitive_reference_offset
           D == InnerDone(closest, i)
           M == Missed(bvh.blas_nodes, inner(i), k, o, s)
<1>2. shift_of(reference) = s BY InnerState
<1>3. Going(blas, bvh.blas_nodes, bvh.primitive_references, inner(i), k, o, r, D)
  BY <1>1 DEF InnerGoing
<1>4. \A x \in inner(i) : x \in D \cup M => x \in D
  BY <1>1, MissedInner DEF InnerDone
<1> HIDE DEF k, o, r, D
<1>5. /\ Len(w) <= StackCapacity
      /\ Going(visited(blas, w), bvh.blas_nodes, bvh.primitive_references, inner(i), k, o, r,
               D \cup M)
  BY <1>1, <1>3, GoOpen DEF open_blas_node
<1> HIDE DEF M
<1>6. visited(blas, w).stack = w BY DEF visited
<1>7. /\ tlas' = tlas /\ UNCHANGED input /\ status' = "running"
      /\ blas' = visited(blas, w) /\ reference' = reference /\ closest' = closest
  <2>1. w = opened(blas, bvh.blas_nodes, shift_of(reference)) BY <1>2
  <2> HIDE DEF w
  <2>2. Len(w) \in Nat BY <1>5, <1>6, SeqShape DEF Going, Walks, Stacked
  <2>3. ~(Len(w) > StackCapacity) BY <1>1, <1>5, <2>2
  <2>4. QED BY <1>1, <2>1, <2>3 DEF open_blas_node
<1> HIDE DEF w
<1>8. Going(visited(blas, w), bvh.blas_nodes, bvh.primitive_references, inner(i), k, o, r, D)
  BY <1>4, <1>5, GoMore
<1>9. InnerGoing(blas', closest', i) BY <1>7, <1>8 DEF InnerGoing, k, o, r, D
<1>10. Underway(tlas', blas', reference', closest')
  BY <1>1, <1>7, <1>9 DEF Underway
<1>11. Len(blas'.stack) <= StackCapacity BY <1>5, <1>6, <1>7
<1>12. reference' = None \/ \E j : Entered(reference', j) BY <1>7 DEF InnerAt
<1>13. QED BY <1>1, <1>7, <1>10, <1>11, <1>12, Establishes DEF Fitting

(* A leaf of an instance's tree: all it holds is one triangle. *)
LEMMA InnerLeaf ==
  ASSUME NEW i, InnerAt(i), is_leaf(blas, bvh.blas_nodes),
         NEW node, node = bvh.blas_nodes[Last(blas.stack)],
         NEW t, t = bvh.primitive_references[node.reference_offset],
         NEW c, \A u : Answers(closest, i, u) => Answers(c, i, u), Answers(c, i, t)
  PROVE  /\ InnerGoing(visited(blas, Front(blas.stack)), c, i)
         /\ t \in 1 .. Len(geometry_of(i))
         /\ node.bounds \in Box /\ node.bounds = primitive_bounds(geometry_of(i)[t])
         /\ Len(Front(blas.stack)) <= StackCapacity
<1>1. /\ InputInv /\ StackCapacity \in Nat \ {0}
      /\ i \in 1 .. Len(launched.instances) /\ blas.stack # << >>
      /\ InnerGoing(blas, closest, i)
  BY InnerState
<1> DEFINE k == Len(geometry_of(i))
           o == tree_of(i).node_offset
           r == tree_of(i).primitive_reference_offset
           D == InnerDone(closest, i)
           F == InnerDone(c, i)
           H == Held(bvh.blas_nodes, bvh.primitive_references, inner(i), Last(blas.stack))
           z == visited(blas, Front(blas.stack))
<1>2. Going(blas, bvh.blas_nodes, bvh.primitive_references, inner(i), k, o, r, D)
  BY <1>1 DEF InnerGoing
<1>3. /\ Going(z, bvh.blas_nodes, bvh.primitive_references, inner(i), k, o, r, D \cup H)
      /\ node.bounds \in Box /\ H # {}
  BY <1>1, <1>2, GoPop
<1>4. \A x \in H : x \in inner(i) /\ x.bounds = node.bounds /\ x.payload = t
  BY DEF Held
<1>5. t \in 1 .. Len(geometry_of(i)) /\ node.bounds = primitive_bounds(geometry_of(i)[t])
  <2>1. PICK x : x \in H BY <1>3
  <2>2. QED BY <1>1, <1>4, <2>1, InnerItems
<1>6. \A x \in inner(i) : x \in D \cup H => x \in F BY <1>4 DEF InnerDone
<1>7. Len(Front(blas.stack)) <= StackCapacity
  <2>1. z.stack = Front(blas.stack) BY DEF visited
  <2>2. Len(z.stack) <= StackCapacity BY <1>1, <1>3, GoFits
  <2>3. QED BY <2>1, <2>2
<1> HIDE DEF D, F, H, z, k, o, r
<1>8. Going(z, bvh.blas_nodes, bvh.primitive_references, inner(i), k, o, r, F)
  BY <1>3, <1>6, GoMore
<1>9. QED BY <1>3, <1>5, <1>7, <1>8 DEF InnerGoing, F, z, k, o, r

(* A triangle the ray does not meet, or whose box it misses, is answered. *)
LEMMA NotMetAnswered ==
  ASSUME InputInv, Found(closest), NEW i \in 1 .. Len(launched.instances),
         NEW t \in 1 .. Len(geometry_of(i)), NEW d \in Box,
         d = primitive_bounds(geometry_of(i)[t]),
         \/ ~intersects(d, launched.instances[i].shift)
         \/ ~meets(geometry_of(i)[t], launched.instances[i].shift, traversal_t_max)
  PROVE  Answers(closest, i, t)
<1>1. CASE ~intersects(d, launched.instances[i].shift)
  <2>1. Encloses(d, primitive_bounds(geometry_of(i)[t])) BY EnclosesItself
  <2>2. QED BY <1>1, <2>1, MissedInside
<1>2. CASE ~meets(geometry_of(i)[t], launched.instances[i].shift, traversal_t_max)
  <2> SUFFICES ASSUME IsHit(i, t) PROVE ParameterOf(i, t) > traversal_t_max
    BY FarAnswered
  <2>1. geometry_of(i)[t].at # None BY DEF IsHit
  <2>2. ~(ParameterOf(i, t) \in ray.t_min .. traversal_t_max)
    BY <1>2, <2>1 DEF meets, ParameterOf
  <2>3. ParameterOf(i, t) \in Int /\ ray.t_min <= ParameterOf(i, t) BY HitShape
  <2>4. ray.t_min \in Int /\ traversal_t_max \in Int
    BY RayShape, FoundShape DEF traversal_t_max
  <2>5. QED BY <2>2, <2>3, <2>4
<1>3. QED BY <1>1, <1>2

(* A triangle that is met is one of the hits. *)
LEMMA MetIsHit ==
  ASSUME InputInv, Found(closest), NEW i \in 1 .. Len(launched.instances),
         launched.instances[i].visible, NEW t \in 1 .. Len(geometry_of(i)),
         meets(geometry_of(i)[t], launched.instances[i].shift, traversal_t_max)
  PROVE  IsHit(i, t)
<1>1. geometry_of(i)[t].at # None /\ ParameterOf(i, t) \in ray.t_min .. traversal_t_max
  BY DEF meets, ParameterOf
<1>2. ParameterOf(i, t) \in Int BY <1>1, ParameterShape
<1>3. /\ ray.t_min \in Int /\ ray.t_max \in Int /\ traversal_t_max \in Int
      /\ traversal_t_max <= ray.t_max
  <2>1. ray.t_min \in Int /\ ray.t_max \in Int BY RayShape
  <2>2. closest.present => closest.parameter \in Int /\ closest.parameter <= ray.t_max
    BY FoundShape
  <2>3. QED BY <2>1, <2>2 DEF traversal_t_max
<1>4. ParameterOf(i, t) \in ray.t_min .. ray.t_max BY <1>1, <1>2, <1>3
<1>5. QED BY <1>1, <1>4 DEF IsHit

(* A leaf of a bottom tree: its triangle is tested. *)
LEMMA StepTestTriangle ==
  ASSUME NEW i, InnerAt(i), test_triangle
  PROVE  TraceIInv'
<1>1. /\ InputInv /\ Found(closest) /\ Fitting /\ StackCapacity \in Nat \ {0}
      /\ Underway(tlas, blas, reference, closest) /\ status = "running"
      /\ i \in 1 .. Len(launched.instances) /\ launched.instances[i].visible
      /\ reference.instance_id = i
      /\ launched.geometries[reference.blas_index] = geometry_of(i)
      /\ shift_of(reference) = launched.instances[i].shift
      /\ \A j : Entered(reference, j) => j = i
  BY InnerState
<1> DEFINE node     == bvh.blas_nodes[Last(blas.stack)]
           s        == launched.instances[i].shift
           t        == bvh.primitive_references[node.reference_offset]
           triangle == geometry_of(i)[t]
           p        == ParameterOf(i, t)
           z        == visited(blas, Front(blas.stack))
           hit      == intersects(node.bounds, s) /\ meets(triangle, s, traversal_t_max)
           better   == candidate_precedes(p, i, t)
<1>2. /\ is_leaf(blas, bvh.blas_nodes) /\ UNCHANGED input /\ tlas' = tlas
      /\ blas' = z /\ reference' = reference
      /\ closest' = (IF hit /\ better THEN CandidateOf(i, t) ELSE closest)
      /\ status' = (IF hit /\ kernel = "occlusion" THEN "hit" ELSE status)
  BY <1>1 DEF test_triangle, candidate, CandidateOf, ParameterOf, Last, Front
<1>3. reference' = None \/ \E j : Entered(reference', j) BY <1>2 DEF InnerAt
<1>4. /\ t \in 1 .. Len(geometry_of(i)) /\ node.bounds \in Box
      /\ node.bounds = primitive_bounds(geometry_of(i)[t])
      /\ Len(Front(blas.stack)) <= StackCapacity
      /\ \A c : (\A u : Answers(closest, i, u) => Answers(c, i, u)) /\ Answers(c, i, t)
                   => InnerGoing(z, c, i)
  <2>1. is_leaf(blas, bvh.blas_nodes) BY <1>2
  <2> HIDE DEF z
  <2>2. ASSUME NEW c, \A u : Answers(closest, i, u) => Answers(c, i, u), Answers(c, i, t)
        PROVE  /\ InnerGoing(z, c, i)
               /\ t \in 1 .. Len(geometry_of(i))
               /\ node.bounds \in Box /\ node.bounds = primitive_bounds(geometry_of(i)[t])
               /\ Len(Front(blas.stack)) <= StackCapacity
    <3> HIDE DEF node
    <3>1. node = bvh.blas_nodes[Last(blas.stack)] BY DEF node
    <3> HIDE DEF t
    <3>2. t = bvh.primitive_references[node.reference_offset] BY DEF t
    <3>3. QED BY <2>1, <2>2, <3>1, <3>2, InnerLeaf DEF z
  (* Whatever answers everything will do.                                 *)
  <2>3. \E c : \A u : Answers(c, i, u)
    <3> DEFINE c == [present |-> TRUE, parameter |-> ray.t_min - 1, instance_id |-> 0,
                     primitive_id |-> 0]
    <3>1. ASSUME NEW u PROVE Answers(c, i, u)
      <4> SUFFICES ASSUME IsHit(i, u) PROVE c.present /\ Precedes(Best(c), HitOf(i, u))
        BY DEF Answers
      <4>1. ray.t_min \in Int BY <1>1, RayShape
      <4>2. /\ HitOf(i, u)[1] \in Int /\ ray.t_min <= HitOf(i, u)[1]
        BY <1>1, HitShape
      <4>3. c.present /\ Best(c)[1] = ray.t_min - 1 BY DEF Best
      <4>4. Best(c)[1] < HitOf(i, u)[1] BY <4>1, <4>2, <4>3
      <4>5. QED BY <4>3, <4>4 DEF Precedes
    <3> HIDE DEF c
    <3>2. QED BY <3>1
  <2>4. QED BY <2>2, <2>3
<1>5. /\ Len(tlas'.stack) <= StackCapacity /\ Len(blas'.stack) <= StackCapacity
  BY <1>1, <1>2, <1>4 DEF Fitting, visited
<1>6. hit => IsHit(i, t) BY <1>1, <1>4, MetIsHit
<1>7. ~hit => Answers(closest, i, t) BY <1>1, <1>4, NotMetAnswered
<1>8. kernel \in {"closest", "occlusion"} BY <1>1 DEF InputInv
<1> HIDE DEF node, s, t, triangle, p, z, hit, better
(* A step that goes on, with what it found.                               *)
<1>9. ASSUME status' = "running", Found(closest'), kernel = "occlusion" => ~closest'.present,
             \A j, u : Answers(closest, j, u) => Answers(closest', j, u), Answers(closest', i, t)
      PROVE  TraceIInv'
  <2>1. InnerGoing(blas', closest', i) BY <1>2, <1>4, <1>9
  <2>2. OuterGoing(tlas', closest', reference')
    <3>1. \A x \in outer : x \in OuterDone(closest, reference) => x \in OuterDone(closest', reference')
      BY <1>2, <1>9 DEF OuterDone, AllAnswered
    <3>2. OuterGoing(tlas, closest, reference) BY <1>1 DEF Underway
    <3>3. QED BY <1>2, <3>1, <3>2, GoMore DEF OuterGoing
  <2>3. Underway(tlas', blas', reference', closest')
    BY <1>1, <1>2, <1>9, <2>1, <2>2 DEF Underway
  <2>4. QED BY <1>1, <1>2, <1>3, <1>5, <1>9, <2>3, Establishes
<1>10. kernel = "occlusion" => ~closest.present BY <1>1 DEF Underway
<1>11. CASE ~hit
  <2>1. closest' = closest /\ status' = "running" BY <1>1, <1>2, <1>11
  <2>2. QED BY <1>1, <1>7, <1>9, <1>10, <1>11, <2>1
<1>12. CASE hit /\ kernel = "occlusion"
  <2>1. status' = "hit" /\ kernel # "closest" BY <1>2, <1>12
  <2>2. Hits # {} BY <1>1, <1>6, <1>12, HitsAre
  <2>3. Found(closest') BY <1>1, <1>2, <1>6, <1>12 DEF Found
  <2>4. QED BY <1>1, <1>2, <1>3, <1>5, <2>1, <2>2, <2>3, Establishes
<1>13. CASE hit /\ kernel = "closest"
  <2>1. status' = "running" /\ IsHit(i, t) /\ kernel # "occlusion"
    BY <1>1, <1>2, <1>6, <1>13
  <2>2. HitOf(i, t) \in Triple /\ HitOf(i, t)[1] = p /\ HitOf(i, t)[2] = i /\ HitOf(i, t)[3] = t
    BY <1>1, <2>1, HitShape DEF p
  <2>3. closest.present =>
           /\ Best(closest) \in Triple /\ Best(closest)[1] = closest.parameter
           /\ Best(closest)[2] = closest.instance_id /\ Best(closest)[3] = closest.primitive_id
    BY <1>1, FoundShape
  <2>4. better <=> ~closest.present \/ Precedes(HitOf(i, t), Best(closest))
    BY <2>2, <2>3 DEF better, candidate_precedes, Precedes
  <2>5. CASE better
    <3>1. closest' = CandidateOf(i, t) BY <1>2, <1>13, <2>5
    <3>2. closest.present => Precedes(HitOf(i, t), Best(closest)) BY <2>4, <2>5
    <3>3. /\ Answers(closest', i, t) /\ Found(closest')
          /\ \A j, u : Answers(closest, j, u) => Answers(closest', j, u)
      BY <1>1, <1>13, <2>1, <3>1, <3>2, BetterAnswers
    <3>4. QED BY <1>9, <2>1, <3>3
  <2>6. CASE ~better
    <3>1. closest' = closest BY <1>2, <2>6
    <3>2. closest.present /\ ~Precedes(HitOf(i, t), Best(closest)) BY <2>4, <2>6
    <3>3. Best(closest) = HitOf(i, t) \/ Precedes(Best(closest), HitOf(i, t))
      BY <2>2, <2>3, <3>2, PrecedesShape
    <3>4. Answers(closest', i, t) BY <3>1, <3>2, <3>3 DEF Answers
    <3>5. QED BY <1>1, <1>9, <1>10, <2>1, <3>1, <3>4
  <2>7. QED BY <2>5, <2>6
<1>14. QED BY <1>8, <1>11, <1>12, <1>13

(* A step of the inner traversal. *)
LEMMA StepVisitBlas ==
  ASSUME TraceIInv, visit_blas
  PROVE  TraceIInv'
<1>1. PICK i : Entered(reference, i) BY DEF TraceIInv, visit_blas
<1>2. InnerAt(i) BY <1>1 DEF InnerAt, visit_blas
<1>3. ~refuses(blas, bvh.blas_nodes, tree.node_offset + 1, tree.node_count, shift_of(reference))
  BY <1>2, InnerState
<1>4. open_blas_node \/ test_triangle BY <1>3 DEF visit_blas
<1>5. QED BY <1>2, <1>4, StepOpenBlas, StepTestTriangle

------------------------------------------------------
(* A step that changes nothing. *)
LEMMA StepStutter ==
  ASSUME TraceIInv, UNCHANGED trace_vars
  PROVE  TraceIInv'
<1>1. /\ launched' = launched /\ ray' = ray /\ kernel' = kernel /\ bvh' = bvh /\ UNCHANGED input
      /\ status' = status /\ tlas' = tlas /\ blas' = blas /\ reference' = reference
      /\ closest' = closest
  BY DEF trace_vars, input
<1>2. InputInv' /\ Found(closest)' /\ Fitting'
  BY <1>1, InputKept, DoneKept DEF TraceIInv, Fitting
<1>3. (reference = None \/ \E i : Entered(reference, i))'
  BY <1>1, DoneKept DEF TraceIInv
<1>4. (status = "running" => Underway(tlas, blas, reference, closest))'
  BY <1>1, UnderwayKept DEF TraceIInv
<1>5. AnswersExhaustively'
  BY <1>1, SceneKept DEF TraceIInv, AnswersExhaustively, Precedes
<1>6. (status = "queued" => tlas = Traversal /\ blas = Traversal
                            /\ reference = None /\ closest = NotFound)'
  BY <1>1 DEF TraceIInv, Traversal, NotFound
<1>7. (status \in {"queued", "running", "hit", "miss"})' BY <1>1 DEF TraceIInv
<1>8. QED BY <1>2, <1>3, <1>4, <1>5, <1>6, <1>7 DEF TraceIInv

(* For every scene whose geometries and instances fit the stack, every ray
   and both kernels: each traversal keeps to its tree and to its stack, and
   whatever it has left behind is answered by the candidate it keeps
   (trace_scene and traverse_blas). *)
THEOREM TraceConsistent == TraceSpec => []TraceIInv
<1>1. TraceInit => TraceIInv BY TraversalInputs, InitIInv
<1>2. TraceIInv /\ [TraceNext]_trace_vars => TraceIInv'
  <2> SUFFICES ASSUME TraceIInv, [TraceNext]_trace_vars PROVE TraceIInv'
    OBVIOUS
  <2>1. CASE start
    BY <2>1, StepStart
  <2>2. CASE visit_tlas
    BY <2>2, StepVisitTlas
  <2>3. CASE visit_blas
    BY <2>3, StepVisitBlas
  <2>4. CASE leave_instance
    BY <2>4, StepLeave
  <2>5. CASE finish
    BY <2>5, StepFinish
  <2>6. CASE UNCHANGED trace_vars
    BY <2>6, StepStutter
  <2>7. QED BY <2>1, <2>2, <2>3, <2>4, <2>5, <2>6 DEF TraceNext
<1>3. QED BY <1>1, <1>2, PTL DEF TraceSpec

(* Neither stack of a query ever holds more than StackCapacity nodes, and the
   instance being traversed is one of the scene (push_intersecting_children). *)
THEOREM TraceTypeOK == TraceSpec => []TraversalTypeOK
<1>1. TraceIInv => TraversalTypeOK
  <2> SUFFICES ASSUME TraceIInv PROVE TraversalTypeOK
    OBVIOUS
  <2>1. reference = None \/ reference.instance_id \in DOMAIN launched.instances
    <3>1. DOMAIN launched.instances = 1 .. Len(launched.instances)
      BY SceneShapes DEF TraceIInv, InputInv
    <3>2. QED BY <3>1, EnteredShape DEF TraceIInv
  <2>2. QED BY <2>1 DEF TraceIInv, TraversalTypeOK, Fitting
<1>2. QED BY <1>1, TraceConsistent, PTL

(* For every such scene: what build_host_bvh made passes the validation, and a
   query ends with the answer of testing every triangle of every visible
   instance: the first of its hits in the order of candidate_precedes, or for
   occlusion whether there is one. *)
THEOREM TraceSound == TraceSpec => []TraversalSound
<1>1. TraceIInv => TraversalSound
  <2> SUFFICES ASSUME TraceIInv PROVE TraversalSound
    OBVIOUS
  <2>1. validate_built_topology(bvh)
    BY BuiltSceneValid DEF TraceIInv, InputInv, Capacity
  <2>2. QED BY <2>1 DEF TraceIInv, TraversalSound, TopologyAccepted
<1>2. QED BY <1>1, TraceConsistent, PTL
================================================================================
