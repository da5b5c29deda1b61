-------------------------- MODULE EmbreeAccelBackend --------------------------
(***************************************************************************)
(* The Embree backend of Backends/CPU/Embree/Source/AccelBackend.cpp: one   *)
(* bottom-level scene per geometry, one instance geometry per instance, and *)
(* the top-level scene rays traverse. Every Embree call may report an error *)
(* to the check_embree that follows it, and any step may throw; an action   *)
(* is a call with its check.                                               *)
(*                                                                         *)
(* rebuild assembles a candidate beside the state it will replace. refit    *)
(* edits the retained instance geometries in place, one at a time, and      *)
(* rolls back by hand: traversal reads an instance geometry through its     *)
(* pointer, so from rtcSetGeometryTransform to the next rtcCommitScene what *)
(* a ray would meet is undefined (Torn).                                    *)
(***************************************************************************)
EXTENDS Naturals, Sequences

CONSTANTS Scene, Geometry, Transform, Unsupported, NoScene,
    MaxCommits,  \* bounds the snapshots published by one object
    NoCall,      \* no create, rebuild or refit is running
    Torn         \* what traversal meets in an uncommitted instance

VARIABLES
    scene,             \* scene_ of the base class
    build_statistics,  \* build_statistics_ of the base class
    instances,         \* instances_, what hits are described from
    meshes,            \* meshes_, the geometry each bottom-level scene holds
    mappings,          \* mappings_, with the transform Embree holds for each
    traversed,         \* scene_, what a ray meets in each instance
    queryable,         \* queryable_
    call               \* the update that is running, and its locals

vars == << scene, build_statistics, instances, meshes, mappings, traversed, queryable, call >>
state == << scene, build_statistics, instances, meshes, mappings, traversed, queryable >>

Mapping == [mesh : Nat \ {0}, set : Transform, committed : Transform]

Update == [operation : {"create", "rebuild", "refit"},
           target    : Scene,
           stage     : {"mesh", "attach", "transform", "commit_geometry", "restore"},
           next      : Nat \ {0},
           changed   : BOOLEAN,
           meshes    : Seq(Geometry),
           mappings  : Seq(Mapping)]

ASSUME EmbreeAssumption ==
    /\ MaxCommits \in Nat \ {0}
    /\ Torn \notin Transform
    /\ \A s \in Scene : s.instances \in Seq([geometry : Geometry, object_to_world : Transform])
    /\ NoScene \notin Scene
    /\ NoCall \notin Update

(* A failed refit that is still rolling back has not yet cost anything. *)
serving == queryable \/ (call # NoCall /\ call.operation = "refit")

Contract == INSTANCE AccelBackend WITH available <- serving

Call(operation, s, stage) ==
    [operation |-> operation, target |-> s, stage |-> stage, next |-> 1,
     changed |-> FALSE, meshes |-> << >>, mappings |-> << >>]

Init ==
    /\ scene = NoScene
    /\ build_statistics = Contract!NoStatistics
    /\ instances = << >> /\ meshes = << >> /\ mappings = << >> /\ traversed = << >>
    /\ queryable = FALSE
    /\ call = NoCall

------------------------------------------------------
(* build_embree_scene_state: the candidate of a factory call or a rebuild. *)

create(s) ==
    /\ call = NoCall /\ scene = NoScene
    /\ Contract!prepare_instances(s)
    /\ call' = Call("create", s, "mesh")
    /\ UNCHANGED state

rebuild(s) ==
    /\ call = NoCall /\ scene # NoScene
    /\ Contract!prepare_instances(s)
    /\ build_statistics.commits < MaxCommits
    /\ call' = Call("rebuild", s, "mesh")
    /\ UNCHANGED state

at(stage)  == call # NoCall /\ call.stage = stage
source     == call.target.instances
unfinished == call.next <= Len(source)

existing(built, geometry) == {j \in DOMAIN built : built[j] = geometry}

mesh_index(built, geometry) ==
    CHOOSE j \in DOMAIN built :
        /\ built[j] = geometry
        /\ \A k \in 1 .. j - 1 : built[k] # geometry

(* One bottom-level scene per geometry, shared by the instances of it. *)
build_mesh ==
    /\ at("mesh") /\ unfinished
    /\ LET geometry == source[call.next].geometry
       IN  call' = [call EXCEPT !.next   = @ + 1,
                                !.meshes = IF existing(@, geometry) # {} THEN @
                                                                        ELSE Append(@, geometry)]
    /\ UNCHANGED state

meshes_built ==
    /\ at("mesh") /\ ~unfinished
    /\ call' = [call EXCEPT !.stage = "attach", !.next = 1]
    /\ UNCHANGED state

(* An instance geometry with its scene and transform, committed. *)
attach_instance ==
    /\ at("attach") /\ unfinished
    /\ call' = [call EXCEPT
          !.next     = @ + 1,
          !.mappings = Append(@, [mesh      |-> mesh_index(call.meshes, source[call.next].geometry),
                                  set       |-> source[call.next].object_to_world,
                                  committed |-> source[call.next].object_to_world])]
    /\ UNCHANGED state

met(maps, built) ==
    [i \in DOMAIN maps |-> [geometry |-> built[maps[i].mesh], object_to_world |-> maps[i].committed]]

(* The top-level commit succeeds: everything is swapped in at once. *)
commit_top_scene ==
    /\ at("attach") /\ ~unfinished
    /\ instances' = source
    /\ meshes' = call.meshes
    /\ mappings' = call.mappings
    /\ traversed' = met(call.mappings, call.meshes)
    /\ queryable' = TRUE
    /\ \/ /\ call.operation = "create"
          /\ scene' = call.target
          /\ build_statistics' = [Contract!NoStatistics EXCEPT !.commits = 1]
       \/ /\ call.operation = "rebuild"
          /\ Contract!publish_rebuild(call.target)
    /\ call' = NoCall

(* An error anywhere in the construction discards the candidate. *)
build_fails ==
    /\ at("mesh") \/ at("attach")
    /\ call' = NoCall
    /\ UNCHANGED state

------------------------------------------------------
(* refit *)

(* A plausible slip: refit is attempted on a backend that lost its scene. *)
refit_unavailable(s) ==
    /\ call = NoCall /\ scene # NoScene
    /\ Contract!validate_refit_scene(scene, s)
    /\ Contract!prepare_instances(s)
    /\ build_statistics.commits < MaxCommits
    /\ call' = Call("refit", s, "transform")
    /\ UNCHANGED state

refit(s) ==
    /\ call = NoCall /\ scene # NoScene
    /\ queryable
    /\ Contract!validate_refit_scene(scene, s)
    /\ Contract!prepare_instances(s)
    /\ build_statistics.commits < MaxCommits
    /\ call' = Call("refit", s, "transform")
    /\ UNCHANGED state

differs(i) == instances[i].object_to_world # source[i].object_to_world

skip_instance ==
    /\ at("transform") /\ unfinished
    /\ ~differs(call.next)
    /\ call' = [call EXCEPT !.next = @ + 1]
    /\ UNCHANGED state

Tear(i) == traversed' = [traversed EXCEPT ![i].object_to_world = Torn]

(* A plausible slip: the instances before the one that failed stay changed. *)
roll_back_from_failure == call' = [call EXCEPT !.stage = "restore"]

roll_back == call' = [call EXCEPT !.stage = "restore", !.next = 1]

(* rtcSetGeometryTransform; when it reports an error it may have stored the
   transform or not. *)
set_transform ==
    /\ at("transform") /\ unfinished
    /\ differs(call.next)
    /\ queryable' = FALSE
    /\ Tear(call.next)
    /\ \/ /\ mappings' = [mappings EXCEPT ![call.next].set = source[call.next].object_to_world]
          /\ \/ call' = [call EXCEPT !.stage = "commit_geometry", !.changed = TRUE]
             \/ roll_back
       \/ /\ UNCHANGED mappings
          /\ roll_back
    /\ UNCHANGED << scene, build_statistics, instances, meshes >>

commit_geometry ==
    /\ at("commit_geometry")
    /\ \/ /\ mappings' = [mappings EXCEPT ![call.next].committed = mappings[call.next].set]
          /\ \/ call' = [call EXCEPT !.stage = "transform", !.next = @ + 1]
             \/ roll_back
       \/ /\ UNCHANGED mappings
          /\ roll_back
    /\ UNCHANGED << scene, build_statistics, instances, meshes, traversed, queryable >>

(* A plausible slip: the new instances replace the old ones before the
   commit that may fail. *)
commit_refit_early ==
    /\ at("transform") /\ ~unfinished
    /\ instances' = source
    /\ \/ /\ traversed' = met(mappings, meshes)
          /\ queryable' = TRUE
          /\ Contract!publish_refit(call.target)
          /\ call' = NoCall
       \/ /\ call.changed
          /\ roll_back
          /\ UNCHANGED << scene, build_statistics, traversed, queryable >>
    /\ UNCHANGED << meshes, mappings >>

(* The commit of the changed top-level scene, then the publication. *)
commit_refit ==
    /\ at("transform") /\ ~unfinished
    /\ \/ /\ instances' = source
          /\ traversed' = IF call.changed THEN met(mappings, meshes) ELSE traversed
          /\ queryable' = TRUE
          /\ Contract!publish_refit(call.target)
          /\ call' = NoCall
       \/ /\ call.changed
          /\ roll_back
          /\ UNCHANGED << scene, build_statistics, instances, traversed, queryable >>
    /\ UNCHANGED << meshes, mappings >>

------------------------------------------------------
(* recover_failed_refit *)

(* Both calls for one retained instance; the second may fail, or the first. *)
restore_instance ==
    /\ at("restore") /\ call.next <= Len(mappings)
    /\ Tear(call.next)
    /\ LET previous == instances[call.next].object_to_world
       IN  \/ /\ mappings' = [mappings EXCEPT ![call.next].set = previous,
                                              ![call.next].committed = previous]
              /\ call' = [call EXCEPT !.next = @ + 1]
           \/ /\ mappings' = [mappings EXCEPT ![call.next].set = previous]
              /\ call' = NoCall
    /\ UNCHANGED << scene, build_statistics, instances, meshes, queryable >>

restored ==
    /\ at("restore") /\ call.next > Len(mappings)
    /\ traversed' = met(mappings, meshes)
    /\ queryable' = TRUE
    /\ call' = NoCall
    /\ UNCHANGED << scene, build_statistics, instances, meshes, mappings >>

(* The rollback fails as well, at its first call, at its last, or because
   describing the failure that caused it threw: queryable_ stays false. *)
rollback_fails ==
    /\ at("restore")
    /\ call' = NoCall
    /\ UNCHANGED state

destroy ==
    /\ call = NoCall /\ scene # NoScene
    /\ scene' = NoScene
    /\ build_statistics' = Contract!NoStatistics
    /\ instances' = << >> /\ meshes' = << >> /\ mappings' = << >> /\ traversed' = << >>
    /\ queryable' = FALSE
    /\ UNCHANGED call

Next ==
    \/ \E s \in Scene : create(s) \/ rebuild(s) \/ refit(s)
    \/ build_mesh \/ meshes_built \/ attach_instance \/ commit_top_scene \/ build_fails
    \/ skip_instance \/ set_transform \/ commit_geometry \/ commit_refit
    \/ restore_instance \/ restored \/ rollback_fails
    \/ destroy

Spec == Init /\ [][Next]_vars

------------------------------------------------------
(* Type invariant. *)
TypeOK ==
    /\ scene \in Scene \cup {NoScene}
    /\ build_statistics \in [commits : 0 .. MaxCommits, rebuilds : 0 .. MaxCommits,
                             refits : 0 .. MaxCommits]
    /\ instances \in Seq(Contract!Instance)
    /\ meshes \in Seq(Geometry)
    /\ mappings \in Seq(Mapping)
    /\ traversed \in Seq([geometry : Geometry, object_to_world : Transform \cup {Torn}])
    /\ queryable \in BOOLEAN
    /\ call = NoCall \/ call \in Update

(* What closest_hit makes of a ray that traversal reports in instance i: it
   describes the hit from instances_, reached through the mapping. *)
closest_hit(i) ==
    IF meshes[mappings[i].mesh] # instances[i].geometry
    THEN [error |-> "internal_error"]
    ELSE [met |-> traversed[i], described |-> instances[i]]

(* Between updates, a backend that answers queries answers them from the
   published snapshot: what a ray meets in every instance and what the hit
   is described as are both that snapshot's, whatever failed before. *)
SnapshotServed ==
    call = NoCall /\ queryable =>
        /\ DOMAIN traversed = DOMAIN scene.instances
        /\ \A i \in DOMAIN traversed :
              closest_hit(i) = [met |-> scene.instances[i], described |-> scene.instances[i]]

(* The retained instance geometries, which the next refit edits only where
   the new transform differs from instances_, hold exactly those transforms,
   committed: no edit of an abandoned refit survives in them. *)
RetainedCurrent ==
    call = NoCall /\ queryable =>
        /\ DOMAIN mappings = DOMAIN instances
        /\ \A i \in DOMAIN mappings :
              /\ mappings[i].set = instances[i].object_to_world
              /\ mappings[i].committed = instances[i].object_to_world

(* Step by step, failures included, the backend does what the interface
   promises: an update takes effect as a whole or not at all, a refit never
   stands in for the rebuild a lost scene needs. *)
ContractSpec == Contract!Spec

------------------------------------------------------
(* What makes SnapshotServed inductive: where every instance stands while
   an update is running. *)

Reaches(built, m, instance) == m.mesh \in DOMAIN built /\ built[m.mesh] = instance.geometry

Holds(m, instance) ==
    m.set = instance.object_to_world /\ m.committed = instance.object_to_world

(* The retained scene has the shape of the published snapshot, and while it
   is queryable its transforms too, even with an update running. *)
PublishedInv ==
    /\ instances = IF scene = NoScene THEN << >> ELSE scene.instances
    /\ scene = NoScene => ~queryable
    /\ Len(mappings) = Len(instances) /\ Len(traversed) = Len(instances)
    /\ \A i \in DOMAIN instances : /\ Reaches(meshes, mappings[i], instances[i])
                                   /\ traversed[i].geometry = instances[i].geometry
    /\ queryable => \A i \in DOMAIN instances : /\ Holds(mappings[i], instances[i])
                                                /\ traversed[i] = instances[i]

(* A candidate: one mesh for each geometry met so far, then one mapping for
   each instance attached so far. *)
CandidateInv ==
    call # NoCall /\ call.operation # "refit" =>
        /\ call.operation = "create" <=> scene = NoScene
        /\ call.stage \in {"mesh", "attach"}
        /\ call.next <= Len(source) + 1
        /\ \A j, k \in DOMAIN call.meshes : j # k => call.meshes[j] # call.meshes[k]
        /\ \A i \in DOMAIN source :
              call.stage = "attach" \/ i < call.next
                  => existing(call.meshes, source[i].geometry) # {}
        /\ Len(call.mappings) = IF call.stage = "mesh" THEN 0 ELSE call.next - 1
        /\ \A i \in DOMAIN call.mappings : /\ Reaches(call.meshes, call.mappings[i], source[i])
                                           /\ Holds(call.mappings[i], source[i])

(* A refit has moved the instances before the next one to the new snapshot,
   or its rollback has moved them back. *)
RefitInv ==
    call # NoCall /\ call.operation = "refit" =>
        /\ call.stage \in {"transform", "commit_geometry", "restore"}
        /\ scene # NoScene
        /\ Contract!validate_refit_scene(scene, call.target)
        /\ call.next <= Len(instances) + 1
        /\ queryable <=> call.stage # "restore" /\ ~call.changed
        /\ call.stage = "commit_geometry" =>
              /\ call.changed
              /\ call.next <= Len(instances)
              /\ mappings[call.next].set = source[call.next].object_to_world
        /\ \A i \in DOMAIN instances :
              /\ i < call.next =>
                    Holds(mappings[i], IF call.stage = "restore" THEN instances[i] ELSE source[i])
              /\ i > call.next /\ call.stage # "restore" => Holds(mappings[i], instances[i])
              /\ i = call.next /\ call.stage = "transform" => Holds(mappings[i], instances[i])

(* An update that has begun was given a snapshot it may publish. *)
UpdateInv ==
    /\ call # NoCall => Contract!prepare_instances(call.target)
    /\ call # NoCall /\ call.operation # "create" => build_statistics.commits < MaxCommits
    /\ build_statistics.rebuilds <= build_statistics.commits
    /\ build_statistics.refits <= build_statistics.commits

IInv == TypeOK /\ PublishedInv /\ CandidateInv /\ RefitInv /\ UpdateInv
=============================================================================
