----------------------------- MODULE AccelBackend -----------------------------
(***************************************************************************)
(* What Engine/AccelBackend.hpp promises of an acceleration backend: it     *)
(* serves one immutable frame scene, which rebuild replaces by any other    *)
(* and refit by one that differs only in transforms. An update succeeds as  *)
(* a whole or publishes nothing; a failed refit may cost the backend its    *)
(* availability, which only a rebuild gives back.                          *)
(*                                                                         *)
(* A frame scene is a pair: the records a refit must leave alone, and the   *)
(* instances in order, each with its geometry and resolved transform.       *)
(***************************************************************************)
EXTENDS Naturals, Sequences

CONSTANTS
    Scene,        \* the frame scenes
    Geometry,     \* geometry identifiers, each with one mesh
    Transform,    \* resolved object-to-world transforms
    Unsupported,  \* the transforms no backend accepts
    NoScene       \* the backend is not constructed

Instance == [geometry : Geometry, object_to_world : Transform]

VARIABLES
    scene,            \* scene_, the published snapshot
    available,        \* whether queries are answered
    build_statistics  \* commits, rebuilds, refits

NoStatistics == [commits |-> 0, rebuilds |-> 0, refits |-> 0]

prepare_instances(s) == \A i \in DOMAIN s.instances :
                           s.instances[i].object_to_world \notin Unsupported

validate_refit_scene(old, new) ==
    /\ old.records = new.records
    /\ Len(old.instances) = Len(new.instances)
    /\ \A i \in DOMAIN old.instances : old.instances[i].geometry = new.instances[i].geometry

Init ==
    /\ scene = NoScene
    /\ available = FALSE
    /\ build_statistics = NoStatistics

create(s) ==
    /\ scene = NoScene
    /\ scene' = s
    /\ available' = TRUE
    /\ build_statistics' = [NoStatistics EXCEPT !.commits = 1]

publish_rebuild(s) ==
    /\ scene' = s
    /\ build_statistics' = [build_statistics EXCEPT !.commits = @ + 1, !.rebuilds = @ + 1]

publish_refit(s) ==
    /\ scene' = s
    /\ build_statistics' = [build_statistics EXCEPT !.commits = @ + 1, !.refits = @ + 1]

rebuild(s) ==
    /\ scene # NoScene
    /\ available' = TRUE
    /\ publish_rebuild(s)

refit(s) ==
    /\ scene # NoScene
    /\ available
    /\ validate_refit_scene(scene, s)
    /\ publish_refit(s)
    /\ UNCHANGED available

lose ==
    /\ available
    /\ available' = FALSE
    /\ UNCHANGED << scene, build_statistics >>

destroy ==
    /\ scene # NoScene
    /\ scene' = NoScene
    /\ available' = FALSE
    /\ build_statistics' = NoStatistics

Next ==
    \/ \E s \in Scene :
          /\ prepare_instances(s)
          /\ create(s) \/ rebuild(s) \/ refit(s)
    \/ lose
    \/ destroy

Spec == Init /\ [][Next]_<< scene, available, build_statistics >>
=============================================================================
