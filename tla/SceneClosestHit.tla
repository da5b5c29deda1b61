---------------------------- MODULE SceneClosestHit ----------------------------
(* One ray through a two-level hierarchy, as a thread of the two kernels runs
   it: scene_closest_hit_kernel looks for the first triangle,
   scene_occlusion_kernel stops at any. Each tree has a stack of fixed
   capacity, a count of visited nodes, and its own range checks. The ray runs
   along the first axis, forward or backward; slabs and triangles are exact
   (the code widens a slab by one representable step). *)
EXTENDS SceneBvh

CONSTANTS
    Launches,       \* scenes to trace
    Rays,           \* [origin, direction, t_min, t_max]
    StackCapacity   \* TraversalStackCapacity

Triangle == [minimum : [Axis -> Int], maximum : [Axis -> Int], at : Int \cup {None}]

PlacedInstance == [geometry : Nat, shift : Int, visible : BOOLEAN]

(* The leaves a tree of this many levels below its root can have. *)
LeavesWithin[levels \in Nat] == IF levels = 0 THEN 1 ELSE 2 * LeavesWithin[levels - 1]

FitsStack(count) == count <= LeavesWithin[StackCapacity - 1]

(* A stack of 64 holds the path to a node among 2^32 leaves. A triangle has
   vertices, a point where a ray meets it lies in its box. *)
TraversalAssumption ==
    /\ StackCapacity \in Nat \ {0}
    /\ None \notin Int /\ None \notin [instance_id : Nat, blas_index : Nat, visible : BOOLEAN]
    /\ Rays \subseteq [origin : [Axis -> Int], direction : {-1, 1}, t_min : Int, t_max : Int]
    /\ \A s \in Launches :
          /\ s.geometries \in Seq(Seq(Triangle)) /\ s.instances \in Seq(PlacedInstance)
          /\ \A g \in DOMAIN s.geometries :
                s.geometries[g] # << >> /\ FitsStack(Len(s.geometries[g]))
          /\ FitsStack(Len(s.instances))
          /\ \A i \in DOMAIN s.instances : s.instances[i].geometry \in DOMAIN s.geometries
          /\ \A g \in DOMAIN s.geometries, r \in Rays : \A t \in DOMAIN s.geometries[g] :
                LET triangle == s.geometries[g][t] IN
                triangle.at # None =>
                    /\ triangle.at \in triangle.minimum[1] .. triangle.maximum[1]
                    /\ r.origin[2] \in triangle.minimum[2] .. triangle.maximum[2]

ASSUME TraversalInputs == TraversalAssumption

VARIABLES
    launched, ray, kernel,  \* what the launch is given
    bvh,                    \* what the builder made of the scene
    status,
    tlas,                   \* [stack, visited] of the outer traversal
    blas,                   \* of the inner one
    reference,              \* the instance being traversed, or None
    closest                 \* ClosestCandidate; in the occlusion kernel, occluded

trace_vars == <<launched, ray, kernel, bvh, status, tlas, blas, reference, closest>>

input == <<launched, ray, kernel, bvh>>

NotFound == [present |-> FALSE]

Traversal == [stack |-> << >>, visited |-> 0]

TraceInit ==
    /\ launched \in Launches
    /\ ray \in Rays
    /\ kernel \in {"closest", "occlusion"}
    /\ bvh = build_host_bvh(launched)
    /\ status = "queued"
    /\ tlas = Traversal
    /\ blas = Traversal
    /\ reference = None
    /\ closest = NotFound

------------------------------------------------------
(* The ray against a box or a triangle of an instance with this shift. *)

local_origin(shift) == [ray.origin EXCEPT ![1] = @ - shift]

traversal_t_max == IF kernel = "closest" /\ closest.present THEN closest.parameter ELSE ray.t_max

slab(bounds, shift) ==
    {(bounds.minimum[1] - local_origin(shift)[1]) * ray.direction,
     (bounds.maximum[1] - local_origin(shift)[1]) * ray.direction}

near_parameter(bounds, shift) == Max({ray.t_min, Min(slab(bounds, shift))})

intersects(bounds, shift) ==
    /\ ray.origin[2] \in bounds.minimum[2] .. bounds.maximum[2]
    /\ near_parameter(bounds, shift) <= Min({traversal_t_max, Max(slab(bounds, shift))})

parameter(triangle, shift) == (triangle.at - local_origin(shift)[1]) * ray.direction

meets(triangle, shift, t_max) ==
    /\ triangle.at # None
    /\ parameter(triangle, shift) \in ray.t_min .. t_max

------------------------------------------------------
(* One turn of a traversal loop, the same for both trees. *)

push_intersecting_children(nodes, node, shift, stack) ==
    LET near(c)       == near_parameter(nodes[c].bounds, shift)
        first_is_near == \/ near(node.first_child) < near(node.second_child)
                         \/ /\ near(node.first_child) = near(node.second_child)
                            /\ node.first_child < node.second_child
        hit(c)        == IF intersects(nodes[c].bounds, shift) THEN << c >> ELSE << >>
    IN  stack \o (IF first_is_near THEN hit(node.second_child) \o hit(node.first_child)
                                  ELSE hit(node.first_child) \o hit(node.second_child))

(* The stack after its top, an internal node, was visited. *)
opened(t, nodes, shift) ==
    LET rest == Front(t.stack)
        node == nodes[Last(t.stack)]
    IN  IF intersects(node.bounds, shift)
        THEN push_intersecting_children(nodes, node, shift, rest)
        ELSE rest

is_leaf(t, nodes) == nodes[Last(t.stack)].kind = "leaf"

bad_children(node, first, count) ==
    \/ node.first_child = node.second_child
    \/ ~(ToSet(children(node)) \subseteq first .. first + count - 1)

(* The device's own checks on the node on top of the stack. *)
refuses(t, nodes, first, count, shift) ==
    \/ t.visited >= count
    \/ Last(t.stack) \notin first .. first + count - 1
    \/ /\ ~is_leaf(t, nodes)
       /\ intersects(nodes[Last(t.stack)].bounds, shift)
       /\ bad_children(nodes[Last(t.stack)], first, count)

stop(s) == status' = s /\ UNCHANGED <<input, tlas, blas, reference, closest>>

visited(t, stack) == [stack |-> stack, visited |-> t.visited + 1]

------------------------------------------------------
(* trace_scene. *)

start ==
    /\ status = "queued"
    /\ IF bvh.tlas_nodes = << >>
       THEN stop("miss")
       ELSE /\ tlas' = [stack |-> << 1 >>, visited |-> 0]
            /\ status' = "running"
            /\ UNCHANGED <<input, blas, reference, closest>>

open_tlas_node ==
    /\ ~is_leaf(tlas, bvh.tlas_nodes)
    /\ LET stack == opened(tlas, bvh.tlas_nodes, 0) IN
       IF Len(stack) > StackCapacity
       THEN stop("stack_overflow")
       ELSE /\ tlas' = visited(tlas, stack)
            /\ UNCHANGED <<input, status, blas, reference, closest>>

leaf_instance == bvh.instance_references[bvh.tlas_nodes[Last(tlas.stack)].reference_offset]

(* An instance whose box is missed, or invisible to the ray, is skipped. *)
skip_leaf ==
    /\ is_leaf(tlas, bvh.tlas_nodes)
    /\ ~intersects(bvh.tlas_nodes[Last(tlas.stack)].bounds, 0) \/ ~leaf_instance.visible
    /\ tlas' = visited(tlas, Front(tlas.stack))
    /\ UNCHANGED <<input, status, blas, reference, closest>>

enter_instance ==
    /\ is_leaf(tlas, bvh.tlas_nodes)
    /\ intersects(bvh.tlas_nodes[Last(tlas.stack)].bounds, 0) /\ leaf_instance.visible
    /\ tlas' = visited(tlas, Front(tlas.stack))
    /\ reference' = leaf_instance
    /\ blas' = [stack   |-> << bvh.blases[leaf_instance.blas_index].root_node >>,
                visited |-> 0]
    /\ UNCHANGED <<input, status, closest>>

visit_tlas ==
    /\ status = "running" /\ reference = None /\ tlas.stack # << >>
    /\ IF refuses(tlas, bvh.tlas_nodes, 1, Len(bvh.tlas_nodes), 0)
       THEN stop("invalid_topology")
       ELSE open_tlas_node \/ skip_leaf \/ enter_instance

finish ==
    /\ status = "running" /\ reference = None /\ tlas.stack = << >>
    /\ stop(IF closest.present THEN "hit" ELSE "miss")

------------------------------------------------------
(* traverse_blas. *)

shift_of(r) == launched.instances[r.instance_id].shift

tree == bvh.blases[reference.blas_index]

open_blas_node ==
    /\ ~is_leaf(blas, bvh.blas_nodes)
    /\ LET stack == opened(blas, bvh.blas_nodes, shift_of(reference)) IN
       IF Len(stack) > StackCapacity
       THEN stop("stack_overflow")
       ELSE /\ blas' = visited(blas, stack)
            /\ UNCHANGED <<input, status, tlas, reference, closest>>

(* A plausible slip: the first of several at one parameter stays. *)
candidate_precedes_strictly(p, instance_id, primitive_id) ==
    ~closest.present \/ p < closest.parameter

candidate_precedes(p, instance_id, primitive_id) ==
    \/ ~closest.present
    \/ p < closest.parameter
    \/ /\ p = closest.parameter
       /\ \/ instance_id < closest.instance_id
          \/ instance_id = closest.instance_id /\ primitive_id < closest.primitive_id

candidate(p, primitive) ==
    [present |-> TRUE, parameter |-> p, instance_id |-> reference.instance_id,
     primitive_id |-> primitive]

test_triangle ==
    /\ is_leaf(blas, bvh.blas_nodes)
    /\ LET node      == bvh.blas_nodes[Last(blas.stack)]
           shift     == shift_of(reference)
           primitive == bvh.primitive_references[node.reference_offset]
           triangle  == launched.geometries[reference.blas_index][primitive]
           hit       == /\ intersects(node.bounds, shift)
                        /\ meets(triangle, shift, traversal_t_max)
           p         == parameter(triangle, shift)
       IN  /\ closest' = IF hit /\ candidate_precedes(p, reference.instance_id, primitive)
                         THEN candidate(p, primitive) ELSE closest
           /\ status' = IF hit /\ kernel = "occlusion" THEN "hit" ELSE status
    /\ blas' = visited(blas, Front(blas.stack))
    /\ UNCHANGED <<input, tlas, reference>>

visit_blas ==
    /\ status = "running" /\ reference # None /\ blas.stack # << >>
    /\ IF refuses(blas, bvh.blas_nodes, tree.node_offset + 1, tree.node_count,
                  shift_of(reference))
       THEN stop("invalid_topology")
       ELSE open_blas_node \/ test_triangle

leave_instance ==
    /\ status = "running" /\ reference # None /\ blas.stack = << >>
    /\ reference' = None
    /\ UNCHANGED <<input, status, tlas, blas, closest>>

TraceNext == start \/ visit_tlas \/ visit_blas \/ leave_instance \/ finish

TraceSpec == TraceInit /\ [][TraceNext]_trace_vars

------------------------------------------------------
(* Type invariant. *)
TraversalTypeOK ==
    /\ status \in {"queued", "running", "hit", "miss", "invalid_topology", "stack_overflow"}
    /\ Len(tlas.stack) <= StackCapacity /\ Len(blas.stack) <= StackCapacity
    /\ reference = None \/ reference.instance_id \in DOMAIN launched.instances

(* The triangles of visible instances the ray meets, by what decides between
   them: its parameter, the instance, the primitive. *)
Hits ==
    {h \in UNION {{<<parameter(launched.geometries[launched.instances[i].geometry][t],
                               launched.instances[i].shift), i, t>> :
                      t \in {t \in DOMAIN launched.geometries[launched.instances[i].geometry] :
                                launched.geometries[launched.instances[i].geometry][t].at # None}} :
                  i \in {i \in DOMAIN launched.instances : launched.instances[i].visible}} :
        h[1] \in ray.t_min .. ray.t_max}

Precedes(g, h) ==
    \/ g[1] < h[1]
    \/ g[1] = h[1] /\ (g[2] < h[2] \/ (g[2] = h[2] /\ g[3] < h[3]))

(* Whatever boxes the traversal skips and in whichever order it visits the
   rest, the closest-hit kernel ends with the triangle an exhaustive search
   names, ties included, and the occlusion kernel finds a hit exactly when
   there is one. *)
AnswersExhaustively ==
    /\ status = "miss" => Hits = {}
    /\ status = "hit" => Hits # {}
    /\ status = "hit" /\ kernel = "closest" =>
          LET h == <<closest.parameter, closest.instance_id, closest.primitive_id>>
          IN  h \in Hits /\ \A g \in Hits \ {h} : Precedes(h, g)

(* What the builder makes passes its own validation, and none of the device's
   checks stops on it: its trees are shallow enough for the stack, and no
   node is visited twice. *)
TopologyAccepted ==
    /\ status = "queued" => validate_built_topology(bvh)
    /\ status \notin {"invalid_topology", "stack_overflow"}

(* The closest-hit and the occlusion kernel answer what an exhaustive search
   of the scene would, on trees that pass the upload's own validation and fit
   the stack (CudaSceneClosestHit.cu, SceneSoA.cpp). *)
TraversalSound == AnswersExhaustively /\ TopologyAccepted
=============================================================================
