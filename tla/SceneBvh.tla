------------------------------- MODULE SceneBvh -------------------------------
(* The two-level hierarchy CudaSceneBvh builds for a device scene: one tree
   of triangles for each geometry, one of instances over them. Nodes go into
   shared arrays in preorder, references in the order of the leaves; arrays
   count from 1 here. Coordinates are small integers on two axes. A scene is
   a sequence of geometries, each a sequence of triangles, and a sequence of
   instances, which shift a geometry along the first axis. A triangle has a
   box, and the depth at which a ray along that axis meets it, or None. *)
EXTENDS Integers, Sequences, SequencesExt, FiniteSets, FiniteSetsExt

CONSTANT None

Axis == 1 .. 2

------------------------------------------------------
(* Bounds. *)

unite(left, right) ==
    [minimum |-> [k \in Axis |-> Min({left.minimum[k], right.minimum[k]})],
     maximum |-> [k \in Axis |-> Max({left.maximum[k], right.maximum[k]})]]

(* Twice the middle: only compared. *)
centroid(bounds) == [k \in Axis |-> bounds.minimum[k] + bounds.maximum[k]]

moved(bounds, shift) ==
    [minimum |-> [bounds.minimum EXCEPT ![1] = @ + shift],
     maximum |-> [bounds.maximum EXCEPT ![1] = @ + shift]]

primitive_bounds(triangle) == [minimum |-> triangle.minimum, maximum |-> triangle.maximum]

(* Every triangle of the geometry is transformed, not its box. *)
instance_bounds(triangles, shift) ==
    LET world == {moved(primitive_bounds(triangles[i]), shift) : i \in DOMAIN triangles}
    IN  [minimum |-> [k \in Axis |-> Min({b.minimum[k] : b \in world})],
         maximum |-> [k \in Axis |-> Max({b.maximum[k] : b \in world})]]

------------------------------------------------------
(* One tree. An item is [bounds, stable_key, payload]. *)

extent(items, axis) ==
    LET centroids == {centroid(items[i].bounds)[axis] : i \in DOMAIN items}
    IN  Max(centroids) - Min(centroids)

split_axis(items) == IF extent(items, 2) > extent(items, 1) THEN 2 ELSE 1

before(left, right, axis) ==
    LET a == centroid(left.bounds)[axis]
        b == centroid(right.bounds)[axis]
    IN  a < b \/ (a = b /\ left.stable_key < right.stable_key)

precedes(items, axis, j, i) ==
    \/ before(items[j], items[i], axis)
    \/ ~before(items[i], items[j], axis) /\ j < i

(* An item comes after as many as precede it. *)
sorted(items, axis) ==
    LET rank(i) == Cardinality({j \in DOMAIN items : precedes(items, axis, j, i)})
    IN  [k \in DOMAIN items |-> items[CHOOSE i \in DOMAIN items : rank(i) = k - 1]]

middle(count) == count \div 2

leaf(item, reference) ==
    [kind |-> "leaf", bounds |-> item.bounds, reference_offset |-> reference]

internal(axis, first, second, bounds) ==
    [kind |-> "internal", bounds |-> bounds, split_axis |-> axis,
     first_child |-> first, second_child |-> second]

(* One call: node is what the calls it makes return. *)
subtree(node, items, node_offset, reference_offset) ==
    LET axis    == split_axis(items)
        ordered == sorted(items, axis)
        half    == middle(Len(items))
        left    == node[<< SubSeq(ordered, 1, half), node_offset + 1, reference_offset >>]
        second  == node_offset + 1 + Len(left.nodes)
        right   == node[<< SubSeq(ordered, half + 1, Len(items)), second,
                           reference_offset + half >>]
        parent  == internal(axis, node_offset + 2, second + 1,
                            unite(Head(left.nodes).bounds, Head(right.nodes).bounds))
    IN  IF Len(items) <= 1
        THEN [nodes      |-> << leaf(items[1], reference_offset + 1) >>,
              references |-> << items[1].payload >>]
        ELSE [nodes      |-> << parent >> \o left.nodes \o right.nodes,
              references |-> left.references \o right.references]

(* Both arrays of the tree of these items, after so many nodes and references. *)
build_node(items, node_offset, reference_offset) ==
    LET node[at \in Seq(ToSet(items)) \X Nat \X Nat] == subtree(node, at[1], at[2], at[3])
    IN  node[<< items, node_offset, reference_offset >>]

------------------------------------------------------
(* All the trees of a scene. *)

add_blas(built, triangles) ==
    LET items == [i \in DOMAIN triangles |->
                    [bounds |-> primitive_bounds(triangles[i]), stable_key |-> i, payload |-> i]]
        nodes == Len(built.blas_nodes)
        refs  == Len(built.primitive_references)
        tree  == build_node(items, nodes, refs)
    IN  [built EXCEPT
            !.blas_nodes = @ \o tree.nodes,
            !.primitive_references = @ \o tree.references,
            !.blases = Append(@, [root_node |-> nodes + 1,
                                  node_offset |-> nodes,
                                  node_count |-> Len(tree.nodes),
                                  primitive_reference_offset |-> refs,
                                  primitive_reference_count |-> Len(triangles)])]

(* An instance keeps the index of its geometry and its visibility. *)
build_tlas(built, scene) ==
    IF scene.instances = << >> THEN built
    ELSE LET items == [i \in DOMAIN scene.instances |->
                         LET instance == scene.instances[i] IN
                         [bounds     |-> instance_bounds(scene.geometries[instance.geometry],
                                                         instance.shift),
                          stable_key |-> i,
                          payload    |-> [instance_id |-> i, blas_index |-> instance.geometry,
                                          visible |-> instance.visible]]]
             tree  == build_node(items, 0, 0)
         IN  [built EXCEPT !.tlas_nodes = tree.nodes, !.instance_references = tree.references]

nothing_built ==
    [blases |-> << >>, blas_nodes |-> << >>, primitive_references |-> << >>,
     tlas_nodes |-> << >>, instance_references |-> << >>]

build_blases(geometries) ==
    LET built[g \in 0 .. Len(geometries)] ==
          IF g = 0 THEN nothing_built ELSE add_blas(built[g - 1], geometries[g])
    IN  built[Len(geometries)]

build_host_bvh(scene) == build_tlas(build_blases(scene.geometries), scene)

------------------------------------------------------
(* What the builder checks of its own result before it uploads it. *)

checked_expected_node_count(reference_count) ==
    IF reference_count = 0 THEN 0 ELSE 2 * reference_count - 1

children(node) ==
    IF node.kind = "leaf" THEN << >> ELSE << node.first_child, node.second_child >>

(* The search from the root: it stops at a node it has seen, and sees no
   more nodes than there are. *)
search(nodes, root, node_count) ==
    LET after[n \in 0 .. node_count] ==
          IF n = 0 THEN [stack |-> << root >>, seen |-> {}]
          ELSE LET t == after[n - 1] IN
               IF t.stack = << >> \/ Head(t.stack) \in t.seen THEN t
               ELSE [stack |-> children(nodes[Head(t.stack)]) \o Tail(t.stack),
                     seen  |-> t.seen \cup {Head(t.stack)}]
    IN  after[node_count]

(* Every node of the range is reached from the root once, every reference
   from one leaf, and a node bounds what its children do. *)
validate_tree(nodes, node_offset, node_count, root, reference_offset, reference_count) ==
    LET range  == node_offset + 1 .. node_offset + node_count
        leaves == {n \in range : nodes[n].kind = "leaf"}
    IN  /\ reference_count > 0
        /\ node_count = checked_expected_node_count(reference_count)
        /\ root = node_offset + 1
        /\ \A n \in range \ leaves :
              /\ ToSet(children(nodes[n])) \subseteq range
              /\ nodes[n].bounds = unite(nodes[nodes[n].first_child].bounds,
                                         nodes[nodes[n].second_child].bounds)
        /\ search(nodes, root, node_count) = [stack |-> << >>, seen |-> range]
        /\ {nodes[n].reference_offset : n \in leaves}
              = reference_offset + 1 .. reference_offset + reference_count
        /\ Cardinality(leaves) = reference_count

is_permutation(numbers) == ToSet(numbers) = 1 .. Len(numbers)

(* The ranges of the trees adjoin and cover their arrays. *)
ranges_canonical(built) ==
    LET count == Len(built.blases)
        nodes_before(b) ==
            IF b = 1 THEN 0 ELSE built.blases[b - 1].node_offset + built.blases[b - 1].node_count
        references_before(b) ==
            IF b = 1 THEN 0 ELSE built.blases[b - 1].primitive_reference_offset
                                  + built.blases[b - 1].primitive_reference_count
    IN  /\ \A b \in 1 .. count :
              /\ built.blases[b].node_offset = nodes_before(b)
              /\ built.blases[b].primitive_reference_offset = references_before(b)
        /\ nodes_before(count + 1) = Len(built.blas_nodes)
        /\ references_before(count + 1) = Len(built.primitive_references)

validate_built_topology(built) ==
    /\ ranges_canonical(built)
    /\ \A b \in DOMAIN built.blases :
          LET blas == built.blases[b] IN
          /\ validate_tree(built.blas_nodes, blas.node_offset, blas.node_count, blas.root_node,
                           blas.primitive_reference_offset, blas.primitive_reference_count)
          /\ is_permutation([i \in 1 .. blas.primitive_reference_count |->
                               built.primitive_references[blas.primitive_reference_offset + i]])
    /\ IF built.instance_references = << >>
       THEN built.tlas_nodes = << >>
       ELSE /\ validate_tree(built.tlas_nodes, 0, Len(built.tlas_nodes), 1,
                             0, Len(built.instance_references))
            /\ is_permutation([i \in DOMAIN built.instance_references |->
                                 built.instance_references[i].instance_id])
            /\ \A i \in DOMAIN built.instance_references :
                  built.instance_references[i].blas_index \in DOMAIN built.blases
=============================================================================
