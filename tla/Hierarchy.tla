------------------------------ MODULE Hierarchy ------------------------------
(***************************************************************************)
(* The pure half of the service: the row types of app/lib/types, and the   *)
(* three passes of app/lib/hierarchy.py as functions of their arguments.   *)
(*                                                                         *)
(* The table `nodes` is a function from the stored ids to NodeData; the    *)
(* table `node_closure` is a set of ClosureRows.  A posted hierarchy is    *)
(* what flatten_payload makes of it: one PayloadNode per id.  The loop     *)
(* that gets there, and the payloads it refuses, are in PayloadPasses.     *)
(***************************************************************************)
EXTENDS Integers, FiniteSets

CONSTANTS
  NodeIds,    \* the ids clients use
  NodeTypes,  \* management_group, subscription, resource_group
  NoParent    \* NULL in nodes.parent_id, None in the service

ASSUME NodeIdsAssumption == NodeIds \subseteq Int
ASSUME NoParentAssumption == NoParent \notin NodeIds

ParentIds == NodeIds \union {NoParent}

NodeData == [type : NodeTypes, parent_id : ParentIds]

NodeTables == UNION {[stored -> NodeData] : stored \in SUBSET NodeIds}

ClosureRow(ancestor_id, descendant_id, depth) ==
  [ancestor_id |-> ancestor_id, descendant_id |-> descendant_id, depth |-> depth]

ClosureRows == [ancestor_id : NodeIds, descendant_id : NodeIds, depth : Nat]

AncestorRow(ancestor_id, depth) == [ancestor_id |-> ancestor_id, depth |-> depth]

AncestorRows == [ancestor_id : NodeIds, depth : Nat]

SubtreeRows == [id : NodeIds, type : NodeTypes, parent_id : ParentIds, depth : Nat]

(***************************************************************************)
(* A HierarchyNode with everything nested underneath it: the id at its     *)
(* root, and for every id in it the type and the parent inside the tree.   *)
(***************************************************************************)
Trees == {tree \in [root : NodeIds, nodes : NodeTables] : tree.root \in DOMAIN tree.nodes}

-----------------------------------------------------------------------------

(***************************************************************************)
(* What flatten_payload returns for the payload p.  `repeats` holds when   *)
(* an id occurs twice and the pass raises; otherwise every id names the    *)
(* parent it was nested under and its distance from the posted root.       *)
(***************************************************************************)
PayloadIds(p) == DOMAIN p.nodes

IsFlattened(p) ==
  /\ p.repeats = FALSE
  /\ PayloadIds(p) \subseteq NodeIds
  /\ IsFiniteSet(PayloadIds(p))
  /\ p.nodes \in [PayloadIds(p) ->
                    [type : NodeTypes, parent_id : ParentIds, depth : Nat]]
  /\ p.root \in PayloadIds(p)
  /\ \A id \in PayloadIds(p) :
       IF id = p.root
       THEN p.nodes[id].parent_id = NoParent /\ p.nodes[id].depth = 0
       ELSE /\ p.nodes[id].parent_id \in PayloadIds(p)
            /\ p.nodes[id].depth = p.nodes[p.nodes[id].parent_id].depth + 1

(***************************************************************************)
(* What may be captured above the root of a payload: one row for each node *)
(* of a chain that goes up.                                                *)
(***************************************************************************)
IsAncestry(ancestors) ==
  /\ ancestors \subseteq AncestorRows /\ IsFiniteSet(ancestors)
  /\ \A above, other \in ancestors :
       above.ancestor_id = other.ancestor_id \/ above.depth = other.depth => above = other

(***************************************************************************)
(* The nested hierarchy the payload p stands for.                          *)
(***************************************************************************)
PostedTree(p) ==
  [root |-> p.root,
   nodes |-> [id \in PayloadIds(p) |->
                [type |-> p.nodes[id].type, parent_id |-> p.nodes[id].parent_id]]]

NodeRowsDetachingRoot(p, root_parent_id) ==  \* mistake: writes the payload's None
  [id \in PayloadIds(p) |->
     [type |-> p.nodes[id].type, parent_id |-> p.nodes[id].parent_id]]

(***************************************************************************)
(* The rows the upsert states.  The root keeps where it already hangs: the *)
(* payload's NoParent for it means "not stated".                           *)
(***************************************************************************)
NodeRows(p, root_parent_id) ==
  [id \in PayloadIds(p) |->
     [type |-> p.nodes[id].type,
      parent_id |-> IF p.nodes[id].depth = 0
                    THEN root_parent_id
                    ELSE p.nodes[id].parent_id]]

(***************************************************************************)
(* The ancestors each payload node has inside the payload: its parent, and *)
(* its parent's ancestors one edge further away.                           *)
(***************************************************************************)
AncestorsWithinPayload(p) ==
  LET within[id \in PayloadIds(p)] ==
        IF p.nodes[id].parent_id = NoParent
        THEN {}
        ELSE {AncestorRow(p.nodes[id].parent_id, 1)}
             \union {AncestorRow(above.ancestor_id, above.depth + 1) :
                       above \in within[p.nodes[id].parent_id]}
  IN  within

ClosureRowsOfNewRoot(p, captured_ancestors) ==  \* mistake: forgets what is above
  LET within == AncestorsWithinPayload(p)
  IN  {ClosureRow(id, id, 0) : id \in PayloadIds(p)}
      \union (UNION {{ClosureRow(above.ancestor_id, id, above.depth) :
                        above \in within[id]} : id \in PayloadIds(p)})

(***************************************************************************)
(* closure_rows: the self-row of every payload node, one row for each of   *)
(* its ancestors inside the payload, and one for each ancestor the root    *)
(* already had, at the sum of the two distances.                           *)
(***************************************************************************)
ClosureRowsOf(p, captured_ancestors) ==
  LET within == AncestorsWithinPayload(p)
  IN  {ClosureRow(id, id, 0) : id \in PayloadIds(p)}
      \union (UNION {{ClosureRow(above.ancestor_id, id, above.depth) :
                        above \in within[id]} : id \in PayloadIds(p)})
      \union (UNION {{ClosureRow(above.ancestor_id, id, above.depth + p.nodes[id].depth) :
                        above \in captured_ancestors} : id \in PayloadIds(p)})

-----------------------------------------------------------------------------

BeforeLatestFirst(row, other) ==  \* mistake: siblings in descending order
  row.depth < other.depth \/ (row.depth = other.depth /\ row.id > other.id)

(***************************************************************************)
(* assemble_tree reads the rows in (depth, id) order.  The first one is    *)
(* the root whatever it says; every other is attached to the node already  *)
(* built for its parent_id, and a parent not built yet is a KeyError.      *)
(***************************************************************************)
Before(row, other) ==
  row.depth < other.depth \/ (row.depth = other.depth /\ row.id < other.id)

FirstRow(rows) == CHOOSE row \in rows : \A other \in rows \ {row} : Before(row, other)

Assembles(rows) ==
  \A row \in rows :
    \/ \A other \in rows \ {row} : Before(row, other)
    \/ \E other \in rows : other.id = row.parent_id /\ Before(other, row)

AssembleTree(rows) ==
  LET root == FirstRow(rows).id
  IN  [root |-> root,
       nodes |-> [id \in {row.id : row \in rows} |->
                    LET row == CHOOSE r \in rows : r.id = id
                    IN  [type |-> row.type,
                         parent_id |-> IF id = root THEN NoParent ELSE row.parent_id]]]

=============================================================================
