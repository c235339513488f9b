---------------------------- MODULE PostgresTables ----------------------------
(***************************************************************************)
(* The statements of app/lib/repositories/postgres_hierarchy.py, each as a *)
(* function of the two tables it sees, and the constraints the migration   *)
(* declares on them, each as a predicate on the two tables.                *)
(***************************************************************************)
EXTENDS Hierarchy

-----------------------------------------------------------------------------
(* The reads. *)

FetchSubtreeRows(nodes, closure, root_id) ==
  {[id        |-> row.descendant_id,
    type      |-> nodes[row.descendant_id].type,
    parent_id |-> nodes[row.descendant_id].parent_id,
    depth     |-> row.depth] :
     row \in {r \in closure : r.ancestor_id = root_id /\ r.descendant_id \in DOMAIN nodes}}

FetchAncestorDepths(closure, node_id) ==
  {AncestorRow(row.ancestor_id, row.depth) :
     row \in {r \in closure : r.descendant_id = node_id /\ r.depth > 0}}

FetchParentId(nodes, node_id) ==
  IF node_id \in DOMAIN nodes THEN nodes[node_id].parent_id ELSE NoParent

FetchDescendantIds(closure, node_ids) ==
  {row.descendant_id : row \in {r \in closure : r.ancestor_id \in node_ids}}

-----------------------------------------------------------------------------
(* The writes. *)

WithUpsertedParents(nodes, rows) ==  \* mistake: SET parent_id alone
  [id \in DOMAIN nodes \union DOMAIN rows |->
     IF id \notin DOMAIN rows THEN nodes[id]
     ELSE IF id \notin DOMAIN nodes THEN rows[id]
     ELSE [nodes[id] EXCEPT !.parent_id = rows[id].parent_id]]

(***************************************************************************)
(* INSERT ... ON CONFLICT (id) DO UPDATE SET type, parent_id.              *)
(***************************************************************************)
WithUpserted(nodes, rows) ==
  [id \in DOMAIN nodes \union DOMAIN rows |->
     IF id \in DOMAIN rows THEN rows[id] ELSE nodes[id]]

(***************************************************************************)
(* DELETE FROM nodes WHERE id IN (node_ids), and what it cascades to: both *)
(* closure columns are ON DELETE CASCADE.                                  *)
(***************************************************************************)
WithoutNodes(nodes, node_ids) == [id \in DOMAIN nodes \ node_ids |-> nodes[id]]

WithoutRowsOf(closure, node_ids) ==
  {row \in closure : row.ancestor_id \notin node_ids /\ row.descendant_id \notin node_ids}

(***************************************************************************)
(* DELETE FROM node_closure WHERE descendant_id IN (descendant_ids).       *)
(***************************************************************************)
WithoutDescendants(closure, descendant_ids) ==
  {row \in closure : row.descendant_id \notin descendant_ids}

-----------------------------------------------------------------------------
(* The constraints, each checked when a statement finishes. *)

(***************************************************************************)
(* fk_nodes_parent: after an upsert every parent_id is stored; after a     *)
(* delete, ON DELETE RESTRICT refuses to leave a child behind.             *)
(***************************************************************************)
ParentsAreStored(nodes) ==
  \A id \in DOMAIN nodes : nodes[id].parent_id \in DOMAIN nodes \union {NoParent}

(***************************************************************************)
(* fk_node_closure_ancestor and fk_node_closure_descendant.                *)
(***************************************************************************)
EndsAreStored(nodes, closure) ==
  \A row \in closure : row.ancestor_id \in DOMAIN nodes /\ row.descendant_id \in DOMAIN nodes

(***************************************************************************)
(* The primary key (ancestor_id, descendant_id) of node_closure.           *)
(***************************************************************************)
OneRowPerPair(closure) ==
  \A row, other \in closure :
    /\ row.ancestor_id = other.ancestor_id
    /\ row.descendant_id = other.descendant_id
    => row = other

(***************************************************************************)
(* uq_node_single_parent, the unique index on descendant_id WHERE depth=1. *)
(***************************************************************************)
SingleParent(closure) ==
  \A row, other \in closure :
    /\ row.depth = 1 /\ other.depth = 1
    /\ row.descendant_id = other.descendant_id
    => row = other

(***************************************************************************)
(* What INSERT INTO node_closure is checked against.  depth >= 0 is ck_    *)
(* node_closure_depth_non_negative.                                        *)
(***************************************************************************)
ClosureIsAccepted(nodes, closure) ==
  /\ EndsAreStored(nodes, closure)
  /\ OneRowPerPair(closure)
  /\ SingleParent(closure)
  /\ \A row \in closure : row.depth >= 0

-----------------------------------------------------------------------------
(* What no constraint can check. *)

(***************************************************************************)
(* The two representations agree: node_closure holds exactly the pairs     *)
(* that walking parent_id reaches, each at its distance.  Stated edge by   *)
(* edge: the rows at depth 0 are the self-rows; a row further down than    *)
(* that goes through the parent of its descendant, one edge nearer; and it *)
(* goes on to every child of its descendant, one edge further.             *)
(***************************************************************************)
SelfRowsAgree(N, C) ==
  /\ \A id \in DOMAIN N : ClosureRow(id, id, 0) \in C
  /\ \A row \in C : row.depth = 0 => row.ancestor_id = row.descendant_id

RowsGoThroughParents(N, C) ==
  \A row \in C :
    row.depth > 0 =>
      /\ N[row.descendant_id].parent_id /= NoParent
      /\ ClosureRow(row.ancestor_id, N[row.descendant_id].parent_id, row.depth - 1) \in C

RowsReachChildren(N, C) ==
  \A row \in C, id \in DOMAIN N :
    N[id].parent_id = row.descendant_id => ClosureRow(row.ancestor_id, id, row.depth + 1) \in C

Agrees(N, C) ==
  /\ ParentsAreStored(N)
  /\ EndsAreStored(N, C)
  /\ OneRowPerPair(C)
  /\ SelfRowsAgree(N, C)
  /\ RowsGoThroughParents(N, C)
  /\ RowsReachChildren(N, C)

(***************************************************************************)
(* The oracle of the repository's own tests, closure_from_parent_edges of  *)
(* tests/hierarchy_fixtures.py, which knows nothing of closure rows: from  *)
(* every node, walk the stored parent edges upwards and count.             *)
(***************************************************************************)
WalkUp(N) ==
  LET up[steps \in 0..Cardinality(DOMAIN N)] ==
        [id \in DOMAIN N |->
           IF steps = 0 THEN id
           ELSE IF up[steps - 1][id] = NoParent THEN NoParent
           ELSE N[up[steps - 1][id]].parent_id]
  IN  up

ClosureFromParentEdges(N) ==
  LET up == WalkUp(N)
  IN  {row \in [ancestor_id : DOMAIN N, descendant_id : DOMAIN N, depth : DOMAIN up] :
         up[row.depth][row.descendant_id] = row.ancestor_id}

=============================================================================
