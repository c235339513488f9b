-------------------------- MODULE SchemaConstraints --------------------------
(***************************************************************************)
(* The two tables under their constraints alone: any caller, any           *)
(* statement, and the schema of migration 0001 to refuse it.  store_       *)
(* hierarchy is one such caller; this is what is left without it.          *)
(***************************************************************************)
EXTENDS PostgresTables

VARIABLES nodes, closure

vars == <<nodes, closure>>

MostDepth == 2  \* a row further down than that adds nothing here

Init ==
  /\ nodes = [id \in {} |-> NoParent]
  /\ closure = {}

(***************************************************************************)
(* INSERT INTO nodes, or UPDATE nodes.                                     *)
(***************************************************************************)
StateNode(id) ==
  /\ \E row \in NodeData : nodes' = WithUpserted(nodes, [stated \in {id} |-> row])
  /\ ParentsAreStored(nodes')
  /\ UNCHANGED closure

DeleteNode(id) ==
  /\ nodes' = WithoutNodes(nodes, {id})
  /\ ParentsAreStored(nodes')
  /\ closure' = WithoutRowsOf(closure, {id})

InsertClosureRow(ancestor_id, descendant_id, depth) ==
  /\ ClosureRow(ancestor_id, descendant_id, depth) \notin closure
  /\ closure' = closure \union {ClosureRow(ancestor_id, descendant_id, depth)}
  /\ ClosureIsAccepted(nodes, closure')
  /\ UNCHANGED nodes

DeleteClosureRows(descendant_id) ==
  /\ closure' = WithoutDescendants(closure, {descendant_id})
  /\ UNCHANGED nodes

Next ==
  \E id, other \in NodeIds, depth \in 0..MostDepth :
    \/ StateNode(id)
    \/ DeleteNode(id)
    \/ InsertClosureRow(other, id, depth)
    \/ DeleteClosureRows(id)

Spec == Init /\ [][Next]_vars

(***************************************************************************)
(* "the stored graph can only ever be a forest. Postgres enforces it, so   *)
(* no future caller can write around it": no set of stored nodes has every *)
(* parent inside itself.                                                   *)
(***************************************************************************)
StoredGraphIsForest ==
  \A ring \in SUBSET DOMAIN nodes \ {{}} :
    \E id \in ring : nodes[id].parent_id \notin ring

=============================================================================
