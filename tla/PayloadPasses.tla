---------------------------- MODULE PayloadPasses ----------------------------
(***************************************************************************)
(* The three static passes of HierarchyService as the loops they are:      *)
(* flatten_payload level by level, closure_rows node by node, and          *)
(* assemble_tree row by row over what was stored.  WritePath uses what     *)
(* they compute, as the operators IsFlattened, ClosureRowsOf, Assembles    *)
(* and AssembleTree of Hierarchy; here the loops are checked against them. *)
(*                                                                         *)
(* A body is a HierarchyNode with its children in it, any id anywhere.     *)
(* Its nodes are numbered from the root down; under[k] is the number of    *)
(* the node whose `children` holds node k, and siblings keep their order.  *)
(***************************************************************************)
EXTENDS PostgresTables, Sequences, Functions

CONSTANTS
  Bodies,     \* what a client may post
  Ancestries  \* what may be captured above the posted root

ASSUME BodiesAssumption ==
  \A body \in Bodies :
    /\ body.id \in Seq(NodeIds) /\ body.id /= <<>>
    /\ body.type \in [DOMAIN body.id -> NodeTypes]
    /\ body.under \in [DOMAIN body.id -> 0..Len(body.id)]
    /\ \A k \in DOMAIN body.id : body.under[k] < k /\ (body.under[k] = 0 <=> k = 1)

(***************************************************************************)
(* None of the stored nodes above the posted root is posted: store_        *)
(* hierarchy has refused the payload otherwise.                            *)
(***************************************************************************)
ASSUME AncestriesAssumption ==
  \A ancestry \in Ancestries :
    /\ IsAncestry(ancestry)
    /\ \A posted \in Bodies, above \in ancestry : above.ancestor_id \notin Range(posted.id)

VARIABLES
  pass,                     \* the loop that runs
  body, captured_ancestors, \* the arguments
  level, depth, seen, nodes,
  ancestors_within_payload, rows, visited,
  unread, built, root

vars == <<pass, body, captured_ancestors, level, depth, seen, nodes,
          ancestors_within_payload, rows, visited, unread, built, root>>

flattening == <<level, depth, seen, nodes>>
closing == <<ancestors_within_payload, rows, visited>>
assembling == <<unread, built, root>>

NoFunction == [id \in {} |-> id]

(***************************************************************************)
(* The members of S one after the other, as the set of pairs `before` has  *)
(* them.                                                                   *)
(***************************************************************************)
InOrder(S, before) ==
  CHOOSE s \in [1..Cardinality(S) -> S] :
    \A i, j \in 1..Cardinality(S) : i < j => <<s[i], s[j]>> \in before

-----------------------------------------------------------------------------

Init ==
  /\ pass = "flatten_payload"
  /\ body \in Bodies
  /\ captured_ancestors \in Ancestries
  /\ level = {[at |-> 1, parent_id |-> NoParent]}
  /\ depth = 0
  /\ seen = {}
  /\ nodes = <<>>
  /\ ancestors_within_payload = NoFunction
  /\ rows = <<>>
  /\ visited = 0
  /\ unread = <<>>
  /\ built = NoFunction
  /\ root = NoParent

LevelAsItComes ==  \* mistake: no sort
  InOrder(level, {pair \in level \X level : pair[1].at < pair[2].at})

(***************************************************************************)
(* One round of the while loop: the level in id order, refusing an id seen *)
(* before, and then the children of all of it.  The level itself is a set: *)
(* nothing is done with the list before it is sorted.                      *)
(***************************************************************************)
LevelInOrder ==
  InOrder(level, {pair \in level \X level :
                    \/ body.id[pair[1].at] < body.id[pair[2].at]
                    \/ body.id[pair[1].at] = body.id[pair[2].at] /\ pair[1].at < pair[2].at})

LevelRepeatsAbove ==  \* mistake: seen is filled a level at a time
  \E this \in level : body.id[this.at] \in seen

LevelRepeats ==
  \E this \in level :
    \/ body.id[this.at] \in seen
    \/ \E other \in level \ {this} : body.id[other.at] = body.id[this.at]

NextLevel ==
  {[at |-> child, parent_id |-> body.id[body.under[child]]] :
     child \in {k \in DOMAIN body.id : \E holder \in level : body.under[k] = holder.at}}

FlattenLevel ==
  /\ pass = "flatten_payload"
  /\ level /= {}
  /\ IF LevelRepeats
     THEN pass' = "raised" /\ UNCHANGED flattening
     ELSE LET ordered == LevelInOrder
          IN  /\ nodes' = nodes \o [k \in DOMAIN ordered |->
                                      [id |-> body.id[ordered[k].at],
                                       type |-> body.type[ordered[k].at],
                                       parent_id |-> ordered[k].parent_id,
                                       depth |-> depth]]
              /\ seen' = seen \union {body.id[this.at] : this \in level}
              /\ level' = NextLevel
              /\ depth' = depth + 1
              /\ UNCHANGED pass
  /\ UNCHANGED <<body, captured_ancestors, closing, assembling>>

Flattened ==
  /\ pass = "flatten_payload"
  /\ level = {}
  /\ pass' = "closure_rows"
  /\ UNCHANGED <<body, captured_ancestors, flattening, closing, assembling>>

-----------------------------------------------------------------------------

WithinAtOneEdge(node) ==  \* mistake: every ancestor stays one edge away
  IF node.parent_id = NoParent
  THEN <<>>
  ELSE <<AncestorRow(node.parent_id, 1)>> \o ancestors_within_payload[node.parent_id]

(***************************************************************************)
(* The ancestors inside the payload, and the rows of one node.  A parent   *)
(* that was not handled before would be a KeyError.                        *)
(***************************************************************************)
Within(node) ==
  IF node.parent_id = NoParent
  THEN <<>>
  ELSE LET above == ancestors_within_payload[node.parent_id]
       IN  <<AncestorRow(node.parent_id, 1)>>
             \o [k \in DOMAIN above |-> AncestorRow(above[k].ancestor_id, above[k].depth + 1)]

CloseOverNode ==
  /\ pass = "closure_rows"
  /\ visited < Len(nodes)
  /\ LET node == nodes[visited + 1]
         within == Within(node)
         captured == InOrder(captured_ancestors, {pair \in captured_ancestors \X captured_ancestors :
                                                    pair[1].depth < pair[2].depth})
     IN  /\ node.parent_id \in DOMAIN ancestors_within_payload \union {NoParent}
         /\ ancestors_within_payload' =
              [id \in DOMAIN ancestors_within_payload \union {node.id} |->
                 IF id = node.id THEN within ELSE ancestors_within_payload[id]]
         /\ rows' = rows
              \o <<ClosureRow(node.id, node.id, 0)>>
              \o [k \in DOMAIN within |->
                    ClosureRow(within[k].ancestor_id, node.id, within[k].depth)]
              \o [k \in DOMAIN captured |->
                    ClosureRow(captured[k].ancestor_id, node.id,
                               captured[k].depth + node.depth)]
  /\ visited' = visited + 1
  /\ UNCHANGED <<pass, body, captured_ancestors, flattening, assembling>>

-----------------------------------------------------------------------------

(***************************************************************************)
(* What the read of the root returns once the nodes and the rows are       *)
(* stored, in the order its ORDER BY depth, id gives.                      *)
(***************************************************************************)
Payload ==
  LET indexOf(id) == CHOOSE k \in DOMAIN nodes : nodes[k].id = id
  IN  [repeats |-> FALSE,
       root |-> nodes[1].id,
       nodes |-> [id \in {nodes[k].id : k \in DOMAIN nodes} |->
                    [type |-> nodes[indexOf(id)].type,
                     parent_id |-> nodes[indexOf(id)].parent_id,
                     depth |-> nodes[indexOf(id)].depth]]]

StoredParent ==
  IF \E above \in captured_ancestors : above.depth = 1
  THEN (CHOOSE above \in captured_ancestors : above.depth = 1).ancestor_id
  ELSE NoParent

ReadRows == FetchSubtreeRows(NodeRows(Payload, StoredParent), Range(rows), Payload.root)

Store ==
  /\ pass = "closure_rows"
  /\ visited = Len(nodes)
  /\ unread' = InOrder(ReadRows, {pair \in ReadRows \X ReadRows : Before(pair[1], pair[2])})
  /\ pass' = "assemble_tree"
  /\ UNCHANGED <<body, captured_ancestors, flattening, closing, built, root>>

AttachRow ==
  /\ pass = "assemble_tree"
  /\ unread /= <<>>
  /\ LET row == Head(unread)
         leaf == [type |-> row.type, children |-> <<>>]
     IN  IF root = NoParent
         THEN /\ root' = row.id
              /\ built' = [id \in {row.id} |-> leaf]
         ELSE /\ row.parent_id \in DOMAIN built
              /\ built' = [id \in DOMAIN built \union {row.id} |->
                             IF id = row.id THEN leaf
                             ELSE IF id = row.parent_id
                             THEN [built[id] EXCEPT !.children = Append(@, row.id)]
                             ELSE built[id]]
              /\ UNCHANGED root
  /\ unread' = Tail(unread)
  /\ UNCHANGED <<pass, body, captured_ancestors, flattening, closing>>

Assembled ==
  /\ pass = "assemble_tree"
  /\ unread = <<>>
  /\ pass' = "returned"
  /\ UNCHANGED <<body, captured_ancestors, flattening, closing, assembling>>

Finished == pass \in {"raised", "returned"} /\ UNCHANGED vars

Next ==
  \/ FlattenLevel
  \/ Flattened
  \/ CloseOverNode
  \/ Store
  \/ AttachRow
  \/ Assembled
  \/ Finished

Spec == Init /\ [][Next]_vars

-----------------------------------------------------------------------------

BodyRepeats == \E j, k \in DOMAIN body.id : j /= k /\ body.id[j] = body.id[k]

(***************************************************************************)
(* flatten_payload raises exactly when an id occurs twice anywhere in the  *)
(* body, on one level or on two, in one branch or in two.                  *)
(***************************************************************************)
RepeatsAreRefused ==
  /\ pass = "raised" => BodyRepeats
  /\ pass \notin {"raised", "flatten_payload"} => ~BodyRepeats

(***************************************************************************)
(* What it returns is the body: in (depth, id) order, each node under the  *)
(* node that held it, and so a payload as WritePath assumes one.           *)
(***************************************************************************)
FlattenedAsNested ==
  pass \notin {"raised", "flatten_payload"} =>
    /\ Len(nodes) = Len(body.id)
    /\ \A j, k \in DOMAIN nodes : j < k => Before(nodes[j], nodes[k])
    /\ IsFlattened(Payload)
    /\ \A k \in DOMAIN body.id :
         Payload.nodes[body.id[k]].parent_id =
           IF k = 1 THEN NoParent ELSE body.id[body.under[k]]

(***************************************************************************)
(* closure_rows returns the rows of ClosureRowsOf, and no pair twice: a    *)
(* repeated pair would be refused by the primary key of node_closure.      *)
(***************************************************************************)
RowsAreTheClosure ==
  pass \in {"assemble_tree", "returned"} =>
    /\ Range(rows) = ClosureRowsOf(Payload, captured_ancestors)
    /\ \A j, k \in DOMAIN rows :
         j /= k => \/ rows[j].ancestor_id /= rows[k].ancestor_id
                   \/ rows[j].descendant_id /= rows[k].descendant_id

(***************************************************************************)
(* The hierarchy read back is the one posted, children in ascending id     *)
(* order: the round trip that tests/run_tests.py compares as JSON.         *)
(***************************************************************************)
RoundTrips ==
  pass = "returned" =>
    /\ Assembles(ReadRows)
    /\ AssembleTree(ReadRows) = PostedTree(Payload)
    /\ root = body.id[1]
    /\ DOMAIN built = {body.id[k] : k \in DOMAIN body.id}
    /\ \A k \in DOMAIN body.id :
         /\ built[body.id[k]].type = body.type[k]
         /\ LET children == built[body.id[k]].children
            IN  /\ Range(children) =
                     {body.id[child] : child \in {c \in DOMAIN body.id : body.under[c] = k}}
                /\ \A i, j \in DOMAIN children : i < j => children[i] < children[j]

=============================================================================
