------------------------------ MODULE MCPayloads ------------------------------
(***************************************************************************)
(* Finite sets of payloads for the runs.                                   *)
(***************************************************************************)
EXTENDS Integers, FiniteSets

(***************************************************************************)
(* Every hierarchy over a non-empty subset of the ids, each node of any of *)
(* the types, as flatten_payload reports it.                               *)
(***************************************************************************)
DepthsOf(ids, parent_of, NoParent) ==
  LET depth_of[id \in ids, left \in 0..Cardinality(ids)] ==
        IF parent_of[id] = NoParent THEN 0
        ELSE IF left = 0 THEN -1
        ELSE LET above == depth_of[parent_of[id], left - 1]
             IN  IF above = -1 THEN -1 ELSE above + 1
  IN  [id \in ids |-> depth_of[id, Cardinality(ids)]]

ShapesOver(ids, NoParent) ==
  {parent_of \in [ids -> ids \union {NoParent}] :
     /\ Cardinality({id \in ids : parent_of[id] = NoParent}) = 1
     /\ \A id \in ids : DepthsOf(ids, parent_of, NoParent)[id] >= 0}

HierarchiesOver(ids, types, NoParent) ==
  {[repeats |-> FALSE,
    root |-> CHOOSE id \in ids : parent_of[id] = NoParent,
    nodes |-> [id \in ids |-> [type |-> type_of[id],
                               parent_id |-> parent_of[id],
                               depth |-> DepthsOf(ids, parent_of, NoParent)[id]]]] :
     parent_of \in ShapesOver(ids, NoParent), type_of \in [ids -> types]}

AllHierarchies(ids, types, NoParent) ==
  UNION {HierarchiesOver(some, types, NoParent) : some \in SUBSET ids \ {{}}}

RepeatingPayload == [repeats |-> TRUE]

=============================================================================
