------------------------------ MODULE MCWritePath ------------------------------
(***************************************************************************)
(* Instances of WritePath.                                                 *)
(***************************************************************************)
EXTENDS WritePath, MCPayloads, TLC

MCPayloadSet == AllHierarchies(NodeIds, NodeTypes, NoParent) \union {RepeatingPayload}

(***************************************************************************)
(* Every hierarchy with the first type throughout, and what gives one node *)
(* another.                                                                *)
(***************************************************************************)
RetypingPayloadSet ==
  LET usual == CHOOSE type \in NodeTypes : TRUE
  IN  AllHierarchies(NodeIds, {usual}, NoParent)
        \union UNION {HierarchiesOver({id}, NodeTypes, NoParent) : id \in NodeIds}
        \union {RepeatingPayload}

ClientSymmetry == Permutations(Clients)

=============================================================================
