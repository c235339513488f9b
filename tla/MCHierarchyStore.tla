--------------------------- MODULE MCHierarchyStore ---------------------------
EXTENDS HierarchyStore, MCPayloads

MCPayloadSet == AllHierarchies(NodeIds, NodeTypes, NoParent) \union {RepeatingPayload}

=============================================================================
