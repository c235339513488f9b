SPECIFICATION Spec
CONSTANTS
  NodeIds = {1, 2, 3, 4}
  NodeTypes = {resource_group}
  NoParent = NoParent
  Clients = {c1}
  Payloads <- MCPayloadSet
INVARIANTS
  TypeOK
  StoredIsForest
PROPERTIES
  PostedIsStored
  RepostChangesNothing
