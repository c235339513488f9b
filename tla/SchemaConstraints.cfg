SPECIFICATION Spec
CONSTANTS
  NodeIds = {1, 2}
  NodeTypes = {resource_group}
  NoParent = NoParent
INVARIANT
  StoredGraphIsForest
