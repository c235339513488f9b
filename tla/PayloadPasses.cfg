SPECIFICATION Spec
CONSTANTS
  NodeIds = {1, 2, 3, 4, 8, 9}
  NodeTypes = {"management_group", "resource_group"}
  NoParent = NoParent
  Bodies <- MCBodies
  Ancestries <- MCAncestries
INVARIANTS
  RepeatsAreRefused
  FlattenedAsNested
  RowsAreTheClosure
  RoundTrips
