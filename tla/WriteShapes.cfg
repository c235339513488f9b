SPECIFICATION Spec
CONSTANTS
  NodeIds = {1, 2, 3, 4}
  NodeTypes = {resource_group}
  NoParent = NoParent
  NoOne = NoOne
  Clients = {c1}
  Payloads <- MCPayloadSet
INVARIANTS
  ClosureIsTheOracles
  RepresentationsAgree
  NothingRefused
  AnsweredAsPosted
