SPECIFICATION FairSpec
CONSTANTS
  NodeIds = {1, 2}
  NodeTypes = {management_group, resource_group}
  NoParent = NoParent
  NoOne = NoOne
  Clients = {c1, c2}
  Payloads <- RetypingPayloadSet
PROPERTY
  EveryRequestEnds
INVARIANT
  AnsweredAsPosted
