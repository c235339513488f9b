SPECIFICATION Spec
CONSTANTS
  NodeIds = {1, 2, 3}
  NodeTypes = {resource_group}
  NoParent = NoParent
  NoOne = NoOne
  Clients = {c1, c2}
  Payloads <- MCPayloadSet
SYMMETRY ClientSymmetry
INVARIANTS
  TypeOK
  RepresentationsAgree
  WhatWasReadStillHolds
  NothingRefused
  AnsweredAsPosted
PROPERTY
  ImplementsStore
