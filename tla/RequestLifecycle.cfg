CONSTANTS
  Kinds = {"health", "invalid", "repeated", "get", "post"}
  Requests = {r1, r2, r3}
  PoolLimit = 2
  NoOne = NoOne

SPECIFICATION FairSpec

INVARIANTS
  TypeOK
  NothingLeaks
  AnsweredWithoutPostgres

PROPERTY EveryRequestEnds
