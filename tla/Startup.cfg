CONSTANT Retries = 3

SPECIFICATION FairSpec

INVARIANTS
  TypeOK
  NeverRacesInitdb
  ServesOverItsSchema

PROPERTY EveryStartEnds
