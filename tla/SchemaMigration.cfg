CONSTANTS
  Commands = {m1, m2}
  Requests = {r1, r2}

SPECIFICATION FairSpec

INVARIANTS
  TypeOK
  WholeOrNone

PROPERTIES
  FailsOnlyWhenOvertaken
  NobodyWaitsForEver
