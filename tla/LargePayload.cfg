CONSTANTS
  Widths <- Stars
  AncestorCounts = {0}
  DroppedCounts = {0}
  MostParameters = 65535

SPECIFICATION Spec

INVARIANT NoServerError

CHECK_DEADLOCK FALSE
