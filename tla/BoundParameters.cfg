CONSTANTS
  Widths <- MCWidths
  AncestorCounts = {0, 1, 4, 60}
  DroppedCounts = {0, 1, 65535, 65536}
  MostParameters = 65535

SPECIFICATION Spec

INVARIANT OnlyLargeWritesAreRefused

CHECK_DEADLOCK FALSE
