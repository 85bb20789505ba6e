SPECIFICATION SliceSpec
CONSTANTS
  Lines = 3
  LineSizes = {3, 12}
  Versions = {1, 2}
  ContextBytes = 11
  MarkerBytes = 1
  ReferenceBytes = 3
  MaxParts = 3
INVARIANT ReferencesAreComplete
CHECK_DEADLOCK FALSE
