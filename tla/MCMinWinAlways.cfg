SPECIFICATION Spec
CONSTANTS
  Chars = {A, B, C}
  NULL = NULL
  MARKER = 1000
  MaxInput = 6
  MaxPattern = 3
INVARIANTS
  MinWindowAlwaysReturned
CHECK_DEADLOCK FALSE
