SPECIFICATION Spec
CONSTANTS
  Chars = {A, B, C}
  NULL = NULL
  MARKER = 1000
  MaxInput = 6
  MaxPattern = 3
INVARIANTS
  TypeOK
  RecencyOrder
  BackLinks
  SizeCountsMet
  BestWindow
  MinWindowReturned
CHECK_DEADLOCK FALSE
