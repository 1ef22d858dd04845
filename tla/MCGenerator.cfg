SPECIFICATION GeneratorSpec
CONSTANTS
  Chars = {a, b}
  MaxSrc = 5
  MaxValue = 3
  Width = 6
  MaxPieces = 3
INVARIANTS
  ReplacesAll
  InsertsIntoCpp
PROPERTY Returns
CHECK_DEADLOCK FALSE
