SPECIFICATION Spec
CONSTANTS
  small = small
  medium = medium
  large = large
  Types <- MCTypes
  SizeOf <- MCSizeOf
  Size = 2
  NONE = NONE
  MaxCalls = 6
INVARIANTS
  TypeOK
  RoundTrip
  OnePlaceEach
  Fits
CHECK_DEADLOCK FALSE
