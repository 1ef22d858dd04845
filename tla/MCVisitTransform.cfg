SPECIFICATION Spec
CONSTANTS
  MaxArgs = 3
  MaxFan = 2
INVARIANTS
  CallsInOrder
  NothingStaleButRepeats
CHECK_DEADLOCK FALSE
