SPECIFICATION Spec
CONSTANTS
  Callers = {a, b}
  MaxThreads = 2
INVARIANTS
  HealthyMeansServed
  DownOnlyUnbuilt
PROPERTIES
  CallEnds
CHECK_DEADLOCK FALSE
