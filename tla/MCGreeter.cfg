SPECIFICATION Spec
CONSTANTS
  Clients = {t, r}
  Local = t
  NumGreetings <- MCNumGreetings
  MaxThreads = 2
  Window = 1
INVARIANTS
  TypeOK
  KeepsServing
  ReturnsOnlyIdle
PROPERTIES
  KeepsPromise
CHECK_DEADLOCK FALSE
