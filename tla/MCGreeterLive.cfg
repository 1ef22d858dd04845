SPECIFICATION FairSpec
CONSTANTS
  Clients = {t, r}
  Local = t
  NumGreetings <- MCNumGreetings
  MaxThreads = 1
  Window = 1
PROPERTIES
  ClientEnds
  EndsWithoutThreads
CHECK_DEADLOCK FALSE
