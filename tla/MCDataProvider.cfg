SPECIFICATION FairSpec
CONSTANTS
  Streams = {s1, s2}
  Request <- MCRequest
  NoRequest = NoRequest
  MaxRequests = 2
  Window = 1
INVARIANTS
  TypeOK
  Conserved
PROPERTIES
  KeepsPromise
  StreamEnds
CHECK_DEADLOCK FALSE
