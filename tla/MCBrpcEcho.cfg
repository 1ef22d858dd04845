SPECIFICATION FairSpec
CONSTANTS
  MaxCalls = 2
  max_retry = 1
INVARIANTS
  TypeOK
  LoggedEcho
PROPERTIES
  ClientQuits
  ServerQuits
CHECK_DEADLOCK FALSE
