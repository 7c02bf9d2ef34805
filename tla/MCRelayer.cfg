CONSTANTS
  Conn = {c1, c2}
  WorkerThreads = 1
  MaxConnections = {1, 2}
  MaxCalls = 3
SPECIFICATION FairSpec
INVARIANTS
  TypeOK
  AtMostOnce
PROPERTY
  EveryCallEnds
CHECK_DEADLOCK FALSE
