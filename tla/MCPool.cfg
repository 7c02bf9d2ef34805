CONSTANTS
  Conn = {c1, c2}
  WorkerThreads = 2
  MaxSubs = 3
SPECIFICATION FairSpec
INVARIANTS
  TypeOK
  NoLostJob
  OneConnection
PROPERTIES
  CallsReturn
  GaugeDrains
  DeadLinkEnds
CHECK_DEADLOCK FALSE
