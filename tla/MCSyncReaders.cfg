CONSTANTS
  ForestWidth = 2
  MaxCount = 1
  Count <- MCCount
  MAX_RECEIVERS = 2
  MAX_SENDERS = 2
  Capacity = 2
  MaxFaults = 2
SPECIFICATION FairSpec
INVARIANTS
  CacheCoherent
  InitMeansSynced
PROPERTIES
  ImplementsMirror
  ImplementsJob
  CatchUp
  InitCompletes
  ShutdownStops
