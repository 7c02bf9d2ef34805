CONSTANTS
  Frequency = {2, 12}
  MaxFaults = 2
SPECIFICATION FairSpec
INVARIANTS
  TypeOK
  ServesSynced
  MethodsListed
  GracefulExit
PROPERTIES
  StopsOnSignal
  ComesUp
CHECK_DEADLOCK FALSE
