CONSTANTS
  ForestWidth = 1
  MaxCount = 2
  Count <- MCCount
  MAX_RECEIVERS = 3
  MAX_SENDERS = 2
  Capacity = 2
  MaxFaults = 3
SPECIFICATION Spec
INVARIANTS
  TypeOK
  MirrorExact
  CursorsAgree
  TotalMatches
