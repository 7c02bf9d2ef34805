CONSTANTS
  ForestWidth = 2
  MaxCount = 1
  Count <- MCCount
  MAX_RECEIVERS = 2
  MAX_SENDERS = 1
  Amount = {0, 1, 5}
  FollowCursor = FALSE
  MaxFaults = 1
SPECIFICATION FairSpec
INVARIANTS
  TypeOK
  ExactlyOnce
PROPERTIES
  KeepsMirror
  Delivered
