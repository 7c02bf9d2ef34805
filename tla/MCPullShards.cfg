CONSTANTS
  ForestWidth = 2
  MaxCount = 2
  Count <- MCCount
  MAX_RECEIVERS = 2
  MAX_SENDERS = 1
  Amount = {1, 5}
  FollowCursor = FALSE
  MaxFaults = 0
SPECIFICATION Spec
INVARIANTS
  WithinLimits
  MoreIsTrue
  NoMoreIsTrue
  ExactlyOnce
