CONSTANTS
  ForestWidth = 1
  MaxCount = 2
  Count <- MCCount
  MAX_RECEIVERS = 2
  MAX_SENDERS = 1
  Amount = {2}
  FollowCursor = FALSE
  MaxFaults = 0
SPECIFICATION Spec
INVARIANT InOrder
