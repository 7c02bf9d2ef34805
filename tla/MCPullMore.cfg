CONSTANTS
  ForestWidth = 2
  MaxCount = 1
  Count <- MCCount
  MAX_RECEIVERS = 1
  MAX_SENDERS = 1
  Amount = {1}
  FollowCursor = FALSE
  MaxFaults = 0
SPECIFICATION Spec
INVARIANT NoMoreReceivers
