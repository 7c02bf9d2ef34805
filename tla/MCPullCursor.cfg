CONSTANTS
  ForestWidth = 1
  MaxCount = 2
  Count <- MCCount
  MAX_RECEIVERS = 1
  MAX_SENDERS = 2
  Amount = {1, 2}
  FollowCursor = TRUE
  MaxFaults = 0
SPECIFICATION Spec
INVARIANT CursorLosesNothing
