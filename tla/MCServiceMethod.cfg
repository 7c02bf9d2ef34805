CONSTANTS
  Frequency = {2}
  MaxFaults = 0
SPECIFICATION Spec
INVARIANT JobHasMethod
CHECK_DEADLOCK FALSE
