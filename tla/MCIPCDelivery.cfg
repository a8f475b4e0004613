SPECIFICATION MCFairSpec
CONSTANTS
  Subs = {s1, s2}
  None = None
  MaxMessages = 2
  Capacity = 1
  MaxFaults = 1
INVARIANT AckedReached
PROPERTIES CloseEnds EventuallyDelivered
CHECK_DEADLOCK FALSE
