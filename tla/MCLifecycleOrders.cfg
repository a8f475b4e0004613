SPECIFICATION MCSpec
CONSTANTS
  Groups = {g1}
  TriggerGroups = {}
  Workers = {w1, w2}
  Watchers = {v1, v2}
  MaxConcurrent = 1
  FastStart = TRUE
  MaxMessages = 0
  MaxPods = 3
  MaxTasks = 1
  MaxFaults = 0
  MaxCrashes = 1
  None = None
SYMMETRY Goroutines
CONSTRAINT CrashesBounded
INVARIANT SlotExclusion
INVARIANT ActiveAttended
CHECK_DEADLOCK FALSE
