SPECIFICATION MCSpec
CONSTANTS
  Groups = {g1, g2}
  TriggerGroups = {}
  Workers = {w1, w2}
  Watchers = {v1}
  MaxConcurrent = 1
  FastStart = TRUE
  MaxMessages = 2
  MaxPods = 1
  MaxTasks = 0
  MaxFaults = 1
  MaxCrashes = 0
  None = None
SYMMETRY GoroutinesAndGroups
PROPERTY AdmissionProtocol
CHECK_DEADLOCK FALSE
