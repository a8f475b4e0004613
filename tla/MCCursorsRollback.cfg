SPECIFICATION CursorSpec
CONSTANTS
  Workers = {w1}
  Watchers = {v1}
  MessageLimit = 3
  RequiresTrigger = FALSE
  Triggers = {}
  Skew = 0
  MaxMessages = 2
  MaxSpawns = 2
  MaxDeaths = 1
  MaxFaults = 0
  MaxCrashes = 0
INVARIANT RolledBack
CHECK_DEADLOCK FALSE
