SPECIFICATION MCSpec
CONSTANTS
  Workers = {w1, w2}
  Watchers = {v1}
  MessageLimit = 3
  RequiresTrigger = TRUE
  Triggers = {2, 3}
  Skew = 0
  MaxMessages = 3
  MaxSpawns = 2
  MaxDeaths = 1
  MaxFaults = 1
  MaxCrashes = 1
  Groups = {g1, g2, g3, g4, g5}
  MaxConcurrent = 2
SYMMETRY Goroutines
INVARIANTS CursorCoversSent ConfirmedHanded
INVARIANT OvershootBounded
CHECK_DEADLOCK FALSE
