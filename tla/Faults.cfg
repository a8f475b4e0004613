SPECIFICATION MCSpec
CONSTANTS
  Groups = {g1}
  TriggerGroups = {g1}
  Workers = {w1}
  Watchers = {v1}
  MaxConcurrent = 1
  FastStart = TRUE
  MaxMessages = 0
  MaxPods = 1
  MaxTasks = 1
  MaxFaults = 1
  MaxCrashes = 1
  None = None
  SandboxNames = {n1, n2}
  SandboxPhases = {"ready"}
  Buffer = 1
  MaxSeen = 1
  MaxLog = 4
  Prompts = {m1, m2}
  Malformed = {m2}
  Producers = {p1}
  Drains = {d1, d2}
  Retries = 2
  MaxTroubles = 1
  Savers = {s1}
  Flusher = f
  MaxUpdates = 3
  MaxSetFaults = 1
  MaxRestarts = 1
  Unset = Unset
INVARIANT DeletionsKept
INVARIANTS PromptsKept SpentOnce
INVARIANT PersistedWhenQuiet
PROPERTIES SlotsReleased DeadAgentNoticed DeletionsHandled QueueHeals ConfirmPersisted
CHECK_DEADLOCK FALSE
