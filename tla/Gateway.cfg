SPECIFICATION MCSpec
CONSTANTS
  Inbound = {i1}
  Events = {e1}
  Cap = 1
  MaxMsgs = 2
  Unread = Unread
  Calls = {c1, c2}
  Capacity = 1
  Second = 2
  MaxTime = 5
  Processes = {a1, a2}
  LastVersion = 3
  UpAttempts = 2
  MaxStops = 2
  NoTable = NoTable
  g1 = g1
  g2 = g2
  Groups = {g1, g2}
  Keys <- MCKeys
  Flows = {f1, f2}
  Requests = {r1}
  Platform = {"anthropic"}
  PollTimeout = 2
  None = None
INVARIANT StreamsInOrder
INVARIANT RateBound
INVARIANTS MigratedOnce SchemaComplete
INVARIANT RequestsKeepTheirOwn
PROPERTIES ShutdownCompletes FailureEndsProcess HonestAnswer
CHECK_DEADLOCK FALSE
