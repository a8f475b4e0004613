SPECIFICATION FairSpec
CONSTANTS
  Spawns = {s1}
  FastStart = FALSE
  None = None
  Reconciler = Reconciler
  Handler = Handler
  Sender = Sender
  EnsureAttempts = 3
  ReconnectAttempts = 4
  FetchAttempts = 5
  MaxClaims = 2
  MaxEvents = 0
PROPERTY AgentsComeUp
CHECK_DEADLOCK FALSE
