SPECIFICATION MCSpec
CONSTANTS
  Spawns = {s1, s2}
  FastStart = TRUE
  None = None
  Reconciler = Reconciler
  Handler = Handler
  Sender = Sender
  EnsureAttempts = 2
  ReconnectAttempts = 2
  FetchAttempts = 2
  MaxClaims = 2
  MaxEvents = 2
INVARIANTS ReconcilerSparesSpawns CacheHonest
CHECK_DEADLOCK FALSE
SYMMETRY SpawnSymmetry
