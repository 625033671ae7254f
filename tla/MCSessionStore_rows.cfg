SPECIFICATION MCSpec
CONSTANTS
  Servers = {s1, s2}
  HostSessions = {x1}
  Hooks = {h1}
  Consumers = {c1}
  Retentions = {0, 1}
  ClientTypes = {"session_start", "other"}
  GCAge = 1
  Batch = 1
  Limit = 2
  Lag = 1
  MaxEvents = 3
  MaxTime = 2
  None = None
SYMMETRY Symmetry
INVARIANTS NoOrphanEvents CursorMissesNothing
PROPERTIES DeletedByOwnPolicy
CHECK_DEADLOCK FALSE
