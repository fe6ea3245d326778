SPECIFICATION Spec
CONSTANTS
  Clients = {c1, c2}
  Restarters = {r1}
  App = App
  None = None
  PoolSize = 2
  MaxConcurrent = 2
  MaxAttempts = 2
  MaxFaults = 1
  MaxCancels = 1
SYMMETRY Symmetry
INVARIANTS
  NoSharedContext
  ContextsAccountedFor
  ActiveExact
  PermitsAccountedFor
CHECK_DEADLOCK FALSE
