SPECIFICATION Budgeted
CONSTANTS
  Clients = {c1, c2}
  Restarters = {r1, r2}
  App = App
  None = None
  PoolSize = 1
  MaxConcurrent = 1
  MaxAttempts = 1
  MaxFaults = 2
  MaxCancels = 1
INVARIANTS
  TypeOK
  NoOrphanBrowser
PROPERTIES
  AcquireEnds
CHECK_DEADLOCK FALSE
