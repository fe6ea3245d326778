SPECIFICATION Spec
CONSTANTS
  Clients = {c1, c2}
  Restarters = {r1}
  App = App
  None = None
  PoolSize = 2
  MaxConcurrent = 2
  MaxAttempts = 3
  MaxFaults = 1
  MaxCancels = 0
INVARIANTS
  CrashLeadsToRestart
CHECK_DEADLOCK FALSE
