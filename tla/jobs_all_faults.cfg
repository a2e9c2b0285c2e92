SPECIFICATION Spec
CONSTANTS
  j1 = j1
  j2 = j2
  w1 = w1
  w2 = w2
  NULL = NULL
  Job = {j1, j2}
  Worker = {w1}
  Concurrency = 2
  MaxAttempts = 1
  MaxClaims = 2
  JobTimeout = 1
  LeaseDuration = 2
  PollInterval = 1
  ShutdownGrace = 1
  Backoff <- MCBackoff
  Faults = {"crash", "dberror", "lostclaim", "lostack", "stall"}
  MaxFaults = 1
  MaxStops = 2
SYMMETRY JobSymmetry
INVARIANT WaitedStopDrains
