SPECIFICATION FairSpec
CONSTANTS
  j1 = j1
  j2 = j2
  w1 = w1
  w2 = w2
  NULL = NULL
  Job = {j1}
  Worker = {w1, w2}
  Concurrency = 1
  MaxAttempts = 2
  MaxClaims = 4
  JobTimeout = 1
  LeaseDuration = 2
  PollInterval = 1
  ShutdownGrace = 1
  Backoff <- MCBackoff
  Faults = {"crash", "dberror", "lostclaim"}
  MaxFaults = 1
  MaxStops = 1
INVARIANTS TypeOK WriterHoldsLease RetryBudget
PROPERTIES TerminalIsFinal KeepsContract EveryJobIsJudged
