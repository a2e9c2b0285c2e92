SPECIFICATION Spec
CONSTANTS
  e1 = e1
  e2 = e2
  p1 = p1
  p2 = p2
  NULL = NULL
  Event = {e1, e2}
  Publisher = {p1, p2}
  OrderingKey <- SameAggregate
  BatchSize = 2
  MaxAttempts = 2
  MaxClaims = 3
  BatchTime = 1
  LeaseDuration = 2
  PollInterval = 1
  Backoff <- MCBackoff
  Faults = {"crash", "dberror", "lostclaim"}
  MaxFaults = 2
  MaxStops = 0
SYMMETRY PublisherSymmetry
INVARIANTS TypeOK HolderHoldsLease OnlyTornEventsAreLost
PROPERTY KeepsContract
