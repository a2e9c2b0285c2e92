SPECIFICATION FairSpec
CONSTANTS
  e1 = e1
  e2 = e2
  p1 = p1
  p2 = p2
  NULL = NULL
  Event = {e1}
  Publisher = {p1, p2}
  OrderingKey <- SameAggregate
  BatchSize = 1
  MaxAttempts = 2
  MaxClaims = 5
  BatchTime = 1
  LeaseDuration = 2
  PollInterval = 1
  Backoff <- MCBackoff
  Faults = {"crash", "dberror", "lostclaim", "lostack", "stall"}
  MaxFaults = 2
  MaxStops = 1
PROPERTY EveryEventIsSettled
