SPECIFICATION FairSpec
CONSTANTS
  f1 = f1
  f2 = f2
  m1 = m1
  m2 = m2
  r1 = r1
  r2 = r2
  NULL = NULL
  File = {f1, f2}
  LinesOf <- MCLinesOf
  Movement = {m1, m2}
  Exact <- MCExact
  Request = {r1, r2}
  PoolSize = 2
  MaxRecons = 2
INVARIANTS TypeOK OneActive ShownMatches
PROPERTIES EveryRequestEnds
