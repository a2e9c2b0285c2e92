SPECIFICATION Spec
CONSTANTS
  a1 = a1
  a2 = a2
  k1 = k1
  k2 = k2
  k3 = k3
  r1 = r1
  r2 = r2
  NULL = NULL
  Account = {a1, a2}
  Rank <- MCRank
  Overdraft = {}
  Opening <- MCOpening
  Key = {k1, k2, k3}
  Amount = {1, 2}
  Request = {r1, r2}
SYMMETRY Interchangeable
INVARIANTS TypeOK NoOverdraft DeadlockNeedsReversal
PROPERTY KeepsLedger
