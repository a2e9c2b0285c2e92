SPECIFICATION Spec
CONSTANTS
  b1 = b1
  b2 = b2
  d1 = d1
  d2 = d2
  r1 = r1
  r2 = r2
  i1 = i1
  k1 = k1
  k2 = k2
  NULL = NULL
  Record = {b1, b2}
  Document = {d1, d2}
  Request = {r1, r2}
  IssueKey = {i1}
  SettleKey = {k1, k2}
  Principal = 2
SYMMETRY Interchangeable
INVARIANTS TypeOK NoOverpayment OnlyActiveDebtsArePaid OrphansWereMissed DoubleBillingNeedsVoid ClosedCasesArePaid
CHECK_DEADLOCK FALSE
