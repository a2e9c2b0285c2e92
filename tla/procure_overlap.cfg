SPECIFICATION Spec
CONSTANTS
  p1 = p1
  k1 = k1
  k2 = k2
  i1 = i1
  i2 = i2
  c1 = c1
  c2 = c2
  NULL = NULL
  Purchase = {p1}
  Ordered <- MCOrdered
  ReceiptKey = {k1, k2}
  Invoice = {i1}
  Call = {c1, c2}
SYMMETRY Interchangeable
INVARIANTS TypeOK OrdersStand GoodsAreOwed
ACTION_CONSTRAINTS NoCallInVain OneByClient
