SPECIFICATION Spec

CONSTANTS
  Carts = {k1, k2}
  Drafts = {d1}
  Orders = {o1, o2}
  Scopes = {p}
  Lines = {x, y}
  Bindings = {b1}
  b1 = b1
  d1 = d1
  k1 = k1
  k2 = k2
  o1 = o1
  o2 = o2
  p = p
  x = x
  y = y
  Models = {"B2B", "B2C"}
  MaxVersion = 1
  MaxReceipts = 2
  NoCart = NoCart

SYMMETRY Interchangeable

INVARIANTS
  RetryAdmitted

CHECK_DEADLOCK FALSE
