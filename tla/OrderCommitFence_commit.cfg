SPECIFICATION Spec

CONSTANTS
  Carts = {k1}
  Drafts = {d1}
  Orders = {o1, o2}
  Scopes = {p}
  Lines = {x, y}
  Bindings = {b1}
  b1 = b1
  d1 = d1
  k1 = k1
  o1 = o1
  o2 = o2
  p = p
  x = x
  y = y
  Models = {"B2B", "B2C"}
  MaxVersion = 1
  MaxReceipts = 2
  NoCart = NoCart

SYMMETRY Interchangeable

INVARIANTS
  NoReuse
  SpentByItsOwn

PROPERTIES
  DecidedInItsMode

CHECK_DEADLOCK FALSE
