SPECIFICATION PolicySpec
CONSTANTS
  p1 = p1
  p2 = p2
  s1 = s1
  s2 = s2
  personal = personal
  pooled = pooled
  None = None
  Sites = {s1, s2}
  Principals = {p1, p2}
  References = {}
  BudgetIds = {personal, pooled}
  Cases <- Facts0
  Changes = 3
INVARIANT
  WithinEveryBudget
PROPERTY
  NeverGains
CHECK_DEADLOCK FALSE
