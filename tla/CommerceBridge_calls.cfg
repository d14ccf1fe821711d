SPECIFICATION Spec
CONSTANTS
  c1 = c1
  c2 = c2
  r1 = r1
  r2 = r2
  k1 = k1
  k2 = k2
  z = z
  t = t
  i1 = i1
  i2 = i2
  None = None
  Callers = {c1, c2}
  Records = {r1, r2}
  Keys = {k1, k2}
  Estates = {z, t}
  Items = {i1, i2}
  Targets <- MCTargets
  Calls = 2
  Crashes = 1
SYMMETRY Perms
INVARIANTS
  CreatedOnce
  DoneMeansMoved
PROPERTIES
  NoLostUpdate
CHECK_DEADLOCK FALSE
