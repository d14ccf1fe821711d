\* Two commands, one request for quotation, two offers.
SPECIFICATION Spec
CONSTANTS
  Commands = {c1, c2}
  Rfqs = {rfq1}
  Offers = {q1, q2}
  Keys = {k1, k2}
  None = None
  MaxLife = 1
  MaxNow = 1
  MaxEdits = 1
  MaxAborts = 1
INVARIANTS
  OffersStandWithTheirRequest
  OneCommandPerVersion
PROPERTIES
  CommitsUnderCurrentAuthority
  EveryCommandEnds
CHECK_DEADLOCK FALSE
