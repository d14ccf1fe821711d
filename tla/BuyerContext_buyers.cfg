\* Two invites of one address with resends, acceptances and a revocation; and one
\* buyer resolved while the membership is accepted, revoked and edited.
SPECIFICATION ContextSpec
CONSTANTS
  r1 = r1
  r2 = r2
  r3 = r3
  r4 = r4
  Requests = {r1, r2, r3, r4}
  Histories <- BothHistories
  Customers = {ann}
  Roles = {buyer, admin}
  InviteRoles = {buyer}
  Keys = {k1, k2}
  None = None
  Resolutions = {x}
  Lifetime = 2
  MaxNow = 2
SYMMETRY Symmetry
INVARIANTS
  OneSeatEach
  OneMailPerKey
  IssuedFromOneMoment
  RevisionsVouch
PROPERTIES
  OnlyAnOvertakenAcceptReinstates
  NeverOutlivesItsEvidence
CHECK_DEADLOCK FALSE
