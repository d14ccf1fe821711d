\* Reservations of one member under a monthly and an agreement budget that each has
\* room for one of them: two purchases, or versions of one, with a third reservation
\* that may resubmit either of the first two, in up to three versions; a month boundary, one policy revision,
\* a transaction clock that may be one instant late.
CONSTANTS
    pm = pm
    pn = pn
    pa = pa
    m1 = m1
    a1 = a1
    Policies = {pm, pa}
    Reservations = {r1, r2, r3}
    Members = {m1}
    Purchases = {u1, u2}
    Agreements = {a1}
    NoAgreement = NoAgreement
    NoReservation = NoReservation
    Scope <- MCScope
    Binding <- MCBinding
    Amounts = {2}
    Limits = {3}
    Windows <- AlwaysInEffect
    Zones = {0}
    MonthStart <- MCMonthStart
    MonthLength = 2
    MaxClock = 3
    MaxDelay = 1
    MaxHold = 2
    HoldLengths = {2}
    MaxRevision = 2
    MaxHoldRevision = 2
    MaxVersion = 3
SPECIFICATION Spec
CONSTRAINT Bounded
SYMMETRY Interchangeable
INVARIANTS
    CapacityHonoured
    HoldsMatchStatus
    BalanceIsSumOfHolds
    ChainIsLinear
PROPERTIES
    TakenHoldsAreUsable
\* The clock, the revisions and the reservation ids are bounded, so a run ends.
CHECK_DEADLOCK FALSE
