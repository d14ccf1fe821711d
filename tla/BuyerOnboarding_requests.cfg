\* Two applications of one customer with a document each, four staff requests, one failing
\* call, one failing compensation, one death half way.
CONSTANTS
    a1 = a1
    a2 = a2
    d1 = d1
    d2 = d2
    q1 = q1
    q2 = q2
    q3 = q3
    q4 = q4
    registration = registration
    Applications = {a1, a2}
    Registered = {a2}
    Evidence = {d1, d2}
    ApplicationOf <- MCApplicationOf
    TypeOf <- MCTypeOf
    Required = {registration}
    Requests = {q1, q2, q3, q4}
    MaxFaults = 1
    MaxSwallowed = 1
    MaxDeaths = 1
SPECIFICATION Spec
SYMMETRY Interchangeable
INVARIANTS
    AllOrNothing
    FinalIsBacked
    PackageHolds
PROPERTIES
    OnlyAStaleReviewReopens
CHECK_DEADLOCK FALSE
