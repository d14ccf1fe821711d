CONSTANTS
    p1 = p1
    p2 = p2
    p3 = p3
    k1 = k1
    k2 = k2
    People = {p1, p2, p3}
    Checkouts = {k1, k2}
    Coordinates = {"here", "there"}
    Nobody = Nobody
    MaxReceipts = 2
    MaxCommands = 2
SPECIFICATION Spec
SYMMETRY Interchangeable
INVARIANTS
    ThreeHands
    OneAuthorizationEach
PROPERTIES
    CompletesUnderItsBinding
