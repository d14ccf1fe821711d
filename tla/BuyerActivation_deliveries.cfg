\* Two handlers, two events delivered again and again, an operator, two failing calls and one
\* failing compensation.
CONSTANTS
    approval = approval
    renewal = renewal
    partner = partner
    successor = successor
    h1 = h1
    h2 = h2
    s1 = s1
    ErpEvents = {approval, renewal}
    Approved = {approval, renewal}
    PartnerOf <- MCPartnerOf
    Handlers = {h1, h2}
    Staff = {s1}
    NoPartner = NoPartner
    MaxFailures = 2
    MaxSwallowed = 1
SPECIFICATION Spec
INVARIANTS
    ActiveHasEvidence
    AnnouncedStands
    AllOrNothing
PROPERTIES
    EventuallyProcessed
CHECK_DEADLOCK FALSE
