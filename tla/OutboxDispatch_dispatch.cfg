\* Two dispatchers whose calls may outlast the lease they take, an event that is retried
\* with backoff, one call that dies half way.
CONSTANTS
    e1 = e1
    e2 = e2
    d1 = d1
    d2 = d2
    Events = {e1}
    Dispatchers = {d1, d2}
    Limit = 1
    MaxAttempts = 3
    InitialDelay = 1
    MaxDelay = 2
    Lease = 2
    MaxAge = 3
    MaxFaults = 1
SPECIFICATION OutboxSpec
INVARIANTS
    LeaseExcludes
    NeverGivenUpEarly
PROPERTIES
    EverySettles
CHECK_DEADLOCK FALSE
