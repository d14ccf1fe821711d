\* Two attempts of a composed commit and one of the plain commit under one key,
\* with an unrelated command beside them.
CONSTANTS
    t1 = t1
    t2 = t2
    t3 = t3
    t4 = t4
    k1 = k1
    k2 = k2
    plain = plain
    composed = composed
    other = other
    Attempts = {t1, t2, t3, t4}
    Keys = {k1, k2}
    Requests = {plain, composed, other}
    RequestOf <- MCRetryComposed
    KeyOf <- MCKeyOf
    Composed = {composed}
    NoRequest = NoRequest
    Nobody = Nobody
SPECIFICATION CommandSpec
INVARIANTS
    SuccessIsTrue
PROPERTIES
    AttemptsEnd
    KeepsPromise
\* Attempts are finite: once every one has ended nothing is left to do.
CHECK_DEADLOCK FALSE
