SPECIFICATION ExchangeSpec
CONSTANTS
    k1 = k1
    w1 = w1
    s1 = s1
    s2 = s2
    i1 = i1
    i2 = i2
    p1 = p1
    Callers = {k1}
    Workers = {w1}
    Streams = {s1, s2}
    Commitments = {i1, i2}
    Requests <- Attempts
    Configs <- Gifter
    Paths = {p1}
    DEFAULT_MAX_RATE = 2
    Faults = {"crash"}
SYMMETRY Symmetry
INVARIANTS
    ExchangeTypeOK
    GrantIsReal
    UnauthorisedIsFree
    NotSubmittedIsFinal
