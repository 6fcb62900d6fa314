SPECIFICATION FairSpec
CONSTANTS
    k1 = k1
    k2 = k2
    w1 = w1
    w2 = w2
    s1 = s1
    s2 = s2
    s3 = s3
    i1 = i1
    i2 = i2
    p1 = p1
    Callers = {k1}
    Workers = {w1}
    Streams = {s1, s2}
    Commitments = {i1, i2}
    Requests <- Twice
    Configs <- BothTypes
    Paths = {p1}
    DEFAULT_MAX_RATE = 2
    Faults = {"lost_reply", "torn_write"}
PROPERTIES
    EveryStreamLeaves
    RejectedIsReleased
