SPECIFICATION FairSpec
CONSTANTS
    t0 = t0
    t1 = t1
    t2 = t2
    c1 = c1
    c2 = c2
    c3 = c3
    lez = lez
    verifier = verifier
    Owner = t0
    Helpers = {t1, t2}
    Targets = {lez, verifier}
    Calls = {c1, c2, c3}
INVARIANTS
    BoxFreedOnce
    NoBoxForgotten
    OwnerNeverWaits
PROPERTIES
    WorkerCallReturns
