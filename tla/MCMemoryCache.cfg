SPECIFICATION Spec
CONSTANTS
    Keys = {k1, k2}
    Values = {v1, v2}
    TimerIds = {t1, t2, t3, t4, t5}
    Waiters = {w1, w2}
    None = None
SYMMETRY Symmetry
INVARIANTS
    TypeOK
    TimerSparesNewValues
    ExpiryFollowsLastWriter
    FirstSetWakesWaiter
