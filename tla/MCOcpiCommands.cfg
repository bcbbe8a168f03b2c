SPECIFICATION FairSpec
CONSTANTS
    c1 = c1
    c2 = c2
    k1 = k1
    k2 = k2
    Commands = {c1, c2}
    Callbacks = {k1, k2}
    CommandOf <- MCCommandOf
INVARIANTS
    TypeOK
    TimeoutIsFirst
    LateCallbackHasNoUrl
PROPERTY
    AcceptedGetsResult
CHECK_DEADLOCK FALSE
