SPECIFICATION FairSpec
CONSTANTS
    Callers = {u1, u2}
    MaxLosses = 2
INVARIANTS
    TypeOK
    NeverTwoConnections
    ReconnectIsUnderWay
PROPERTY
    WaiterGetsConnection
CHECK_DEADLOCK FALSE
