SPECIFICATION Spec
CONSTANTS
    s1 = s1
    s2 = s2
    w1 = w1
    w2 = w2
    w3 = w3
    a1 = a1
    None = None
    Stations = {s1, s2}
    Sockets = {w1, w2, w3}
    Admins = {a1}
    StationOf <- MCStationOf
    MaxConnections = 2
INVARIANTS
    TypeOK
    TenantCountExact
    OpenIsReachable
    OneOwner
    OnlineIsOwned
CHECK_DEADLOCK FALSE
SYMMETRY Alike
