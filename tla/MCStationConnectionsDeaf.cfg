SPECIFICATION Spec
CONSTANTS
    s1 = s1
    s2 = s2
    w1 = w1
    w2 = w2
    w3 = w3
    a1 = a1
    None = None
    Stations = {s1}
    Sockets = {w1, w2}
    Admins = {}
    StationOf <- MCStationOf
    MaxConnections = 0
INVARIANT
    OpenIsSubscribed
CHECK_DEADLOCK FALSE
