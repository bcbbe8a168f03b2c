SPECIFICATION SubscriptionsSpec
CONSTANTS
    s1 = s1
    s2 = s2
    b1 = b1
    b3 = b3
    u1 = u1
    Stations = {s1, s2}
    Subs = {b1, b3}
    Unsubs = {u1}
    NoSub = NoSub
    StationOf <- MCStationOf
    Callers <- MCCallers
    MaxLosses = 1
    MaxChannelErrors = 1
INVARIANTS
    SubscriptionsTypeOK
    MapIsLive
    ConsumersKnown
    NothingForgotten
CHECK_DEADLOCK FALSE
