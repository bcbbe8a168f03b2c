SPECIFICATION FairSpec
CONSTANTS
    NumMessages = 4
    Stations = {s1}
    MaxConnections = 2
    MaxOutages = 2
INVARIANTS
    TypeOK
    Conservation
    ReplayInOrder
    NothingStranded
PROPERTIES
    FailedReplayCostsOne
    SwallowedCallEndsConnection
CHECK_DEADLOCK FALSE
