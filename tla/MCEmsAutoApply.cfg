SPECIFICATION FairSpec
CONSTANTS
    m1 = m1
    Intents = {1, 2}
    LimitOf <- MCLimitOf
    Stations = {1, 2}
    Manuals = {m1}
    ClearsFirst = "yes"
    MaxEdits = 2
INVARIANTS
    TypeOK
    InFlightIsOwned
    
PROPERTY
    StoredIsConsidered
CHECK_DEADLOCK FALSE
