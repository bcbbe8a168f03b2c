SPECIFICATION CallSpec
CONSTANTS
    Calls = {c1, c2}
    AFRRSignals = {c2}
    StationCalls = {m1}
    Actions = {a1}
    MaxAnswers <- TwiceUnlessSignal
    MaxReceptions = 1
    MaxFaults = 1
    None = None
CHECK_DEADLOCK FALSE
INVARIANTS
    TypeOK
    
PROPERTIES
    ImplementsContract
    QueuedCallLeavesQueue
