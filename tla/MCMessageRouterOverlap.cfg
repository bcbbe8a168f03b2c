SPECIFICATION Spec
CONSTANTS
    Calls = {c1, c2}
    AFRRSignals = {}
    StationCalls = {}
    Actions = {a1}
    MaxAnswers <- TwiceUnlessSignal
    MaxReceptions = 1
    MaxFaults = 0
    None = None
CHECK_DEADLOCK FALSE
INVARIANT
    OneCallInProgress
