SPECIFICATION FairSpec
CONSTANTS
    Boots = {b1, b2}
    Configs <- MCConfigs
    MaxMessages = 2
    MaxParts = 1
    MaxEdits = 1
INVARIANTS
    TypeOK
    ReportIsFresh
    AnswerNotMissed
PROPERTY
    HandlerEnds
CHECK_DEADLOCK FALSE
