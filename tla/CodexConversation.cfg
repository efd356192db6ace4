CONSTANTS
    MaxCalls = 2
    MaxTools = 1
CHECK_DEADLOCK FALSE
SPECIFICATION FairSpec
INVARIANTS
    TypeOK
    OneEnd
    Attended
PROPERTY
    TurnsEnd
