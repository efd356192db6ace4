CONSTANTS
    MaxCalls = 2
    MaxTools = 0
CHECK_DEADLOCK FALSE
SPECIFICATION Spec
INVARIANT
    OneActiveTurn
