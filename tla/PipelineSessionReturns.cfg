SPECIFICATION FairSpec
CONSTANTS
    c1 = c1
    c2 = c2
    Callers = {c1, c2}
    Plans <- MCPlans
    MaxSessions = 1
    MaxItems = 4
    MaxDepth = 1
    MaxHead = 2
    Faults = 1
CHECK_DEADLOCK FALSE
PROPERTIES
    CallsReturn
