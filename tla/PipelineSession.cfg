SPECIFICATION Spec
CONSTANTS
    c1 = c1
    c2 = c2
    Callers = {c1, c2}
    Plans <- MCOnePlan
    MaxSessions = 2
    MaxItems = 4
    MaxDepth = 1
    MaxHead = 2
    Faults = 1
CHECK_DEADLOCK FALSE
INVARIANTS
    TypeOK
    AnswersTakeEffectOnce
    ReflectOnce
    AloneAllAnsweredWhenDone
    
PROPERTIES
    QueueSpec
