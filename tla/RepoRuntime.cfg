SPECIFICATION FairSpec
CONSTANTS
    u1 = u1
    a1 = a1
    s1 = s1
    k1 = k1
    r1 = r1
    r2 = r2
    Users = {u1}
    Activators = {a1}
    Swappers = {s1}
    Closers = {k1}
    Roots = {r1, r2}
    NoRoot = NoRoot
    MaxGen = 2
    MaxCtx = 2
CHECK_DEADLOCK FALSE
INVARIANTS
    TypeOK
    AcquiredStaysOpen
    BackgroundKeepsStore
    NothingIsLeftBehind
PROPERTIES
    DetachersEnd
