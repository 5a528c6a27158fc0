SPECIFICATION Spec
CONSTANTS
    agent = agent
    upstream = upstream
    p1 = p1
    p2 = p2
    b1 = b1
    b2 = b2
    m1 = m1
    m2 = m2
    NoModel = NoModel
    Absent = Absent
    Order <- MCOrder
    Paths = {p1}
    Blobs = {b1, b2}
    Tagged = {b1}
    Models = {m1, m2}
    Dim <- Narrow
    Starts = {"fresh", "indexed"}
    Budget <- SafetyBudget
CHECK_DEADLOCK FALSE
CONSTRAINT
    FewEvents
INVARIANTS
    TypeOK
    AtWatermarkIsCoherent
    RowsAreKept
    HalfRebuiltIsRetried
    
    
