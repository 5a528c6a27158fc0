SPECIFICATION FairSpec
CONSTANTS
    p1 = p1
    p2 = p2
    b1 = b1
    b2 = b2
    Paths <- MCPaths
    Blobs <- MCBlobs
    Absent = Absent
    NoWrite = NoWrite
    Starts = {"cloned", "emptyOrigin"}
    Roots <- MCRoots
    Changes <- MCChanges
    Budget <- LivenessBudget
    Left <- AnyLeft
PROPERTIES
    AgentReachesOrigin
    MainReachesAgent
