SPECIFICATION Spec
CONSTANTS
    p1 = p1
    p2 = p2
    b1 = b1
    b2 = b2
    Paths <- MCPaths
    Blobs <- MCBlobs
    Absent = Absent
    NoWrite = NoWrite
    Starts = {"cloned"}
    Roots <- MCRoots
    Changes <- MCChanges
    Budget <- MergeBudget
    Left <- AnyLeft
PROPERTIES
    UntouchedPathsAreKept
