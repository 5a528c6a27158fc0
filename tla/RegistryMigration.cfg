SPECIFICATION Spec
CONSTANTS
    a = a
    b = b
    c = c
    d = d
    na = na
    nb = nb
    nc = nc
    nd = nd
    lens = lens
    k1 = k1
    k2 = k2
    Repos <- MCRepos
    Archived = {b}
    Fresh = {c}
    Apart = {d}
    Names = {na, nb, nc, nd}
    Uids <- MCUids
    Name <- MCName
    ArchiveId <- MCArchiveId
    Root <- MCRoot
    HasOrigin = {a, b, c}
    Lenses <- MCLenses
    NoWal = NoWal
    NoRepo = NoRepo
    Budget <- MCBudget
INVARIANTS
    TypeOK
    OriginKept
    
    
CHECK_DEADLOCK FALSE
