SPECIFICATION Spec
CONSTANTS
    u1 = u1
    u2 = u2
    u3 = u3
    a = a
    b = b
    d = d
    url = url
    mirror = mirror
    base = base
    c1 = c1
    c2 = c2
    Uids = {u1, u2, u3}
    Names = {a, b, d}
    Origins = {url, mirror}
    Calls = {c1, c2}
    NoName = NoName
    NoOrigin = NoOrigin
    NoKb = NoKb
    NoFile = NoFile
    NoUid = NoUid
    KbOf <- MCKbOf
    Mounts <- MCMounts
    Homes <- MCHomes
    Budget <- MCBudget
SYMMETRY CallsAlike
INVARIANTS
    TypeOK
    MapFollowsRegistry
    FilesAreKept
    OneLiveCopy
    LensMembersActive
    NamesAreDisjoint
CHECK_DEADLOCK FALSE
