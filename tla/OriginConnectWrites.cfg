SPECIFICATION Spec
CONSTANTS
    u1 = u1
    u2 = u2
    p = p
    q = q
    x = x
    MaxSession = 2
    Paths = {p, q, x}
    Urls = {u1, u2}
    Requests = {r1, r2}
    Own = Own
    NoFact = NoFact
    NoUrl = NoUrl
    NoSession = NoSession
    Remote <- MCRemote
    Matched <- MCMatched
    Homes <- MCHomes
    Budget <- MCBudget
PROPERTIES
    SwapMergesLocal
CHECK_DEADLOCK FALSE
SYMMETRY Alike
