SPECIFICATION Spec
CONSTANTS
    h1 = h1
    k1 = k1
    Hosts = {h1, h2}
    Keys = {k1, k2}
    Unreadable = {k2}
    Requests = {r1, r2}
    NoHost = NoHost
    ByHand <- TextFiles
CHECK_DEADLOCK FALSE
SYMMETRY RequestSymmetry
INVARIANTS
    KeysWereShown
    FileIsAsDecided
    TrustIsRecorded
