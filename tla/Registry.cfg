SPECIFICATION Spec
CONSTANTS
    Servers = {s1}
    Environments = {e1}
    Clients = {}
    Credentials = {c1}
    Groups = {g1}
    Status = {"UNKNOWN", "ONLINE"}
    Unknown = "UNKNOWN"
    Requests = {r1, r2}
    NoRow = NoRow
CHECK_DEADLOCK FALSE
SYMMETRY RequestSymmetry
INVARIANTS
    ReferencesResolve
    EveryWriteIsRecorded
    RowsAreAsDecided
