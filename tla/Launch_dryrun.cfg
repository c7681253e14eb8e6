SPECIFICATION Spec
CONSTANTS
    Servers = {s1, s2}
    Environments = {e1}
    Credentials = {k1, k2, p1}
    PrivateKeys = {k1, k2}
    Jobs = {j1}
    None = None
    MaxEdits = 0
CHECK_DEADLOCK FALSE
INVARIANTS
    RequiredDryRunIsForced
