SPECIFICATION Spec
CONSTANTS
    Servers = {s1, s2}
    Environments = {e1}
    Credentials = {k1, k2, p1}
    PrivateKeys = {k1, k2}
    Jobs = {j1}
    None = None
    MaxEdits = 2
CHECK_DEADLOCK FALSE
SYMMETRY FleetSymmetry
INVARIANTS
    TypeOK
    DryRunsStayDry
    TargetsWereAsked
    ChosenCredentialIsUsed
    SecretsGoToTheirServers
