SPECIFICATION Spec
CONSTANTS
    PlaybookJobs = {p1}
    TestJobs = {}
    Servers = {s1}
    Workers = {w1, w2}
    Nobody = Nobody
    Faults = {"web_dies", "worker_lost", "soft_limit", "hard_limit", "redelivery", "disk_error", "broker_loss"}
    MaxFaults = 2
CHECK_DEADLOCK FALSE
SYMMETRY WorkerSymmetry
INVARIANTS
    TypeOK
    LaunchOnRecord
    RunLeavesRecord
    OrphansAreExplained
    LeftoversAreExplained
