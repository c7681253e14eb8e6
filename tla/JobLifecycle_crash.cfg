SPECIFICATION Spec
CONSTANTS
    PlaybookJobs = {p1}
    TestJobs = {t1}
    Servers = {s1}
    Workers = {w1, w2}
    Nobody = Nobody
    Faults = {"web_dies", "worker_lost"}
    MaxFaults = 1
CHECK_DEADLOCK FALSE
SYMMETRY WorkerSymmetry
INVARIANTS
    OneRunAtATime
    RerunOnlyAfterLoss
    NotSilentlyLost
    StatusIsExplained
PROPERTIES
    HistoryIsKept
