SPECIFICATION FairSpec
CONSTANTS
    PlaybookJobs = {p1}
    TestJobs = {}
    Servers = {s1}
    Workers = {w1, w2}
    Nobody = Nobody
    Faults = {"worker_lost", "redelivery"}
    MaxFaults = 1
CHECK_DEADLOCK FALSE
PROPERTIES
    EventuallySettled
    WorkersComeBack
