CONSTANTS
    Threads = {t1,t2}
    Pids = {p1,p2,p3}
    NoPid = NoPid
    Capacity = 1
    KeptWarm = 1
    Encrypted = FALSE
    Reissue = TRUE
    MaxDocs = 1
    MaxJobs = 2
    MaxCrashes = 0
    MaxTruncated = 0
SPECIFICATION Spec
INVARIANTS
    SweepSparesTheNewPage
CHECK_DEADLOCK FALSE
