CONSTANTS
    Threads = {t1,t2,t3}
    Pids = {p1,p2,p3}
    NoPid = NoPid
    Capacity = 2
    KeptWarm = 1
    Encrypted = FALSE
    Reissue = FALSE
    MaxDocs = 1
    MaxJobs = 4
    MaxCrashes = 1
    MaxTruncated = 0
SPECIFICATION Spec
SYMMETRY Symmetry
INVARIANTS
    TypeOK
    PoolAccounting
    CloseWaitsForPool
    KilledStaysOut
    SendersAreMembers
    EntriesAreCalls
CHECK_DEADLOCK FALSE
