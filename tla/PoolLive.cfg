CONSTANTS
    Threads = {t1,t2}
    Pids = {p1,p2,p3}
    NoPid = NoPid
    Capacity = 1
    KeptWarm = 0
    Encrypted = FALSE
    Reissue = FALSE
    MaxDocs = 1
    MaxJobs = 3
    MaxCrashes = 1
    MaxTruncated = 0
SPECIFICATION FairSpec
PROPERTIES
    EveryJobAnswered
CHECK_DEADLOCK FALSE
