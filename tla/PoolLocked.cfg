CONSTANTS
    Threads = {t1,t2}
    Pids = {p1,p2,p3}
    NoPid = NoPid
    Capacity = 2
    KeptWarm = 1
    Encrypted = TRUE
    Reissue = TRUE
    MaxDocs = 2
    MaxJobs = 3
    MaxCrashes = 1
    MaxTruncated = 1
SPECIFICATION Spec
SYMMETRY Symmetry
INVARIANTS
    EveryProcessHasOneOwner
PROPERTIES
    OutlivedStartsNothing
CHECK_DEADLOCK FALSE
