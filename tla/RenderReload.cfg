CONSTANTS
    Threads = {t1}
    NoThread = NoThread
    MaxRequests = 2
    MaxReloads = 1
    MaxCrashes = 0
    MaxPanics = 0
SPECIFICATION Spec
INVARIANTS
    OutstandingIdsDistinct
CHECK_DEADLOCK FALSE
