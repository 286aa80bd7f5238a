CONSTANTS
    Threads = {t1}
    NoThread = NoThread
    MaxRequests = 2
    MaxReloads = 1
    MaxCrashes = 1
    MaxPanics = 0
SPECIFICATION FairSpec
PROPERTIES
    EveryTileAnswered
CHECK_DEADLOCK FALSE
