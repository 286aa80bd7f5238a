CONSTANTS
    Threads = {t1,t2}
    NoThread = NoThread
    MaxRequests = 2
    MaxReloads = 0
    MaxCrashes = 1
    MaxPanics = 2
SPECIFICATION Spec
SYMMETRY ThreadSymmetry
INVARIANTS
    TypeOK
    TableMatchesWork
    WorkerTableMatchesWork
    WithdrawalIsOnRecord
    AnsweredLeavesNoTrace
PROPERTIES
    ImplementsLifecycle
CHECK_DEADLOCK FALSE
