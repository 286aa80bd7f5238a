CONSTANTS
    Calls = {c1,c2}
    Openers = {o1,o2}
    Pids = {p1,p2,p3}
    NoPid = NoPid
SPECIFICATION FairSpec
INVARIANTS
    TypeOK
    OneClaim
    SparesHaveOneOwner
PROPERTIES
    ClaimComesBack
    NoWaiterLeaked
CHECK_DEADLOCK FALSE
