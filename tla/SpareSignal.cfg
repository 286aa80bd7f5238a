CONSTANTS
    Calls = {c1}
    Openers = {o1}
    Pids = {p1,p2}
    NoPid = NoPid
SPECIFICATION Spec
INVARIANTS
    SignalsOwnChild
CHECK_DEADLOCK FALSE
