CONSTANTS
    Calls = {c1,c2}
    Files = {f1}
    NoFile = NoFile
    MaxHandles = 2
    MaxIds = 1
    MaxReloads = 0
SPECIFICATION Spec
INVARIANTS
    NoListOutlivesItsDocument
CHECK_DEADLOCK FALSE
