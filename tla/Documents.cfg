CONSTANTS
    Calls = {c1,c2}
    Files = {f1}
    NoFile = NoFile
    MaxHandles = 3
    MaxIds = 2
    MaxReloads = 1
    MaxForeign = 3
    Docs = {a,b,c}
    NoDoc = NoDoc
    MaxEdits = 2
    MaxRequests = 3
SPECIFICATION MCSpec
SYMMETRY CallSymmetry
INVARIANTS
    AllTypesOK
    PoolsAreOwned
    OwnedIsNotClosed
    OldOrNew
    SavedIsWhatWasOpened
    HonestEnding
    SaveTakesEveryEdit
    WindowShowsTheModel
    NothingIsStuck
PROPERTIES
    NothingIsClosedUnasked
CHECK_DEADLOCK FALSE
