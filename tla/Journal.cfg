CONSTANTS
    f1 = f1
    f2 = f2
    Baseline = 2
    SnapshotEvery = 2
    MaxTextVersions = 2
    MaxChanges = 1
    Words = {w1,w2}
    Original = Original
    Picks <- TwoFiles
    Sweeps = {1}
    MaxEdits = 3
    RunPages = 2
    CopyChunk = 2
    MaxMatches = 6
    Pages = 3
    MaxScans = 2
    MaxReorders = 1
    MaxFailures = 1
SPECIFICATION MCSpec
INVARIANTS
    AllTypesOK
    NoReplayIsRefused
    SnapshotsServeReplay
    TextOrRedactions
    BodiesMatchJournal
    EditedImportIsPlacedOnce
    ListIsInReadingOrder
    MarksAreTheHits
PROPERTIES
    ImplementsUndoHistory
CHECK_DEADLOCK FALSE
