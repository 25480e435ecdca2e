SPECIFICATION ProgramSpec
CONSTANTS
    log = log
    series = series
    c1 = c1
    c2 = c2
    Tables = {log, series}
    Cursors = {c1, c2}
    Module <- MCModule
    Kinds = {"provider", "bridge", "mutating"}
    StoredRows <- MCStoredRows
    BATCH_SIZE = 2
    MaxStores = 3
    MaxInstances = 2
    MaxCursors = 2
    MaxUpdates = 1
    MaxFaults = 1
INVARIANTS TablesInStep
PROPERTIES ScanRefines CommitIsSynced ScanEnds
CHECK_DEADLOCK FALSE
