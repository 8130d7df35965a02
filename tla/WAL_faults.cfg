SPECIFICATION Spec
CONSTANTS
    MaxSeq = 3
    MaxRecords = 5
    MaxBatch = 2
    WALSizes = {1, 2}
    SyncMode = "periodic"
    Faults = {"write", "sync", "close", "open", "power"}
    Torn = Torn
CHECK_DEADLOCK FALSE
INVARIANTS
    TypeOK
    Explained
    SegmentBounded
PROPERTY
    SyncedStays
