SPECIFICATION Spec
CONSTANTS
    k1 = k1  k2 = k2  c1 = c1  hook = hook
    Keys <- MCKeys
    Compactors <- MCNone
    Refreshers <- MCRefreshers
    Main = hook
    MaxSeq = 3
    MaxLog = 4
    MaxBatch = 2
    MaxWALRecords = 1
    ManualCompact = FALSE
    Garbled = Garbled
    NoFile = NoFile
PROPERTY
    DurableSpec
