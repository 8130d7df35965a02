SPECIFICATION Spec
CONSTANTS
    k1 = k1  k2 = k2  c1 = c1  hook = hook
    Keys <- MCOneKey
    Compactors <- MCCompactors
    Refreshers <- MCRefreshers
    Main = hook
    MaxSeq = 1
    MaxLog = 1
    MaxBatch = 1
    MaxWALRecords = 1
    ManualCompact = TRUE
    Garbled = Garbled
    NoFile = NoFile
INVARIANT NoAckedWriteLost
