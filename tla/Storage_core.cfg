SPECIFICATION Spec
CONSTANTS
    k1 = k1  k2 = k2  c1 = c1  hook = hook
    Keys <- MCKeys
    Compactors <- MCCompactors
    Refreshers <- MCRefreshers
    Main = hook
    MaxSeq = 2
    MaxLog = 2
    MaxBatch = 2
    MaxWALRecords = 1
    ManualCompact = TRUE
    Garbled = Garbled
    NoFile = NoFile
SYMMETRY Symmetry
INVARIANTS
    TypeOK
    Inductive
    LossConfined
PROPERTY
    DeletionCovered
