SPECIFICATION Spec
CONSTANTS
    Keys = {k1, k2}
    Objects = {b1}
    Direct = direct
    NoKey = nokey
    LongKey = longkey
    HugeValue = huge
    None = None
    MaxBatchSize = 3
    MaxCalls = 2
    MaxLog = 4
    MaxTries = 3
    MaxOpens = 2
SYMMETRY Symmetry
CHECK_DEADLOCK FALSE
INVARIANTS
    TypeOK
    InLog
    IndexExplained
    WrittenOnce
