SPECIFICATION Spec
CONSTANTS
    Keys = {k1}
    MaxInt = 7
    Values = {7, Text}
    Text = Text
    Deltas = {1}
    TTLs = {1, 2, 7}
    MaxTime = 3
    MaxLog = 3
    MaxSeq = 2
    None = None
INVARIANTS
    TypeOK
    Kept
    KeptAcrossRestarts
