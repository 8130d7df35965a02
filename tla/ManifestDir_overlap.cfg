SPECIFICATION DirSpec
CONSTANTS
    Refreshers = {r1, r2, r3}
    MaxSeq = 3
    Garbled = Garbled
    NoFile = NoFile
INVARIANT DirTypeOK
PROPERTIES
    
    NeverGoesBack
