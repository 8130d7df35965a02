SPECIFICATION Spec
CONSTANTS
    Keys = {1, 2}
    Lengths = {0, 1}
    Readers = {r1, r2}
    Writer = writer
    Cleaner = cleaner
    Limits = {0, 1}
    MaxTime = 2
    None = None
SYMMETRY Symmetry
INVARIANTS
    TypeOK
    SizeExact
    AnswersAgree
PROPERTY
    VanishAtDeadline
