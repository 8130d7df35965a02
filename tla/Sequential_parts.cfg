SPECIFICATION PartsSpec
CONSTANTS
    Runes = {a, b}
    NameRunes = {a, b, star}
    Star = star
    AnyRune = any
    MaxPattern = 4
    MaxName = 5
    Capacity = 4
    Durations = {1, 2, 3}
    MaxAdds = 6
CHECK_DEADLOCK FALSE
INVARIANTS
    AnswerRight
    PercentilesRight
PROPERTY
    MatchReturns
