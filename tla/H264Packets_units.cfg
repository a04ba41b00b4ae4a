SPECIFICATION UnitsSpec
CONSTANTS
    Chunk = 2
    MaxLength = 6
    Period = 2
    MaxPause = 2
    Nothing = Nothing
INVARIANTS
    UnitsGoOutWhole
PROPERTIES
    NothingMixed
