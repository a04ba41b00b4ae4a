SPECIFICATION Spec
CONSTANTS
    Conns = {c1, c2}
    NoConn = NoConn
    NumFiles = 2
    NumCams = 3
    MaxQueue = 2
    MaxPhotos = 2
    MaxCreate = 2
SYMMETRY Symmetry
INVARIANTS
    TypeOK
    LengthsAreSafe
    NoRequestLost
    NumberIsSelected
CHECK_DEADLOCK FALSE
