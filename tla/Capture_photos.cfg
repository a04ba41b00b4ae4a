SPECIFICATION Spec
CONSTANTS
    NUM = 2
    BUFFER_COUNT = 2
    MaxFd = 4
    MaxForeign = 1
    MaxFrames = 4
    MaxBlocks = 4
INVARIANTS
    TypeOK
    WorksOnItsOwn
PROPERTIES
    GoodPhotoKeepsNothing
