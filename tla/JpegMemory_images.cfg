SPECIFICATION Spec
CONSTANTS
    MaxChunks = 4
    AlignSize = 2
    Header = 2
    Pads = {1}
    Manager = 1
    Control = 2
    FirstSlop <- MCFirstSlop
    ExtraSlop <- MCExtraSlop
    MinSlop = 1
    MaxAllocChunk = 12
    Block = 10
    Sizes = {1}
    Widths = {1}
    Heights = {3}
    MaxAccess = 2
    MaxFrees = 1
INVARIANT ObjectsApart
INVARIANT ChunksAreAccounted
INVARIANT RowsInPlace
INVARIANT ReadsBack
