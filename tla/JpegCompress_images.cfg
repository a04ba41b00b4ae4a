SPECIFICATION MCSpec
CONSTANTS
    D = 2
    Configs <- MCConfigs
    MaxLines = 3
    Size = 4
    BlockSize = 8
    Lengths = 4
    NumTbls = 4
    NumArithTbls = 16
    BasicTables <- MCBasicTables
    StdHuff <- MCStdHuff
    NaturalOrder <- MCNaturalOrder
    Jobs <- MCJobs
    Pieces = {1, 2, 6, 40, 200}
INVARIANT StreamIsImage
INVARIANT DecoderIsTold
INVARIANT HeadersAreRead
PROPERTY Ends
CHECK_DEADLOCK FALSE
