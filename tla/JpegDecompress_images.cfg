SPECIFICATION MCSpec
CONSTANTS
    D = 4
    Configs <- MCConfigs
    MaxLines = 3
    Loads = {1, 4}
    SampleBits = 4
    HistBits <- MCHistBits
    BoxLogs <- MCBoxLogs
    HistMax = 3
    DitherLog = 1
    Clients <- MCClients
    Strip = 2
    NoMap = NoMap
INVARIANT LinesAreImage
INVARIANT SavedIsWhole
INVARIANT RowsAreNearest
INVARIANT PalettesAreRight
PROPERTY Ends
CHECK_DEADLOCK FALSE
