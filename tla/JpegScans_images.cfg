SPECIFICATION Spec
CONSTANTS
    Pseudo = 16
    MaxCLen = 20
    Limit = 5
    Big = 100000
    LastCoef = 6
    Nibble = 4
    MaxBits = 3
    MaxCorr = 10
    Longest16 = 5
    Lookahead = 2
    MinGet = 25
    BufSize = 8
    Pieces = {1, 5}
    FirstBand = 2
    Jobs <- MCJobs
    Counts <- MCCounts
INVARIANT TablesAreRight
INVARIANT ScansAreRight
