SPECIFICATION Spec
CONSTANTS
    MaxStarts = 2
    MaxStops = 1
    BufferCount = 2
    Interval = 1
    MaxDuration = 1
INVARIANT StreamsStayApart
INVARIANT OneBufferLost
INVARIANT ReportsApart
PROPERTY StoppedEnds
CHECK_DEADLOCK FALSE
