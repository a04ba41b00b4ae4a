SPECIFICATION StreamingSpec
CONSTANTS
    BufferCount = 4
    SeqMod = 5
    MaxLosses = 2
INVARIANTS
    TypeOK
    RingIsRight
PROPERTIES
    ImplementsFifo
    StreamedIsSent
    RequestReturnsUnlessStuck
