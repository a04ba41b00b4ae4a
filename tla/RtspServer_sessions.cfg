SPECIFICATION Spec
CONSTANTS
    Sessions = {s1, s2}
    NoSession = NoSession
    Clients = {c1, c2}
    NoThread = NoThread
    UI = UI
    Offers = {{"audio", "video"}}
    Qualities = {q}
    MaxPermits = 1
INVARIANTS
    TypeOK
    StreamsAreSafe
PROPERTIES
    SessionsAreKept
SYMMETRY Symmetry
