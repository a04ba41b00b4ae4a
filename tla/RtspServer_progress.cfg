SPECIFICATION FairSpec
CONSTANTS
    Sessions = {s1, s2}
    NoSession = NoSession
    Clients = {c1}
    NoThread = NoThread
    UI = UI
    Offers = {{"audio"}, {"video"}}
    Qualities = {q}
    MaxPermits = 1
PROPERTIES
    EveryCallEnds
    StopStopsUnlessItThrows
