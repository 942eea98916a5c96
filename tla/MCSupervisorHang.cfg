SPECIFICATION FairSpec
CONSTANTS
    Callers = {c1}
    PoolSize = 2
    MaxFails = 2
    InitialBackoff = 2
    MaxBackoff = 3
    MaxGen = 5
    SessionsWedge = TRUE
PROPERTIES EveryCallEnds
