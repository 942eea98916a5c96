SPECIFICATION ReadySpec
CONSTANTS
    c1 = c1
    p1 = p1
    p2 = p2
    old = old
    new = new
    Clients = {old, new}
    ClientOf <- MCClientOf
    Calls = {c1, p1, p2}
    Probes = {p1, p2}
    PoolSize = 1
    PerModel = 0
    Global = 1
    Unset = Unset
INVARIANTS WaitersExact PermitsConserved ReadyMeansServed
PROPERTIES OverflowNeedsOthers EveryCallAnswered ProbeEnds
CHECK_DEADLOCK FALSE
