\* One dispatcher that contends with the probe for the only permit.
SPECIFICATION FairSpec
CONSTANTS
    Callers = {c1}
    PoolSize = 1
    MaxFails = 2
    InitialBackoff = 2
    MaxBackoff = 3
    MaxGen = 5
    SessionsWedge = TRUE
INVARIANTS TypeOK PublishedIsCurrent
PROPERTIES KillsOnlyPublished SickWorkerEnds ServiceResumes EveryCallEnds
