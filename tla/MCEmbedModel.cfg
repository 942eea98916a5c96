\* Two requests at a time on two sessions, lengths within a factor of two.
SPECIFICATION EmbedSpec
CONSTANTS
    Threads = {t1, t2}
    NumSlots = 2
    IdleSecs = 1
    MaxTime = 1
    Batches <- MCBatches
    MaxLen = 5
    RatioNum = 2
    RatioDen = 1
SYMMETRY Symmetry
INVARIANTS OneOwner BusyIffOwned EnoughSlots OwnRows FewestPasses
CHECK_DEADLOCK FALSE
