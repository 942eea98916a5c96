SPECIFICATION Spec
CONSTANTS
    Threads = {t1, t2}
    NumSlots = 1
    IdleSecs = 1
    MaxTime = 1
SYMMETRY Symmetry
INVARIANTS NoPanic
CHECK_DEADLOCK FALSE
