SPECIFICATION Spec
CONSTANTS
    a = a
    b = b
    m = m
    n = n
    unknown = unknown
    Requests = {r1, r2}
    Names = {m, n, unknown}
    Models = {m, n}
    Texts = {a, b}
    Bodies <- MCBodies
    NoVector = NoVector
    MaxInput = 3
    MaxEntries = 1
INVARIANTS CacheSound OwnVectors
CHECK_DEADLOCK FALSE
