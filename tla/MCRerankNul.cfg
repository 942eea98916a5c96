SPECIFICATION Spec
CONSTANTS
    a = a
    b = b
    m = m
    n = n
    NUL = NUL
    None = None
    Requests = {r1, r2}
    Names = {m, n}
    Chars = {a, b, NUL}
    Bodies <- MCBodies
    Logit <- MCLogit
    Caps = {1, 2}
    MaxDocs = 3
    MaxEntries = 2
    Clamp = 2
INVARIANTS TokenCacheSound
CHECK_DEADLOCK FALSE
