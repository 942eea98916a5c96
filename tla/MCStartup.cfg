SPECIFICATION Spec
CONSTANTS
    Unset = Unset  Empty = Empty  Garbage = Garbage  MaxWord = MaxWord
    TrueWord = TrueWord  FalseWord = FalseWord  Global = Global  Blank = Blank
    Path = Path  None = None  Err = Err
    m1 = m1  m2 = m2  m3 = m3  r1 = r1  s1 = s1  d1 = d1  d2 = d2  c1 = c1  c2 = c2
    U16 = 65535  Usize = 1000000
    EnvKey <- MCEnvKey
    ArenaDefaults <- MCArenaDefaults
    Environments <- MCEnvironments
    MaxWorkers = 2
    Files <- MCFiles
    MissingFiles <- MCMissing
    Replaced <- MCReplaced
    MaxVersion = 2
    MtimeOf <- MCMtimeOf
    WithSidecar = {}
    UsableDirs = {c1}
    DefaultRatio = 2
INVARIANT ServesItsModels
INVARIANT FreshGraph
INVARIANT SameOptionsEitherMode
 
