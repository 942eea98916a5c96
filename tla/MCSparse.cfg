SPECIFICATION SparseSpec
CONSTANTS
    h1 = h1  h2 = h2  k1 = k1  s1 = s1  r1 = r1  r2 = r2  t1 = t1  t2 = t2
    Callers = {h1, h2, k1}
    SparseCallers = {h1, h2}
    RerankCallers = {k1}
    Threads = {1, 2}  NoThread = 0
    Pools <- MCPools
    PoolSize <- MCPoolSize
    Rerankers = {r1, r2}
    Jobs <- MCJobs
    CursorSize <- MCPoolSize
    NoCaller = NoCaller  NoSession = NoSession  NoJob = NoJob
    Bodies <- MCBodies
    Splades = {s1}
    Batches = {0, 1, 2}
    BlankText = BlankText
    Vocab = {1, 2}
    Positions <- MCPositions
    Logit <- MCLogit
    Log1p <- MCLog1p
    DefaultTopK = 1
    U32Size = 4
    Unlimited = 100
    Absent = Absent
INVARIANT OwnTerms
PROPERTY RefinesService
PROPERTY EveryRequestEnds
