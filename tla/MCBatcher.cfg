\* Padded model, ratio gate at 2.0, a queue of three.
SPECIFICATION FairSpec
CONSTANTS
    r0 = r0
    r1 = r1
    r2 = r2
    r3 = r3
    r4 = r4
    None = None
    Requests = {r0, r1, r2, r3, r4}
    Shape <- MCShape
    MaxQueue = 3
    MaxBatchTokens = 9
    MaxBatchItems = 3
    MaxBatchSeq = 5
    PaddedModel = TRUE
    RatioNum = 2
    RatioDen = 1
INVARIANTS TypeOK NoLostRequest InOrder BudgetRespected OwnVectors NobodyShutDown
PROPERTIES LostCarryIsCounted RefinesFifo EveryCallerServed ShutdownEnds
