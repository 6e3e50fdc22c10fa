CONSTANTS
    Thread = {t1, t2}
    NrDirectory = 2
    ChunkSize = 5
    Base = 4
    DirSize = 16
    Request <- MCRequest
    BatchCount = 2
    SubNR = 1
    MaxAllocs = 4
    MaxFree = 1
SPECIFICATION FairSpec
INVARIANTS BlocksDisjoint BlocksInRegion CallInFlight
PROPERTY AllocReturns
CHECK_DEADLOCK FALSE
