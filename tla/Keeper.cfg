CONSTANTS
    Node = {n1, n2, n3}
    NrThread = 2
    NrDirectory = 2
    Radix = 10
    Rounds = 2
SPECIFICATION FairSpec
INVARIANTS QpsPaired BarrierHolds SumIsOfRound
PROPERTY AllFinish
