SPECIFICATION FairSpec
CONSTANTS
    Key <- MCKey
    HashOf <- MCHashOf
    Span = 4
    Neighbor = 2
    VacancyBits = 7
    SearchKey = {2}
    MaxAgain = 1
INVARIANTS NoneErased BitmapsExact SplitFits SearchFinds UpdateFinds
PROPERTIES OffsetsGrow SearchReturns
CHECK_DEADLOCK FALSE
