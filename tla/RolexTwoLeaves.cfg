SPECIFICATION FairSpec
CONSTANTS
    Client = {c1, c2}
    Key = {1, 2, 3}
    Value = {v1}
    Leaf = {0, 1}
    SynAddr = {s1, s2}
    Span = 1
    LeafLo <- TwoLeafLo
    LeafHi <- TwoLeafHi
    InsertIdx <- TwoLeafIdx
    Nil = Nil
INVARIANT SynonymChain
PROPERTIES SynonymPtrStable LockReleased 

