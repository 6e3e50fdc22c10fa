SPECIFICATION HSpec
CONSTANTS
    Client = {c1, c2}
    Key = {1, 2}
    Value = {v1, v2}
    Leaf = {0}
    SynAddr = {s1}
    Span = 1
    LeafLo <- OneLeaf
    LeafHi <- OneLeaf
    InsertIdx <- OneLeaf
    Nil = Nil
SYMMETRY Symmetry
INVARIANTS LockExclusion CopiesCurrent AssertsHold ReadsWereVisible
 
