\* Leaf 0, aligned to a cache line as every synonym leaf is.  A version modulo
\* 3 stands for the 4-bit one: two writes may overlap a read.
CONSTANTS
    LeafIdx = 0
    Line = {0, 1, 2, 3, 4}
    Tagged = {0, 1, 2, 3, 4}
    Modulus = 3
    MaxWrites = 3
SPECIFICATION FairSpec
INVARIANTS ReadsAreSnapshots
PROPERTY ReadsReturn
