CONSTANTS
    Node = {0, 1}
    Coro = {0, 1}
SPECIFICATION FairSpec
INVARIANTS   UnlockLast
 
