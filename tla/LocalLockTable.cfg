CONSTANTS
    Thread = {t1, t2}
    Key = {k1, k2}
    NoKey = NoKey
    TicketMod = 3
    MaxOps = 5
SPECIFICATION FairSpec
INVARIANTS  OneAtATime HandedOwnKey
 
CHECK_DEADLOCK FALSE
