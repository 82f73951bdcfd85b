CONSTANTS
    Thread = {t1, t2}
    Page <- MCPage
    Block = {b1}
    Junk = Junk
    Free = Free
    NShards = 2
    Capacity = 2
    MaxCalls = 1
    Faults = {"read", "write", "alloc"}
SPECIFICATION FairSpec
CHECK_DEADLOCK FALSE
INVARIANTS
    IndexSound
PROPERTIES
    MutexReleased
    EveryCallReturns
