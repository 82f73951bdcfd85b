CONSTANTS
    Thread = {t1, t2}
    Page <- MCPage
    Block = {b1, b2}
    Junk = Junk
    Free = Free
    NShards = 2
    Capacity = 2
    MaxCalls = 2
    Faults = {"write"}
SPECIFICATION HistorySpec
SYMMETRY MCSymmetry
INVARIANTS
    FlushDurable
