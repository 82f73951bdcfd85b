CONSTANTS
    Thread = {t1, t2}
    Page <- MCPage4
    Block = {b1, b2}
    Junk = Junk
    Free = Free
    NShards = 2
    Capacity = 4
    MaxCalls = 2
    Faults = {}
SPECIFICATION Spec
SYMMETRY MCSymmetry
INVARIANTS
    TypeOK
    OneMutexEach
    IoExclusive
    IndexSound
    PoolIndexed
    UsedCountsValid
    NeverUndefined
    CleanMatchesDisk
    MetricsConsistent
