CONSTANTS
    Thread = {t1, t2}
    Page <- MCPage
    Block = {b1, b2}
    Junk = Junk
    Free = Free
    NShards = 1
    Capacity = 1
    MaxCalls = 2
    Faults = {"read"}
SPECIFICATION Spec
SYMMETRY MCSymmetry
INVARIANTS
    ReadOkDeliversBlock
