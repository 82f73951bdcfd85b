CONSTANTS
    Thread = {t1, t2}
    Page <- MCPage
    BlockSize = 3
    OffLimit = 6
    Unit <- MCUnit
    Zero = 0
    Stale = 2
    Data <- MCData
    MaxCalls = 2
    Faults = {"read", "write"}
SPECIFICATION FairSpec
INVARIANTS
    TypeOK
PROPERTIES
    DeviceSpec
    TransferEnds
