CONSTANTS
    Thread <- MCThread
    Page <- MCPage
    Block = {b0, b1}
    Junk = Junk
    Free = Free
    NShards = 2
    Capacity = 2
    MaxCalls = 5
    Faults = {"read", "write"}
    MaxThreads = 2
    Requested <- MCRequested
    NOps = 3
    Pattern = b1
    BenchFaults = {"open", "thread", "malloc"}
SPECIFICATION BenchSpec
CHECK_DEADLOCK FALSE
INVARIANTS
    WorkloadReplayedOnce
    MetricsOfWorkload
    ClosesAfterAll
PROPERTIES
    RunEnds
