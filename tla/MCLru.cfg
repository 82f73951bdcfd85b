SPECIFICATION Spec
CONSTANTS
    Page <- MCPage
    FrameId <- MCFrameId
    OutOfMemory = TRUE
    Capacity = 1
INVARIANTS
    TypeOK
    ListWhole
    ChainsWhole
    CountIsLive
PROPERTIES
    RecencySpec
