SPECIFICATION RecencySpec
CONSTANTS
    Page <- MCPage
    FrameId <- MCFrameId
    OutOfMemory = FALSE
PROPERTIES
    VictimIsColdest
