SPECIFICATION Spec
CONSTANTS
    Page <- MCPage
    FrameId <- MCFrameId
    OutOfMemory = TRUE
INVARIANTS
    TypeOK
    LinksAgree
    Rooted
    Sorted
PROPERTIES
    IndexSpec
    PathHalved
    EvictSparesLast
