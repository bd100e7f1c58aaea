CONSTANTS
    Cols = 4
    Rows = 3
    MaxRuns = 8
    MaxBlobs = 8
    MinPixels = 1
    BboxElementCount = 4
    NDEBUG = FALSE
    ChromaRows <- AllChromaRows
    LumaRows <- AllLumaRows
SPECIFICATION Spec
INVARIANTS
    TypeOK
    RootRegistryExact
    PixelCountsExact
    BoxesWithinBlobs
    ComponentsAreConnectedRuns
    SelectionIsLargestFirst
