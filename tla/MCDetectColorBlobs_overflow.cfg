CONSTANTS
    Cols = 4
    Rows = 3
    MaxRuns = 1
    MaxBlobs = 2
    MinPixels = 1
    BboxElementCount = 8
    NDEBUG = FALSE
    ChromaRows <- AllChromaRows
    LumaRows <- AllLumaRows
SPECIFICATION Spec
INVARIANTS
    WithinCapacity
