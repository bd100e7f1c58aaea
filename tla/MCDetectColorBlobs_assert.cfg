CONSTANTS
    Cols = 8
    Rows = 3
    MaxRuns = 8
    MaxBlobs = 8
    MinPixels = 1
    BboxElementCount = 4
    NDEBUG = FALSE
    ChromaRows <- WideChromaRows
    LumaRows <- WideLumaRows
SPECIFICATION Spec
INVARIANT NoAssertionFailure
CHECK_DEADLOCK FALSE
