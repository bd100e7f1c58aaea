CONSTANTS
    Cols = 8
    Rows = 2
SPECIFICATION Spec
INVARIANT EveryQualifyingPixelInARun
