CONSTANTS
    Markers <- MCMarkers
    SegmentLengths <- MCShortLengths
    Dims <- MCDims
    CoordArrays <- MCCoordArrays
SPECIFICATION Spec
INVARIANTS
    WritesWithinSegment
