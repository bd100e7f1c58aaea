CONSTANTS
    Markers <- MCMarkers
    SegmentLengths <- MCSegmentLengths
    Dims <- MCDims
    CoordArrays <- MCCoordArrays
SPECIFICATION Spec
INVARIANTS
    RoundTrip
