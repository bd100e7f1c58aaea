CONSTANTS
    Cols = 8
    Rows = 2
SPECIFICATION Spec
INVARIANTS
    TypeOK
    RunsAreSeparatedQualifyingIntervals
    RunsWithinBuffers
