CONSTANTS
    b1 = b1
    b2 = b2
    b3 = b3
    NoBox = NoBox
    Selections <- MCSelections
    FrameShapes <- MCFailedShapes
    MAX_BBOXES = 2
    MaxFrames = 2
    Argvs <- MCStillsArgv
SPECIFICATION Spec
PROPERTIES
    DbUnlockedOnlyByHolder
