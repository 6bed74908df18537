CONSTANTS
    Frames <- MCFrames
    Directories <- MCDirectories
    NoObjects = "none"
SPECIFICATION Spec
INVARIANTS ProfileTellsSamples AllocationsNotMisattributed ObjectsOnlyAtLeaves
PROPERTY EndsUnlessUnreadable
CHECK_DEADLOCK FALSE
