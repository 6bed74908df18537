CONSTANTS
    Threads = {t1, t2}
    NoOwner = NoOwner
    Methods = {"m", "getName"}
    GetName = "getName"
    HasLines = {"m"}
    MaxDepth = 2
    EntryFrames = 2
    AllocFrames = 2
    LineLimit = 2
    MaxInfo = 2
    MaxAttach = 2
SPECIFICATION Spec
INVARIANTS PathsAreNamed AllocsAreNamed
SYMMETRY ThreadSymmetry
CHECK_DEADLOCK FALSE
