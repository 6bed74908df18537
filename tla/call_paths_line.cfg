CONSTANTS
    Threads = {t1, t2}
    NoOwner = NoOwner
    Methods = {"main", "m", "getName"}
    GetName = "getName"
    HasLines = {"main", "m"}
    MaxDepth = 2
    EntryFrames = 2
    AllocFrames = 2
    LineLimit = 2
    MaxInfo = 2
    MaxAttach = 1
SPECIFICATION Spec
INVARIANTS LineFits
SYMMETRY ThreadSymmetry
CHECK_DEADLOCK FALSE
