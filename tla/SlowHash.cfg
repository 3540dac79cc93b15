\* A hash that outlasts the racy margin; TLC finds a stale hit.
SPECIFICATION SlowHashSpec
CONSTANTS
    a1 = a1
    a2 = a2
    f1 = f1
    f2 = f2
    f3 = f3
    Artifacts = {a1}
    FilesOf <- DirectoryAndFile
    Contents = {c1, c2}
    Initial <- AllAlike
    Hashers = {h1}
    None = None
    Granularity = 1
    RACY_MARGIN = 2
    MAX_ENTRIES = 1
    MaxTime = 2
    MaxEdits = 1
INVARIANTS HitIsFresh
SYMMETRY Symmetry
CHECK_DEADLOCK FALSE
