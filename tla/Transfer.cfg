\* Uploads from a directory being edited, downloads to one destination, a tampered store.
SPECIFICATION Spec
CONSTANTS
    Paths = {p1, p2}
    Contents = {c1, c2}
    Uploaders = {u1, u2}
    Downloaders = {x1, x2}
    Types = {"file", "directory"}
    None = None
    Bad = Bad
    MaxEdits = 1
    MaxTampers = 1
INVARIANTS DestIsWhole ManifestsComplete
PROPERTIES DirectoryUntouched
SYMMETRY Symmetry
CHECK_DEADLOCK FALSE
