\* Two people publish, revoke and verify in one directory while the artifact is edited.
SPECIFICATION PublishingSpec
CONSTANTS
    None = None
    People = {p1, p2}
    Contents = {c1, c2}
    Names = {n1}
    Empty = Empty
    Torn = Torn
    MaxCommands = 3
    MaxEdits = 1
    \* no provenance
    Models = {}
    InRegistry = {}
    Versions = {}
    Targets = {}
    Unsafe = {}
    MaxEvents = 0
    MaxChanges = 0
INVARIANTS SignedBytesWereThere AcceptedWasPublished RevocationIsHonoured
SYMMETRY PeopleSymmetry
CHECK_DEADLOCK FALSE
