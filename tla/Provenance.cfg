\* Queries while events are recorded and versions revoked.
SPECIFICATION ProvenanceSpec
CONSTANTS
    None = None
    Models = {m1, m2, m3}
    Versions = {v1, v2}
    InRegistry <- EveryRelease
    Targets = {environment}
    Unsafe = {}
    MaxEvents = 3
    MaxChanges = 2
    \* nobody publishes
    People = {}
    Contents = {}
    Names = {}
    Empty = Empty
    Torn = Torn
    MaxCommands = 0
    MaxEdits = 0
INVARIANTS TraversalsExact DeploymentsExact
SYMMETRY ModelsSymmetry
CHECK_DEADLOCK FALSE
