\* The claim that put() deletes only objects it wrote.
SPECIFICATION Spec
CONSTANTS
    Digests = {d1, d2}
    Clients = {c1, c2}
    Foreign = Foreign
    None = None
    MaxCalls = 2
    MaxForeign = 0
PROPERTIES DeletesOnlyItsOwn
CHECK_DEADLOCK FALSE
