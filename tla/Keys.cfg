\* A local key, a KMS alias and a token label that move, and files that are edited; two
\* operators who rotate keys, at once or in turn, and may crash, while objects come and go.
SPECIFICATION KeysSpec
CONSTANTS
    None = None
    \* signing
    Ed25519Keys = {e1}
    P256Keys = {k1, k2, weak}
    Weak = {weak}
    Bodies = {b1, b2}
    Local = {local}
    Kms = {kms}
    Hsm = {hsm}
    verifiers <- BuiltIn
    MaxCalls = 2
    MaxMoves = 1
    \* trust
    s1 = s1
    s2 = s2
    Fingerprints = {f1}
    Claims = {s1, s2}
    Scopes <- MCScopes
    Windows <- MCWindows
    Operators = {o1, o2}
    Guards = {g1}
    Torn = Torn
    MaxCommands = 3
    MaxTime = 1
SYMMETRY Symmetry
INVARIANTS
    ReturnedBySignedKey AcceptedWasSigned KeyCannotBeReplaced
    RevocationSticks FlagsCannotOverride
CHECK_DEADLOCK FALSE
