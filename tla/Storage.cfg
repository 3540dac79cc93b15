\* Writers that interleave and crash: local registry, log, blob directory, bucket.
SPECIFICATION StorageSpec
CONSTANTS
    None = None
    Torn = Torn
    \* local registry: one process registers, two revoke
    Writers = {w1, w2}
    Registrars = {w1}
    Names = {n1, n2}
    RegistryDigests = {r1, r2}
    MaxRegisters = 3
    MaxEvents = 2
    \* log: two writers without a lock, a failing write and edits at rest
    MaxAppends = 4
    MaxFaults = 1
    MaxEdits = 2
    \* blobs: three threads of two processes store the same blobs from changing sources
    Digests = {d1, d2}
    t1 = t1
    t2 = t2
    t3 = t3
    p1 = p1
    p2 = p2
    Threads = {t1, t2, t3}
    Pids = {p1, p2}
    Pid <- TwoAndOne
    Partial = Partial
    MaxPuts = 3
    \* bucket: racing uploads, downloads and a foreign write
    Clients = {c1, c2}
    Foreign = Foreign
    MaxCalls = 4
    MaxForeign = 1
INVARIANTS
    UnsharedBlobsVerify
    AckedDigestResolves DigestNeverRepointed RevocationFailsClosed
    AckedReadable NoFalseAlarm VerifiedIsGenuine
    BucketSettles
PROPERTIES StoreContract RegistryContract
SYMMETRY Symmetry
CHECK_DEADLOCK FALSE
