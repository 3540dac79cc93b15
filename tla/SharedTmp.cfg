\* Threads of one process store one blob; TLC finds a half-written blob.
SPECIFICATION Spec
CONSTANTS
    Digests = {d1}
    Threads = {t1, t2, t3}
    p1 = p1
    Pids = {p1}
    Pid <- OneProcess
    Partial = Partial
    MaxPuts = 3
INVARIANTS BlobsVerify
CHECK_DEADLOCK FALSE
