------------------------------ MODULE MCStorage ------------------------------
(***************************************************************************)
(* Model-checking instance of what ModelGuard keeps outside a database:    *)
(* the files of the local registry, a hash-chained log, and blobs in a     *)
(* directory or in a bucket.  None of them touches the state of another:   *)
(* each behaviour is about one of them.                                    *)
(***************************************************************************)
EXTENDS LocalBlobStore, TLC

CONSTANTS
    Writers, Registrars, Clients, Foreign, None, Torn,
    Names, RegistryDigests,
    MaxRegisters, MaxEvents,                \* local registry
    MaxAppends, MaxFaults, MaxEdits,        \* log
    MaxCalls, MaxForeign,                   \* bucket
    t1, t2, t3, p1, p2

\* What the instantiated modules need of their parameters.
ASSUME MarkersAssumption ==
    /\ None \notin Digests \cup RegistryDigests \cup Names
    /\ Torn \notin RegistryDigests \cup {None} /\ Foreign \notin Clients
ASSUME BoundsAssumption ==
    {MaxRegisters, MaxEvents, MaxAppends, MaxFaults, MaxEdits, MaxCalls, MaxForeign} \subseteq Nat

\* A process of two threads and one of a single thread.
TwoAndOne == [t \in {t1, t2, t3} |-> IF t = t3 THEN p2 ELSE p1]

VARIABLES
    part,       \* what this behaviour is about
    record, index, indexTorn, log, registryPc, registryJob, acked, standing, answers, begun,
    file, chainPc, entry, appended, issued, raced, appends, faults, edits,
    object, owner, bucketPc, bucketJob, dest, stored, wronged, excused, calls, foreign

Registry == INSTANCE LocalRegistry WITH
    Digests <- RegistryDigests, pc <- registryPc, job <- registryJob
Chain == INSTANCE HashChain WITH pc <- chainPc, acked <- appended
Bucket == INSTANCE S3BlobStore WITH pc <- bucketPc, job <- bucketJob, acked <- stored

blobVars == vars
registryVars == <<record, index, indexTorn, log, registryPc, registryJob, acked, standing, answers, begun>>
chainVars == <<file, chainPc, entry, appended, issued, raced, appends, faults, edits>>
bucketVars == <<object, owner, bucketPc, bucketJob, dest, stored, wronged, excused, calls, foreign>>
storageVars == <<part, blobVars, registryVars, chainVars, bucketVars>>

StorageInit ==
    /\ part \in {"blobs", "registry", "chain", "bucket"}
    /\ Init /\ Registry!Init /\ Chain!Init /\ Bucket!Init

StorageNext ==
    /\ UNCHANGED part
    /\ \/ part = "blobs" /\ Next /\ UNCHANGED <<registryVars, chainVars, bucketVars>>
       \/ part = "registry" /\ Registry!Next /\ UNCHANGED <<blobVars, chainVars, bucketVars>>
       \/ part = "chain" /\ Chain!Next /\ UNCHANGED <<blobVars, registryVars, bucketVars>>
       \/ part = "bucket" /\ Bucket!Next /\ UNCHANGED <<blobVars, registryVars, chainVars>>

StorageSpec == StorageInit /\ [][StorageNext]_storageVars

Symmetry == Permutations(Names) \cup Permutations(RegistryDigests)

-----------------------------------------------------------------------------
(* The properties of the instantiated modules, by the names given there.   *)

\* Local registry: a registration that returned can be found by its digest.
AckedDigestResolves == Registry!AckedDigestResolves
\* Local registry: what a lookup by digest finds is never another name later.
DigestNeverRepointed == Registry!DigestNeverRepointed
\* Local registry: a revocation that returned is reported, or reading fails.
RevocationFailsClosed == Registry!RevocationFailsClosed
\* Local registry: the files implement the contract of module Registry.
RegistryContract == Registry!RegistryContract
\* Log: readers fail or see every record whose append returned, in order.
AckedReadable == Chain!AckedReadable
\* Log: a write cut short is never reported as tampering.
NoFalseAlarm == Chain!NoFalseAlarm
\* Log: the records of what verifies are those a sequence of appends once left.
VerifiedIsGenuine == Chain!VerifiedIsGenuine
\* Bucket: it holds what its users were told, or what they were not spared.
BucketSettles == Bucket!BucketSettles
=============================================================================
