----------------------------- MODULE S3BlobStore -----------------------------
(***************************************************************************)
(* The S3 blob store (storage/s3.py) shared by several uploaders and a     *)
(* reader.  put() streams the source straight to its final key and hashes  *)
(* what it sends; when the hash turns out wrong it deletes the key, in a   *)
(* second request.  get_to() is write_verified() over what the bucket      *)
(* returns.  Requests are atomic at the server, may fail, and may be       *)
(* carried out although the client hears of a failure.  Others may write   *)
(* to the bucket: the store is not trusted.                                *)
(*                                                                         *)
(* A digest is modelled by the content it names; the source of a put() may *)
(* have changed since it was hashed, so any content may be sent.           *)
(***************************************************************************)
EXTENDS Naturals

CONSTANTS
    Digests,    \* contents, and the digests that name them
    Clients,    \* processes uploading and downloading
    Foreign,    \* somebody else writing to the bucket
    None,       \* no object, no file
    MaxCalls,   \* bound: calls per behaviour
    MaxForeign  \* bound: writes by somebody else

VARIABLES
    object,     \* the content under each key, or None
    owner,      \* who wrote it (the program does not know)
    pc,         \* where a client stands in its call
    job,        \* digest and the content sent or received
    dest,       \* the file a client downloads to, or None
    acked,      \* digests that some put() has reported as stored
    wronged,    \* digests under which anybody has ever put other bytes
    excused,    \* those of them whose uploader could not clean up, or was somebody else
    calls, foreign      \* counters for the bounds

bucket == <<object, owner, wronged, excused>>
vars == <<object, owner, pc, job, dest, acked, wronged, excused, calls, foreign>>

NoJob == [digest |-> None, data |-> None]

Init ==
    /\ object = [d \in Digests |-> None] /\ owner = [d \in Digests |-> Foreign]
    /\ pc = [c \in Clients |-> "idle"]
    /\ job = [c \in Clients |-> NoJob]
    /\ dest = [c \in Clients |-> None]
    /\ acked = {} /\ wronged = {} /\ excused = {}
    /\ calls = 0 /\ foreign = 0

-----------------------------------------------------------------------------
Step(c, from, to) ==
    /\ pc[c] = from
    /\ pc' = [pc EXCEPT ![c] = to]

Call(c, d, to) ==
    /\ Step(c, "idle", to)
    /\ calls < MaxCalls
    /\ calls' = calls + 1
    /\ job' = [job EXCEPT ![c] = [NoJob EXCEPT !.digest = d]]
    /\ UNCHANGED <<bucket, acked, foreign>>

Wrong(c) == job[c].data # job[c].digest

\* An error reaches the caller, or the process dies: nothing is cleaned up.
Raise(c) ==
    /\ pc[c] # "idle"
    /\ pc' = [pc EXCEPT ![c] = "idle"]
    /\ excused' = excused \cup IF pc[c] = "check" /\ Wrong(c) THEN {job[c].digest} ELSE {}
    /\ UNCHANGED <<object, owner, wronged, job, dest, acked, calls, foreign>>

(* _put_if_absent(): exists(), then put().                                 *)

UploadBegin(c, d) == Call(c, d, "head") /\ UNCHANGED dest

AlreadyPresent(c) ==
    /\ Step(c, "head", "idle")
    /\ object[job[c].digest] # None
    /\ acked' = acked \cup {job[c].digest}
    /\ UNCHANGED <<bucket, job, dest, calls, foreign>>

Absent(c) ==
    /\ Step(c, "head", "upload")
    /\ object[job[c].digest] = None
    /\ UNCHANGED <<bucket, job, dest, acked, calls, foreign>>

\* upload_fileobj(): the object is replaced when the upload completes; the
\* client may still be told that it failed.
Upload(c, source) ==
    /\ pc[c] = "upload"
    /\ LET wrong == IF source # job[c].digest THEN {job[c].digest} ELSE {}
       IN  /\ wronged' = wronged \cup wrong
           /\ \/ pc' = [pc EXCEPT ![c] = "check"] /\ UNCHANGED excused
              \/ pc' = [pc EXCEPT ![c] = "idle"] /\ excused' = excused \cup wrong
    /\ object' = [object EXCEPT ![job[c].digest] = source]
    /\ owner' = [owner EXCEPT ![job[c].digest] = c]
    /\ job' = [job EXCEPT ![c].data = source]
    /\ UNCHANGED <<dest, acked, calls, foreign>>

CheckPasses_Always(c) ==
    /\ Step(c, "check", "idle")
    /\ acked' = acked \cup {job[c].digest}
    /\ UNCHANGED <<bucket, job, dest, calls, foreign>>
CheckPasses(c) ==
    /\ Step(c, "check", "idle")
    /\ ~Wrong(c)
    /\ acked' = acked \cup {job[c].digest}
    /\ UNCHANGED <<bucket, job, dest, calls, foreign>>

\* delete_object(), then ArtifactIntegrityError.  If the request fails the
\* error is the same.
Delete(c) ==
    /\ Step(c, "check", "idle")
    /\ Wrong(c)
    /\ object' = [object EXCEPT ![job[c].digest] = None]
    /\ UNCHANGED <<owner, wronged, excused, job, dest, acked, calls, foreign>>

DeleteFails(c) ==
    /\ Step(c, "check", "idle")
    /\ Wrong(c)
    /\ excused' = excused \cup {job[c].digest}
    /\ UNCHANGED <<object, owner, wronged, job, dest, acked, calls, foreign>>

(* get_to() and write_verified().                                          *)

GetBegin(c, d) == Call(c, d, "get") /\ dest[c] = None /\ UNCHANGED dest

\* get_object(): the whole body of one version of the object.
Get(c) ==
    /\ Step(c, "get", "verify")
    /\ object[job[c].digest] # None
    /\ job' = [job EXCEPT ![c].data = object[job[c].digest]]
    /\ UNCHANGED <<bucket, dest, acked, calls, foreign>>

\* Bytes that do not hash to the digest are removed again: see Raise.
Accept(c) ==
    /\ Step(c, "verify", "idle")
    /\ ~Wrong(c)
    /\ dest' = [dest EXCEPT ![c] = job[c].data]
    /\ UNCHANGED <<bucket, job, acked, calls, foreign>>

\* Somebody with access to the bucket.
ForeignWrite ==
    /\ foreign < MaxForeign
    /\ foreign' = foreign + 1
    /\ \E d \in Digests :
        /\ object' \in {[object EXCEPT ![d] = x] : x \in Digests \cup {None}}
        /\ owner' = [owner EXCEPT ![d] = Foreign]
        /\ wronged' = wronged \cup {d} /\ excused' = excused \cup {d}
    /\ UNCHANGED <<pc, job, dest, acked, calls>>

-----------------------------------------------------------------------------
Client(c) ==
    \/ \E d \in Digests : UploadBegin(c, d) \/ Upload(c, d) \/ GetBegin(c, d)
    \/ AlreadyPresent(c) \/ Absent(c) \/ CheckPasses(c) \/ Delete(c) \/ DeleteFails(c)
    \/ Get(c) \/ Accept(c) \/ Raise(c)

Next == (\E c \in Clients : Client(c)) \/ ForeignWrite
Spec == Init /\ [][Next]_vars

-----------------------------------------------------------------------------
(* Properties.                                                             *)

\* put() cleans up after itself however uploads overwrite each other: bytes
\* under a digest that is not theirs belong to an upload that is about to
\* compare, unless some uploader of that digest was cut short.
WrongBytesAreRemoved ==
    \A d \in Digests \ excused : object[d] \notin {None, d} =>
        /\ owner[d] \in Clients
        /\ pc[owner[d]] = "check" /\ job[owner[d]].digest = d /\ Wrong(owner[d])

\* As long as nobody has put other bytes under a digest, what some put() has
\* reported as stored stays there, and every download gets those bytes.
AckedIsKept ==
    \A d \in Digests \ wronged :
        /\ d \in acked => object[d] = d
        /\ \A c \in Clients : pc[c] = "verify" /\ job[c].digest = d => ~Wrong(c)

\* What the bucket holds is what its users were told, or what they were not
\* spared: concurrent uploads of one digest, sources that change, requests
\* that fail after they were carried out, and clients that die.
BucketSettles == WrongBytesAreRemoved /\ AckedIsKept

\* The module says of the store that it "never deletes except to remove an
\* object it just wrote".
DeletesOnlyItsOwn ==
    [][\A d \in Digests, c \in Clients :
          object[d] # None /\ Delete(c) /\ job[c].digest = d => owner[d] = c]_vars
=============================================================================
