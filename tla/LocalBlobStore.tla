--------------------------- MODULE LocalBlobStore ---------------------------
(***************************************************************************)
(* LocalBlobStore.put() (storage/local.py): copy the source into a         *)
(* temporary file whose name holds the digest and the process id, compare  *)
(* the hash of what was copied, rename it into place, and on any failure   *)
(* remove that name.  Temporary files are inodes with a name, because a    *)
(* name can be removed or renamed while a writer still has the inode open. *)
(*                                                                         *)
(* Threads of one process have one process id, and so may processes of     *)
(* different containers that share a volume: they share temporary names.   *)
(*                                                                         *)
(* The source may have changed since it was hashed, so put() can copy any  *)
(* content.  A digest is modelled by the content it names.                 *)
(***************************************************************************)
EXTENDS Naturals, Sequences

CONSTANTS
    Digests,    \* contents, and the digests that name them
    Threads,    \* callers of put()
    Pids,       \* process ids
    Pid,        \* os.getpid() as each thread sees it
    Partial,    \* the content of a file that is still being written
    MaxPuts     \* bound: put() calls per behaviour

ASSUME PidAssumption == Pid \in [Threads -> Pids]
ASSUME PartialAssumption == Partial \notin Digests /\ Digests # {} /\ MaxPuts \in Nat

VARIABLES
    inode,      \* contents of the temporary files created so far
    tmp,        \* the inode behind .<digest>.<pid>.part, or 0
    final,      \* the inode behind blobs/sha256/../<digest>, or 0
    pc,         \* where a thread stands in put()
    job,        \* its digest and the inode it has open
    shared,     \* digests that two calls with one process id have put at a time
    puts        \* calls so far

vars == <<inode, tmp, final, pc, job, shared, puts>>

Init ==
    /\ inode = << >>
    /\ tmp = [p \in Pids |-> [d \in Digests |-> 0]]
    /\ final = [d \in Digests |-> 0]
    /\ pc = [t \in Threads |-> "idle"]
    /\ job = [t \in Threads |-> [digest |-> CHOOSE d \in Digests : TRUE, fd |-> 0]]
    /\ shared = {}
    /\ puts = 0

-----------------------------------------------------------------------------
Step(t, from, to) ==
    /\ pc[t] = from
    /\ pc' = [pc EXCEPT ![t] = to]

Tmp(t) == tmp[Pid[t]][job[t].digest]

\* except BaseException: tmp.unlink(missing_ok=True), then raise.
Fail(t, from) ==
    /\ Step(t, from, "idle")
    /\ tmp' = [tmp EXCEPT ![Pid[t]][job[t].digest] = 0]
    /\ UNCHANGED <<inode, final, job, shared, puts>>

\* Another call under the same process id is putting the digest.
Collides(t, d) ==
    \E s \in Threads : s # t /\ Pid[s] = Pid[t] /\ pc[s] # "idle" /\ job[s].digest = d

\* shared only observes.
Begin(t, d) ==
    /\ Step(t, "idle", "open")
    /\ puts < MaxPuts
    /\ puts' = puts + 1
    /\ job' = [job EXCEPT ![t] = [digest |-> d, fd |-> 0]]
    /\ shared' = shared \cup IF Collides(t, d) THEN {d} ELSE {}
    /\ UNCHANGED <<inode, tmp, final>>

\* open_regular_nofollow() refuses the source, or O_EXCL finds the name taken.
OpenFails(t) == Fail(t, "open")

\* os.open(tmp, O_CREAT | O_EXCL)
Create(t) ==
    /\ Step(t, "open", "write")
    /\ Tmp(t) = 0
    /\ inode' = Append(inode, Partial)
    /\ tmp' = [tmp EXCEPT ![Pid[t]][job[t].digest] = Len(inode) + 1]
    /\ job' = [job EXCEPT ![t].fd = Len(inode) + 1]
    /\ UNCHANGED <<final, shared, puts>>

\* The copy, from a source that may have changed since it was hashed.
Copy(t, source) ==
    /\ Step(t, "write", "check")
    /\ inode' = [inode EXCEPT ![job[t].fd] = source]
    /\ UNCHANGED <<tmp, final, job, shared, puts>>

CopyFails(t) == Fail(t, "write")

Genuine(t) == inode[job[t].fd] = job[t].digest

\* reader.hexdigest() == sha256
CheckPasses_Always(t) ==
    /\ Step(t, "check", "replace")
    /\ UNCHANGED <<inode, tmp, final, job, shared, puts>>
CheckPasses(t) ==
    /\ Step(t, "check", "replace")
    /\ Genuine(t)
    /\ UNCHANGED <<inode, tmp, final, job, shared, puts>>

CheckFails(t) == pc[t] = "check" /\ ~Genuine(t) /\ Fail(t, "check")

\* os.replace(tmp, final)
Replace(t) ==
    /\ Step(t, "replace", "idle")
    /\ Tmp(t) # 0
    /\ final' = [final EXCEPT ![job[t].digest] = Tmp(t)]
    /\ tmp' = [tmp EXCEPT ![Pid[t]][job[t].digest] = 0]
    /\ UNCHANGED <<inode, job, shared, puts>>

\* Somebody removed or renamed the name meanwhile, or the rename failed.
ReplaceFails(t) == Fail(t, "replace")

\* A process dies with all its threads and cleans nothing up.  Another one of
\* the same id may live on, and the id may be used again.
Crash(p) ==
    /\ \E dead \in SUBSET {t \in Threads : Pid[t] = p /\ pc[t] # "idle"} :
        /\ dead # {}
        /\ pc' = [t \in Threads |-> IF t \in dead THEN "idle" ELSE pc[t]]
    /\ UNCHANGED <<inode, tmp, final, job, shared, puts>>

-----------------------------------------------------------------------------
put(t) ==
    \/ \E d \in Digests : Begin(t, d) \/ Copy(t, d)
    \/ OpenFails(t) \/ Create(t) \/ CopyFails(t)
    \/ CheckPasses(t) \/ CheckFails(t) \/ Replace(t) \/ ReplaceFails(t)

Next == (\E t \in Threads : put(t)) \/ (\E p \in Pids : Crash(p))
Spec == Init /\ [][Next]_vars

-----------------------------------------------------------------------------
(* Properties.                                                             *)

Stored == {d \in Digests : final[d] # 0}

\* BlobStore.put() stores nothing but bytes that hash to the digest: every
\* blob that exists() reports is complete and genuine.  The interface demands
\* it of every implementation; it fails where two calls share a temporary name.
BlobsVerify == \A d \in Stored : inode[final[d]] = d

\* It holds of every digest that no two calls with one process id have put at
\* the same time, whatever sources change, copies fail and processes die, and
\* whatever such calls have done to other digests.
UnsharedBlobsVerify == \A d \in Stored \ shared : inode[final[d]] = d

\* put() is the atomic put of the contract, but that it does not answer for
\* the bytes of the shared digests.
B == INSTANCE BlobStore WITH stored <- {d \in Stored : inode[final[d]] = d \/ d \in shared}
StoreContract == B!Spec

-----------------------------------------------------------------------------
(* The inductive invariant behind the proofs in StorageProofs.             *)

TypeOK ==
    /\ inode \in Seq(Digests \cup {Partial})
    /\ tmp \in [Pids -> [Digests -> Nat]]
    /\ final \in [Digests -> Nat]
    /\ pc \in [Threads -> {"idle", "open", "write", "check", "replace"}]
    /\ job \in [Threads -> [digest : Digests, fd : Nat]]
    /\ shared \in SUBSET Digests
    /\ puts \in 0..MaxPuts

\* Where digests are not shared, a name has one user, ...
OneUser ==
    \A s, t \in Threads :
        /\ s # t /\ Pid[s] = Pid[t] /\ job[s].digest = job[t].digest
        /\ pc[s] # "idle" /\ pc[t] # "idle"
        => job[t].digest \in shared

Writing(t) == pc[t] \in {"write", "check", "replace"}

\* ... and between creating its temporary file and renaming it a thread has it
\* open under that name, and what it checked is complete.
OwnTmp ==
    \A t \in Threads : Writing(t) /\ job[t].digest \notin shared =>
        Tmp(t) = job[t].fd /\ (pc[t] = "replace" => Genuine(t))

\* A thread writes to no file but under its own digest.
OwnDigest ==
    \A t \in Threads : Writing(t) =>
        /\ job[t].fd \in DOMAIN inode
        /\ \A p \in Pids, d \in Digests : tmp[p][d] = job[t].fd => p = Pid[t] /\ d = job[t].digest
        /\ \A d \in Digests : final[d] = job[t].fd => d = job[t].digest

\* Temporary files and blobs are existing inodes, each with one name.
OneName ==
    /\ \A p \in Pids, d \in Digests : tmp[p][d] \in {0} \cup DOMAIN inode
    /\ \A d \in Digests : final[d] \in {0} \cup DOMAIN inode
    /\ \A p, q \in Pids, d, e \in Digests :
          tmp[p][d] # 0 /\ tmp[p][d] = tmp[q][e] => p = q /\ d = e
    /\ \A p \in Pids, d, e \in Digests : tmp[p][d] # 0 => tmp[p][d] # final[e]

Inv == TypeOK /\ OneUser /\ OwnTmp /\ OwnDigest /\ OneName /\ UnsharedBlobsVerify
=============================================================================
