---------------------------- MODULE StorageProofs ----------------------------
(***************************************************************************)
(* TLAPS proofs about what ModelGuard keeps outside a database, for any    *)
(* number of processes, threads, digests, names and calls.  Blob           *)
(* directory: every stored blob is genuine that no two calls with one      *)
(* process id have put at a time, and put() implements the atomic put of   *)
(* BlobStore.  Local registry: with one process that registers, digests    *)
(* keep resolving to what was registered for them and the files implement  *)
(* Registry; revocations fail closed with any number.  Hash chain: appends *)
(* stay readable, no write looks like tampering, the records of what       *)
(* verifies were written.  Bucket: uploads clean up after themselves, and  *)
(* where nobody uploads other bytes, what was reported stays.              *)
(***************************************************************************)
EXTENDS MCStorage, SequenceTheorems, WellFoundedInduction, TLAPS

-----------------------------------------------------------------------------
(* The blob directory.                                                     *)

Bytes == Digests \cup {Partial}

\* Creating a temporary file adds one inode and leaves the others alone.
LEMMA CreateInode ==
    ASSUME TypeOK
    PROVE  /\ Append(inode, Partial) \in Seq(Bytes)
           /\ DOMAIN Append(inode, Partial) = DOMAIN inode \cup {Len(inode) + 1}
           /\ \A i \in DOMAIN inode : Append(inode, Partial)[i] = inode[i]
           /\ Len(inode) + 1 \in Nat \ {0}
           /\ Len(inode) + 1 \notin DOMAIN inode
BY AppendProperties DEF TypeOK, Bytes

\* Copying into a file changes the content of that inode only.
LEMMA CopyInode ==
    ASSUME TypeOK, NEW i \in DOMAIN inode, NEW d \in Digests
    PROVE  /\ [inode EXCEPT ![i] = d] \in Seq(Bytes)
           /\ DOMAIN [inode EXCEPT ![i] = d] = DOMAIN inode
           /\ \A j \in DOMAIN inode : [inode EXCEPT ![i] = d][j] = IF j = i THEN d ELSE inode[j]
BY ExceptSeq DEF TypeOK, Bytes

\* An empty store satisfies the invariant.
LEMMA InitInv ==
    ASSUME Init
    PROVE  Inv
<1> USE PidAssumption, PartialAssumption
<1>1. PICK some \in Digests : job = [t \in Threads |-> [digest |-> some, fd |-> 0]]
  BY DEF Init
<1>2. TypeOK
  <2>1. inode \in Seq(Digests \cup {Partial}) /\ puts \in 0..MaxPuts /\ shared \in SUBSET Digests
    BY DEF Init
  <2>2. tmp \in [Pids -> [Digests -> Nat]] /\ final \in [Digests -> Nat]
    BY DEF Init
  <2>3. pc \in [Threads -> {"idle", "open", "write", "check", "replace"}]
    BY DEF Init
  <2>4. job \in [Threads -> [digest : Digests, fd : Nat]]
    BY <1>1
  <2> QED
    BY <2>1, <2>2, <2>3, <2>4 DEF TypeOK
<1>3. OneUser /\ OwnTmp /\ OwnDigest
  BY DEF Init, OneUser, OwnTmp, OwnDigest, Writing
<1>4. OneName /\ UnsharedBlobsVerify
  BY DEF Init, OneName, UnsharedBlobsVerify, Stored
<1> QED
  BY <1>2, <1>3, <1>4 DEF Inv

\* Two calls for an unshared digest have different temporary names.
LEMMA Apart ==
    ASSUME Inv, NEW s \in Threads, NEW t \in Threads, s # t,
           pc[s] # "idle", pc[t] # "idle", job[s].digest \notin shared
    PROVE  Pid[s] # Pid[t] \/ job[s].digest # job[t].digest
BY DEF Inv, OneUser

\* A call that ends has no more to own; those that go on are as they were.
LEMMA EndInv ==
    ASSUME Inv, NEW t \in Threads, pc[t] # "idle", pc' = [pc EXCEPT ![t] = "idle"],
           tmp' = [tmp EXCEPT ![Pid[t]][job[t].digest] = 0], UNCHANGED <<inode, job, shared>>
    PROVE  OneUser' /\ OwnTmp'
<1> USE PidAssumption DEF Inv
<1>1. \A p \in Pids, d \in Digests : tmp'[p][d] = IF p = Pid[t] /\ d = job[t].digest THEN 0 ELSE tmp[p][d]
  BY DEF TypeOK
<1>2. pc'[t] = "idle" /\ \A s \in Threads : s # t => pc'[s] = pc[s]
  BY DEF TypeOK
<1>3. OneUser'
  BY <1>2 DEF OneUser
<1>4. ASSUME NEW s \in Threads, Writing(s)', job[s].digest \notin shared
      PROVE  s # t /\ Writing(s) /\ Tmp(s)' = Tmp(s)
  <2>1. s # t /\ Writing(s) /\ pc[s] # "idle" /\ job[s].digest \in Digests
    BY <1>2, <1>4 DEF Writing, TypeOK
  <2> QED
    BY <1>1, <1>4, <2>1, Apart DEF Tmp
<1>5. OwnTmp'
  BY <1>2, <1>4 DEF OwnTmp, Genuine
<1> QED
  BY <1>3, <1>5

\* A failing call only removes the temporary name of its caller.
LEMMA FailInv ==
    ASSUME Inv, NEW t \in Threads, NEW from \in {"open", "write", "check", "replace"}, Fail(t, from)
    PROVE  Inv'
<1> USE PidAssumption DEF Inv
<1>1. /\ pc[t] = from /\ pc' = [pc EXCEPT ![t] = "idle"]
      /\ UNCHANGED <<inode, final, job, shared, puts>>
      /\ tmp' = [tmp EXCEPT ![Pid[t]][job[t].digest] = 0]
  BY DEF Fail, Step
<1>2. TypeOK'
  BY <1>1 DEF TypeOK
<1>3. \A p \in Pids, d \in Digests : tmp'[p][d] = IF p = Pid[t] /\ d = job[t].digest THEN 0 ELSE tmp[p][d]
  BY <1>1 DEF TypeOK
<1>4. OneUser' /\ OwnTmp'
  BY <1>1, EndInv
<1>5. OwnDigest'
  <2>1. \A s \in Threads : Writing(s)' => Writing(s)
    BY <1>1 DEF Writing, TypeOK
  <2>2. 0 \notin DOMAIN inode
    BY DEF TypeOK
  <2> QED
    BY <1>1, <1>3, <2>1, <2>2 DEF OwnDigest
<1>6. OneName' /\ UnsharedBlobsVerify'
  BY <1>1, <1>3 DEF OneName, UnsharedBlobsVerify, Stored
<1> QED
  BY <1>2, <1>4, <1>5, <1>6

\* A call that starts shares its digest if it meets another one.
LEMMA BeginInv ==
    ASSUME Inv, NEW t \in Threads, NEW d \in Digests, Begin(t, d)
    PROVE  Inv'
<1> USE DEF Inv
<1>1. /\ pc[t] = "idle" /\ pc' = [pc EXCEPT ![t] = "open"]
      /\ job' = [job EXCEPT ![t] = [digest |-> d, fd |-> 0]]
      /\ shared' = shared \cup (IF Collides(t, d) THEN {d} ELSE {})
      /\ UNCHANGED <<inode, tmp, final>>
  BY DEF Begin, Step
<1>2. TypeOK'
  BY PartialAssumption DEF TypeOK, Begin, Step
<1>3. /\ pc'[t] = "open" /\ job'[t].digest = d
      /\ \A s \in Threads : s # t => pc'[s] = pc[s] /\ job'[s] = job[s]
  BY <1>1 DEF TypeOK
<1>4. OneUser'
  <2>1. ASSUME NEW s \in Threads, s # t, Pid[s] = Pid[t], job'[s].digest = d, pc'[s] # "idle"
        PROVE  d \in shared'
    <3>1. Collides(t, d)
      BY <1>3, <2>1 DEF Collides
    <3> QED
      BY <1>1, <3>1
  <2>2. shared \subseteq shared'
    BY <1>1
  <2> QED
    BY <1>3, <2>1, <2>2 DEF OneUser
<1>5. OwnTmp' /\ OwnDigest'
  BY <1>1, <1>3 DEF OwnTmp, OwnDigest, Writing, Tmp, Genuine
<1>6. OneName' /\ UnsharedBlobsVerify'
  BY <1>1 DEF OneName, UnsharedBlobsVerify, Stored
<1> QED
  BY <1>2, <1>4, <1>5, <1>6

\* A new temporary file is an inode that no name leads to.
LEMMA CreateInv ==
    ASSUME Inv, NEW t \in Threads, Create(t)
    PROVE  Inv'
<1> USE PidAssumption, PartialAssumption DEF Inv
<1> DEFINE new == Len(inode) + 1
<1>1. /\ pc[t] = "open" /\ pc' = [pc EXCEPT ![t] = "write"] /\ UNCHANGED <<final, shared, puts>>
      /\ inode' = Append(inode, Partial)
      /\ tmp' = [tmp EXCEPT ![Pid[t]][job[t].digest] = new]
      /\ job' = [job EXCEPT ![t].fd = new]
      /\ Tmp(t) = 0
  BY DEF Create, Step
<1>2. /\ inode' \in Seq(Bytes) /\ DOMAIN inode' = DOMAIN inode \cup {new}
      /\ \A i \in DOMAIN inode : inode'[i] = inode[i]
      /\ new \in Nat \ {0} /\ new \notin DOMAIN inode
  BY <1>1, CreateInode
<1> HIDE DEF new
<1>3. TypeOK'
  BY <1>1, <1>2 DEF TypeOK, Bytes
<1>4. \A p \in Pids, d \in Digests : tmp'[p][d] = IF p = Pid[t] /\ d = job[t].digest THEN new ELSE tmp[p][d]
  BY <1>1 DEF TypeOK
<1>5. /\ pc'[t] = "write" /\ job'[t].fd = new /\ job'[t].digest = job[t].digest
      /\ job[t].digest \in Digests
      /\ \A s \in Threads : s # t => pc'[s] = pc[s] /\ job'[s] = job[s]
  BY <1>1 DEF TypeOK
<1>6. OneUser'
  BY <1>1, <1>5 DEF OneUser
<1>7. OwnTmp'
  <2>1. Tmp(t)' = new
    BY <1>4, <1>5 DEF Tmp
  <2>2. ASSUME NEW s \in Threads, s # t, Writing(s), job[s].digest \notin shared
        PROVE  Tmp(s)' = Tmp(s) /\ job[s].fd \in DOMAIN inode
    <3>1. pc[s] # "idle" /\ pc[t] # "idle" /\ job[s].digest \in Digests
      BY <1>1, <2>2 DEF Writing, TypeOK
    <3>2. Tmp(s)' = Tmp(s)
      BY <1>4, <1>5, <2>2, <3>1, Apart DEF Tmp
    <3> QED
      BY <2>2, <3>2 DEF OwnDigest
  <2> QED
    BY <1>1, <1>2, <1>5, <2>1, <2>2 DEF OwnTmp, Writing, Genuine
<1>8. \A p \in Pids, d \in Digests : tmp[p][d] # new /\ tmp[p][d] \in {0} \cup DOMAIN inode
  BY <1>2 DEF OneName
<1>9. \A e \in Digests : final'[e] = final[e] /\ final[e] # new /\ final[e] \in {0} \cup DOMAIN inode
  BY <1>1, <1>2 DEF OneName
<1>10. OwnDigest'
  <2>1. ASSUME NEW s \in Threads, s # t, Writing(s)
        PROVE  job[s].fd \in DOMAIN inode /\ job[s].fd # new
    BY <1>2, <2>1 DEF OwnDigest
  <2>2. \A s \in Threads : Writing(s)' => s = t \/ Writing(s)
    BY <1>5 DEF Writing
  <2> QED
    BY <1>2, <1>4, <1>5, <1>8, <1>9, <2>1, <2>2 DEF OwnDigest
<1>11. OneName'
  <2>1. /\ \A p \in Pids, d \in Digests : tmp'[p][d] \in {0} \cup DOMAIN inode'
        /\ \A d \in Digests : final'[d] \in {0} \cup DOMAIN inode'
    BY <1>2, <1>4, <1>8, <1>9
  <2>2. \A p, q \in Pids, d, e \in Digests :
           tmp'[p][d] # 0 /\ tmp'[p][d] = tmp'[q][e] => p = q /\ d = e
    BY <1>4, <1>8 DEF OneName
  <2>3. \A p \in Pids, d, e \in Digests : tmp'[p][d] # 0 => tmp'[p][d] # final'[e]
    BY <1>4, <1>9 DEF OneName
  <2> QED
    BY <2>1, <2>2, <2>3 DEF OneName
<1>12. UnsharedBlobsVerify'
  BY <1>1, <1>2 DEF TypeOK, OneName, UnsharedBlobsVerify, Stored
<1> QED
  BY <1>3, <1>6, <1>7, <1>10, <1>11, <1>12

\* A copy goes to the inode that the caller has open: under an unshared digest
\* that is nobody else's, and no blob.
LEMMA CopyInv ==
    ASSUME Inv, NEW t \in Threads, NEW d \in Digests, Copy(t, d)
    PROVE  Inv'
<1> USE PidAssumption DEF Inv
<1>1. /\ pc[t] = "write" /\ pc' = [pc EXCEPT ![t] = "check"]
      /\ inode' = [inode EXCEPT ![job[t].fd] = d]
      /\ UNCHANGED <<tmp, final, job, shared, puts>>
  BY DEF Copy, Step
<1>2. Writing(t) /\ job[t].fd \in DOMAIN inode /\ job[t].fd # 0 /\ job[t].digest \in Digests
  BY <1>1 DEF OwnDigest, Writing, TypeOK
<1>3. /\ inode' \in Seq(Bytes) /\ DOMAIN inode' = DOMAIN inode
      /\ \A j \in DOMAIN inode : inode'[j] = IF j = job[t].fd THEN d ELSE inode[j]
  BY <1>1, <1>2, CopyInode
<1>4. TypeOK'
  BY <1>1, <1>3 DEF TypeOK, Bytes
<1>5. pc'[t] = "check" /\ \A s \in Threads : s # t => pc'[s] = pc[s]
  BY <1>1 DEF TypeOK
<1>6. OneUser'
  BY <1>1, <1>5 DEF OneUser
<1>7. OwnTmp'
  <2>1. ASSUME NEW s \in Threads, pc'[s] = "replace", job[s].digest \notin shared
        PROVE  inode'[job[s].fd] = inode[job[s].fd]
    <3>1. s # t /\ Writing(s) /\ pc[s] # "idle" /\ job[s].digest \in Digests
      BY <1>5, <2>1 DEF Writing, TypeOK
    <3>2. tmp[Pid[s]][job[s].digest] = job[s].fd /\ job[s].fd \in DOMAIN inode
      BY <2>1, <3>1 DEF OwnTmp, OwnDigest, Tmp
    <3>3. job[s].fd # job[t].fd
      BY <1>1, <1>2, <2>1, <3>1, <3>2, Apart DEF OwnDigest
    <3> QED
      BY <1>3, <3>2, <3>3
  <2> QED
    BY <1>1, <1>2, <1>5, <2>1 DEF OwnTmp, Writing, Tmp, Genuine
<1>8. OwnDigest' /\ OneName'
  BY <1>1, <1>2, <1>3, <1>5 DEF OwnDigest, OneName, Writing
<1>9. \A e \in Digests \ shared : final[e] # job[t].fd
  BY <1>2 DEF OwnDigest, OwnTmp, OneName, Tmp
<1>10. UnsharedBlobsVerify'
  BY <1>1, <1>3, <1>9 DEF TypeOK, OneName, UnsharedBlobsVerify, Stored
<1> QED
  BY <1>4, <1>6, <1>7, <1>8, <1>10

\* What is renamed into place under an unshared digest was checked, and nobody
\* has touched it since.
LEMMA ReplaceInv ==
    ASSUME Inv, NEW t \in Threads, Replace(t)
    PROVE  Inv'
<1> USE PidAssumption DEF Inv
<1>1. /\ pc[t] = "replace" /\ pc' = [pc EXCEPT ![t] = "idle"]
      /\ UNCHANGED <<inode, job, shared, puts>>
      /\ final' = [final EXCEPT ![job[t].digest] = Tmp(t)]
      /\ tmp' = [tmp EXCEPT ![Pid[t]][job[t].digest] = 0] /\ Tmp(t) # 0
  BY DEF Replace, Step
<1>2. Pid[t] \in Pids /\ job[t].digest \in Digests /\ Tmp(t) = tmp[Pid[t]][job[t].digest]
  BY DEF TypeOK, Tmp
<1>3. Tmp(t) \in DOMAIN inode /\ Tmp(t) \in Nat
  BY <1>1, <1>2 DEF OneName, TypeOK
<1>4. TypeOK'
  BY <1>1, <1>3 DEF TypeOK
<1>5. \A p \in Pids, d \in Digests : tmp'[p][d] = IF p = Pid[t] /\ d = job[t].digest THEN 0 ELSE tmp[p][d]
  BY <1>1 DEF TypeOK
<1>6. \A d \in Digests : final'[d] = IF d = job[t].digest THEN Tmp(t) ELSE final[d]
  BY <1>1 DEF TypeOK
<1>7. OneUser' /\ OwnTmp'
  BY <1>1, EndInv
<1>8. OwnDigest'
  <2>1. \A s \in Threads : Writing(s)' => Writing(s)
    BY <1>1 DEF Writing, TypeOK
  <2>2. 0 \notin DOMAIN inode
    BY DEF TypeOK
  <2> QED
    BY <1>1, <1>2, <1>5, <1>6, <2>1, <2>2 DEF OwnDigest
<1>9. OneName'
  <2>1. inode' = inode
    BY <1>1
  <2>2. \A p \in Pids, d \in Digests : tmp'[p][d] \in {0} \cup DOMAIN inode'
    BY <1>5, <2>1 DEF OneName
  <2>3. \A d \in Digests : final'[d] \in {0} \cup DOMAIN inode'
    BY <1>3, <1>6, <2>1 DEF OneName
  <2>4. \A p, q \in Pids, d, e \in Digests :
           tmp'[p][d] # 0 /\ tmp'[p][d] = tmp'[q][e] => p = q /\ d = e
    BY <1>5 DEF OneName
  <2>5. \A p \in Pids, d, e \in Digests : tmp'[p][d] # 0 => tmp'[p][d] # final'[e]
    BY <1>2, <1>5, <1>6 DEF OneName
  <2> QED
    BY <2>2, <2>3, <2>4, <2>5 DEF OneName
<1>10. job[t].digest \notin shared => inode[Tmp(t)] = job[t].digest
  BY <1>1 DEF OwnTmp, Writing, Genuine
<1>11. UnsharedBlobsVerify'
  BY <1>1, <1>6, <1>10 DEF TypeOK, UnsharedBlobsVerify, Stored
<1> QED
  BY <1>4, <1>7, <1>8, <1>9, <1>11

\* The invariant is preserved by every step of every process.
LEMMA NextInv ==
    ASSUME Inv, [Next]_vars
    PROVE  Inv'
<1>1. CASE UNCHANGED vars
  BY <1>1 DEF vars, Inv, TypeOK, OneUser, OwnTmp, OwnDigest, OneName, UnsharedBlobsVerify, Stored,
              Writing, Tmp, Genuine
<1>2. ASSUME NEW t \in Threads, CheckPasses(t)
      PROVE  Inv'
  <2>1. TypeOK'
    BY <1>2 DEF Inv, TypeOK, CheckPasses, Step
  <2>2. OneUser' /\ OwnDigest'
    BY <1>2 DEF Inv, TypeOK, OneUser, OwnDigest, Writing, CheckPasses, Step
  <2>3. OwnTmp'
    BY <1>2 DEF Inv, TypeOK, OwnTmp, Writing, CheckPasses, Step, Tmp, Genuine
  <2>4. OneName' /\ UnsharedBlobsVerify'
    BY <1>2 DEF Inv, OneName, UnsharedBlobsVerify, Stored, CheckPasses
  <2> QED
    BY <2>1, <2>2, <2>3, <2>4 DEF Inv
<1>3. ASSUME NEW t \in Threads, OpenFails(t) \/ CopyFails(t) \/ CheckFails(t) \/ ReplaceFails(t)
      PROVE  Inv'
  BY <1>3, FailInv DEF OpenFails, CopyFails, CheckFails, ReplaceFails
<1>4. ASSUME NEW p \in Pids, Crash(p)
      PROVE  Inv'
  <2>1. /\ \A s \in Threads : pc'[s] \in {"idle", pc[s]}
        /\ UNCHANGED <<inode, tmp, final, job, shared, puts>>
    BY <1>4 DEF Crash
  <2>2. TypeOK'
    BY <1>4 DEF Inv, TypeOK, Crash
  <2>3. OneUser' /\ OwnDigest' /\ OwnTmp'
    BY <2>1 DEF Inv, OneUser, OwnDigest, OwnTmp, Writing, Tmp, Genuine
  <2>4. OneName' /\ UnsharedBlobsVerify'
    BY <2>1 DEF Inv, OneName, UnsharedBlobsVerify, Stored
  <2> QED
    BY <2>2, <2>3, <2>4 DEF Inv
<1> QED
  BY <1>1, <1>2, <1>3, <1>4, BeginInv, CreateInv, CopyInv, ReplaceInv DEF Next, put

\* The inductive invariant: a thread owns the temporary file of an unshared
\* digest from creation to renaming, a thread writes to no file but under its
\* own digest, an inode has one name, and unshared blobs are genuine.
THEOREM Invariance == Spec => []Inv
<1>1. Init => Inv
  BY InitInv
<1>2. Inv /\ [Next]_vars => Inv'
  BY NextInv
<1> QED
  BY <1>1, <1>2, PTL DEF Spec

\* put() stores nothing but bytes that hash to the digest, whatever sources
\* change, copies fail and processes die, for any number of processes and
\* threads, under every digest that no two calls with one process id have put
\* at the same time.
THEOREM UnsharedBlobsAlwaysVerify == Spec => []UnsharedBlobsVerify
<1>1. Inv => UnsharedBlobsVerify
  BY DEF Inv
<1> QED
  BY <1>1, Invariance, PTL

\* LocalBlobStore.put() refines the atomic put of the BlobStore contract, but
\* that it does not answer for the bytes of the shared digests.
THEOREM ContractImplemented == Spec => StoreContract
<1> DEFINE readable == {d \in Stored : inode[final[d]] = d \/ d \in shared}
<1>1. Init => readable = {}
  BY DEF Init, Stored
<1>2. ASSUME Inv, Inv', [Next]_vars
      PROVE  (\E d \in Digests : readable' = readable \cup {d}) \/ readable' = readable
  <2>1. readable = Stored /\ readable' = Stored'
    BY <1>2 DEF Inv, UnsharedBlobsVerify
  <2>2. ASSUME NEW t \in Threads, Replace(t)
        PROVE  job[t].digest \in Digests /\ Stored' = Stored \cup {job[t].digest}
    <3>1. job[t].digest \in Digests /\ final \in [Digests -> Nat] /\ Tmp(t) # 0
      BY <1>2, <2>2 DEF Inv, TypeOK, Replace
    <3> QED
      BY <2>2, <3>1 DEF Replace, Stored
  <2>3. CASE \E t \in Threads : Replace(t)
    BY <2>1, <2>2, <2>3
  <2>4. CASE ~\E t \in Threads : Replace(t)
    <3>1. UNCHANGED final
      BY <1>2, <2>4 DEF Next, put, vars, Begin, Copy, OpenFails, Create, CopyFails, CheckPasses,
            CheckFails, ReplaceFails, Fail, Crash
    <3> QED
      BY <2>1, <3>1 DEF Stored
  <2> QED
    BY <2>3, <2>4
<1>3. Init => B!Init
  BY <1>1 DEF B!Init
<1>4. Inv /\ Inv' /\ [Next]_vars => [B!Next]_readable
  BY <1>2 DEF B!Next, B!Put
<1> QED
  BY <1>3, <1>4, Invariance, PTL DEF Spec, StoreContract, B!Spec

-----------------------------------------------------------------------------
(* The local registry: the records and the digest index.                   *)

\* The documentation asks for one process that registers.
OneRegistrar == \A v, w \in Registrars : v = w

Index == [RegistryDigests -> Names \cup {None}]
RegistryPcs == {"idle", "truncateRecord", "fillRecord", "readIndex", "truncateIndex", "fillIndex",
                "append"}
Registering == RegistryPcs \ {"idle", "append"}

RegistryTypeOK ==
    /\ record \in [Names -> RegistryDigests \cup {None, Torn}]
    /\ index \in Index /\ indexTorn \in BOOLEAN
    /\ registryPc \in [Writers -> RegistryPcs]
    /\ registryJob = [w \in Writers |-> registryJob[w]]
    /\ acked \subseteq Names \X RegistryDigests /\ answers \subseteq RegistryDigests \X Names

\* An index points to records of the digest.
Resolves(i) == \A d \in RegistryDigests : i[d] # None => i[d] \in Names /\ record[i[d]] = d

\* An index that agrees with every answer given and has every digest that
\* was acknowledged.
Remembers(i) ==
    /\ \A a \in answers : i[a[1]] = a[2]
    /\ \A r \in acked : i[r[2]] # None

\* The index on disk is such an index, or is torn and empty.
IndexIsTrue ==
    IF indexTorn THEN index = Registry!NoIndex ELSE Resolves(index) /\ Remembers(index)

\* Where a registration stands.
Registers(w) ==
    LET at == registryPc[w]
        j == registryJob[w]
    IN  at \in Registering =>
        /\ j = [name |-> j.name, digest |-> j.digest, index |-> j.index, entry |-> j.entry]
        /\ w \in Registrars /\ j.name \in Names /\ j.digest \in RegistryDigests
        /\ at = "truncateRecord" => record[j.name] = None
        /\ at = "fillRecord" => record[j.name] = Torn
        /\ at \in {"readIndex", "truncateIndex", "fillIndex"} => record[j.name] = j.digest
        /\ at \in {"truncateIndex", "fillIndex"} =>
            /\ j.index \in Index /\ Resolves(j.index) /\ Remembers(j.index)
            /\ j.index[j.digest] = j.name
        /\ at = "truncateIndex" =>
            ~indexTorn /\ \A d \in RegistryDigests : index[d] # None => j.index[d] = index[d]
        /\ at = "fillIndex" => indexTorn

RegistryInv ==
    /\ RegistryTypeOK /\ IndexIsTrue /\ DigestNeverRepointed
    /\ \A w \in Writers : Registers(w)

\* What lookups can have found after a step.
LEMMA ObserveOk ==
    ASSUME RegistryInv, Registry!Observe, index' \in Index,
           indexTorn' => index' = Registry!NoIndex,
           ~indexTorn' => \A a \in answers : index'[a[1]] = a[2]
    PROVE  /\ answers' \subseteq RegistryDigests \X Names
           /\ \A a \in answers' : a \in answers \/ (~indexTorn' /\ index'[a[1]] = a[2])
           /\ DigestNeverRepointed'
<1>1. ASSUME NEW a \in answers', a \notin answers
      PROVE  a \in RegistryDigests \X Names /\ ~indexTorn' /\ index'[a[1]] = a[2]
  <2>1. PICK d \in RegistryDigests, n \in Names : a = <<d, n>> /\ index'[d] = n
    BY <1>1 DEF Registry!Observe, Registry!get_by_digest
  <2>2. ~indexTorn'
    BY <2>1, MarkersAssumption DEF Registry!NoIndex
  <2> QED
    BY <2>1, <2>2
<1>2. answers \subseteq RegistryDigests \X Names /\ answers \subseteq answers'
  BY DEF RegistryInv, RegistryTypeOK, Registry!Observe
<1>3. DigestNeverRepointed'
  <2>1. SUFFICES ASSUME NEW a \in answers', NEW b \in answers', a[1] = b[1]
                 PROVE  a[2] = b[2]
    BY DEF DigestNeverRepointed, Registry!DigestNeverRepointed
  <2>2. CASE a \in answers /\ b \in answers
    BY <2>1, <2>2 DEF RegistryInv, DigestNeverRepointed, Registry!DigestNeverRepointed
  <2>3. CASE a \notin answers \/ b \notin answers
    <3>1. ~indexTorn'
      BY <1>1, <2>3
    <3>2. index'[a[1]] = a[2] /\ index'[b[1]] = b[2]
      BY <1>1, <3>1
    <3> QED
      BY <2>1, <3>2
  <2> QED
    BY <2>2, <2>3
<1> QED
  BY <1>1, <1>2, <1>3

\* A step that leaves records, index and acknowledgements alone.
LEMMA QuietStep ==
    ASSUME RegistryInv, NEW w \in Writers, NEW to \in RegistryPcs, NEW j,
           registryPc' = [registryPc EXCEPT ![w] = to],
           registryJob' = [registryJob EXCEPT ![w] = j],
           UNCHANGED <<record, index, indexTorn, acked>>, Registry!Observe,
           IndexIsTrue' /\ RegistryTypeOK' => Registers(w)'
    PROVE  RegistryInv'
<1>1. /\ answers' \subseteq RegistryDigests \X Names /\ DigestNeverRepointed'
      /\ \A a \in answers' : a \in answers \/ (~indexTorn' /\ index'[a[1]] = a[2])
  BY ObserveOk DEF RegistryInv, RegistryTypeOK, IndexIsTrue, Remembers
<1>2. RegistryTypeOK'
  BY <1>1 DEF RegistryInv, RegistryTypeOK
<1>3. IndexIsTrue'
  BY <1>1 DEF RegistryInv, IndexIsTrue, Resolves, Remembers
<1>4. ASSUME NEW o \in Writers, o # w
      PROVE  Registers(o)'
  <2>1. registryPc'[o] = registryPc[o] /\ registryJob'[o] = registryJob[o] /\ Registers(o)
    BY <1>4 DEF RegistryInv, RegistryTypeOK
  <2>2. ASSUME registryPc[o] \in {"truncateIndex", "fillIndex"}
        PROVE  Resolves(registryJob[o].index)' /\ Remembers(registryJob[o].index)'
    <3>1. PICK i : i = registryJob[o].index
      OBVIOUS
    <3>2. /\ i \in Index /\ Resolves(i) /\ Remembers(i)
          /\ indexTorn \/ \A d \in RegistryDigests : index[d] # None => i[d] = index[d]
      BY <2>1, <2>2, <3>1 DEF Registers, Registering, RegistryPcs
    <3>3. \A a \in answers' : i[a[1]] = a[2]
      <4>1. ASSUME NEW a \in answers', a \notin answers
            PROVE  i[a[1]] = a[2]
        <5>1. ~indexTorn /\ index[a[1]] = a[2] /\ a[1] \in RegistryDigests /\ a[2] \in Names
          BY <1>1, <4>1
        <5> QED
          BY <3>2, <5>1, MarkersAssumption
      <4> QED
        BY <3>2, <4>1 DEF Remembers
    <3>4. i = registryJob'[o].index
      BY <2>1, <3>1
    <3> QED
      BY <3>2, <3>3, <3>4 DEF Resolves, Remembers
  <2> QED
    BY <2>1, <2>2 DEF Registers
<1>5. \A o \in Writers : Registers(o)'
  BY <1>2, <1>3, <1>4
<1> QED
  BY <1>1, <1>2, <1>3, <1>5 DEF RegistryInv

\* A step of the one process that registers.
LEMMA RegistrarStep ==
    ASSUME RegistryInv, OneRegistrar, NEW w \in Writers, w \in Registrars,
           NEW to \in RegistryPcs, registryPc' = [registryPc EXCEPT ![w] = to],
           registryJob' = registryJob, Registry!Observe,
           record' \in [Names -> RegistryDigests \cup {None, Torn}],
           index' \in Index, indexTorn' \in BOOLEAN, acked' \subseteq Names \X RegistryDigests,
           indexTorn' => index' = Registry!NoIndex,
           ~indexTorn' => /\ Resolves(index)' /\ \A r \in acked' : index'[r[2]] # None
                          /\ \A a \in answers : index'[a[1]] = a[2],
           (\A a \in answers' : a \in answers \/ (~indexTorn' /\ index'[a[1]] = a[2]))
                => Registers(w)'
    PROVE  RegistryInv'
<1>1. /\ answers' \subseteq RegistryDigests \X Names /\ DigestNeverRepointed'
      /\ \A a \in answers' : a \in answers \/ (~indexTorn' /\ index'[a[1]] = a[2])
  BY ObserveOk
<1>2. RegistryTypeOK'
  BY <1>1 DEF RegistryInv, RegistryTypeOK
<1>3. IndexIsTrue'
  BY <1>1 DEF IndexIsTrue, Remembers
<1>4. ASSUME NEW o \in Writers
      PROVE  Registers(o)'
  <2>1. CASE o # w
    <3>1. registryPc'[o] = registryPc[o] /\ Registers(o)
      BY <2>1 DEF RegistryInv, RegistryTypeOK
    <3>2. o \notin Registrars
      BY <2>1 DEF OneRegistrar
    <3>3. registryPc'[o] \notin Registering
      BY <3>1, <3>2 DEF Registers
    <3> QED
      BY <3>3 DEF Registers
  <2>2. CASE o = w
    BY <1>1, <2>2
  <2> QED
    BY <2>1, <2>2
<1> QED
  BY <1>1, <1>2, <1>3, <1>4 DEF RegistryInv

\* A call ends, or an event is begun: whatever it was about, it no longer registers.
LEMMA NotRegisteringInv ==
    ASSUME RegistryInv, NEW w \in Writers, NEW to \in {"idle", "append"}, NEW j,
           registryPc' = [registryPc EXCEPT ![w] = to],
           registryJob' = [registryJob EXCEPT ![w] = j],
           UNCHANGED <<record, index, indexTorn, acked>>, Registry!Observe
    PROVE  RegistryInv'
<1>1. registryPc'[w] = to
  BY DEF RegistryInv, RegistryTypeOK
<1>2. Registers(w)'
  BY <1>1 DEF Registers, Registering
<1> QED
  BY <1>2, QuietStep DEF RegistryPcs

LEMMA SameJob ==
    ASSUME RegistryInv, NEW w \in Writers
    PROVE  registryJob = [registryJob EXCEPT ![w] = registryJob[w]]
BY DEF RegistryInv, RegistryTypeOK

LEMMA EventStepInv ==
    ASSUME RegistryInv, NEW w \in Writers, Registry!Observe,
           \/ \E n \in Names, a \in Registry!Actions : Registry!EventBegin(w, n, a)
           \/ Registry!AppendEvent(w) \/ Registry!AppendFails(w) \/ Registry!IndexUnreadable(w)
           \/ Registry!Crash(w)
    PROVE  RegistryInv'
<1>1. UNCHANGED <<record, index, indexTorn, acked>>
  BY DEF Registry!EventBegin, Registry!AppendEvent, Registry!AppendFails,
         Registry!IndexUnreadable, Registry!Crash, Registry!files
<1>2. CASE \E n \in Names, a \in Registry!Actions : Registry!EventBegin(w, n, a)
  <2>1. PICK n \in Names, a \in Registry!Actions : Registry!EventBegin(w, n, a)
    BY <1>2
  <2>2. PICK j : registryJob' = [registryJob EXCEPT ![w] = j]
    BY <2>1 DEF Registry!EventBegin
  <2>3. registryPc' = [registryPc EXCEPT ![w] = "append"]
    BY <2>1 DEF Registry!EventBegin, Registry!Step
  <2> QED
    BY <1>1, <2>2, <2>3, NotRegisteringInv
<1>3. CASE \/ Registry!AppendEvent(w) \/ Registry!AppendFails(w)
           \/ Registry!IndexUnreadable(w) \/ Registry!Crash(w)
  <2>1. registryPc' = [registryPc EXCEPT ![w] = "idle"] /\ registryJob' = registryJob
    BY <1>3 DEF Registry!AppendEvent, Registry!AppendFails, Registry!IndexUnreadable,
                Registry!Crash, Registry!Step
  <2> QED
    BY <1>1, <2>1, SameJob, NotRegisteringInv
<1> QED
  BY <1>2, <1>3

LEMMA RegisterBeginInv ==
    ASSUME RegistryInv, NEW w \in Writers, NEW n \in Names, NEW d \in RegistryDigests,
           Registry!RegisterBegin(w, n, d), Registry!Observe
    PROVE  RegistryInv'
<1> DEFINE j == [Registry!NoJob EXCEPT !.name = n, !.digest = d]
<1>1. j = [name |-> n, digest |-> d, index |-> Registry!NoIndex, entry |-> None]
  <2>1. PICK i : i = Registry!NoIndex
    OBVIOUS
  <2>2. Registry!NoJob = [name |-> None, digest |-> None, index |-> i, entry |-> None]
    BY <2>1 DEF Registry!NoJob
  <2>3. PICK k : k = [Registry!NoJob EXCEPT !.name = n]
    OBVIOUS
  <2>4. k = [name |-> n, digest |-> None, index |-> i, entry |-> None]
    BY <2>2, <2>3
  <2>5. j = [k EXCEPT !.digest = d]
    BY <2>3
  <2>6. j = [name |-> n, digest |-> d, index |-> i, entry |-> None]
    BY <2>4, <2>5
  <2> QED
    BY <2>1, <2>6
<1>2. /\ registryPc' = [registryPc EXCEPT ![w] = "truncateRecord"]
      /\ registryJob' = [registryJob EXCEPT ![w] = j]
      /\ w \in Registrars /\ record[n] = None
      /\ UNCHANGED <<record, index, indexTorn, acked>>
  BY DEF Registry!RegisterBegin, Registry!Step, Registry!files
<1> HIDE DEF j
<1>3. /\ j = [name |-> j.name, digest |-> j.digest, index |-> j.index, entry |-> j.entry]
      /\ j.name = n /\ j.digest = d
  BY <1>1
<1>4. registryPc'[w] = "truncateRecord" /\ registryJob'[w] = j
  BY <1>2 DEF RegistryInv, RegistryTypeOK
<1>5. Registers(w)'
  BY <1>2, <1>3, <1>4 DEF Registers
<1> QED
  BY <1>2, <1>5, QuietStep DEF RegistryPcs

\* The file of a name that is not taken is written, in two steps.
LEMMA WriteRecordInv ==
    ASSUME RegistryInv, OneRegistrar, NEW w \in Writers,
           Registry!TruncateRecord(w) \/ Registry!FillRecord(w), Registry!Observe
    PROVE  RegistryInv'
<1>1. PICK n, d : n = registryJob[w].name /\ d = registryJob[w].digest
  OBVIOUS
<1>2. UNCHANGED <<index, indexTorn, acked>> /\ registryJob' = registryJob
  BY DEF Registry!TruncateRecord, Registry!FillRecord
<1>3. PICK to \in {"fillRecord", "readIndex"} :
        /\ registryPc' = [registryPc EXCEPT ![w] = to]
        /\ to = "fillRecord" =>
            registryPc[w] = "truncateRecord" /\ record' = [record EXCEPT ![n] = Torn]
        /\ to = "readIndex" =>
            registryPc[w] = "fillRecord" /\ record' = [record EXCEPT ![n] = d]
  BY <1>1 DEF Registry!TruncateRecord, Registry!FillRecord, Registry!Step
<1>4. registryPc[w] \in Registering
  BY <1>3 DEF Registering, RegistryPcs
<1>5. /\ w \in Registrars /\ n \in Names /\ d \in RegistryDigests
      /\ to = "fillRecord" => record[n] = None
      /\ to = "readIndex" => record[n] = Torn
      /\ registryJob[w] = [name |-> n, digest |-> d, index |-> registryJob[w].index,
                           entry |-> registryJob[w].entry]
  BY <1>1, <1>3, <1>4 DEF RegistryInv, Registers
<1>6. /\ record' \in [Names -> RegistryDigests \cup {None, Torn}]
      /\ \A m \in Names \ {n} : record'[m] = record[m]
      /\ record[n] \notin RegistryDigests
  BY <1>3, <1>5, MarkersAssumption DEF RegistryInv, RegistryTypeOK
<1>7. ~indexTorn' => Resolves(index)' /\ Remembers(index)
  BY <1>2, <1>5, <1>6 DEF RegistryInv, IndexIsTrue, Resolves
<1>8. registryPc'[w] = to /\ registryJob'[w] = registryJob[w]
  BY <1>2, <1>3 DEF RegistryInv, RegistryTypeOK
<1>9. record'[n] = IF to = "fillRecord" THEN Torn ELSE d
  BY <1>3, <1>5 DEF RegistryInv, RegistryTypeOK
<1>10. Registers(w)'
  BY <1>1, <1>5, <1>8, <1>9 DEF Registers
<1>11. /\ indexTorn' => index' = Registry!NoIndex
       /\ ~indexTorn' => /\ Resolves(index)' /\ \A r \in acked' : index'[r[2]] # None
                         /\ \A a \in answers : index'[a[1]] = a[2]
       /\ index' \in Index /\ indexTorn' \in BOOLEAN /\ acked' \subseteq Names \X RegistryDigests
  BY <1>2, <1>7 DEF RegistryInv, RegistryTypeOK, IndexIsTrue, Remembers
<1> QED
  BY <1>2, <1>3, <1>5, <1>6, <1>10, <1>11, RegistrarStep DEF RegistryPcs

\* An indexed digest is acknowledged as it is.
LEMMA AlreadyIndexedInv ==
    ASSUME RegistryInv, OneRegistrar, NEW w \in Writers, Registry!AlreadyIndexed(w), Registry!Observe
    PROVE  RegistryInv'
<1>1. PICK n, d : n = registryJob[w].name /\ d = registryJob[w].digest
  OBVIOUS
<1>2. /\ registryPc[w] = "readIndex" /\ registryPc' = [registryPc EXCEPT ![w] = "idle"]
      /\ ~indexTorn /\ index[d] # None /\ acked' = acked \cup {<<n, d>>}
      /\ UNCHANGED <<record, index, indexTorn>> /\ registryJob' = registryJob
  BY <1>1 DEF Registry!AlreadyIndexed, Registry!Step, Registry!Ack, Registry!files
<1>3. w \in Registrars /\ n \in Names /\ d \in RegistryDigests
  BY <1>1, <1>2 DEF RegistryInv, Registers, Registering, RegistryPcs
<1>4. registryPc'[w] = "idle"
  BY <1>2 DEF RegistryInv, RegistryTypeOK
<1>5. Registers(w)'
  BY <1>4 DEF Registers, Registering
<1>6. /\ Resolves(index)' /\ \A r \in acked' : index'[r[2]] # None
      /\ \A a \in answers : index'[a[1]] = a[2]
  BY <1>2 DEF RegistryInv, IndexIsTrue, Resolves, Remembers
<1>7. /\ record' \in [Names -> RegistryDigests \cup {None, Torn}]
      /\ index' \in Index /\ indexTorn' \in BOOLEAN /\ acked' \subseteq Names \X RegistryDigests
  BY <1>2, <1>3 DEF RegistryInv, RegistryTypeOK
<1> QED
  BY <1>2, <1>3, <1>5, <1>6, <1>7, RegistrarStep DEF RegistryPcs

\* The new index is the one on disk with one digest more.
LEMMA ReadIndexInv ==
    ASSUME RegistryInv, NEW w \in Writers, Registry!ReadIndex(w), Registry!Observe
    PROVE  RegistryInv'
<1>1. PICK n, d : n = registryJob[w].name /\ d = registryJob[w].digest
  OBVIOUS
<1>2. PICK i : i = [index EXCEPT ![d] = n]
  OBVIOUS
<1> DEFINE j == [registryJob[w] EXCEPT !.index = i]
<1>3. /\ registryPc[w] = "readIndex" /\ registryPc' = [registryPc EXCEPT ![w] = "truncateIndex"]
      /\ ~indexTorn /\ index[d] = None
      /\ registryJob' = [registryJob EXCEPT ![w] = j]
      /\ UNCHANGED <<record, index, indexTorn, acked>>
  BY <1>1, <1>2 DEF Registry!ReadIndex, Registry!Step, Registry!files
<1>4. /\ w \in Registrars /\ n \in Names /\ d \in RegistryDigests /\ record[n] = d
      /\ registryJob[w] = [name |-> n, digest |-> d, index |-> registryJob[w].index,
                           entry |-> registryJob[w].entry]
  BY <1>1, <1>3 DEF RegistryInv, Registers, Registering, RegistryPcs
<1>5. /\ j = [name |-> j.name, digest |-> j.digest, index |-> j.index, entry |-> j.entry]
      /\ j.name = n /\ j.digest = d /\ j.index = i
  BY <1>4
<1> HIDE DEF j
<1>6. /\ i \in Index /\ i[d] = n
      /\ \A e \in RegistryDigests \ {d} : i[e] = index[e]
  BY <1>2, <1>4 DEF RegistryInv, RegistryTypeOK, Index
<1>7. Resolves(i)'
  BY <1>3, <1>4, <1>6 DEF RegistryInv, IndexIsTrue, Resolves
<1>8. \A e \in RegistryDigests : index[e] # None => i[e] = index[e]
  BY <1>3, <1>6
<1>9. IndexIsTrue' /\ RegistryTypeOK' => Remembers(i)'
  <2> SUFFICES ASSUME IndexIsTrue', RegistryTypeOK'
               PROVE  Remembers(i)'
    OBVIOUS
  <2>1. Remembers(index)'
    BY <1>3 DEF IndexIsTrue
  <2>2. ASSUME NEW a \in answers'
        PROVE  i[a[1]] = a[2]
    <3>1. a[1] \in RegistryDigests /\ a[2] \in Names
      BY DEF RegistryTypeOK
    <3>2. index[a[1]] = a[2]
      BY <1>3, <2>1 DEF Remembers
    <3> QED
      BY <1>8, <3>1, <3>2, MarkersAssumption
  <2>3. ASSUME NEW r \in acked'
        PROVE  i[r[2]] # None
    <3>1. r[2] \in RegistryDigests
      BY DEF RegistryTypeOK
    <3>2. index[r[2]] # None
      BY <1>3, <2>1 DEF Remembers
    <3> QED
      BY <1>8, <3>1, <3>2
  <2> QED
    BY <2>2, <2>3 DEF Remembers
<1>10. registryPc'[w] = "truncateIndex" /\ registryJob'[w] = j
  BY <1>3 DEF RegistryInv, RegistryTypeOK
<1>11. IndexIsTrue' /\ RegistryTypeOK' => Registers(w)'
  <2>1. Resolves(registryJob[w].index)'
    BY <1>5, <1>7, <1>10 DEF Resolves
  <2>2. Remembers(i)' => Remembers(registryJob[w].index)'
    BY <1>5, <1>10 DEF Remembers
  <2> QED
    BY <1>3, <1>4, <1>5, <1>6, <1>8, <1>9, <1>10, <2>1, <2>2 DEF Registers
<1> QED
  BY <1>3, <1>11, QuietStep DEF RegistryPcs

LEMMA TruncateIndexInv ==
    ASSUME RegistryInv, OneRegistrar, NEW w \in Writers, Registry!TruncateIndex(w), Registry!Observe
    PROVE  RegistryInv'
<1>1. PICK j : j = registryJob[w]
  OBVIOUS
<1>2. /\ registryPc[w] = "truncateIndex" /\ registryPc' = [registryPc EXCEPT ![w] = "fillIndex"]
      /\ indexTorn' = TRUE /\ index' = Registry!NoIndex
      /\ UNCHANGED <<record, acked>> /\ registryJob' = registryJob
  BY DEF Registry!TruncateIndex, Registry!Step
<1>3. /\ w \in Registrars /\ j.name \in Names /\ j.digest \in RegistryDigests
      /\ record[j.name] = j.digest /\ j.index \in Index /\ Resolves(j.index) /\ Remembers(j.index)
      /\ j.index[j.digest] = j.name
      /\ j = [name |-> j.name, digest |-> j.digest, index |-> j.index, entry |-> j.entry]
  BY <1>1, <1>2 DEF RegistryInv, Registers, Registering, RegistryPcs
<1>4. registryPc'[w] = "fillIndex" /\ registryJob'[w] = j
  BY <1>1, <1>2 DEF RegistryInv, RegistryTypeOK
<1>5. ASSUME \A a \in answers' : a \in answers \/ (~indexTorn' /\ index'[a[1]] = a[2])
      PROVE  Registers(w)'
  <2>1. Resolves(registryJob[w].index)' /\ Remembers(registryJob[w].index)'
    BY <1>2, <1>3, <1>4, <1>5 DEF Resolves, Remembers
  <2> QED
    BY <1>2, <1>3, <1>4, <2>1 DEF Registers
<1>6. /\ record' \in [Names -> RegistryDigests \cup {None, Torn}]
      /\ index' \in Index /\ acked' \subseteq Names \X RegistryDigests
  BY <1>2 DEF RegistryInv, RegistryTypeOK, Index, Registry!NoIndex
<1> QED
  BY <1>2, <1>3, <1>5, <1>6, RegistrarStep DEF RegistryPcs

LEMMA FillIndexInv ==
    ASSUME RegistryInv, OneRegistrar, NEW w \in Writers, Registry!FillIndex(w), Registry!Observe
    PROVE  RegistryInv'
<1>1. PICK j : j = registryJob[w]
  OBVIOUS
<1>2. /\ registryPc[w] = "fillIndex" /\ registryPc' = [registryPc EXCEPT ![w] = "idle"]
      /\ indexTorn' = FALSE /\ index' = j.index /\ acked' = acked \cup {<<j.name, j.digest>>}
      /\ record' = record /\ registryJob' = registryJob
  BY <1>1 DEF Registry!FillIndex, Registry!Step, Registry!Ack
<1>3. /\ w \in Registrars /\ j.name \in Names /\ j.digest \in RegistryDigests
      /\ j.index \in Index /\ Resolves(j.index) /\ Remembers(j.index)
      /\ j.index[j.digest] = j.name
  BY <1>1, <1>2 DEF RegistryInv, Registers, Registering, RegistryPcs
<1>4. registryPc'[w] = "idle"
  BY <1>2 DEF RegistryInv, RegistryTypeOK
<1>5. Registers(w)'
  BY <1>4 DEF Registers, Registering
<1>6. /\ Resolves(index)' /\ \A r \in acked' : index'[r[2]] # None
      /\ \A a \in answers : index'[a[1]] = a[2]
  BY <1>2, <1>3, MarkersAssumption DEF Resolves, Remembers
<1>7. /\ record' \in [Names -> RegistryDigests \cup {None, Torn}]
      /\ index' \in Index /\ acked' \subseteq Names \X RegistryDigests
  BY <1>2, <1>3 DEF RegistryInv, RegistryTypeOK
<1> QED
  BY <1>2, <1>3, <1>5, <1>6, <1>7, RegistrarStep DEF RegistryPcs

LEMMA RegistryInitInv ==
    ASSUME Registry!Init
    PROVE  RegistryInv
<1>1. RegistryTypeOK
  BY DEF Registry!Init, RegistryTypeOK, Registry!NoIndex, Index, RegistryPcs
<1>2. IndexIsTrue
  BY DEF Registry!Init, IndexIsTrue, Resolves, Remembers, Registry!NoIndex
<1>3. DigestNeverRepointed /\ \A w \in Writers : Registers(w)
  BY DEF Registry!Init, DigestNeverRepointed, Registry!DigestNeverRepointed, Registers, Registering
<1> QED
  BY <1>1, <1>2, <1>3 DEF RegistryInv

LEMMA RegistryNextInv ==
    ASSUME RegistryInv, OneRegistrar, [Registry!Next]_(Registry!vars)
    PROVE  RegistryInv'
<1>1. CASE UNCHANGED Registry!vars
  <2>1. UNCHANGED <<record, index, indexTorn, registryPc, registryJob, acked, answers>>
    BY <1>1 DEF Registry!vars
  <2>2. RegistryTypeOK' /\ IndexIsTrue' /\ DigestNeverRepointed'
    BY <2>1 DEF RegistryInv, RegistryTypeOK, IndexIsTrue, Resolves, Remembers,
                DigestNeverRepointed, Registry!DigestNeverRepointed
  <2>3. \A w \in Writers : Registers(w)'
    BY <2>1 DEF RegistryInv, Registers, Resolves, Remembers
  <2> QED
    BY <2>2, <2>3 DEF RegistryInv
<1>2. ASSUME NEW w \in Writers, Registry!Observe,
             \/ Registry!EventRefused(w) \/ \E n \in Names : Registry!RegisterDuplicate(w, n)
      PROVE  RegistryInv'
  <2>1. /\ registryPc[w] = "idle" /\ registryPc' = registryPc /\ registryJob' = registryJob
        /\ UNCHANGED <<record, index, indexTorn, acked>>
    BY <1>2 DEF Registry!EventRefused, Registry!RegisterDuplicate, Registry!files
  <2>2. registryPc' = [registryPc EXCEPT ![w] = "idle"]
    BY <2>1 DEF RegistryInv, RegistryTypeOK
  <2> QED
    BY <1>2, <2>1, <2>2, SameJob, NotRegisteringInv
<1>3. ASSUME NEW w \in Writers, Registry!Observe, Registry!Call(w)
      PROVE  RegistryInv'
  BY <1>2, <1>3, RegisterBeginInv, EventStepInv DEF Registry!Call
<1>4. ASSUME NEW w \in Writers, Registry!Observe, Registry!Progress(w)
      PROVE  RegistryInv'
  BY <1>4, WriteRecordInv, AlreadyIndexedInv, ReadIndexInv, TruncateIndexInv, FillIndexInv,
     EventStepInv
  DEF Registry!Progress
<1>5. CASE Registry!Next
  <2>1. PICK w \in Writers : /\ \/ Registry!Call(w) \/ Registry!Progress(w)
                                \/ Registry!AppendFails(w) \/ Registry!Crash(w)
                             /\ Registry!Observe
    BY <1>5 DEF Registry!Next
  <2> QED
    BY <1>3, <1>4, <2>1, EventStepInv
<1> QED
  BY <1>1, <1>5

\* The files of the one process that registers: the index points to records
\* of its digests, before, during and after each of its rewrites.
THEOREM RegistryInvariance ==
    ASSUME OneRegistrar
    PROVE  Registry!Spec => []RegistryInv
<1>1. Registry!Init => RegistryInv
  BY RegistryInitInv
<1>2. RegistryInv /\ [Registry!Next]_(Registry!vars) => RegistryInv'
  BY RegistryNextInv
<1> QED
  BY <1>1, <1>2, PTL DEF Registry!Spec

\* register(): once a lookup can find a name under a digest no later lookup
\* finds another, across crashes in the middle of rewriting the index.
THEOREM DigestsAreNeverRepointed ==
    ASSUME OneRegistrar
    PROVE  Registry!Spec => []DigestNeverRepointed
<1>1. RegistryInv => DigestNeverRepointed
  BY DEF RegistryInv
<1> QED
  BY <1>1, RegistryInvariance, PTL

\* A registration that returned is found by its digest, or the lookup raises.
THEOREM RegistrationsResolve ==
    ASSUME OneRegistrar
    PROVE  Registry!Spec => []AckedDigestResolves
<1>1. RegistryInv => AckedDigestResolves
  <2> SUFFICES ASSUME RegistryInv, NEW r \in acked, ~Registry!DigestUnreadable(r[2])
               PROVE  \E n \in Registry!get_by_digest(r[2]) : record[n] = r[2]
    BY DEF AckedDigestResolves, Registry!AckedDigestResolves
  <2>1. ~indexTorn
    BY DEF Registry!DigestUnreadable
  <2>2. r[2] \in RegistryDigests /\ index[r[2]] # None
    BY <2>1 DEF RegistryInv, RegistryTypeOK, IndexIsTrue, Remembers
  <2>3. index[r[2]] \in Names /\ record[index[r[2]]] = r[2]
    BY <2>1, <2>2 DEF RegistryInv, IndexIsTrue, Resolves
  <2> QED
    BY <2>2, <2>3 DEF Registry!get_by_digest, Registry!Registered
<1> QED
  BY <1>1, RegistryInvariance, PTL

-----------------------------------------------------------------------------
(* The local registry: the log of revocations.                             *)

Events == [name : Names, action : {"revoke", "unrevoke"}]
LogEntry == [index : Nat, prev_hash : Seq(Events), record : Events, record_hash : Seq(Events)]
LogLine == [entries : Seq(LogEntry), torn : BOOLEAN, newline : BOOLEAN]

\* The places of a log's text, the events there and their order, as in module
\* LocalRegistry but of any file.
Places(f) == UNION {{i} \X DOMAIN f[i].entries : i \in DOMAIN f}
Event(f, p) == f[p[1]].entries[p[2]].record

LEMMA PlacesOf ==
    ASSUME NEW f, NEW p
    PROVE  p \in Places(f) <=>
            \E i \in DOMAIN f : \E j \in DOMAIN f[i].entries : p = <<i, j>>
BY DEF Places

LEMMA PlaceIn ==
    ASSUME NEW f, NEW p \in Places(f), NEW lines, lines = DOMAIN f
    PROVE  \E i \in lines : \E j \in DOMAIN f[i].entries : p = <<i, j>>
BY DEF Places

\* Every event keeps its place, and an event that is added becomes the newest.
Adds(f, g, es) ==
    /\ \A p \in Places(f) : p \in Places(g) /\ Event(g, p) = Event(f, p)
    /\ Len(es) = 0 => Places(g) = Places(f)
    /\ Len(es) = 1 =>
        \E q \in Places(g) :
            /\ Places(g) = Places(f) \cup {q} /\ Event(g, q) = es[1].record
            /\ \A p \in Places(f) : Registry!Older(p, q) /\ ~Registry!Older(q, p)
            /\ ~Registry!Older(q, q)

\* Text after an unfinished last line.
LEMMA LongerLine ==
    ASSUME NEW f \in Seq(LogLine), NEW es \in Seq(LogEntry), Len(es) <= 1,
           NEW L, L = Len(f), L # 0, NEW old, old = f[L].entries,
           NEW line \in LogLine, line.entries = old \o es,
           NEW g, g = [f EXCEPT ![L] = line]
    PROVE  g \in Seq(LogLine) /\ Adds(f, g, es)
<1>1. L \in Nat /\ DOMAIN f = 1..L /\ L \in 1..L /\ \A i \in 1..L : f[i] \in LogLine
  OBVIOUS
<1>2. old \in Seq(LogEntry)
  BY <1>1 DEF LogLine
<1>3. PICK new : new = old \o es
  OBVIOUS
<1>4. PICK k \in Nat : k = Len(old) /\ DOMAIN old = 1..k
  BY <1>2
<1>5. /\ DOMAIN new = 1..(k + Len(es))
      /\ \A j \in 1..k : new[j] = old[j]
  BY <1>2, <1>3, <1>4
<1>6. /\ g \in Seq(LogLine) /\ DOMAIN g = 1..L /\ g[L].entries = new
      /\ \A i \in 1..L : i # L => g[i] = f[i]
  BY <1>1, <1>3
<1>7. ASSUME NEW p \in Places(f)
      PROVE  p \in Places(g) /\ Event(g, p) = Event(f, p)
  <2>1. PICK i \in 1..L : \E j \in DOMAIN f[i].entries : p = <<i, j>>
    BY <1>1, PlaceIn
  <2>2. PICK j \in DOMAIN f[i].entries : p = <<i, j>>
    BY <2>1
  <2>3. j \in DOMAIN g[i].entries /\ g[i].entries[j] = f[i].entries[j]
    <3>1. CASE i = L
      <4>1. j \in 1..k
        BY <1>4, <2>2, <3>1
      <4>2. j \in DOMAIN new /\ new[j] = old[j]
        BY <1>5, <4>1
      <4> QED
        BY <1>6, <3>1, <4>2
    <3>2. CASE i # L
      BY <1>6, <3>2
    <3> QED
      BY <3>1, <3>2
  <2>4. p \in Places(g)
    BY <1>6, <2>1, <2>2, <2>3, PlacesOf
  <2>5. p[1] = i /\ p[2] = j
    BY <2>2
  <2> QED
    BY <2>3, <2>4, <2>5 DEF Event
<1>8. ASSUME NEW p \in Places(g)
      PROVE  p \in Places(f) \/ (Len(es) = 1 /\ p = <<L, k + 1>>)
  <2>1. PICK i \in 1..L : \E j \in DOMAIN g[i].entries : p = <<i, j>>
    <3>1. \E i \in DOMAIN g : \E j \in DOMAIN g[i].entries : p = <<i, j>>
      <4>1. ASSUME NEW h, p \in Places(h)
            PROVE  \E i \in DOMAIN h : \E j \in DOMAIN h[i].entries : p = <<i, j>>
        BY <4>1 DEF Places
      <4> QED
        BY <4>1
    <3>2. DOMAIN g = 1..L
      BY <1>6
    <3> QED
      BY <3>1, <3>2
  <2>2. PICK j \in DOMAIN g[i].entries : p = <<i, j>>
    BY <2>1
  <2>3. CASE j \in DOMAIN f[i].entries
    BY <1>1, <2>2, <2>3, PlacesOf
  <2>4. CASE j \notin DOMAIN f[i].entries
    <3>1. i = L
      BY <1>6, <2>2, <2>4
    <3>2. j \in 1..(k + Len(es)) /\ j \notin 1..k
      BY <1>4, <1>5, <1>6, <2>2, <2>4, <3>1
    <3>3. PICK m \in Nat : m = Len(es) /\ m <= 1
      <4>1. Len(es) \in Nat
        OBVIOUS
      <4> QED
        BY <4>1
    <3>4. m = 1 /\ j = k + 1
      BY <1>4, <3>2, <3>3
    <3> QED
      BY <2>2, <3>1, <3>3, <3>4
  <2> QED
    BY <2>3, <2>4
<1>9. ASSUME Len(es) = 1
      PROVE  \E q \in Places(g) :
                /\ Places(g) = Places(f) \cup {q} /\ Event(g, q) = es[1].record
                /\ \A p \in Places(f) : Registry!Older(p, q) /\ ~Registry!Older(q, p)
                /\ ~Registry!Older(q, q)
  <2>1. /\ <<L, k + 1>>[1] = L /\ <<L, k + 1>>[2] = k + 1
    OBVIOUS
  <2> DEFINE q == <<L, k + 1>>
  <2>2. k + 1 \in DOMAIN new /\ new[k + 1] = es[1]
    <3>1. k + 1 \in DOMAIN new
      BY <1>4, <1>5, <1>9
    <3>2. 1 \in 1..Len(es)
      BY <1>9
    <3> QED
      BY <1>2, <1>3, <1>4, <3>1, <3>2
  <2>3. q \in Places(g)
    BY <1>1, <1>6, <2>1, <2>2, PlacesOf
  <2>4. Places(g) = Places(f) \cup {q}
    BY <1>7, <1>8, <2>1, <2>3
  <2>5. Event(g, q) = es[1].record
    BY <1>6, <2>1, <2>2 DEF Event
  <2>6. ~Registry!Older(q, q)
    BY <1>1, <2>1 DEF Registry!Older
  <2>7. ASSUME NEW p \in Places(f)
        PROVE  Registry!Older(p, q) /\ ~Registry!Older(q, p)
    <3>1. PICK i \in 1..L : \E j \in DOMAIN f[i].entries : p = <<i, j>>
      BY <1>1, PlaceIn
    <3>2. PICK j \in DOMAIN f[i].entries : p = <<i, j>> /\ p[1] = i /\ p[2] = j
      BY <3>1
    <3>3. CASE i = L
      <4>1. j \in 1..k
        BY <1>4, <3>2, <3>3
      <4> QED
        BY <1>1, <2>1, <3>2, <3>3, <4>1 DEF Registry!Older
    <3>4. CASE i # L
      BY <1>1, <2>1, <3>2, <3>4 DEF Registry!Older
    <3> QED
      BY <3>3, <3>4
  <2> QED
    BY <2>3, <2>4, <2>5, <2>6, <2>7
<1>10. ASSUME Len(es) = 0
       PROVE  Places(g) = Places(f)
  <2>1. \A p \in Places(g) : p \in Places(f)
    BY <1>8, <1>10
  <2> QED
    BY <1>7, <2>1
<1> QED
  BY <1>6, <1>7, <1>9, <1>10 DEF Adds

\* Text on a line of its own.
LEMMA NewLine ==
    ASSUME NEW f \in Seq(LogLine), NEW es \in Seq(LogEntry), Len(es) <= 1,
           NEW line \in LogLine, line.entries = es, NEW g, g = Append(f, line)
    PROVE  g \in Seq(LogLine) /\ Adds(f, g, es)
<1>1. PICK L \in Nat : L = Len(f) /\ DOMAIN f = 1..L
  OBVIOUS
<1>2. /\ g \in Seq(LogLine) /\ DOMAIN g = (1..L) \cup {L + 1} /\ g[L + 1].entries = es
      /\ \A i \in 1..L : g[i] = f[i]
  BY <1>1
<1>3. Len(es) \in Nat /\ DOMAIN es = 1..Len(es)
  OBVIOUS
<1>4. ASSUME NEW p \in Places(f)
      PROVE  /\ p \in Places(g) /\ Event(g, p) = Event(f, p)
             /\ p[1] \in 1..L
  <2>1. PICK i \in 1..L : \E j \in DOMAIN f[i].entries : p = <<i, j>>
    BY <1>1, PlaceIn
  <2>2. PICK j \in DOMAIN f[i].entries : p = <<i, j>> /\ p[1] = i /\ p[2] = j
    BY <2>1
  <2>3. p \in Places(g)
    BY <1>2, <2>2, PlacesOf
  <2> QED
    BY <1>2, <2>2, <2>3 DEF Event
<1>5. ASSUME NEW p \in Places(g), p \notin Places(f)
      PROVE  Len(es) = 1 /\ p = <<L + 1, 1>>
  <2>1. PICK i \in DOMAIN g : \E j \in DOMAIN g[i].entries : p = <<i, j>>
    <3>1. ASSUME NEW h, p \in Places(h)
          PROVE  \E i \in DOMAIN h : \E j \in DOMAIN h[i].entries : p = <<i, j>>
      BY <3>1, PlacesOf
    <3> QED
      BY <1>5, <3>1
  <2>2. PICK j \in DOMAIN g[i].entries : p = <<i, j>>
    BY <2>1
  <2>3. i = L + 1
    BY <1>1, <1>2, <1>5, <2>2, PlacesOf
  <2>4. j \in 1..Len(es)
    BY <1>2, <1>3, <2>2, <2>3
  <2> QED
    BY <1>3, <2>2, <2>3, <2>4
<1>6. ASSUME Len(es) = 1
      PROVE  \E q \in Places(g) :
                /\ Places(g) = Places(f) \cup {q} /\ Event(g, q) = es[1].record
                /\ \A p \in Places(f) : Registry!Older(p, q) /\ ~Registry!Older(q, p)
                /\ ~Registry!Older(q, q)
  <2>1. /\ <<L + 1, 1>>[1] = L + 1 /\ <<L + 1, 1>>[2] = 1
    OBVIOUS
  <2> DEFINE q == <<L + 1, 1>>
  <2>2. q \in Places(g)
    <3>1. L + 1 \in DOMAIN g /\ 1 \in DOMAIN g[L + 1].entries
      BY <1>2, <1>3, <1>6
    <3> QED
      BY <3>1, PlacesOf
  <2>3. Places(g) = Places(f) \cup {q}
    BY <1>4, <1>5, <2>1, <2>2
  <2>4. Event(g, q) = es[1].record
    BY <1>2, <2>1 DEF Event
  <2>5. ~Registry!Older(q, q)
    BY <1>1, <2>1 DEF Registry!Older
  <2>6. \A p \in Places(f) : Registry!Older(p, q) /\ ~Registry!Older(q, p)
    BY <1>1, <1>4, <2>1 DEF Registry!Older
  <2> QED
    BY <2>2, <2>3, <2>4, <2>5, <2>6
<1>7. ASSUME Len(es) = 0
      PROVE  Places(g) = Places(f)
  <2>1. \A p \in Places(g) : p \in Places(f)
    BY <1>5, <1>7
  <2> QED
    BY <1>4, <2>1
<1> QED
  BY <1>2, <1>4, <1>6, <1>7 DEF Adds

\* What open("a").write() adds to the log: nothing, or the newest event.
LEMMA TextIsNewest ==
    ASSUME NEW f \in Seq(LogLine), NEW es \in Seq(LogEntry), Len(es) <= 1,
           NEW torn \in BOOLEAN, NEW newline \in BOOLEAN,
           NEW g, g = Registry!AppendText(f, Registry!Line(es, torn, newline))
    PROVE  g \in Seq(LogLine) /\ Adds(f, g, es)
<1>1. PICK L : L = Len(f)
  OBVIOUS
<1>2. CASE f # << >> /\ ~f[L].newline
  <2>1. L # 0 /\ f[L] \in LogLine
    BY <1>1, <1>2
  <2>2. PICK old : old = f[L].entries /\ old \in Seq(LogEntry)
    BY <2>1 DEF LogLine
  <2>3. PICK b \in BOOLEAN : b = (f[L].torn \/ torn)
    OBVIOUS
  <2>4. PICK new : new = old \o es
    OBVIOUS
  <2>5. PICK line : line = [entries |-> new, torn |-> b, newline |-> newline]
    OBVIOUS
  <2>6. line \in LogLine /\ line.entries = old \o es
    <3>1. new \in Seq(LogEntry)
      BY <2>2, <2>4
    <3> QED
      BY <2>3, <2>4, <2>5, <3>1 DEF LogLine
  <2>7. g = [f EXCEPT ![L] = line]
    BY <1>1, <1>2, <2>2, <2>3, <2>4, <2>5 DEF Registry!AppendText, Registry!Line
  <2> QED
    BY <1>1, <2>1, <2>2, <2>6, <2>7, LongerLine
<1>3. CASE ~(f # << >> /\ ~f[L].newline)
  <2>1. PICK line : line = [entries |-> es, torn |-> torn, newline |-> newline]
    OBVIOUS
  <2>2. line \in LogLine /\ line.entries = es
    BY <2>1 DEF LogLine
  <2>3. g = Append(f, line)
    BY <1>1, <1>3, <2>1 DEF Registry!AppendText, Registry!Line
  <2> QED
    BY <2>2, <2>3, NewLine
<1> QED
  BY <1>2, <1>3

\* is_revoked() of any file.
RevokedIn(f, n) ==
    \E p \in Places(f) :
        /\ Event(f, p).name = n /\ Event(f, p).action = "revoke"
        /\ \A q \in Places(f) : Event(f, q).name = n => ~Registry!Older(p, q)

LEMMA RevokedInLog ==
    \A n : Registry!is_revoked(n) <=> RevokedIn(log, n)
BY DEF Registry!is_revoked, RevokedIn, Registry!Positions, Places, Registry!At, Event

\* Replaying the log, the newest event on a name decides and no other counts.
LEMMA NewestDecides ==
    ASSUME NEW f, NEW g, NEW es, Adds(f, g, es), NEW n
    PROVE  /\ Len(es) = 0 => (RevokedIn(g, n) <=> RevokedIn(f, n))
           /\ Len(es) = 1 =>
                /\ es[1].record.name # n => (RevokedIn(g, n) <=> RevokedIn(f, n))
                /\ es[1].record.name = n => (RevokedIn(g, n) <=> es[1].record.action = "revoke")
<1>1. \A p \in Places(f) : p \in Places(g) /\ Event(g, p) = Event(f, p)
  BY DEF Adds
<1>2. ASSUME Len(es) = 0
      PROVE  RevokedIn(g, n) <=> RevokedIn(f, n)
  <2>1. Places(g) = Places(f)
    BY <1>2 DEF Adds
  <2> QED
    BY <1>1, <2>1 DEF RevokedIn
<1>3. ASSUME Len(es) = 1
      PROVE  /\ es[1].record.name # n => (RevokedIn(g, n) <=> RevokedIn(f, n))
             /\ es[1].record.name = n => (RevokedIn(g, n) <=> es[1].record.action = "revoke")
  <2>1. PICK q \in Places(g) :
            /\ Places(g) = Places(f) \cup {q} /\ Event(g, q) = es[1].record
            /\ \A p \in Places(f) : Registry!Older(p, q) /\ ~Registry!Older(q, p)
            /\ ~Registry!Older(q, q)
    BY <1>3 DEF Adds
  <2>2. ASSUME es[1].record.name # n
        PROVE  RevokedIn(g, n) <=> RevokedIn(f, n)
    BY <1>1, <2>1, <2>2 DEF RevokedIn
  <2>3. ASSUME es[1].record.name = n, RevokedIn(g, n)
        PROVE  es[1].record.action = "revoke"
    BY <1>1, <2>1, <2>3 DEF RevokedIn
  <2>4. ASSUME es[1].record.name = n, es[1].record.action = "revoke"
        PROVE  RevokedIn(g, n)
    BY <2>1, <2>4 DEF RevokedIn
  <2> QED
    BY <2>2, <2>3, <2>4
<1> QED
  BY <1>2, <1>3

\* Every revocation that returned is the newest event on its name.
EventInv ==
    /\ log \in Seq(LogLine) /\ standing \subseteq Names
    /\ registryPc = [w \in Writers |-> registryPc[w]]
    /\ registryJob = [w \in Writers |-> registryJob[w]]
    /\ \A w \in Writers : registryPc[w] = "append" => registryJob[w].entry \in LogEntry
    /\ \A n \in standing : RevokedIn(log, n)

\* What a write to the log, whole, cut short or unnoticed, does to the answers.
Lands(m, a) ==
    /\ \A n \in Names \ {m} : RevokedIn(log', n) <=> RevokedIn(log, n)
    /\ RevokedIn(log', m) <=> a = "revoke"
    /\ standing' \subseteq IF a = "revoke" THEN standing \cup {m} ELSE standing \ {m}

LEMMA LogStep ==
    ASSUME EventInv, NEW w \in Writers, Registry!AppendEvent(w) \/ Registry!AppendFails(w)
    PROVE  /\ log' \in Seq(LogLine)
           /\ \/ /\ \A n : RevokedIn(log', n) <=> RevokedIn(log, n)
                 /\ standing' = standing
              \/ \E m \in Names : \E a \in {"revoke", "unrevoke"} : Lands(m, a)
<1>1. PICK e : e = registryJob[w].entry
  OBVIOUS
<1>2. registryPc[w] = "append"
  BY DEF Registry!AppendEvent, Registry!AppendFails, Registry!Step
<1>3. e \in LogEntry
  BY <1>1, <1>2 DEF EventInv
<1>4. PICK f, g : f = log /\ g = log' /\ f \in Seq(LogLine)
  BY DEF EventInv
<1>5. CASE /\ log' = Registry!AppendText(log, Registry!Line(<< >>, TRUE, FALSE))
           /\ standing' = standing
  <2> DEFINE es == << >>
  <2>1. es \in Seq(LogEntry) /\ Len(es) = 0
    OBVIOUS
  <2>2. g \in Seq(LogLine) /\ Adds(f, g, es)
    <3>1. g = Registry!AppendText(f, Registry!Line(es, TRUE, FALSE)) /\ Len(es) <= 1
      BY <1>4, <1>5, <2>1
    <3> HIDE DEF es
    <3> QED
      BY <1>4, <2>1, <3>1, TextIsNewest
  <2> HIDE DEF es
  <2>3. \A n : RevokedIn(g, n) <=> RevokedIn(f, n)
    BY <2>1, <2>2, NewestDecides
  <2> QED
    BY <1>4, <1>5, <2>2, <2>3
<1>6. ASSUME NEW newline \in BOOLEAN,
             log' = Registry!AppendText(log, Registry!Line(<<e>>, FALSE, newline)),
             standing' \subseteq IF e.record.action = "revoke" THEN standing \cup {e.record.name}
                                 ELSE standing \ {e.record.name}
      PROVE  /\ log' \in Seq(LogLine)
             /\ \E m \in Names : \E a \in {"revoke", "unrevoke"} : Lands(m, a)
  <2> DEFINE es == <<e>>
  <2>1. es \in Seq(LogEntry) /\ Len(es) = 1 /\ es[1] = e
    BY <1>3
  <2>2. g \in Seq(LogLine) /\ Adds(f, g, es)
    <3>1. g = Registry!AppendText(f, Registry!Line(es, FALSE, newline)) /\ Len(es) <= 1
      BY <1>4, <1>6, <2>1
    <3> HIDE DEF es
    <3> QED
      BY <1>4, <2>1, <3>1, TextIsNewest
  <2> HIDE DEF es
  <2>3. PICK m, a : m = e.record.name /\ a = e.record.action
    OBVIOUS
  <2>4. m \in Names /\ a \in {"revoke", "unrevoke"}
    BY <1>3, <2>3 DEF LogEntry, Events
  <2>5. \A n : /\ m # n => (RevokedIn(g, n) <=> RevokedIn(f, n))
               /\ m = n => (RevokedIn(g, n) <=> a = "revoke")
    BY <2>1, <2>2, <2>3, NewestDecides
  <2>6. Lands(m, a)
    BY <1>4, <1>6, <2>3, <2>5 DEF Lands
  <2> QED
    BY <1>4, <2>2, <2>4, <2>6
<1>7. CASE Registry!AppendEvent(w)
  <2>1. /\ log' = Registry!AppendText(log, Registry!Line(<<e>>, FALSE, TRUE))
        /\ standing' = IF e.record.action = "revoke" THEN standing \cup {e.record.name}
                       ELSE standing \ {e.record.name}
    BY <1>1, <1>7 DEF Registry!AppendEvent
  <2> QED
    BY <1>6, <2>1
<1>8. CASE Registry!AppendFails(w)
  <2>1. ASSUME NEW newline \in BOOLEAN,
               log' = Registry!AppendText(log, Registry!Line(<<e>>, FALSE, newline)),
               standing' = standing \ Registry!Overtaken(e)
        PROVE  standing' \subseteq IF e.record.action = "revoke" THEN standing \cup {e.record.name}
                                   ELSE standing \ {e.record.name}
    BY <1>3, <2>1 DEF Registry!Overtaken, LogEntry, Events
  <2> QED
    BY <1>1, <1>5, <1>6, <1>8, <2>1 DEF Registry!AppendFails
<1> QED
  BY <1>7, <1>8

\* append_entry(): the entry that continues a readable log.
LEMMA NextEntryTyped ==
    ASSUME NEW f \in Seq(LogLine), ~Registry!LastUnreadable(f), NEW event \in Events
    PROVE  Registry!NextEntry(f, event) \in LogEntry
<1>1. CASE f = << >>
  BY <1>1 DEF Registry!NextEntry, Registry!Entry, Registry!Genesis, LogEntry
<1>2. CASE f # << >>
  <2>1. PICK line : line = f[Len(f)] /\ line \in LogLine
    BY <1>2
  <2>2. Len(line.entries) = 1 /\ line.entries \in Seq(LogEntry)
    BY <1>2, <2>1 DEF Registry!LastUnreadable, Registry!Parses, LogLine
  <2>3. PICK last \in LogEntry : last = line.entries[1]
    BY <2>2
  <2>4. Registry!NextEntry(f, event) =
            [index |-> last.index + 1, prev_hash |-> last.record_hash, record |-> event,
             record_hash |-> Append(last.record_hash, event)]
    BY <1>2, <2>1, <2>3 DEF Registry!NextEntry, Registry!_read_last_entry, Registry!Entry
  <2>5. last.index + 1 \in Nat /\ last.record_hash \in Seq(Events)
    BY <2>3 DEF LogEntry
  <2>6. Append(last.record_hash, event) \in Seq(Events)
    BY <2>5
  <2> QED
    BY <2>4, <2>5, <2>6 DEF LogEntry
<1> QED
  BY <1>1, <1>2

LEMMA EventNextInv ==
    ASSUME EventInv, [Registry!Next]_(Registry!vars)
    PROVE  EventInv'
<1>1. ASSUME log' = log, standing' = standing,
             registryPc' = [w \in Writers |-> registryPc'[w]],
             registryJob' = [w \in Writers |-> registryJob'[w]],
             \A w \in Writers : registryPc'[w] = "append" => registryJob'[w].entry \in LogEntry
      PROVE  EventInv'
  BY <1>1 DEF EventInv
<1>2. CASE UNCHANGED Registry!vars
  BY <1>1, <1>2 DEF EventInv, Registry!vars
<1>3. ASSUME NEW w \in Writers, NEW to, to # "append",
             registryPc' = [registryPc EXCEPT ![w] = to],
             registryJob' = [registryJob EXCEPT ![w] = registryJob'[w]]
      PROVE  /\ registryPc' = [v \in Writers |-> registryPc'[v]]
             /\ registryJob' = [v \in Writers |-> registryJob'[v]]
             /\ \A v \in Writers : registryPc'[v] = "append" => registryJob'[v].entry \in LogEntry
  BY <1>3 DEF EventInv
<1>4. ASSUME NEW w \in Writers, registryJob' = registryJob
      PROVE  registryJob' = [registryJob EXCEPT ![w] = registryJob'[w]]
  BY <1>4 DEF EventInv
<1>5. ASSUME NEW w \in Writers, NEW n \in Names, NEW a \in Registry!Actions,
             Registry!EventBegin(w, n, a)
      PROVE  EventInv'
  <2>1. PICK event : event = [name |-> n, action |-> a]
    OBVIOUS
  <2>2. event \in Events
    BY <2>1 DEF Events, Registry!Actions
  <2>3. PICK e : e = Registry!NextEntry(log, event)
    OBVIOUS
  <2>4. e \in LogEntry
    BY <1>5, <2>2, <2>3, NextEntryTyped DEF EventInv, Registry!EventBegin
  <2>5. PICK i : i = Registry!NoIndex
    OBVIOUS
  <2>6. PICK j : j = [Registry!NoJob EXCEPT !.entry = e]
    OBVIOUS
  <2>7. j.entry = e
    BY <2>5, <2>6 DEF Registry!NoJob
  <2>8. /\ registryPc' = [registryPc EXCEPT ![w] = "append"]
        /\ registryJob' = [registryJob EXCEPT ![w] = j]
        /\ log' = log /\ standing' = standing
    BY <1>5, <2>1, <2>3, <2>6 DEF Registry!EventBegin, Registry!Step, Registry!files
  <2>9. /\ registryPc' = [v \in Writers |-> registryPc'[v]]
        /\ registryJob' = [v \in Writers |-> registryJob'[v]]
        /\ \A v \in Writers : registryPc'[v] = "append" => registryJob'[v].entry \in LogEntry
    BY <2>4, <2>7, <2>8 DEF EventInv
  <2> QED
    BY <1>1, <2>8, <2>9
<1>6. ASSUME NEW w \in Writers, Registry!AppendEvent(w) \/ Registry!AppendFails(w)
      PROVE  EventInv'
  <2>1. registryPc' = [registryPc EXCEPT ![w] = "idle"] /\ registryJob' = registryJob
    BY <1>6 DEF Registry!AppendEvent, Registry!AppendFails, Registry!Step
  <2>2. /\ log' \in Seq(LogLine)
        /\ \/ /\ \A n : RevokedIn(log', n) <=> RevokedIn(log, n)
              /\ standing' = standing
           \/ \E m \in Names : \E a \in {"revoke", "unrevoke"} : Lands(m, a)
    BY <1>6, LogStep
  <2>3. standing' \subseteq Names /\ \A n \in standing' : RevokedIn(log', n)
    BY <2>2 DEF EventInv, Lands
  <2>4. /\ registryPc' = [v \in Writers |-> registryPc'[v]]
        /\ registryJob' = [v \in Writers |-> registryJob'[v]]
        /\ \A v \in Writers : registryPc'[v] = "append" => registryJob'[v].entry \in LogEntry
    BY <1>3, <1>4, <2>1
  <2> QED
    BY <2>2, <2>3, <2>4 DEF EventInv
<1>7. ASSUME NEW w \in Writers,
             \/ Registry!EventRefused(w) \/ \E n \in Names : Registry!RegisterDuplicate(w, n)
      PROVE  EventInv'
  BY <1>1, <1>7 DEF EventInv, Registry!EventRefused, Registry!RegisterDuplicate, Registry!files
<1>8. ASSUME NEW w \in Writers,
             \/ \E n \in Names, d \in RegistryDigests : Registry!RegisterBegin(w, n, d)
             \/ Registry!ReadIndex(w)
      PROVE  EventInv'
  <2>1. PICK j : registryJob' = [registryJob EXCEPT ![w] = j]
    BY <1>8 DEF Registry!RegisterBegin, Registry!ReadIndex
  <2>2. registryJob' = [registryJob EXCEPT ![w] = registryJob'[w]]
    BY <2>1 DEF EventInv
  <2>3. PICK to \in {"truncateRecord", "truncateIndex"} :
            registryPc' = [registryPc EXCEPT ![w] = to]
    BY <1>8 DEF Registry!RegisterBegin, Registry!ReadIndex, Registry!Step
  <2>4. log' = log /\ standing' = standing
    BY <1>8 DEF Registry!RegisterBegin, Registry!ReadIndex, Registry!files
  <2>5. /\ registryPc' = [v \in Writers |-> registryPc'[v]]
        /\ registryJob' = [v \in Writers |-> registryJob'[v]]
        /\ \A v \in Writers : registryPc'[v] = "append" => registryJob'[v].entry \in LogEntry
    BY <1>3, <2>2, <2>3
  <2> QED
    BY <1>1, <2>4, <2>5
<1>9. ASSUME NEW w \in Writers,
             \/ Registry!TruncateRecord(w) \/ Registry!FillRecord(w)
             \/ Registry!IndexUnreadable(w) \/ Registry!AlreadyIndexed(w)
             \/ Registry!TruncateIndex(w) \/ Registry!FillIndex(w) \/ Registry!Crash(w)
      PROVE  EventInv'
  <2>1. PICK to \in {"fillRecord", "readIndex", "idle", "fillIndex"} :
            registryPc' = [registryPc EXCEPT ![w] = to]
    BY <1>9 DEF Registry!TruncateRecord, Registry!FillRecord, Registry!IndexUnreadable,
       Registry!AlreadyIndexed, Registry!TruncateIndex, Registry!FillIndex, Registry!Crash,
       Registry!Step
  <2>2. log' = log /\ standing' = standing /\ registryJob' = registryJob
    BY <1>9 DEF Registry!TruncateRecord, Registry!FillRecord, Registry!IndexUnreadable,
       Registry!AlreadyIndexed, Registry!TruncateIndex, Registry!FillIndex, Registry!Crash,
       Registry!files
  <2>3. /\ registryPc' = [v \in Writers |-> registryPc'[v]]
        /\ registryJob' = [v \in Writers |-> registryJob'[v]]
        /\ \A v \in Writers : registryPc'[v] = "append" => registryJob'[v].entry \in LogEntry
    BY <1>3, <1>4, <2>1, <2>2
  <2> QED
    BY <1>1, <2>2, <2>3
<1> QED
  BY <1>2, <1>5, <1>6, <1>7, <1>8, <1>9
  DEF Registry!Next, Registry!Call, Registry!Progress

\* The log of a registry with any number of processes: what it says of a name
\* whose revoke() returned is that the name is revoked.
THEOREM EventInvariance ==
    Registry!Spec => []EventInv
<1>1. Registry!Init => EventInv
  BY DEF Registry!Init, EventInv
<1>2. EventInv /\ [Registry!Next]_(Registry!vars) => EventInv'
  BY EventNextInv
<1> QED
  BY <1>1, <1>2, PTL DEF Registry!Spec

\* A revocation that returned stays in force until an unrevoke is written,
\* whatever was written half or by other processes meanwhile.
THEOREM RevocationsFailClosed ==
    Registry!Spec => []RevocationFailsClosed
<1>1. EventInv => RevocationFailsClosed
  BY RevokedInLog DEF EventInv, RevocationFailsClosed, Registry!RevocationFailsClosed
<1> QED
  BY <1>1, EventInvariance, PTL

\* The state of the contract that the files stand for.
Kept == {<<n, record[n]>> : n \in {m \in Names : Registry!Registered(m)}}
Withdrawn == {n \in Names : Registry!is_revoked(n)}

\* register(): its effect is the moment its record is filled.
LEMMA FillRegisters ==
    ASSUME RegistryInv, NEW w \in Writers, Registry!FillRecord(w)
    PROVE  \E n \in Names, d \in RegistryDigests :
            /\ n \notin {r[1] : r \in Kept}
            /\ Kept' = Kept \cup {<<n, d>>}
            /\ log' = log
<1>1. PICK n, d : n = registryJob[w].name /\ d = registryJob[w].digest
  OBVIOUS
<1>2. registryPc[w] = "fillRecord" /\ record' = [record EXCEPT ![n] = d] /\ log' = log
  BY <1>1 DEF Registry!FillRecord, Registry!Step
<1>3. n \in Names /\ d \in RegistryDigests /\ record[n] = Torn
  BY <1>1, <1>2 DEF RegistryInv, Registers, Registering, RegistryPcs
<1>4. record[n] \notin RegistryDigests /\ record'[n] = d
  BY <1>2, <1>3, MarkersAssumption DEF RegistryInv, RegistryTypeOK
<1>5. \A m \in Names : m # n => record'[m] = record[m]
  BY <1>2, <1>3 DEF RegistryInv, RegistryTypeOK
<1>6. n \notin {r[1] : r \in Kept}
  BY <1>4 DEF Kept, Registry!Registered
<1>7. Kept' = Kept \cup {<<n, d>>}
  BY <1>3, <1>4, <1>5 DEF Kept, Registry!Registered
<1> QED
  BY <1>2, <1>3, <1>6, <1>7

\* Every other step leaves what get() returns as it is.
LEMMA OthersKeep ==
    ASSUME RegistryInv, [Registry!Next]_(Registry!vars),
           ~\E w \in Writers : Registry!FillRecord(w)
    PROVE  Kept' = Kept
<1>1. ASSUME NEW w \in Writers, Registry!TruncateRecord(w)
      PROVE  Kept' = Kept
  <2>1. PICK n : n = registryJob[w].name
    OBVIOUS
  <2>2. registryPc[w] = "truncateRecord" /\ record' = [record EXCEPT ![n] = Torn]
    BY <1>1, <2>1 DEF Registry!TruncateRecord, Registry!Step
  <2>3. n \in Names /\ record[n] = None
    BY <2>1, <2>2 DEF RegistryInv, Registers, Registering, RegistryPcs
  <2>4. record[n] \notin RegistryDigests /\ record'[n] \notin RegistryDigests
    BY <2>2, <2>3, MarkersAssumption DEF RegistryInv, RegistryTypeOK
  <2>5. \A m \in Names : m # n => record'[m] = record[m]
    BY <2>2, <2>3 DEF RegistryInv, RegistryTypeOK
  <2> QED
    BY <2>4, <2>5 DEF Kept, Registry!Registered
<1>2. (\E w \in Writers : Registry!TruncateRecord(w)) \/ record' = record
  BY DEF Registry!Next, Registry!vars, Registry!Call, Registry!Progress, Registry!RegisterBegin,
     Registry!RegisterDuplicate, Registry!EventBegin, Registry!EventRefused,
     Registry!IndexUnreadable, Registry!AlreadyIndexed, Registry!ReadIndex,
     Registry!TruncateIndex, Registry!FillIndex, Registry!AppendEvent, Registry!AppendFails,
     Registry!Crash, Registry!files
<1> QED
  BY <1>1, <1>2 DEF Kept, Registry!Registered

\* revoke() and unrevoke(): their effect is the moment their text is written.
LEMMA LogDecides ==
    ASSUME EventInv, [Registry!Next]_(Registry!vars)
    PROVE  \/ Withdrawn' = Withdrawn
           \/ \E n \in Names : Withdrawn' = Withdrawn \cup {n} \/ Withdrawn' = Withdrawn \ {n}
<1>1. PICK f, g : f = log /\ g = log'
  OBVIOUS
<1>2. /\ Withdrawn = {n \in Names : RevokedIn(f, n)}
      /\ Withdrawn' = {n \in Names : RevokedIn(g, n)}
  <2>1. \A n : Registry!is_revoked(n)' <=> RevokedIn(log', n)
    BY DEF Registry!is_revoked, RevokedIn, Registry!Positions, Places, Registry!At, Event
  <2> QED
    BY <1>1, <2>1, RevokedInLog DEF Withdrawn
<1>3. ASSUME NEW w \in Writers, Registry!AppendEvent(w) \/ Registry!AppendFails(w)
      PROVE  \/ Withdrawn' = Withdrawn
             \/ \E n \in Names : Withdrawn' = Withdrawn \cup {n} \/ Withdrawn' = Withdrawn \ {n}
  <2>1. \/ \A n : RevokedIn(g, n) <=> RevokedIn(f, n)
        \/ \E m \in Names : \E a \in {"revoke", "unrevoke"} : Lands(m, a)
    BY <1>1, <1>3, LogStep
  <2>2. ASSUME NEW m \in Names, NEW a \in {"revoke", "unrevoke"}, Lands(m, a)
        PROVE  Withdrawn' = Withdrawn \cup {m} \/ Withdrawn' = Withdrawn \ {m}
    BY <1>1, <1>2, <2>2 DEF Lands
  <2> QED
    BY <1>2, <2>1, <2>2
<1>4. (\E w \in Writers : Registry!AppendEvent(w) \/ Registry!AppendFails(w)) \/ log' = log
  BY DEF Registry!Next, Registry!vars, Registry!Call, Registry!Progress, Registry!RegisterBegin,
     Registry!RegisterDuplicate, Registry!EventBegin, Registry!EventRefused,
     Registry!TruncateRecord, Registry!FillRecord,
     Registry!IndexUnreadable, Registry!AlreadyIndexed, Registry!ReadIndex,
     Registry!TruncateIndex, Registry!FillIndex, Registry!Crash, Registry!files
<1> QED
  BY <1>1, <1>2, <1>3, <1>4

\* The files of one registering process and any number of revoking ones
\* implement the contract that module Registry states of a registry.
THEOREM FilesImplementRegistry ==
    ASSUME OneRegistrar
    PROVE  Registry!Spec => RegistryContract
<1>1. Registry!Init => Registry!R!Init
  <2>1. Registry!Init => Kept = {}
    BY MarkersAssumption DEF Registry!Init, Kept, Registry!Registered
  <2>2. Registry!Init => Withdrawn = {}
    BY DEF Registry!Init, Withdrawn, Registry!is_revoked, Registry!Positions
  <2> QED
    BY <2>1, <2>2 DEF Registry!R!Init, Kept, Withdrawn
<1>2. ASSUME RegistryInv, EventInv, [Registry!Next]_(Registry!vars)
      PROVE  [Registry!R!Next]_(Registry!R!vars)
  <2>1. ASSUME NEW w \in Writers, Registry!FillRecord(w)
        PROVE  Registry!R!Next
    <3>1. PICK n \in Names, d \in RegistryDigests :
            /\ n \notin {r[1] : r \in Kept}
            /\ Kept' = Kept \cup {<<n, d>>}
            /\ log' = log
      BY <1>2, <2>1, FillRegisters
    <3>2. Withdrawn' = Withdrawn
      BY <3>1 DEF Withdrawn, Registry!is_revoked, Registry!Positions, Registry!At
    <3>3. Registry!R!Register(n, d)
      BY <3>1, <3>2 DEF Registry!R!Register, Registry!R!Registered, Kept, Withdrawn
    <3> QED
      BY <3>3 DEF Registry!R!Next
  <2>2. ASSUME ~\E w \in Writers : Registry!FillRecord(w)
        PROVE  [Registry!R!Next]_(Registry!R!vars)
    <3>1. Kept' = Kept
      BY <1>2, <2>2, OthersKeep
    <3>2. \/ Withdrawn' = Withdrawn
          \/ \E n \in Names : Withdrawn' = Withdrawn \cup {n} \/ Withdrawn' = Withdrawn \ {n}
      BY <1>2, LogDecides
    <3> QED
      BY <3>1, <3>2 DEF Registry!R!Next, Registry!R!Revoke, Registry!R!Unrevoke, Registry!R!vars,
                        Kept, Withdrawn
  <2> QED
    BY <2>1, <2>2
<1> QED
  BY <1>1, <1>2, RegistryInvariance, EventInvariance, PTL
  DEF Registry!Spec, RegistryContract, Registry!RegistryContract, Registry!R!Spec

-----------------------------------------------------------------------------
(* The hash-chained log.                                                   *)

\* Every set of numbers that is not empty has a least one.
LEMMA LeastNumber ==
    ASSUME NEW T \in SUBSET Nat, T # {}
    PROVE  \E x \in T : \A y \in T : x <= y
<1> DEFINE Below == {s \in Nat \X Nat : s[1] < s[2]}
<1>1. IsWellFoundedOn(Below, Nat)
  <2>1. OpToRel(<, Nat) = Below
    BY Zenon DEF OpToRel
  <2>2. IsWellFoundedOn(OpToRel(<, Nat), Nat)
    BY NatLessThanWellFounded
  <2> QED
    BY <2>1, <2>2, Zenon
<1> HIDE DEF Below
<1>2. PICK x \in T : \A y \in T : ~(<<y, x>> \in Below)
  BY <1>1, WFMin
<1>3. ASSUME NEW y \in T
      PROVE  x <= y
  <2>1. x \in Nat /\ y \in Nat /\ <<y, x>> \in Nat \X Nat /\ <<y, x>>[1] = y /\ <<y, x>>[2] = x
    OBVIOUS
  <2>2. y < x => <<y, x>> \in Below
    BY <2>1 DEF Below
  <2> QED
    BY <1>2, <2>1, <2>2
<1> QED
  BY <1>3

\* Entries whose hash is one of a set of hashes, the lines appends write of
\* them, and the texts made of such lines.
HashedEntry(hashes) ==
    [index : Nat, prev_hash : Seq(Nat), record : Nat, record_hash : hashes]
HashedLine(hashes) ==
    {line \in [entries : Seq(HashedEntry(hashes)), torn : BOOLEAN, newline : BOOLEAN] :
        Len(line.entries) > 0 \/ line.torn}
Text(hashes) == Seq(HashedLine(hashes))

LEMMA MoreHashes ==
    ASSUME NEW s, NEW t, s \subseteq t, NEW f \in Text(s)
    PROVE  f \in Text(t)
<1>1. HashedEntry(s) \subseteq HashedEntry(t)
  BY DEF HashedEntry
<1>2. Seq(HashedEntry(s)) \subseteq Seq(HashedEntry(t))
  BY <1>1
<1>3. HashedLine(s) \subseteq HashedLine(t)
  BY <1>2 DEF HashedLine
<1> QED
  BY <1>3 DEF Text

\* Text is never lost, and what does not parse never parses again: an append
\* makes a line of its own or leaves a file that readers refuse.
LEMMA TextGrows ==
    ASSUME NEW s, NEW f \in Text(s), NEW line \in HashedLine(s),
           NEW g, g = Chain!AppendText(f, line)
    PROVE  /\ g \in Text(s)
           /\ g = Append(f, line) \/ Chain!Unreadable(g)
           /\ Chain!Unreadable(f) => Chain!Unreadable(g)
<1>1. PICK L \in Nat : L = Len(f) /\ DOMAIN f = 1..L /\ \A i \in 1..L : f[i] \in HashedLine(s)
  BY DEF Text
<1>2. CASE f # << >> /\ ~f[L].newline
  <2>1. L \in 1..L
    BY <1>1, <1>2 DEF Text
  <2>2. PICK a, b : a = f[L].entries /\ b = line.entries
    OBVIOUS
  <2>3. /\ a \in Seq(HashedEntry(s)) /\ b \in Seq(HashedEntry(s))
        /\ f[L].torn \in BOOLEAN /\ line.torn \in BOOLEAN /\ line.newline \in BOOLEAN
        /\ Len(a) > 0 \/ f[L].torn
        /\ Len(b) > 0 \/ line.torn
    BY <1>1, <2>1, <2>2 DEF HashedLine
  <2>4. PICK c : c = a \o b
    OBVIOUS
  <2>5. c \in Seq(HashedEntry(s)) /\ Len(c) = Len(a) + Len(b)
    BY <2>3, <2>4
  <2>6. PICK torn \in BOOLEAN : torn = (f[L].torn \/ line.torn)
    BY <2>3
  <2>7. PICK new : new = [entries |-> c, torn |-> torn, newline |-> line.newline]
    OBVIOUS
  <2>8. Len(a) \in Nat /\ Len(b) \in Nat
    BY <2>3
  <2>9. new \in HashedLine(s) /\ ~Chain!Parses(new)
    <3>1. /\ new \in [entries : Seq(HashedEntry(s)), torn : BOOLEAN, newline : BOOLEAN]
          /\ new.entries = c /\ new.torn = torn
      BY <2>3, <2>5, <2>7
    <3>2. torn \/ Len(c) > 1
      BY <2>3, <2>5, <2>6, <2>8
    <3>3. (Len(c) > 0 \/ torn) /\ ~(Len(c) = 1 /\ ~torn)
      BY <2>5, <2>8, <3>2
    <3> QED
      BY <3>1, <3>3 DEF HashedLine, Chain!Parses
  <2>10. g = [f EXCEPT ![L] = new]
    BY <1>1, <1>2, <2>2, <2>4, <2>6, <2>7 DEF Chain!AppendText, Chain!Line
  <2>11. g \in Text(s) /\ DOMAIN g = 1..L /\ g[L] = new
    BY <1>1, <2>1, <2>9, <2>10 DEF Text
  <2>12. Chain!Unreadable(g)
    BY <2>1, <2>9, <2>11 DEF Chain!Unreadable
  <2> QED
    BY <2>11, <2>12
<1>3. CASE ~(f # << >> /\ ~f[L].newline)
  <2>1. g = Append(f, line)
    BY <1>1, <1>3 DEF Chain!AppendText
  <2>2. g \in Text(s) /\ DOMAIN f \subseteq DOMAIN g /\ \A i \in DOMAIN f : g[i] = f[i]
    BY <1>1, <2>1 DEF Text
  <2>3. Chain!Unreadable(f) => Chain!Unreadable(g)
    BY <2>2 DEF Chain!Unreadable
  <2> QED
    BY <2>1, <2>2, <2>3
<1> QED
  BY <1>2, <1>3

\* The entry of the last line of a file whose last line parses.
LEMMA LastEntry ==
    ASSUME NEW s, NEW f \in Text(s), f # << >>, ~Chain!LastUnreadable(f)
    PROVE  f[Len(f)].entries[1] \in HashedEntry(s)
<1>1. PICK line : line = f[Len(f)] /\ line \in HashedLine(s)
  BY DEF Text
<1>2. Len(line.entries) = 1 /\ line.entries \in Seq(HashedEntry(s))
  BY <1>1 DEF Chain!LastUnreadable, Chain!Parses, HashedLine
<1> QED
  BY <1>1, <1>2

LEMMA ContinuesText ==
    ASSUME NEW f \in Text(Seq(Nat)), ~Chain!LastUnreadable(f), NEW r \in Nat
    PROVE  Chain!NextEntry(f, r) \in HashedEntry(Seq(Nat))
<1>1. CASE f = << >>
  <2>1. PICK none, h : none = << >> /\ h = Append(none, r)
    OBVIOUS
  <2>2. none \in Seq(Nat) /\ h \in Seq(Nat)
    BY <2>1
  <2>3. Chain!NextEntry(f, r) = [index |-> 0, prev_hash |-> none, record |-> r,
                                 record_hash |-> h]
    BY <1>1, <2>1 DEF Chain!NextEntry, Chain!Entry, Chain!Genesis
  <2> QED
    BY <2>2, <2>3 DEF HashedEntry
<1>2. CASE f # << >>
  <2>1. PICK last : last = f[Len(f)].entries[1] /\ last \in HashedEntry(Seq(Nat))
    BY <1>2, LastEntry
  <2>2. PICK h : h = last.record_hash
    OBVIOUS
  <2>3. h \in Seq(Nat) /\ last.index \in Nat
    BY <2>1, <2>2 DEF HashedEntry
  <2>4. Append(h, r) \in Seq(Nat)
    BY <2>3
  <2>5. Chain!NextEntry(f, r) = [index |-> last.index + 1, prev_hash |-> h, record |-> r,
                                 record_hash |-> Append(h, r)]
    BY <1>2, <2>1, <2>2 DEF Chain!NextEntry, Chain!_read_last_entry, Chain!Entry
  <2> QED
    BY <2>3, <2>4, <2>5 DEF HashedEntry
<1> QED
  BY <1>1, <1>2

\* An entry prepared for a log that verifies, on a line of its own, gives a
\* log that verifies.
LEMMA VerifiedGrows ==
    ASSUME NEW f \in Text(Seq(Nat)), Chain!verify_chain(f), ~Chain!Unreadable(f),
           NEW r \in Nat, NEW e, e = Chain!NextEntry(f, r), NEW newline,
           NEW g, g = Append(f, Chain!Line(<<e>>, FALSE, newline))
    PROVE  Chain!verify_chain(g)
<1>1. PICK L \in Nat : L = Len(f) /\ DOMAIN f = 1..L /\ (L = 0 <=> f = << >>)
  BY DEF Text
<1>2. PICK es : es = <<e>>
  OBVIOUS
<1>3. es[1] = e
  BY <1>2
<1>4. /\ DOMAIN g = 1..(L + 1) /\ g[L + 1].entries = es
      /\ \A i \in 1..L : g[i] = f[i]
  BY <1>1, <1>2 DEF Text, Chain!Line
<1>5. PICK p, q : p = Chain!read_all_entries(f) /\ q = Chain!read_all_entries(g)
  OBVIOUS
<1>6. /\ DOMAIN p = 1..L /\ DOMAIN q = 1..(L + 1) /\ q[L + 1] = e
      /\ \A i \in 1..L : q[i] = p[i] /\ p[i] = f[i].entries[1]
  <2>1. p = [i \in 1..L |-> f[i].entries[1]]
    BY <1>1, <1>5 DEF Chain!read_all_entries
  <2>2. q = [i \in 1..(L + 1) |-> g[i].entries[1]]
    BY <1>4, <1>5 DEF Chain!read_all_entries
  <2>3. L + 1 \in 1..(L + 1) /\ \A i \in 1..L : i \in 1..(L + 1)
    BY <1>1
  <2> QED
    BY <1>3, <1>4, <2>1, <2>2, <2>3
<1>7. ASSUME NEW i \in 1..L
      PROVE  /\ p[i].prev_hash = IF i = 1 THEN Chain!Genesis ELSE p[i - 1].record_hash
             /\ p[i].record_hash = Append(p[i].prev_hash, p[i].record)
  BY <1>5, <1>6 DEF Chain!verify_chain
<1>8. /\ e.prev_hash = IF L = 0 THEN Chain!Genesis ELSE p[L].record_hash
      /\ e.record_hash = Append(e.prev_hash, e.record)
  <2>1. PICK a, b : e = [index |-> a, prev_hash |-> b, record |-> r, record_hash |-> Append(b, r)]
                    /\ b = IF L = 0 THEN Chain!Genesis ELSE p[L].record_hash
    <3>1. CASE L = 0
      BY <1>1, <3>1 DEF Chain!NextEntry, Chain!Entry
    <3>2. CASE L # 0
      <4>1. f # << >> /\ L \in 1..L
        BY <1>1, <3>2
      <4>2. p[L] = f[Len(f)].entries[1]
        BY <1>1, <1>6, <4>1
      <4> QED
        BY <3>2, <4>1, <4>2 DEF Chain!NextEntry, Chain!Entry, Chain!_read_last_entry
    <3> QED
      BY <3>1, <3>2
  <2>2. e.prev_hash = b /\ e.record = r /\ e.record_hash = Append(b, r)
    BY <2>1
  <2> QED
    BY <2>1, <2>2
<1>9. ASSUME NEW i \in 1..(L + 1)
      PROVE  /\ q[i].prev_hash = IF i = 1 THEN Chain!Genesis ELSE q[i - 1].record_hash
             /\ q[i].record_hash = Append(q[i].prev_hash, q[i].record)
  <2>1. CASE i = L + 1
    <3>1. L # 0 => q[i - 1] = p[L]
      BY <1>1, <1>6, <2>1
    <3>2. q[i] = e /\ (i = 1 <=> L = 0)
      BY <1>1, <1>6, <2>1
    <3> QED
      BY <1>8, <3>1, <3>2
  <2>2. CASE i # L + 1
    <3>1. i \in 1..L /\ q[i] = p[i] /\ (i # 1 => q[i - 1] = p[i - 1])
      BY <1>1, <1>6, <2>2
    <3> QED
      BY <1>7, <3>1
  <2> QED
    BY <2>1, <2>2
<1> QED
  BY <1>5, <1>6, <1>9 DEF Chain!verify_chain

\* Where the chain is intact, the hash of an entry is the log up to it.
LEMMA HashIsPrefix ==
    ASSUME NEW f \in Text(Seq(Nat)), Chain!verify_chain(f), ~Chain!Unreadable(f),
           NEW L, L = Len(f)
    PROVE  \A i \in 1..L :
            LET h == f[i].entries[1].record_hash IN
            Len(h) = i /\ \A k \in 1..i : h[k] = f[k].entries[1].record
<1>1. L \in Nat /\ DOMAIN f = 1..L
  BY DEF Text
<1>2. PICK p : p = Chain!read_all_entries(f)
  OBVIOUS
<1>3. \A i \in 1..L : p[i] = f[i].entries[1] /\ p[i] \in HashedEntry(Seq(Nat))
  <2>1. ASSUME NEW i \in 1..L
        PROVE  p[i] = f[i].entries[1] /\ p[i] \in HashedEntry(Seq(Nat))
    <3>1. PICK line : line = f[i] /\ line \in HashedLine(Seq(Nat)) /\ Chain!Parses(line)
      BY <1>1 DEF Text, Chain!Unreadable
    <3>2. Len(line.entries) = 1 /\ line.entries \in Seq(HashedEntry(Seq(Nat)))
      BY <3>1 DEF Chain!Parses, HashedLine
    <3>3. line.entries[1] \in HashedEntry(Seq(Nat))
      BY <3>2
    <3> QED
      BY <1>1, <1>2, <3>1, <3>3 DEF Chain!read_all_entries
  <2> QED
    BY <2>1
<1>4. \A i \in 1..L : p[i].record_hash \in Seq(Nat) /\ p[i].record \in Nat
  BY <1>3 DEF HashedEntry
<1>5. \A i \in 1..L :
        p[i].record_hash =
            Append(IF i = 1 THEN << >> ELSE p[i - 1].record_hash, p[i].record)
  <2>1. DOMAIN p = 1..L
    BY <1>1, <1>2 DEF Chain!read_all_entries
  <2>2. \A i \in DOMAIN p :
          /\ p[i].prev_hash = IF i = 1 THEN Chain!Genesis ELSE p[i - 1].record_hash
          /\ p[i].record_hash = Append(p[i].prev_hash, p[i].record)
    BY <1>2 DEF Chain!verify_chain
  <2> QED
    BY <2>1, <2>2 DEF Chain!Genesis
<1> DEFINE Prefix(i) == /\ Len(p[i].record_hash) = i
                        /\ \A k \in 1..i : p[i].record_hash[k] = p[k].record
<1>6. Prefix(1) \/ L = 0
  <2>1. CASE L # 0
    <3>1. 1 \in 1..L
      BY <1>1, <2>1
    <3>2. PICK h, x, none : h = p[1].record_hash /\ x = p[1].record /\ none = << >>
      OBVIOUS
    <3>3. h = Append(none, x) /\ x \in Nat /\ none \in Seq(Nat) /\ Len(none) = 0
      BY <1>4, <1>5, <3>1, <3>2
    <3>4. Len(h) = 1 /\ h[1] = x
      BY <3>3
    <3> QED
      BY <3>2, <3>4
  <2> QED
    BY <2>1
<1>7. ASSUME NEW i \in 1..L, i # 1, Prefix(i - 1)
      PROVE  Prefix(i)
  <2>1. i - 1 \in 1..L /\ i - 1 \in Nat /\ i \in Nat
    BY <1>1, <1>7
  <2>2. PICK h, old, x : h = p[i].record_hash /\ old = p[i - 1].record_hash /\ x = p[i].record
    OBVIOUS
  <2>3. h = Append(old, x) /\ old \in Seq(Nat) /\ x \in Nat
    BY <1>4, <1>5, <1>7, <2>1, <2>2
  <2>4. Len(old) = i - 1 /\ \A k \in 1..(i - 1) : old[k] = p[k].record
    BY <1>7, <2>2
  <2>5. Len(h) = i /\ h[i] = x /\ \A k \in 1..(i - 1) : h[k] = old[k]
    BY <2>1, <2>3, <2>4
  <2>6. ASSUME NEW k \in 1..i
        PROVE  h[k] = p[k].record
    <3>1. k = i \/ k \in 1..(i - 1)
      BY <2>1
    <3> QED
      BY <2>2, <2>4, <2>5, <3>1
  <2> QED
    BY <2>2, <2>5, <2>6
<1> DEFINE T == {i \in 1..L : ~Prefix(i)}
<1> HIDE DEF Prefix
<1>8. T = {}
  <2> SUFFICES ASSUME T # {}
               PROVE  FALSE
    OBVIOUS
  <2>1. T \in SUBSET Nat
    BY <1>1
  <2>2. PICK i \in T : \A j \in T : i <= j
    BY <2>1, LeastNumber
  <2>3. i \in 1..L /\ i # 1
    BY <1>1, <1>6, <2>2
  <2>4. i - 1 \in 1..L /\ i - 1 \notin T
    BY <1>1, <2>2, <2>3
  <2> QED
    BY <1>7, <2>2, <2>3, <2>4
<1>9. \A i \in 1..L : Prefix(i)
  BY <1>8
<1> QED
  <2>1. ASSUME NEW i \in 1..L
        PROVE  LET h == f[i].entries[1].record_hash IN
               Len(h) = i /\ \A k \in 1..i : h[k] = f[k].entries[1].record
    <3>1. Prefix(i) /\ p[i] = f[i].entries[1]
      BY <1>3, <1>9
    <3>2. \A k \in 1..i : p[k] = f[k].entries[1]
      BY <1>1, <1>3
    <3> QED
      BY <3>1, <3>2 DEF Prefix
  <2> QED
    BY <2>1

\* A log all of whose hashes were issued, if it verifies, was once written.
LEMMA IssuedIsGenuine ==
    ASSUME issued \subseteq Seq(Nat), << >> \in issued, file \in Text(issued)
    PROVE  VerifiedIsGenuine
<1> SUFFICES ASSUME ~Chain!Unreadable(file), Chain!verify_chain(file)
             PROVE  Chain!ReadRecords \in issued
  BY DEF VerifiedIsGenuine, Chain!VerifiedIsGenuine
<1>1. PICK f : f = file /\ f \in Text(Seq(Nat))
  BY MoreHashes
<1>2. PICK L \in Nat : L = Len(f) /\ DOMAIN f = 1..L
  BY <1>1 DEF Text
<1>3. ASSUME NEW i \in 1..L
      PROVE  f[i].entries[1] \in HashedEntry(issued)
  <2>1. PICK line : line = f[i] /\ line \in HashedLine(issued) /\ Chain!Parses(line)
    BY <1>1, <1>2, <1>3 DEF Text, Chain!Unreadable
  <2>2. Len(line.entries) = 1 /\ line.entries \in Seq(HashedEntry(issued))
    BY <2>1 DEF Chain!Parses, HashedLine
  <2>3. line.entries[1] \in HashedEntry(issued)
    BY <2>2
  <2> QED
    BY <2>1, <2>3
<1>4. \A i \in 1..L : LET h == f[i].entries[1].record_hash IN
        Len(h) = i /\ \A k \in 1..i : h[k] = f[k].entries[1].record
  BY <1>1, <1>2, HashIsPrefix
<1>5. Chain!ReadRecords = [i \in 1..L |-> f[i].entries[1].record]
  BY <1>1, <1>2 DEF Chain!ReadRecords, Chain!read_all_entries
<1>6. Chain!ReadRecords \in issued
  <2>1. CASE L = 0
    <3>1. Chain!ReadRecords = << >>
      BY <1>5, <2>1
    <3> QED
      BY <3>1
  <2>2. CASE L # 0
    <3>1. L \in 1..L
      BY <1>2, <2>2
    <3>2. PICK h : h = f[L].entries[1].record_hash /\ h \in issued /\ h \in Seq(Nat)
      BY <1>3, <3>1 DEF HashedEntry
    <3>3. Len(h) = L /\ \A k \in 1..L : h[k] = f[k].entries[1].record
      BY <1>4, <3>1, <3>2
    <3>4. h = [k \in 1..L |-> h[k]]
      BY <3>2, <3>3
    <3>5. h = Chain!ReadRecords
      BY <1>5, <3>3, <3>4
    <3> QED
      BY <3>2, <3>5
  <2> QED
    BY <2>1, <2>2
<1> QED
  BY <1>6

\* The records a caller was told of have places in the log, in their order.
Embeds(a, f) ==
    \E place \in [DOMAIN a -> DOMAIN f] :
        /\ \A i \in DOMAIN a : f[place[i]].entries[1].record = a[i]
        /\ \A i, j \in DOMAIN a : i < j => place[i] < place[j]

AckedEmbedded == edits = 0 => Chain!Unreadable(file) \/ Embeds(appended, file)

LEMMA AckedAsEmbedding ==
    AckedReadable <=> AckedEmbedded
<1>1. \A i \in DOMAIN file : Chain!ReadRecords[i] = file[i].entries[1].record
  BY DEF Chain!ReadRecords, Chain!read_all_entries
<1>2. ASSUME NEW place \in [DOMAIN appended -> DOMAIN file], NEW i \in DOMAIN appended
      PROVE  Chain!ReadRecords[place[i]] = file[place[i]].entries[1].record
  BY <1>1
<1> QED
  BY <1>2 DEF AckedReadable, Chain!AckedReadable, AckedEmbedded, Embeds

\* A longer log has the same places; a new last line gives the newest record one.
LEMMA EmbedsGrows ==
    ASSUME NEW s, NEW f \in Text(s), NEW line \in HashedLine(s), NEW g, g = Append(f, line),
           NEW a \in Seq(Nat), Embeds(a, f)
    PROVE  /\ Embeds(a, g)
           /\ \A r \in Nat : line.entries[1].record = r => Embeds(Append(a, r), g)
<1>1. PICK L \in Nat : L = Len(f) /\ DOMAIN f = 1..L
  BY DEF Text
<1>2. DOMAIN g = 1..(L + 1) /\ g[L + 1] = line /\ \A i \in 1..L : g[i] = f[i]
  BY <1>1 DEF Text
<1>3. PICK place \in [DOMAIN a -> 1..L] :
        /\ \A i \in DOMAIN a : f[place[i]].entries[1].record = a[i]
        /\ \A i, j \in DOMAIN a : i < j => place[i] < place[j]
  BY <1>1 DEF Embeds
<1>4. Embeds(a, g)
  <2>1. place \in [DOMAIN a -> DOMAIN g]
    BY <1>2, <1>3
  <2>2. \A i \in DOMAIN a : g[place[i]].entries[1].record = a[i]
    BY <1>2, <1>3
  <2> QED
    BY <1>3, <2>1, <2>2 DEF Embeds
<1>5. ASSUME NEW r \in Nat, line.entries[1].record = r
      PROVE  Embeds(Append(a, r), g)
  <2>1. PICK n \in Nat : n = Len(a) /\ DOMAIN a = 1..n
    OBVIOUS
  <2>2. PICK b : b = Append(a, r)
    OBVIOUS
  <2>3. DOMAIN b = 1..(n + 1) /\ b[n + 1] = r /\ \A i \in 1..n : b[i] = a[i]
    BY <2>1, <2>2
  <2>4. PICK next : next = [i \in 1..(n + 1) |-> IF i = n + 1 THEN L + 1 ELSE place[i]]
    OBVIOUS
  <2>5. \A i \in 1..(n + 1) : i = n + 1 \/ i \in 1..n
    BY <2>1
  <2>6. /\ next[n + 1] = L + 1
        /\ \A i \in 1..n : next[i] = place[i] /\ place[i] \in 1..L
    <3>1. n + 1 \in 1..(n + 1) /\ \A i \in 1..n : i \in 1..(n + 1) /\ i # n + 1
      BY <2>1
    <3> QED
      BY <1>3, <2>1, <2>4, <3>1
  <2>7. next \in [DOMAIN b -> DOMAIN g]
    <3>1. ASSUME NEW i \in 1..(n + 1)
          PROVE  next[i] \in 1..(L + 1)
      <4>1. CASE i = n + 1
        BY <1>1, <2>6, <4>1
      <4>2. CASE i \in 1..n
        <5>1. next[i] \in 1..L
          BY <2>6, <4>2
        <5> QED
          BY <1>1, <5>1
      <4> QED
        BY <2>5, <4>1, <4>2
    <3> QED
      BY <1>2, <2>3, <2>4, <3>1
  <2>8. \A i \in DOMAIN b : g[next[i]].entries[1].record = b[i]
    <3>1. ASSUME NEW i \in 1..n
          PROVE  g[next[i]].entries[1].record = b[i]
      <4>1. next[i] = place[i] /\ place[i] \in 1..L /\ b[i] = a[i]
        BY <2>3, <2>6
      <4> QED
        BY <1>2, <1>3, <2>1, <4>1
    <3>2. g[next[n + 1]].entries[1].record = b[n + 1]
      BY <1>2, <1>5, <2>3, <2>6
    <3> QED
      BY <2>3, <2>5, <3>1, <3>2
  <2>9. ASSUME NEW i \in DOMAIN b, NEW j \in DOMAIN b, i < j
        PROVE  next[i] < next[j]
    <3>1. i \in 1..n
      BY <2>1, <2>3, <2>9
    <3>2. CASE j = n + 1
      <4>1. next[i] \in 1..L /\ next[j] = L + 1
        BY <2>6, <3>1, <3>2
      <4> QED
        BY <1>1, <4>1
    <3>3. CASE j \in 1..n
      BY <1>3, <2>1, <2>6, <2>9, <3>1, <3>3
    <3> QED
      BY <2>3, <2>5, <3>2, <3>3
  <2> QED
    BY <2>2, <2>7, <2>8, <2>9 DEF Embeds
<1> QED
  BY <1>4, <1>5

ChainTypeOK ==
    /\ issued \subseteq Seq(Nat) /\ << >> \in issued /\ file \in Text(issued)
    /\ appended \in Seq(Nat) /\ appends \in Nat /\ edits \in Nat
    /\ chainPc \in [Writers -> {"idle", "write"}]
    /\ entry = [w \in Writers |-> entry[w]]
    /\ \A w \in Writers : chainPc[w] = "write" => entry[w] \in HashedEntry(Seq(Nat))

\* While no two appends overlapped, what a writer prepared continues the file.
Alone ==
    ~raced => \A w \in Writers : chainPc[w] = "write" =>
        /\ ~Chain!LastUnreadable(file) /\ \E r \in Nat : entry[w] = Chain!NextEntry(file, r)
        /\ \A v \in Writers : chainPc[v] = "write" => v = w

ChainInv == ChainTypeOK /\ Alone /\ AckedReadable /\ NoFalseAlarm

\* append_entry() reads the last line.
LEMMA ReadLastInv ==
    ASSUME ChainInv, NEW w \in Writers, Chain!ReadLast(w)
    PROVE  ChainInv'
<1>1. PICK e : e = Chain!NextEntry(file, appends + 1)
  OBVIOUS
<1>2. /\ chainPc' = [chainPc EXCEPT ![w] = "write"] /\ entry' = [entry EXCEPT ![w] = e]
      /\ appends' = appends + 1 /\ ~Chain!LastUnreadable(file)
      /\ UNCHANGED <<file, appended, issued, faults, edits>>
      /\ ~raced' => ~raced /\ \A v \in Writers : chainPc[v] # "write"
  BY <1>1 DEF Chain!ReadLast
<1>3. appends \in Nat /\ appends + 1 \in Nat /\ file \in Text(Seq(Nat))
  BY MoreHashes DEF ChainInv, ChainTypeOK
<1>4. e \in HashedEntry(Seq(Nat))
  BY <1>1, <1>2, <1>3, ContinuesText
<1>5. /\ chainPc'[w] = "write" /\ entry'[w] = e
      /\ \A v \in Writers : v # w => chainPc'[v] = chainPc[v] /\ entry'[v] = entry[v]
  BY <1>2 DEF ChainInv, ChainTypeOK
<1>6. ChainTypeOK'
  <2>1. \A v \in Writers : chainPc'[v] = "write" => entry'[v] \in HashedEntry(Seq(Nat))
    BY <1>4, <1>5 DEF ChainInv, ChainTypeOK
  <2> QED
    BY <1>2, <1>3, <2>1 DEF ChainInv, ChainTypeOK
<1>7. Alone'
  <2> SUFFICES ASSUME ~raced', NEW u \in Writers, chainPc'[u] = "write"
               PROVE  /\ ~Chain!LastUnreadable(file)'
                      /\ \E r \in Nat : entry'[u] = Chain!NextEntry(file', r)
                      /\ \A v \in Writers : chainPc'[v] = "write" => v = u
    BY DEF Alone
  <2>1. u = w /\ \A v \in Writers : chainPc'[v] = "write" => v = w
    BY <1>2, <1>5
  <2>2. file' = file
    BY <1>2
  <2>3. entry'[u] = Chain!NextEntry(file', appends + 1)
    BY <1>1, <1>5, <2>1, <2>2
  <2>4. ~Chain!LastUnreadable(file)'
    BY <1>2, <2>2 DEF Chain!LastUnreadable
  <2> QED
    BY <1>3, <2>1, <2>3, <2>4
<1>8. AckedReadable'
  <2>1. AckedReadable' <=> AckedEmbedded'
    BY AckedAsEmbedding, PTL
  <2> QED
    BY <1>2, <2>1, AckedAsEmbedding DEF ChainInv, AckedEmbedded
<1>9. NoFalseAlarm'
  BY <1>2 DEF ChainInv, NoFalseAlarm, Chain!NoFalseAlarm
<1> QED
  BY <1>6, <1>7, <1>8, <1>9 DEF ChainInv

\* A line is written, in whole or in part, by a writer that then is done.
LEMMA WriteStep ==
    ASSUME ChainInv, NEW w \in Writers, chainPc[w] = "write",
           chainPc' = [chainPc EXCEPT ![w] = "idle"], entry' = entry,
           UNCHANGED <<raced, appends, edits>>,
           NEW line, file' = Chain!AppendText(file, line),
           line \in {Chain!Line(<< >>, TRUE, FALSE), Chain!Line(<<entry[w]>>, FALSE, FALSE),
                     Chain!Line(<<entry[w]>>, FALSE, TRUE)},
           issued' = IF line.torn THEN issued ELSE issued \cup {entry[w].record_hash},
           \/ appended' = appended
           \/ ~line.torn /\ appended' = Append(appended, entry[w].record)
    PROVE  ChainInv'
<1>1. PICK e : e = entry[w] /\ e \in HashedEntry(Seq(Nat))
  BY DEF ChainInv, ChainTypeOK
<1>2. e.record_hash \in Seq(Nat) /\ e.record \in Nat /\ e \in HashedEntry({e.record_hash})
  BY <1>1 DEF HashedEntry
<1>3. PICK es \in {<< >>, <<e>>}, torn \in BOOLEAN, newline \in BOOLEAN :
        /\ line = [entries |-> es, torn |-> torn, newline |-> newline]
        /\ torn <=> es = << >>
  <2>1. <<e>> # << >>
    OBVIOUS
  <2>2. \/ line = [entries |-> << >>, torn |-> TRUE, newline |-> FALSE]
        \/ line = [entries |-> <<e>>, torn |-> FALSE, newline |-> FALSE]
        \/ line = [entries |-> <<e>>, torn |-> FALSE, newline |-> TRUE]
    BY <1>1 DEF Chain!Line
  <2> QED
    BY <2>1, <2>2
<1>4. line.entries = es /\ line.torn = torn
  BY <1>3
<1>5. issued \subseteq issued' /\ issued' \subseteq Seq(Nat)
  BY <1>1, <1>2 DEF ChainInv, ChainTypeOK
<1>6. line \in HashedLine(issued')
  <2>1. CASE torn
    <3>1. es = << >> /\ es \in Seq(HashedEntry(issued'))
      BY <1>3, <2>1
    <3> QED
      BY <1>3, <1>4, <2>1, <3>1 DEF HashedLine
  <2>2. CASE ~torn
    <3>1. e.record_hash \in issued'
      BY <1>1, <1>4, <2>2
    <3>2. e \in HashedEntry(issued')
      BY <1>1, <3>1 DEF HashedEntry
    <3>3. es = <<e>> /\ es \in Seq(HashedEntry(issued')) /\ Len(es) > 0
      <4>1. es = <<e>>
        BY <1>3, <2>2
      <4>2. <<e>> \in Seq(HashedEntry(issued')) /\ Len(<<e>>) = 1
        BY <3>2
      <4> QED
        BY <4>1, <4>2
    <3> QED
      BY <1>3, <1>4, <3>3 DEF HashedLine
  <2> QED
    BY <2>1, <2>2
<1>7. PICK f, g, h : f = file /\ g = file' /\ h = issued'
  OBVIOUS
<1>8. f \in Text(h)
  BY <1>5, <1>7, MoreHashes DEF ChainInv, ChainTypeOK
<1>9. /\ g \in Text(h)
      /\ g = Append(f, line) \/ Chain!Unreadable(g)
      /\ Chain!Unreadable(f) => Chain!Unreadable(g)
  BY <1>6, <1>7, <1>8, TextGrows
<1>10. \A v \in Writers : v # w => chainPc'[v] = chainPc[v]
  BY DEF ChainInv, ChainTypeOK
<1>11. chainPc'[w] = "idle"
  BY DEF ChainInv, ChainTypeOK
<1>12. ChainTypeOK'
  <2>1. \A v \in Writers : chainPc'[v] = "write" => entry'[v] \in HashedEntry(Seq(Nat))
    BY <1>10, <1>11 DEF ChainInv, ChainTypeOK
  <2>2. appended' \in Seq(Nat)
    <3>1. appended \in Seq(Nat) /\ (appended' = appended \/ appended' = Append(appended, e.record))
      BY <1>1 DEF ChainInv, ChainTypeOK
    <3>2. PICK a, x : a = appended /\ x = e.record /\ a \in Seq(Nat) /\ x \in Nat
      BY <1>2, <3>1
    <3>3. Append(a, x) \in Seq(Nat)
      BY <3>2, AppendProperties
    <3> QED
      BY <3>1, <3>2, <3>3
  <2>3. file' \in Text(issued)'
    BY <1>7, <1>9 DEF Text, HashedLine, HashedEntry
  <2> QED
    BY <1>5, <2>1, <2>2, <2>3 DEF ChainInv, ChainTypeOK
<1>13. Alone'
  <2>1. ~raced => \A v \in Writers : chainPc'[v] # "write"
    BY <1>10, <1>11 DEF ChainInv, Alone
  <2> QED
    BY <2>1 DEF Alone
<1>14. torn /\ g = Append(f, line) => Chain!Unreadable(g)
  <2> SUFFICES ASSUME torn, g = Append(f, line)
               PROVE  Chain!Unreadable(g)
    OBVIOUS
  <2>1. Len(f) \in Nat /\ Len(f) + 1 \in DOMAIN g /\ g[Len(f) + 1] = line
    BY <1>8 DEF Text
  <2>2. ~Chain!Parses(line)
    BY <1>4 DEF Chain!Parses
  <2> QED
    BY <2>1, <2>2 DEF Chain!Unreadable
<1>15. AckedReadable'
  <2>1. AckedReadable' <=> AckedEmbedded'
    BY AckedAsEmbedding, PTL
  <2>2. ASSUME edits = 0, ~Chain!Unreadable(g)
        PROVE  Embeds(appended', g)
    <3>1. ~Chain!Unreadable(f) /\ g = Append(f, line) /\ ~torn
      BY <1>9, <1>14, <2>2
    <3>2. Embeds(appended, f) /\ appended \in Seq(Nat)
      BY <1>7, <2>2, <3>1, AckedAsEmbedding DEF ChainInv, ChainTypeOK, AckedEmbedded
    <3>3. es = <<e>>
      BY <1>3, <3>1
    <3>4. line.entries[1].record = e.record
      BY <1>4, <3>3
    <3>5. PICK a : a = appended
      OBVIOUS
    <3>6. Embeds(a, g) /\ Embeds(Append(a, e.record), g)
      <4>1. a \in Seq(Nat) /\ Embeds(a, f) /\ line \in HashedLine(h) /\ e.record \in Nat
        BY <1>2, <1>6, <1>7, <3>2, <3>5
      <4> QED
        BY <1>8, <3>1, <3>4, <4>1, EmbedsGrows
    <3> QED
      BY <1>1, <3>5, <3>6
  <2> QED
    BY <1>7, <2>1, <2>2 DEF AckedEmbedded
<1>16. NoFalseAlarm'
  <2>1. ASSUME edits = 0, ~raced, ~Chain!Unreadable(g)
        PROVE  Chain!verify_chain(g)
    <3>1. ~Chain!Unreadable(f) /\ g = Append(f, line) /\ ~torn
      BY <1>9, <1>14, <2>1
    <3>2. Chain!verify_chain(f)
      BY <1>7, <2>1, <3>1 DEF ChainInv, NoFalseAlarm, Chain!NoFalseAlarm
    <3>3. PICK r \in Nat : e = Chain!NextEntry(f, r)
      BY <1>1, <1>7, <2>1 DEF ChainInv, Alone
    <3>4. g = Append(f, Chain!Line(<<e>>, FALSE, newline))
      BY <1>3, <3>1 DEF Chain!Line
    <3>5. f \in Text(Seq(Nat))
      BY <1>7, MoreHashes DEF ChainInv, ChainTypeOK
    <3> QED
      BY <3>1, <3>2, <3>3, <3>4, <3>5, VerifiedGrows
  <2> QED
    BY <1>7, <2>1 DEF NoFalseAlarm, Chain!NoFalseAlarm
<1> QED
  BY <1>12, <1>13, <1>15, <1>16 DEF ChainInv

\* An edit by hand: the hashes are still hashes that appends made.
LEMMA EditInv ==
    ASSUME ChainInv, Chain!Edit
    PROVE  ChainInv'
<1>1. /\ edits' = edits + 1 /\ ~Chain!Unreadable(file) /\ \A w \in Writers : chainPc[w] = "idle"
      /\ UNCHANGED <<chainPc, entry, appended, issued, raced, appends>>
  BY DEF Chain!Edit, Chain!EditEntry, Chain!DeleteLine, Chain!SwapLines, Chain!CutTail,
         Chain!Edited
<1>2. edits' \in Nat /\ edits' # 0
  BY <1>1 DEF ChainInv, ChainTypeOK
<1>3. PICK f, g, lines : f = file /\ g = file' /\ lines = HashedLine(issued)
  OBVIOUS
<1>4. f \in Seq(lines)
  BY <1>3 DEF ChainInv, ChainTypeOK, Text
<1>5. PICK L \in Nat : L = Len(f) /\ DOMAIN f = 1..L /\ \A i \in 1..L : f[i] \in lines
  BY <1>4
<1>6. g \in Seq(lines)
  <2>1. ASSUME NEW i \in 1..L, Chain!EditEntry(i)
        PROVE  g \in Seq(lines)
    <3>1. PICK line : line = f[i] /\ line \in HashedLine(issued) /\ Chain!Parses(line)
      BY <1>1, <1>3, <1>5, <2>1 DEF Chain!Unreadable
    <3>2. PICK es : es = line.entries /\ es \in Seq(HashedEntry(issued)) /\ Len(es) = 1
      BY <3>1 DEF Chain!Parses, HashedLine
    <3>3. PICK e : e = es[1] /\ e \in HashedEntry(issued) /\ 1 \in DOMAIN es
      BY <3>2
    <3>4. PICK e2 : e2 \in Chain!EditedEntries(e) /\ g = [f EXCEPT ![i].entries[1] = e2]
      BY <1>3, <2>1, <3>1, <3>2, <3>3 DEF Chain!EditEntry
    <3>5. e2 \in HashedEntry(issued)
      <4>1. {0, MaxAppends} \subseteq Nat /\ issued \subseteq Seq(Nat)
        BY BoundsAssumption DEF ChainInv, ChainTypeOK
      <4>2. \/ e2 = [e EXCEPT !.record = 0]
            \/ \E n \in {0, MaxAppends} : e2 = [e EXCEPT !.index = n]
            \/ \E h \in issued : e2 = [e EXCEPT !.prev_hash = h] \/ e2 = [e EXCEPT !.record_hash = h]
        BY <3>4 DEF Chain!EditedEntries
      <4> QED
        BY <3>3, <4>1, <4>2 DEF HashedEntry
    <3>6. PICK es2 : es2 = [es EXCEPT ![1] = e2]
      OBVIOUS
    <3>7. es2 \in Seq(HashedEntry(issued)) /\ Len(es2) = 1
      BY <3>2, <3>3, <3>5, <3>6
    <3>8. PICK line2 : line2 = [line EXCEPT !.entries = es2]
      OBVIOUS
    <3>9. line2 \in HashedLine(issued)
      <4>1. line \in [entries : Seq(HashedEntry(issued)), torn : BOOLEAN, newline : BOOLEAN]
        BY <3>1 DEF HashedLine
      <4>2. /\ line2 \in [entries : Seq(HashedEntry(issued)), torn : BOOLEAN, newline : BOOLEAN]
            /\ line2.entries = es2
        BY <3>7, <3>8, <4>1
      <4>3. Len(line2.entries) > 0 \/ line2.torn
        BY <3>7, <4>2
      <4> QED
        BY <4>2, <4>3, Zenon DEF HashedLine
    <3>10. g = [f EXCEPT ![i] = line2]
      BY <3>1, <3>2, <3>4, <3>6, <3>8
    <3>11. line2 \in lines
      BY <1>3, <3>9
    <3> QED
      BY <1>4, <1>5, <3>10, <3>11
  <2>2. ASSUME NEW i \in 1..L, Chain!DeleteLine(i)
        PROVE  g \in Seq(lines)
    <3>1. g = SubSeq(f, 1, i - 1) \o SubSeq(f, i + 1, L)
      BY <1>3, <1>5, <2>2 DEF Chain!DeleteLine
    <3>2. PICK a, b : a = SubSeq(f, 1, i - 1) /\ b = SubSeq(f, i + 1, L)
      OBVIOUS
    <3>3. /\ i - 1 \in Int /\ i + 1 \in Int /\ L \in Int /\ 1 \in Int
          /\ \A k \in 1..(i - 1) : f[k] \in lines
          /\ \A k \in (i + 1)..L : f[k] \in lines
      BY <1>5, <2>2
    <3>4. a \in Seq(lines)
      BY <3>2, <3>3, SubSeqProperties
    <3>5. b \in Seq(lines)
      BY <3>2, <3>3, SubSeqProperties
    <3> QED
      BY <3>1, <3>2, <3>4, <3>5, ConcatProperties
  <2>3. ASSUME NEW i \in 1..L, Chain!CutTail(i)
        PROVE  g \in Seq(lines)
    <3>1. g = SubSeq(f, 1, i - 1)
      BY <1>3, <2>3 DEF Chain!CutTail
    <3>2. i - 1 \in Int /\ 1 \in Int /\ \A k \in 1..(i - 1) : f[k] \in lines
      BY <1>5, <2>3
    <3> QED
      BY <3>1, <3>2, SubSeqProperties
  <2>4. ASSUME NEW i \in 1..L, NEW j \in 1..L, Chain!SwapLines(i, j)
        PROVE  g \in Seq(lines)
    <3>1. PICK k : k = [f EXCEPT ![i] = f[j]]
      OBVIOUS
    <3>2. g = [k EXCEPT ![j] = f[i]]
      BY <1>3, <2>4, <3>1 DEF Chain!SwapLines
    <3>3. k \in Seq(lines) /\ DOMAIN k = 1..L /\ f[i] \in lines
      BY <1>4, <1>5, <3>1
    <3> QED
      BY <3>2, <3>3
  <2> QED
    BY <1>3, <1>5, <2>1, <2>2, <2>3, <2>4 DEF Chain!Edit
<1>7. ChainTypeOK'
  <2>1. file' \in Text(issued)'
    BY <1>1, <1>3, <1>6 DEF Text, HashedLine, HashedEntry
  <2> QED
    BY <1>1, <1>2, <2>1 DEF ChainInv, ChainTypeOK
<1>8. Alone'
  BY <1>1 DEF Alone
<1>9. NoFalseAlarm' /\ AckedReadable'
  BY <1>2 DEF NoFalseAlarm, Chain!NoFalseAlarm, AckedReadable, Chain!AckedReadable
<1> QED
  BY <1>7, <1>8, <1>9 DEF ChainInv

\* A step that writes nothing and prepares nothing.
LEMMA IdleStep ==
    ASSUME ChainInv, UNCHANGED <<file, entry, appended, issued, raced, edits>>,
           appends' \in Nat,
           \/ chainPc' = chainPc
           \/ \E w \in Writers : chainPc' = [chainPc EXCEPT ![w] = "idle"]
    PROVE  ChainInv'
<1>1. /\ chainPc' \in [Writers -> {"idle", "write"}]
      /\ \A w \in Writers : chainPc'[w] = "write" => chainPc[w] = "write"
  BY DEF ChainInv, ChainTypeOK
<1>2. ChainTypeOK'
  <2>1. file' \in Text(issued)'
    BY DEF ChainInv, ChainTypeOK, Text, HashedLine, HashedEntry
  <2> QED
    BY <1>1, <2>1 DEF ChainInv, ChainTypeOK
<1>3. Alone'
  BY <1>1 DEF ChainInv, Alone, Chain!LastUnreadable
<1>4. NoFalseAlarm' /\ AckedReadable'
  BY DEF ChainInv, NoFalseAlarm, Chain!NoFalseAlarm, AckedReadable, Chain!AckedReadable,
         Chain!ReadRecords
<1> QED
  BY <1>2, <1>3, <1>4 DEF ChainInv

LEMMA ChainNextInv ==
    ASSUME ChainInv, [Chain!Next]_(Chain!vars)
    PROVE  ChainInv'
<1>1. CASE UNCHANGED Chain!vars
  BY <1>1, IdleStep DEF Chain!vars, ChainInv, ChainTypeOK
<1>2. ASSUME NEW w \in Writers, Chain!ReadLastFails(w)
      PROVE  ChainInv'
  BY <1>2, IdleStep DEF Chain!ReadLastFails, ChainInv, ChainTypeOK
<1>3. ASSUME NEW w \in Writers, Chain!Write(w)
      PROVE  ChainInv'
  <2>1. PICK line : line = Chain!Line(<<entry[w]>>, FALSE, TRUE)
    OBVIOUS
  <2>2. line.torn = FALSE
    BY <2>1 DEF Chain!Line
  <2> QED
    BY <1>3, <2>1, <2>2, WriteStep DEF Chain!Write
<1>4. ASSUME NEW w \in Writers, Chain!WriteFails(w)
      PROVE  ChainInv'
  <2>1. CASE UNCHANGED <<file, issued>>
    BY <1>4, <2>1, IdleStep DEF Chain!WriteFails, ChainInv, ChainTypeOK
  <2>2. CASE \E line \in Chain!PartialWrites(entry[w]) :
                /\ file' = Chain!AppendText(file, line)
                /\ issued' = IF line.torn THEN issued ELSE issued \cup {entry[w].record_hash}
    BY <1>4, <2>2, WriteStep DEF Chain!WriteFails, Chain!PartialWrites
  <2> QED
    BY <1>4, <2>1, <2>2 DEF Chain!WriteFails
<1> QED
  BY <1>1, <1>2, <1>3, <1>4, ReadLastInv, EditInv DEF Chain!Next, Chain!Append1

\* The log of any number of writers that interleave, fail and are edited.
THEOREM ChainInvariance ==
    Chain!Spec => []ChainInv
<1>1. Chain!Init => ChainInv
  <2> SUFFICES ASSUME Chain!Init
               PROVE  ChainInv
    OBVIOUS
  <2>1. ChainTypeOK
    BY DEF Chain!Init, Chain!Genesis, ChainTypeOK, Text
  <2>2. Alone
    BY DEF Chain!Init, Alone
  <2>3. NoFalseAlarm
    BY DEF Chain!Init, NoFalseAlarm, Chain!NoFalseAlarm, Chain!verify_chain,
           Chain!read_all_entries
  <2>4. AckedReadable
    <3>1. DOMAIN appended = {} /\ DOMAIN file = {}
      BY DEF Chain!Init
    <3>2. [i \in {} |-> 0] \in [{} -> {}]
      OBVIOUS
    <3>3. Embeds(appended, file)
      BY <3>1, <3>2 DEF Embeds
    <3> QED
      BY <3>3, AckedAsEmbedding DEF AckedEmbedded
  <2> QED
    BY <2>1, <2>2, <2>3, <2>4 DEF ChainInv
<1>2. ChainInv /\ [Chain!Next]_(Chain!vars) => ChainInv'
  BY ChainNextInv
<1> QED
  BY <1>1, <1>2, PTL DEF Chain!Spec

\* append_entry(): readers refuse the log or see every record whose append
\* returned, in that order, with no lock and with writes that fail.
THEOREM AppendsAreReadable ==
    Chain!Spec => []AckedReadable
<1>1. ChainInv => AckedReadable
  BY DEF ChainInv
<1> QED
  BY <1>1, ChainInvariance, PTL

\* verify_chain(): a write cut short is never reported as tampering.
THEOREM NoWriteIsTampering ==
    Chain!Spec => []NoFalseAlarm
<1>1. ChainInv => NoFalseAlarm
  BY DEF ChainInv
<1> QED
  BY <1>1, ChainInvariance, PTL

\* verify_chain(): what verifies is, record for record, what a sequence of
\* appends once made of the log, whatever was edited by hand in between.
THEOREM VerifiedLogsAreGenuine ==
    Chain!Spec => []VerifiedIsGenuine
<1>1. ChainInv => VerifiedIsGenuine
  BY IssuedIsGenuine DEF ChainInv, ChainTypeOK
<1> QED
  BY <1>1, ChainInvariance, PTL

-----------------------------------------------------------------------------
(* The bucket.                                                             *)

BucketTypeOK ==
    /\ object \in [Digests -> Digests \cup {None}]
    /\ owner \in [Digests -> Clients \cup {Foreign}]
    /\ bucketPc \in [Clients -> {"idle", "head", "upload", "check", "get", "verify"}]
    /\ bucketJob \in [Clients -> [digest : Digests \cup {None}, data : Digests \cup {None}]]
    /\ \A c \in Clients : bucketPc[c] # "idle" => bucketJob[c].digest \in Digests

\* Under a digest that nobody has put other bytes under, every object, what is
\* being compared and what is being downloaded is genuine, and what has been
\* uploaded or reported is there.
Clean ==
    \A d \in Digests \ wronged :
        /\ object[d] \in {None, d} /\ (d \in stored => object[d] = d)
        /\ \A c \in Clients : bucketPc[c] \in {"check", "verify"} /\ bucketJob[c].digest = d =>
              bucketJob[c].data = d /\ (bucketPc[c] = "check" => object[d] = d)

BucketInv == BucketTypeOK /\ Clean /\ Bucket!WrongBytesAreRemoved

\* A step of a client that leaves the bucket alone: it does not compare wrong
\* bytes, or gives up doing so.
LEMMA BucketQuiet ==
    ASSUME BucketInv, NEW c \in Clients, UNCHANGED <<object, owner, wronged>>,
           NEW to \in {"idle", "head", "upload", "get", "verify"},
           bucketPc' = [bucketPc EXCEPT ![c] = to],
           NEW j \in [digest : Digests \cup {None}, data : Digests \cup {None}],
           bucketJob' = [bucketJob EXCEPT ![c] = j],
           to # "idle" => j.digest \in Digests,
           to = "verify" => j.data = object[j.digest] /\ j.data # None,
           \/ excused' = excused /\ (bucketPc[c] = "check" => bucketJob[c].data = bucketJob[c].digest)
           \/ bucketPc[c] # "idle" /\ excused' = excused \cup
                (IF bucketPc[c] = "check" /\ bucketJob[c].data # bucketJob[c].digest
                 THEN {bucketJob[c].digest} ELSE {}),
           \/ stored' = stored
           \/ /\ stored' = stored \cup {bucketJob[c].digest} /\ bucketJob[c].digest \in Digests
              /\ bucketJob[c].digest \notin wronged =>
                    object[bucketJob[c].digest] = bucketJob[c].digest
    PROVE  BucketInv'
<1> USE DEF BucketInv
<1>1. /\ bucketPc'[c] = to /\ bucketJob'[c] = j
      /\ \A b \in Clients : b # c => bucketPc'[b] = bucketPc[b] /\ bucketJob'[b] = bucketJob[b]
  BY DEF BucketTypeOK
<1>2. BucketTypeOK'
  BY <1>1 DEF BucketTypeOK
<1>3. Clean'
  <2> SUFFICES ASSUME NEW d \in Digests, d \notin wronged
               PROVE  /\ object[d] \in {None, d} /\ (d \in stored' => object[d] = d)
                      /\ \A b \in Clients :
                            bucketPc'[b] \in {"check", "verify"} /\ bucketJob'[b].digest = d =>
                              bucketJob'[b].data = d /\ (bucketPc'[b] = "check" => object[d] = d)
    BY DEF Clean
  <2>1. object[d] \in {None, d} /\ (d \in stored => object[d] = d)
    BY DEF Clean
  <2>2. d \in stored' => object[d] = d
    BY <2>1
  <2>3. ASSUME NEW b \in Clients, bucketPc'[b] \in {"check", "verify"}, bucketJob'[b].digest = d
        PROVE  bucketJob'[b].data = d /\ (bucketPc'[b] = "check" => object[d] = d)
    BY <1>1, <2>1, <2>3 DEF Clean
  <2> QED
    BY <2>1, <2>2, <2>3
<1>4. Bucket!WrongBytesAreRemoved'
  <2>1. excused \subseteq excused'
    OBVIOUS
  <2>2. ASSUME NEW d \in Digests, d \notin excused', object[d] \notin {None, d}
        PROVE  /\ owner[d] \in Clients /\ bucketPc'[owner[d]] = "check"
               /\ bucketJob'[owner[d]].digest = d
               /\ bucketJob'[owner[d]].data # bucketJob'[owner[d]].digest
    <3>1. /\ owner[d] \in Clients /\ bucketPc[owner[d]] = "check"
          /\ bucketJob[owner[d]].digest = d
          /\ bucketJob[owner[d]].data # bucketJob[owner[d]].digest
      BY <2>1, <2>2 DEF Bucket!WrongBytesAreRemoved, Bucket!Wrong
    <3>2. owner[d] # c
      BY <2>2, <3>1
    <3> QED
      BY <1>1, <3>1, <3>2
  <2> QED
    BY <2>2 DEF Bucket!WrongBytesAreRemoved, Bucket!Wrong
<1> QED
  BY <1>2, <1>3, <1>4

\* An upload is compared next, or its client gives up.
LEMMA UploadInv ==
    ASSUME BucketInv, NEW c \in Clients, NEW source \in Digests, Bucket!Upload(c, source)
    PROVE  BucketInv'
<1> USE MarkersAssumption DEF BucketInv
<1>1. PICK d \in Digests, wrong \in SUBSET Digests, to \in {"idle", "check"} :
        /\ d = bucketJob[c].digest /\ bucketPc[c] = "upload"
        /\ wrong = (IF source # d THEN {d} ELSE {})
        /\ wronged' = wronged \cup wrong
        /\ bucketPc' = [bucketPc EXCEPT ![c] = to]
        /\ excused' = (IF to = "idle" THEN excused \cup wrong ELSE excused)
        /\ object' = [object EXCEPT ![d] = source]
        /\ owner' = [owner EXCEPT ![d] = c]
        /\ bucketJob' = [bucketJob EXCEPT ![c].data = source]
        /\ stored' = stored
  <2>1. PICK d \in Digests : d = bucketJob[c].digest
    BY DEF Bucket!Upload, BucketTypeOK
  <2>2. PICK wrong \in SUBSET Digests : wrong = (IF source # d THEN {d} ELSE {})
    OBVIOUS
  <2>3. PICK to \in {"idle", "check"} :
          /\ bucketPc' = [bucketPc EXCEPT ![c] = to]
          /\ excused' = (IF to = "idle" THEN excused \cup wrong ELSE excused)
    BY <2>1, <2>2 DEF Bucket!Upload
  <2>4. /\ bucketPc[c] = "upload" /\ wronged' = wronged \cup wrong
        /\ object' = [object EXCEPT ![d] = source] /\ owner' = [owner EXCEPT ![d] = c]
        /\ bucketJob' = [bucketJob EXCEPT ![c].data = source] /\ stored' = stored
    BY <2>1, <2>2 DEF Bucket!Upload
  <2> QED
    BY <2>1, <2>2, <2>3, <2>4
<1>2. /\ bucketPc'[c] = to /\ bucketJob'[c].digest = d /\ bucketJob'[c].data = source
      /\ \A b \in Clients : b # c => bucketPc'[b] = bucketPc[b] /\ bucketJob'[b] = bucketJob[b]
      /\ \A e \in Digests : object'[e] = (IF e = d THEN source ELSE object[e])
      /\ \A e \in Digests : owner'[e] = (IF e = d THEN c ELSE owner[e])
  BY <1>1 DEF BucketTypeOK
<1>3. BucketTypeOK'
  BY <1>1, <1>2 DEF BucketTypeOK
<1>4. Clean'
  <2> SUFFICES ASSUME NEW e \in Digests, e \notin wronged'
               PROVE  /\ object'[e] \in {None, e} /\ (e \in stored' => object'[e] = e)
                      /\ \A b \in Clients :
                            bucketPc'[b] \in {"check", "verify"} /\ bucketJob'[b].digest = e =>
                              bucketJob'[b].data = e /\ (bucketPc'[b] = "check" => object'[e] = e)
    BY DEF Clean
  <2>1. e \notin wronged /\ (e = d => source = e)
    BY <1>1
  <2>2. object'[e] \in {None, e} /\ (e \in stored' => object'[e] = e)
    BY <1>1, <1>2, <2>1 DEF Clean
  <2>3. ASSUME NEW b \in Clients, bucketPc'[b] \in {"check", "verify"}, bucketJob'[b].digest = e
        PROVE  bucketJob'[b].data = e /\ (bucketPc'[b] = "check" => object'[e] = e)
    BY <1>2, <2>1, <2>3 DEF Clean
  <2> QED
    BY <2>2, <2>3
<1>5. Bucket!WrongBytesAreRemoved'
  <2>1. ASSUME NEW e \in Digests, e \notin excused', object'[e] \notin {None, e}
        PROVE  /\ owner'[e] \in Clients /\ bucketPc'[owner'[e]] = "check"
               /\ bucketJob'[owner'[e]].digest = e
               /\ bucketJob'[owner'[e]].data # bucketJob'[owner'[e]].digest
    <3>1. CASE e = d
      BY <1>1, <1>2, <2>1, <3>1
    <3>2. CASE e # d
      <4>1. owner'[e] = owner[e] /\ object'[e] = object[e] /\ e \notin excused
        BY <1>1, <1>2, <2>1, <3>2
      <4>2. /\ owner[e] \in Clients /\ bucketPc[owner[e]] = "check"
            /\ bucketJob[owner[e]].digest = e
            /\ bucketJob[owner[e]].data # bucketJob[owner[e]].digest
        BY <2>1, <4>1 DEF Bucket!WrongBytesAreRemoved, Bucket!Wrong
      <4>3. owner[e] # c
        BY <1>1, <4>2
      <4> QED
        BY <1>2, <4>1, <4>2, <4>3
    <3> QED
      BY <3>1, <3>2
  <2> QED
    BY <2>1 DEF Bucket!WrongBytesAreRemoved, Bucket!Wrong
<1> QED
  BY <1>3, <1>4, <1>5

\* A client deletes under a digest that it, if nobody else, has put wrong bytes
\* under; somebody else who writes there spoils the digest.
LEMMA SpoilInv ==
    ASSUME BucketInv, UNCHANGED <<bucketJob, stored>>, NEW d \in Digests, d \in wronged',
           NEW x \in Digests \cup {None}, object' = [object EXCEPT ![d] = x],
           x = None \/ d \in excused',
           owner' = owner \/ owner' = [owner EXCEPT ![d] = Foreign],
           wronged \subseteq wronged', excused \subseteq excused',
           \/ bucketPc' = bucketPc
           \/ \E c \in Clients : bucketJob[c].digest = d /\ bucketPc' = [bucketPc EXCEPT ![c] = "idle"]
    PROVE  BucketInv'
<1> USE MarkersAssumption DEF BucketInv
<1>1. /\ \A e \in Digests : e # d => object'[e] = object[e] /\ owner'[e] = owner[e]
      /\ object'[d] = x
      /\ \A b \in Clients : /\ bucketPc'[b] \in {"idle", bucketPc[b]}
                            /\ bucketJob[b].digest # d => bucketPc'[b] = bucketPc[b]
  BY DEF BucketTypeOK
<1>2. BucketTypeOK'
  <2>1. object' \in [Digests -> Digests \cup {None}] /\ owner' \in [Digests -> Clients \cup {Foreign}]
    BY DEF BucketTypeOK
  <2>2. bucketPc' \in [Clients -> {"idle", "head", "upload", "check", "get", "verify"}]
    BY DEF BucketTypeOK
  <2> QED
    BY <1>1, <2>1, <2>2 DEF BucketTypeOK
<1>3. Clean'
  <2> SUFFICES ASSUME NEW e \in Digests, e \notin wronged'
               PROVE  /\ object'[e] \in {None, e} /\ (e \in stored' => object'[e] = e)
                      /\ \A b \in Clients :
                            bucketPc'[b] \in {"check", "verify"} /\ bucketJob'[b].digest = e =>
                              bucketJob'[b].data = e /\ (bucketPc'[b] = "check" => object'[e] = e)
    BY DEF Clean
  <2>1. e # d /\ e \notin wronged /\ object'[e] = object[e]
    BY <1>1
  <2> QED
    BY <1>1, <2>1 DEF Clean
<1>4. Bucket!WrongBytesAreRemoved'
  <2>1. ASSUME NEW e \in Digests, e \notin excused', object'[e] \notin {None, e}
        PROVE  /\ owner'[e] \in Clients /\ bucketPc'[owner'[e]] = "check"
               /\ bucketJob'[owner'[e]].digest = e
               /\ bucketJob'[owner'[e]].data # bucketJob'[owner'[e]].digest
    <3>1. e # d /\ e \notin excused /\ owner'[e] = owner[e] /\ object'[e] = object[e]
      BY <1>1, <2>1
    <3>2. /\ owner[e] \in Clients /\ bucketPc[owner[e]] = "check"
          /\ bucketJob[owner[e]].digest = e
          /\ bucketJob[owner[e]].data # bucketJob[owner[e]].digest
      BY <2>1, <3>1 DEF Bucket!WrongBytesAreRemoved, Bucket!Wrong
    <3> QED
      BY <1>1, <3>1, <3>2
  <2> QED
    BY <2>1 DEF Bucket!WrongBytesAreRemoved, Bucket!Wrong
<1> QED
  BY <1>2, <1>3, <1>4

LEMMA BucketNextInv ==
    ASSUME BucketInv, [Bucket!Next]_(Bucket!vars)
    PROVE  BucketInv'
<1> DEFINE Jobs == [digest : Digests \cup {None}, data : Digests \cup {None}]
<1> USE MarkersAssumption DEF BucketInv
<1>1. CASE UNCHANGED Bucket!vars
  BY <1>1 DEF Bucket!vars, BucketTypeOK, Clean, Bucket!WrongBytesAreRemoved, Bucket!Wrong
<1>2. ASSUME NEW c \in Clients, NEW d \in Digests, Bucket!UploadBegin(c, d) \/ Bucket!GetBegin(c, d)
      PROVE  BucketInv'
  <2>1. PICK j \in Jobs : j = [digest |-> d, data |-> None]
    OBVIOUS
  <2>2. PICK to \in {"head", "get"} :
          /\ bucketPc[c] = "idle" /\ bucketPc' = [bucketPc EXCEPT ![c] = to]
          /\ bucketJob' = [bucketJob EXCEPT ![c] = j]
          /\ UNCHANGED <<object, owner, wronged, excused, stored>>
    BY <1>2, <2>1 DEF Bucket!UploadBegin, Bucket!GetBegin, Bucket!Call, Bucket!Step, Bucket!NoJob,
       Bucket!bucket
  <2>3. j.digest \in Digests
    BY <2>1
  <2> QED
    BY <2>2, <2>3, BucketQuiet
<1>3. ASSUME NEW c \in Clients, UNCHANGED <<object, owner, wronged, bucketJob>>,
             NEW to \in {"idle", "upload"}, bucketPc' = [bucketPc EXCEPT ![c] = to],
             bucketPc[c] # "idle",
             \/ excused' = excused /\ (bucketPc[c] = "check" => ~Bucket!Wrong(c))
             \/ excused' = excused \cup (IF bucketPc[c] = "check" /\ Bucket!Wrong(c)
                                         THEN {bucketJob[c].digest} ELSE {}),
             \/ stored' = stored
             \/ /\ stored' = stored \cup {bucketJob[c].digest}
                /\ \/ object[bucketJob[c].digest] # None
                   \/ bucketPc[c] = "check"
      PROVE  BucketInv'
  <2>1. PICK j \in Jobs : j = bucketJob[c]
    BY DEF BucketTypeOK
  <2>2. bucketJob' = [bucketJob EXCEPT ![c] = j]
    BY <1>3, <2>1 DEF BucketTypeOK
  <2>3. j.digest \in Digests
    BY <1>3, <2>1 DEF BucketTypeOK
  <2>4. \/ stored' = stored
        \/ /\ stored' = stored \cup {bucketJob[c].digest} /\ bucketJob[c].digest \in Digests
           /\ bucketJob[c].digest \notin wronged =>
                 object[bucketJob[c].digest] = bucketJob[c].digest
    BY <1>3, <2>1, <2>3 DEF Clean
  <2>5. \/ excused' = excused /\ (bucketPc[c] = "check" => bucketJob[c].data = bucketJob[c].digest)
        \/ bucketPc[c] # "idle" /\ excused' = excused \cup
             (IF bucketPc[c] = "check" /\ bucketJob[c].data # bucketJob[c].digest
              THEN {bucketJob[c].digest} ELSE {})
    BY <1>3 DEF Bucket!Wrong
  <2>6. /\ to \in {"idle", "head", "upload", "get", "verify"} /\ to # "verify"
        /\ UNCHANGED <<object, owner, wronged>> /\ bucketPc' = [bucketPc EXCEPT ![c] = to]
        /\ j \in [digest : Digests \cup {None}, data : Digests \cup {None}]
    BY <1>3
  <2> HIDE DEF BucketInv, Jobs
  <2> QED
    BY <2>2, <2>3, <2>4, <2>5, <2>6, BucketQuiet
<1>4. ASSUME NEW c \in Clients, Bucket!AlreadyPresent(c) \/ Bucket!Absent(c)
      PROVE  BucketInv'
  BY <1>3, <1>4 DEF Bucket!AlreadyPresent, Bucket!Absent, Bucket!Step, Bucket!bucket
<1>5. ASSUME NEW c \in Clients, Bucket!CheckPasses(c) \/ Bucket!DeleteFails(c)
      PROVE  BucketInv'
  BY <1>3, <1>5 DEF Bucket!CheckPasses, Bucket!DeleteFails, Bucket!Step, Bucket!bucket
<1>6. ASSUME NEW c \in Clients, Bucket!Accept(c) \/ Bucket!Raise(c)
      PROVE  BucketInv'
  BY <1>3, <1>6 DEF Bucket!Accept, Bucket!Raise, Bucket!Step, Bucket!bucket
<1>7. ASSUME NEW c \in Clients, Bucket!Get(c)
      PROVE  BucketInv'
  <2>1. PICK d \in Digests : d = bucketJob[c].digest
    BY <1>7 DEF Bucket!Get, Bucket!Step, BucketTypeOK
  <2>2. PICK j \in Jobs : j = [bucketJob[c] EXCEPT !.data = object[d]]
    BY DEF BucketTypeOK
  <2>3. bucketJob' = [bucketJob EXCEPT ![c] = j]
    BY <1>7, <2>1, <2>2 DEF Bucket!Get
  <2>4. /\ bucketPc[c] = "get" /\ bucketPc' = [bucketPc EXCEPT ![c] = "verify"]
        /\ object[d] # None /\ UNCHANGED <<object, owner, wronged, excused, stored>>
    BY <1>7, <2>1 DEF Bucket!Get, Bucket!Step, Bucket!bucket
  <2>5. j.digest = d /\ j.data = object[d]
    BY <2>1, <2>2 DEF BucketTypeOK
  <2> QED
    BY <2>3, <2>4, <2>5, BucketQuiet
<1>8. ASSUME NEW c \in Clients, Bucket!Delete(c)
      PROVE  BucketInv'
  <2>1. PICK d \in Digests : d = bucketJob[c].digest
    BY <1>8 DEF Bucket!Delete, Bucket!Step, BucketTypeOK
  <2>2. d \in wronged
    BY <1>8, <2>1 DEF Bucket!Delete, Bucket!Step, Bucket!Wrong, Clean
  <2> QED
    BY <1>8, <2>1, <2>2, SpoilInv DEF Bucket!Delete, Bucket!Step
<1>9. CASE Bucket!ForeignWrite
  <2>1. PICK d \in Digests, x \in Digests \cup {None} :
          /\ object' = [object EXCEPT ![d] = x] /\ owner' = [owner EXCEPT ![d] = Foreign]
          /\ wronged' = wronged \cup {d} /\ excused' = excused \cup {d}
          /\ UNCHANGED <<bucketPc, bucketJob, stored>>
    BY <1>9 DEF Bucket!ForeignWrite
  <2> QED
    BY <2>1, SpoilInv
<1> QED
  BY <1>1, <1>2, <1>4, <1>5, <1>6, <1>7, <1>8, <1>9, UploadInv DEF Bucket!Next, Bucket!Client

\* S3BlobStore: bytes under a digest that are not its own belong to an upload
\* that is about to remove them, and while there are none, what was reported as
\* stored stays and every download gets it, for any number of clients.
THEOREM BucketAlwaysSettles ==
    Bucket!Spec => []BucketSettles
<1>1. Bucket!Init => BucketInv
  BY DEF Bucket!Init, Bucket!NoJob, BucketInv, BucketTypeOK, Clean, Bucket!WrongBytesAreRemoved
<1>2. BucketInv /\ [Bucket!Next]_(Bucket!vars) => BucketInv'
  BY BucketNextInv
<1>3. BucketInv => BucketSettles
  BY DEF BucketInv, Clean, BucketSettles, Bucket!BucketSettles, Bucket!AckedIsKept, Bucket!Wrong
<1> QED
  BY <1>1, <1>2, <1>3, PTL DEF Bucket!Spec

-----------------------------------------------------------------------------
(* The whole.                                                              *)

\* None of the parts touches the files of another: what is proved of each by
\* itself holds where the four are model-checked together.
THEOREM PartsAreIndependent ==
    StorageSpec => Spec /\ Registry!Spec /\ Chain!Spec /\ Bucket!Spec
<1>1. StorageInit => Init /\ Registry!Init /\ Chain!Init /\ Bucket!Init
  BY DEF StorageInit
<1>2. ASSUME [StorageNext]_storageVars
      PROVE  /\ [Next]_vars /\ [Registry!Next]_(Registry!vars)
             /\ [Chain!Next]_(Chain!vars) /\ [Bucket!Next]_(Bucket!vars)
  <2>1. CASE UNCHANGED storageVars
    BY <2>1 DEF storageVars, blobVars, vars, registryVars, Registry!vars, chainVars, Chain!vars,
                bucketVars, Bucket!vars
  <2>2. CASE StorageNext
    BY <2>2 DEF StorageNext, blobVars, vars, registryVars, Registry!vars, chainVars, Chain!vars,
                bucketVars, Bucket!vars
  <2> QED
    BY <1>2, <2>1, <2>2
<1> QED
  BY <1>1, <1>2, PTL DEF StorageSpec, Spec, Registry!Spec, Chain!Spec, Bucket!Spec
=============================================================================
