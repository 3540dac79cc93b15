--------------------------- MODULE ReleasesProofs ---------------------------
(***************************************************************************)
(* TLAPS proofs about releases.  Publishing, for any people, contents,     *)
(* names, number of commands and of edits: a signature is about bytes that *)
(* were there, what verify accepts was published, and a revocation is      *)
(* honoured.  Provenance, for any models, events and revocations: the      *)
(* traversals compute what is reachable, and the query for deployments of  *)
(* revoked models misses nothing and makes nothing up.                     *)
(***************************************************************************)
EXTENDS MCReleases, TLAPS

-----------------------------------------------------------------------------
(* Types.                                                                  *)

Manifests == [digest : Contents, name : Names \cup {None}]
Boms == [digest : Contents, serial : Nat]
Envelopes == [artifact : Contents, mbom : Boms, name : Names \cup {None}, key : Nat]
Docs == Manifests \cup Boms \cup Envelopes \cup Nat

Files == {"manifest", "mbom", "signature", "private", "public"}
Commands == {"manifest", "mbom", "sign", "fingerprint", "keygen", "register", "revoke", "resolve",
             "verify"}
Pcs == {"idle", "refused", "hashForManifest", "readManifest", "readMbom", "readKey", "readPublic",
        "readSignature", "sign", "open", "fill", "register", "revoke", "get", "isRevoked",
        "hashForVerify", "decide"}

Jobs ==
    [cmd : Commands \cup {None}, name : Names \cup {None}, store : Stores \cup {None, "refused"},
     asked : Stores \cup {None}, before : SUBSET Names, trust : (SUBSET Nat) \cup {None},
     manifest : Manifests \cup {None}, mbom : Boms \cup {None}, envelope : Envelopes \cup {None},
     key : Nat \cup {None}, hashed : Contents \cup {None}, held : SUBSET Contents,
     out : Files \cup {None}, doc : Docs \cup {None}, shown : BOOLEAN \cup {None}]

StateOK ==
    /\ artifact \in Contents
    /\ file \in [Files -> Docs \cup {Empty, Torn}]
    /\ revoked \in [Stores -> SUBSET Names]
    /\ trusted \in SUBSET Nat
    /\ measured \in SUBSET Manifests
    /\ issued \in SUBSET [envelope : Envelopes, held : SUBSET Contents]
    /\ nextKey \in Nat /\ serials \in Nat
    /\ commands \in 0..MaxCommands /\ edits \in 0..MaxEdits

TypeOK == StateOK /\ pc \in [People -> Pcs] /\ job \in [People -> Jobs]

-----------------------------------------------------------------------------
(* The inductive invariant.                                                *)

\* The envelopes sign made.
Signed == {i.envelope : i \in issued}

\* A document of the kind that belongs into a file.
Belongs(f, doc) ==
    /\ f = "manifest" => doc \in measured
    /\ f = "mbom" => doc \in Boms
    /\ f = "signature" => doc \in Signed
    /\ f \in {"private", "public"} => doc \in Nat

\* A file that parses was written by one command, whole.
FilesAreWhole == \A f \in Files : Belongs(f, file[f]) \/ file[f] \in {Empty, Torn}

\* What a running command has read and is about to write.
Running(p) ==
    LET at == pc[p]
        j == job[p]
    IN  /\ at # "idle" => artifact \in j.held
        /\ at \notin {"idle", "refused"} =>
            j.store = j.asked /\ (j.asked # None => j.before \subseteq revoked[j.asked])
        /\ at = "hashForManifest" => j.out = "manifest"
        /\ at = "readManifest" =>
            /\ j.cmd \in {"mbom", "sign", "register"}
            /\ j.cmd = "mbom" => j.out = "mbom"
            /\ j.cmd = "sign" => j.out = "signature"
        /\ at = "readMbom" =>
            /\ j.cmd \in {"sign", "register", "verify"}
            /\ j.cmd # "verify" => j.manifest \in measured
            /\ j.cmd = "sign" => j.out = "signature"
        /\ at \in {"readKey", "sign"} =>
            j.out = "signature" /\ j.manifest \in measured /\ j.mbom \in Boms
        /\ at = "sign" => j.key \in Nat
        /\ at \in {"open", "fill"} => j.out \in Files /\ Belongs(j.out, j.doc)
        /\ at = "revoke" => j.name \in Names
        /\ at \in {"get", "isRevoked"} => j.cmd = "resolve"
        /\ at \in {"readSignature", "hashForVerify", "decide"} => j.cmd = "verify"
        /\ at \in {"hashForVerify", "decide"} => j.envelope \in Signed
        /\ at = "decide" => j.hashed \in j.held

\* What a command that succeeded leaves: the two properties, for one person.
Published(p) ==
    pc[p] = "idle" /\ job[p].cmd = "verify" =>
        /\ job[p].hashed \in job[p].held
        /\ \E i \in issued :
            /\ i.envelope = job[p].envelope
            /\ i.envelope.artifact = job[p].hashed /\ i.envelope.mbom = job[p].mbom
            /\ job[p].trust # None => i.envelope.key \in job[p].trust
Honoured(p) ==
    pc[p] = "idle" /\ job[p].asked # None =>
        /\ job[p].cmd = "verify" => job[p].envelope.name \notin job[p].before
        /\ job[p].cmd = "resolve" /\ job[p].name \in job[p].before => job[p].shown

Inv ==
    /\ TypeOK /\ FilesAreWhole /\ SignedBytesWereThere
    /\ \A p \in People : Running(p) /\ Published(p) /\ Honoured(p)

-----------------------------------------------------------------------------
(* Frames.                                                                 *)

\* Nothing that was written, signed or revoked is taken back.
Grows ==
    /\ measured \subseteq measured' /\ issued \subseteq issued'
    /\ \A s \in Stores : revoked[s] \subseteq revoked'[s]

LEMMA BelongsStays ==
    ASSUME Grows, NEW f, NEW doc, Belongs(f, doc)
    PROVE  Belongs(f, doc)'
BY DEF Grows, Belongs, Signed

\* A person who does nothing is not disturbed by what others do.
LEMMA Undisturbed ==
    ASSUME Inv, NEW o \in People, pc'[o] = pc[o], job'[o] = job[o], artifact' = artifact, Grows
    PROVE  Running(o)' /\ Published(o)' /\ Honoured(o)'
<1>1. Running(o) /\ Published(o) /\ Honoured(o) /\ job[o] \in Jobs
  BY DEF Inv, TypeOK
<1>2. Published(o)' /\ Honoured(o)'
  BY <1>1 DEF Published, Honoured, Grows
<1>3. PICK f, d : f = job[o].out /\ d = job[o].doc
  OBVIOUS
<1>4. Belongs(f, d) => Belongs(f, d)'
  BY BelongsStays
<1>5. pc[o] \in {"open", "fill"} => job'[o].out \in Files /\ Belongs(job[o].out, job[o].doc)'
  <2>1. pc[o] \in {"open", "fill"} => f \in Files /\ Belongs(f, d)
    BY <1>1, <1>3 DEF Running
  <2> QED
    BY <1>3, <1>4, <2>1 DEF Belongs, Signed
<1>6. /\ job[o].manifest \in measured => job[o].manifest \in measured'
      /\ job[o].envelope \in Signed => job[o].envelope \in Signed'
  BY DEF Grows, Signed
<1>7. job[o].asked # None /\ job[o].before \subseteq revoked[job[o].asked] =>
          job[o].before \subseteq revoked'[job[o].asked]
  <2>1. job[o].asked # None => job[o].asked \in Stores
    BY <1>1 DEF Jobs
  <2> QED
    BY <2>1 DEF Grows
<1> QED
  BY <1>1, <1>2, <1>5, <1>6, <1>7 DEF Running

\* A step of one person keeps the invariant if it keeps its own part.
LEMMA StepInv ==
    ASSUME Inv, NEW p \in People, NEW to \in Pcs, NEW k \in Jobs,
           pc' = [pc EXCEPT ![p] = to], job' = [job EXCEPT ![p] = k],
           artifact' = artifact, Grows, StateOK', FilesAreWhole', SignedBytesWereThere',
           Running(p)', Published(p)', Honoured(p)'
    PROVE  Inv'
<1>1. TypeOK'
  BY DEF Inv, TypeOK
<1>2. ASSUME NEW o \in People
      PROVE  Running(o)' /\ Published(o)' /\ Honoured(o)'
  <2>1. CASE o # p
    <3>1. pc'[o] = pc[o] /\ job'[o] = job[o]
      BY <2>1 DEF Inv, TypeOK
    <3> QED
      BY <3>1, Undisturbed
  <2> QED
    BY <2>1
<1> QED
  BY <1>1, <1>2 DEF Inv

\* A step that only reads.
LEMMA ReadInv ==
    ASSUME Inv, NEW p \in People, NEW to \in Pcs, NEW k \in Jobs,
           pc' = [pc EXCEPT ![p] = to], job' = [job EXCEPT ![p] = k], Reading,
           Running(p)', Published(p)', Honoured(p)'
    PROVE  Inv'
<1>1. UNCHANGED <<artifact, file, revoked, trusted, measured, issued, nextKey, serials, commands, edits>>
  BY DEF Reading, registry, ghosts, counters
<1>2. StateOK' /\ Grows
  BY <1>1 DEF Inv, TypeOK, StateOK, Grows
<1>3. FilesAreWhole' /\ SignedBytesWereThere'
  BY <1>1 DEF Inv, FilesAreWhole, SignedBytesWereThere, Belongs, Signed
<1> QED
  BY <1>1, <1>2, <1>3, StepInv

\* A person whose command is over and left nothing behind.
LEMMA NoJobOk ==
    /\ NoJob \in Jobs
    /\ NoJob.cmd = None /\ NoJob.cmd \notin {"verify", "resolve"}
    /\ NoJob.store = None /\ NoJob.asked = None
<1>1. NoJob \in Jobs
  BY DEF NoJob, Jobs
<1>2. NoJob.cmd = None /\ NoJob.store = None /\ NoJob.asked = None
  BY DEF NoJob
<1>3. None \notin {"verify", "resolve"}
  BY MarkersAssumption
<1> QED
  BY <1>1, <1>2, <1>3

LEMMA IdleOk ==
    ASSUME NEW p \in People, pc'[p] = "idle", job'[p].cmd \notin {"verify", "resolve"}
    PROVE  Running(p)' /\ Published(p)' /\ Honoured(p)'
BY DEF Running, Published, Honoured

\* Where the latest job of a person is after a step.
LEMMA GotoSets ==
    ASSUME TypeOK, NEW p \in People, NEW from, NEW to, NEW k, Goto(p, from, to, k)
    PROVE  /\ pc' = [pc EXCEPT ![p] = to] /\ job' = [job EXCEPT ![p] = k]
           /\ pc[p] = from /\ pc'[p] = to /\ job'[p] = k
BY DEF Goto, TypeOK

\* A command that fails, or ends without a result, having only read.
LEMMA EndInv ==
    ASSUME Inv, NEW p \in People, NEW from, Goto(p, from, "idle", NoJob), Reading
    PROVE  Inv'
<1>1. /\ pc' = [pc EXCEPT ![p] = "idle"] /\ job' = [job EXCEPT ![p] = NoJob]
      /\ pc'[p] = "idle" /\ job'[p] = NoJob
  BY GotoSets DEF Inv
<1>2. Running(p)' /\ Published(p)' /\ Honoured(p)'
  BY <1>1, NoJobOk, IdleOk
<1> QED
  BY <1>1, <1>2, NoJobOk, ReadInv DEF Pcs

LEMMA FailureInv ==
    ASSUME Inv, NEW p \in People, Refuse(p) \/ RefuseToSign(p) \/ Crash(p)
    PROVE  Inv'
<1>1. PICK from : Goto(p, from, "idle", NoJob)
  BY DEF Refuse, RefuseToSign, Crash, Fail
<1>2. Reading
  BY DEF Refuse, RefuseToSign, Crash
<1> QED
  BY <1>1, <1>2, EndInv

LEMMA InitInv ==
    ASSUME Init
    PROVE  Inv
<1>1. PICK c \in Contents, n \in Names \cup {None} :
        LET m == build_manifest(c, n)
            bom == generate_mbom(m, 0)
            envelope == sign_artifact(m, bom, 0)
        IN  /\ artifact \in Contents
            /\ file = [manifest |-> m, mbom |-> bom, signature |-> envelope,
                       private |-> 0, public |-> 0]
            /\ revoked = [s \in Stores |-> {}]
            /\ trusted = {0}
            /\ pc = [p \in People |-> "idle"]
            /\ job = [p \in People |-> NoJob]
            /\ nextKey = 1 /\ serials = 1
            /\ measured = {m} /\ issued = {[envelope |-> envelope, held |-> {c}]}
            /\ commands = 0 /\ edits = 0
  BY DEF Init
<1> DEFINE m == build_manifest(c, n)
           bom == generate_mbom(m, 0)
           e == sign_artifact(m, bom, 0)
<1>2. m \in Manifests /\ m.digest = c /\ m.name = n
  BY DEF build_manifest, Manifests
<1> HIDE DEF m
<1>3. bom \in Boms
  BY <1>2 DEF generate_mbom, Boms
<1> HIDE DEF bom
<1>4. e \in Envelopes /\ e.artifact = c /\ e.name = n
  BY <1>2, <1>3 DEF sign_artifact, Envelopes
<1> HIDE DEF e
<1>5. /\ file = [manifest |-> m, mbom |-> bom, signature |-> e, private |-> 0, public |-> 0]
      /\ measured = {m} /\ issued = {[envelope |-> e, held |-> {c}]}
  BY <1>1 DEF m, bom, e
<1>6. /\ file.manifest = m /\ file.mbom = bom /\ file.signature = e
      /\ file.private = 0 /\ file.public = 0
      /\ file \in [Files -> Docs \cup {Empty, Torn}]
  BY <1>2, <1>3, <1>4, <1>5 DEF Files, Docs
<1>7. PICK i : i = [envelope |-> e, held |-> {c}]
  OBVIOUS
<1>8. /\ i.envelope = e /\ i.held = {c} /\ issued = {i}
      /\ i \in [envelope : Envelopes, held : SUBSET Contents]
  BY <1>4, <1>5, <1>7
<1>9. TypeOK
  <2>1. commands \in 0..MaxCommands /\ edits \in 0..MaxEdits
    BY <1>1, BoundsAssumption
  <2>2. pc \in [People -> Pcs] /\ job \in [People -> Jobs]
    BY <1>1, NoJobOk DEF Pcs
  <2>3. measured \in SUBSET Manifests
    BY <1>2, <1>5
  <2>4. /\ artifact \in Contents /\ revoked \in [Stores -> SUBSET Names]
        /\ trusted \in SUBSET Nat /\ nextKey \in Nat /\ serials \in Nat
    BY <1>1
  <2> QED
    BY <1>6, <1>8, <2>1, <2>2, <2>3, <2>4 DEF TypeOK, StateOK
<1>10. FilesAreWhole
  <2>1. e \in Signed
    BY <1>8 DEF Signed
  <2>2. m \in measured
    BY <1>5
  <2> QED
    BY <1>3, <1>6, <2>1, <2>2 DEF FilesAreWhole, Belongs, Files
<1>11. SignedBytesWereThere
  BY <1>4, <1>5, <1>8 DEF SignedBytesWereThere, m
<1>12. ASSUME NEW p \in People
       PROVE  Running(p) /\ Published(p) /\ Honoured(p)
  <2>1. pc[p] = "idle" /\ job[p].cmd \notin {"verify", "resolve"}
    BY <1>1, NoJobOk
  <2> QED
    BY <2>1 DEF Running, Published, Honoured
<1> QED
  BY <1>9, <1>10, <1>11, <1>12 DEF Inv

-----------------------------------------------------------------------------
(* Starting a command.                                                     *)

\* What is known when a command has been started.
Starts(cmd, to, j) ==
    /\ cmd \in Commands /\ j \in Jobs
    /\ to \in {"refused", "hashForManifest", "readManifest", "readMbom", "readPublic", "open",
               "revoke", "get"}
    /\ to # "refused" => j.store = j.asked /\ (j.asked # None => j.before \subseteq revoked[j.asked])
    /\ to = "hashForManifest" => j.out = "manifest"
    /\ to = "readManifest" =>
        /\ cmd \in {"mbom", "sign", "register"}
        /\ cmd = "mbom" => j.out = "mbom"
        /\ cmd = "sign" => j.out = "signature"
    /\ to = "readMbom" => cmd = "verify"
    /\ to = "open" => j.out = "private" /\ j.doc \in Nat
    /\ to = "revoke" => j.name \in Names
    /\ to = "get" => cmd = "resolve"

LEMMA StartInv ==
    ASSUME Inv, NEW p \in People, NEW cmd, NEW to, NEW j, Start(p, cmd, to, j),
           Starts(cmd, to, j), nextKey' \in Nat
    PROVE  Inv'
<1>1. j \in Jobs /\ artifact \in Contents /\ cmd \in Commands /\ to \in Pcs
  BY DEF Inv, TypeOK, StateOK, Starts, Pcs
<1> DEFINE i == [j EXCEPT !.cmd = cmd]
<1>2. /\ i \in Jobs /\ i.cmd = cmd
      /\ i.store = j.store /\ i.asked = j.asked /\ i.before = j.before
      /\ i.out = j.out /\ i.doc = j.doc /\ i.name = j.name
  BY <1>1 DEF Jobs
<1>3. [j EXCEPT !.cmd = cmd, !.held = {artifact}] = [i EXCEPT !.held = {artifact}]
  BY <1>1 DEF Jobs
<1> HIDE DEF i
<1> DEFINE k == [i EXCEPT !.held = {artifact}]
<1>4. /\ k \in Jobs /\ k.cmd = cmd /\ k.held = {artifact}
      /\ k.store = j.store /\ k.asked = j.asked /\ k.before = j.before
      /\ k.out = j.out /\ k.doc = j.doc /\ k.name = j.name
  BY <1>1, <1>2 DEF Jobs
<1>5. /\ pc' = [pc EXCEPT ![p] = to] /\ job' = [job EXCEPT ![p] = k]
      /\ commands' = commands + 1 /\ commands < MaxCommands
      /\ UNCHANGED <<artifact, file, revoked, trusted, measured, issued, serials, edits>>
  BY <1>3 DEF Start, registry, ghosts
<1> HIDE DEF k
<1>6. pc'[p] = to /\ job'[p] = k
  BY <1>5 DEF Inv, TypeOK
<1>7. StateOK'
  BY <1>5, BoundsAssumption DEF Inv, TypeOK, StateOK
<1>8. Grows /\ FilesAreWhole' /\ SignedBytesWereThere'
  BY <1>5 DEF Inv, Grows, FilesAreWhole, SignedBytesWereThere, Belongs, Signed
<1>9. Published(p)' /\ Honoured(p)'
  BY <1>6 DEF Starts, Published, Honoured
<1>10. Running(p)'
  BY <1>4, <1>5, <1>6 DEF Starts, Running, Belongs, Files
<1> QED
  BY <1>1, <1>4, <1>5, <1>7, <1>8, <1>9, <1>10, StepInv

\* A command that uses no registry.
LEMMA StartAloneInv ==
    ASSUME Inv, NEW p \in People,
           \/ mbom_generate(p) \/ sign(p) \/ fingerprint(p) \/ keygen(p)
           \/ \E n \in Names \cup {None} : manifest(p, n)
    PROVE  Inv'
<1>1. nextKey \in Nat
  BY DEF Inv, TypeOK, StateOK
<1>2. /\ NoJob \in Jobs /\ NoJob.store = None /\ NoJob.asked = None
  BY NoJobOk
<1>3. CASE mbom_generate(p)
  <2> DEFINE j == [NoJob EXCEPT !.out = "mbom"]
  <2>1. j \in Jobs /\ j.store = j.asked /\ j.asked = None /\ j.out = "mbom"
    BY <1>2 DEF Jobs, Files
  <2>2. Start(p, "mbom", "readManifest", j) /\ nextKey' = nextKey
    BY <1>3 DEF mbom_generate
  <2> HIDE DEF j
  <2>3. Starts("mbom", "readManifest", j)
    BY <2>1 DEF Starts, Commands
  <2> QED
    BY <1>1, <2>2, <2>3, StartInv
<1>4. CASE sign(p)
  <2> DEFINE j == [NoJob EXCEPT !.out = "signature"]
  <2>1. j \in Jobs /\ j.store = j.asked /\ j.asked = None /\ j.out = "signature"
    BY <1>2 DEF Jobs, Files
  <2>2. Start(p, "sign", "readManifest", j) /\ nextKey' = nextKey
    BY <1>4 DEF sign
  <2> HIDE DEF j
  <2>3. Starts("sign", "readManifest", j)
    BY <2>1 DEF Starts, Commands
  <2> QED
    BY <1>1, <2>2, <2>3, StartInv
<1>5. CASE fingerprint(p)
  <2>1. Start(p, "fingerprint", "readPublic", NoJob) /\ nextKey' = nextKey
    BY <1>5 DEF fingerprint
  <2>2. Starts("fingerprint", "readPublic", NoJob)
    BY <1>2 DEF Starts, Commands
  <2> QED
    BY <1>1, <2>1, <2>2, StartInv
<1>6. CASE keygen(p)
  <2> DEFINE i == [NoJob EXCEPT !.out = "private"]
  <2>1. i \in Jobs /\ i.store = i.asked /\ i.asked = None /\ i.out = "private"
    BY <1>2 DEF Jobs, Files
  <2>2. [NoJob EXCEPT !.out = "private", !.doc = nextKey] = [i EXCEPT !.doc = nextKey]
    BY <1>2 DEF Jobs
  <2> HIDE DEF i
  <2> DEFINE j == [i EXCEPT !.doc = nextKey]
  <2>3. /\ j \in Jobs /\ j.store = j.asked /\ j.asked = None /\ j.out = "private"
        /\ j.doc \in Nat
    BY <1>1, <2>1 DEF Jobs, Docs
  <2>4. Start(p, "keygen", "open", j) /\ nextKey' = nextKey + 1
    BY <1>6, <2>2 DEF keygen
  <2> HIDE DEF j
  <2>5. Starts("keygen", "open", j)
    BY <2>3 DEF Starts, Commands
  <2> QED
    BY <1>1, <2>4, <2>5, StartInv
<1>7. CASE \E n \in Names \cup {None} : manifest(p, n)
  <2>1. PICK n \in Names \cup {None} : manifest(p, n)
    BY <1>7
  <2> DEFINE i == [NoJob EXCEPT !.name = n]
  <2>2. i \in Jobs /\ i.store = i.asked /\ i.asked = None
    BY <1>2 DEF Jobs
  <2>3. [NoJob EXCEPT !.name = n, !.out = "manifest"] = [i EXCEPT !.out = "manifest"]
    BY <1>2 DEF Jobs
  <2> HIDE DEF i
  <2> DEFINE j == [i EXCEPT !.out = "manifest"]
  <2>4. j \in Jobs /\ j.store = j.asked /\ j.asked = None /\ j.out = "manifest"
    BY <2>2 DEF Jobs, Files
  <2>5. Start(p, "manifest", "hashForManifest", j) /\ nextKey' = nextKey
    BY <2>1, <2>3 DEF manifest
  <2> HIDE DEF j
  <2>6. Starts("manifest", "hashForManifest", j)
    BY <2>4 DEF Starts, Commands
  <2> QED
    BY <1>1, <2>5, <2>6, StartInv
<1> QED
  BY <1>3, <1>4, <1>5, <1>6, <1>7

\* A command that makes a guard first.
LEMMA StartGuardedInv ==
    ASSUME Inv, NEW p \in People, NEW cmd \in Commands, NEW option \in Stores \cup {None},
           NEW to \in {"readManifest", "readMbom", "revoke", "get"}, NEW j \in Jobs,
           StartGuarded(p, cmd, to, option, j),
           to = "readManifest" => cmd = "register",
           to = "readMbom" => cmd = "verify",
           to = "revoke" => j.name \in Names,
           to = "get" => cmd = "resolve"
    PROVE  Inv'
<1>1. PICK dsn \in BOOLEAN :
        /\ Start(p, cmd, IF _registry_from_env(option, dsn) = "refused" THEN "refused" ELSE to,
                 [j EXCEPT !.store = _registry_from_env(option, dsn), !.asked = option,
                           !.before = IF option = None THEN {} ELSE revoked[option]])
        /\ UNCHANGED nextKey
  BY DEF StartGuarded
<1>2. PICK store : store = _registry_from_env(option, dsn)
  OBVIOUS
<1>3. PICK before : before = IF option = None THEN {} ELSE revoked[option]
  OBVIOUS
<1>4. PICK at : at = IF store = "refused" THEN "refused" ELSE to
  OBVIOUS
<1>5. store \in Stores \cup {None, "refused"} /\ (store # "refused" => store = option)
  BY <1>2 DEF _registry_from_env, Stores
<1>6. before \in SUBSET Names /\ (option # None => before = revoked[option])
  BY <1>3 DEF Inv, TypeOK, StateOK
<1> DEFINE a == [j EXCEPT !.store = store]
           b == [a EXCEPT !.asked = option]
           k == [b EXCEPT !.before = before]
<1>7. k = [j EXCEPT !.store = store, !.asked = option, !.before = before]
  BY DEF Jobs
<1>8. a \in Jobs /\ a.store = store /\ a.name = j.name
  BY <1>5 DEF Jobs
<1> HIDE DEF a
<1>9. b \in Jobs /\ b.asked = option /\ b.store = store /\ b.name = j.name
  BY <1>8 DEF Jobs
<1> HIDE DEF b
<1>10. k \in Jobs /\ k.before = before /\ k.asked = option /\ k.store = store /\ k.name = j.name
  BY <1>6, <1>9 DEF Jobs
<1> HIDE DEF k
<1>11. Start(p, cmd, at, k)
  BY <1>1, <1>2, <1>3, <1>4, <1>7
<1>12. Starts(cmd, at, k)
  BY <1>4, <1>5, <1>6, <1>10 DEF Starts
<1>13. nextKey' \in Nat
  BY <1>1 DEF Inv, TypeOK, StateOK
<1> QED
  BY <1>11, <1>12, <1>13, StartInv

LEMMA CommandInv ==
    ASSUME Inv, NEW p \in People, Command(p)
    PROVE  Inv'
<1>1. NoJob \in Jobs
  BY NoJobOk
<1>2. CASE \/ mbom_generate(p) \/ sign(p) \/ fingerprint(p) \/ keygen(p)
           \/ \E n \in Names \cup {None} : manifest(p, n)
  BY <1>2, StartAloneInv
<1>3. CASE \E option \in Stores : register(p, option)
  <2>1. PICK option \in Stores : StartGuarded(p, "register", "readManifest", option, NoJob)
    BY <1>3 DEF register
  <2>2. "register" \in Commands
    BY DEF Commands
  <2> QED
    BY <1>1, <2>1, <2>2, StartGuardedInv
<1>4. CASE \E option \in Stores, n \in Names : revoke(p, n, option) \/ resolve(p, n, option)
  <2>1. PICK option \in Stores, n \in Names : revoke(p, n, option) \/ resolve(p, n, option)
    BY <1>4
  <2> DEFINE j == [NoJob EXCEPT !.name = n]
  <2>2. j \in Jobs /\ j.name \in Names
    BY <1>1 DEF Jobs
  <2>3. \/ StartGuarded(p, "revoke", "revoke", option, j)
        \/ StartGuarded(p, "resolve", "get", option, j)
    BY <2>1 DEF revoke, resolve
  <2> HIDE DEF j
  <2>4. "revoke" \in Commands /\ "resolve" \in Commands
    BY DEF Commands
  <2>5. CASE StartGuarded(p, "revoke", "revoke", option, j)
    BY <2>2, <2>4, <2>5, StartGuardedInv
  <2>6. CASE StartGuarded(p, "resolve", "get", option, j)
    BY <2>2, <2>4, <2>6, StartGuardedInv
  <2> QED
    BY <2>3, <2>5, <2>6
<1>5. CASE \E option \in Stores \cup {None}, trust \in {None, trusted} : verify(p, option, trust)
  <2>1. PICK option \in Stores \cup {None}, trust \in {None, trusted} : verify(p, option, trust)
    BY <1>5
  <2> DEFINE j == [NoJob EXCEPT !.trust = trust]
  <2>2. trust \in (SUBSET Nat) \cup {None}
    BY DEF Inv, TypeOK, StateOK
  <2>3. j \in Jobs
    BY <1>1, <2>2 DEF Jobs
  <2>4. StartGuarded(p, "verify", "readMbom", option, j)
    BY <2>1 DEF verify
  <2> HIDE DEF j
  <2>5. "verify" \in Commands
    BY DEF Commands
  <2> QED
    BY <2>3, <2>4, <2>5, StartGuardedInv
<1> QED
  BY <1>2, <1>3, <1>4, <1>5 DEF Command

-----------------------------------------------------------------------------
(* Reading.                                                                *)

\* What is known of the job of a person who is somewhere.
LEMMA Known ==
    ASSUME Inv, NEW p \in People
    PROVE  job[p] \in Jobs /\ Running(p) /\ StateOK
BY DEF Inv, TypeOK

\* A file that parses has what belongs into it.
LEMMA ParsedBelongs ==
    ASSUME Inv
    PROVE  /\ Parses("manifest") => file.manifest \in measured /\ file.manifest \in Manifests
           /\ Parses("mbom") => file.mbom \in Boms
           /\ Parses("signature") => file.signature \in Signed /\ file.signature \in Envelopes
           /\ Parses("private") => file.private \in Nat
           /\ Parses("public") => file.public \in Nat
<1>1. Signed \subseteq Envelopes /\ measured \subseteq Manifests
  BY DEF Inv, TypeOK, StateOK, Signed
<1>2. \A f \in Files : Parses(f) => Belongs(f, file[f])
  BY DEF Inv, FilesAreWhole, Parses
<1> QED
  BY <1>1, <1>2 DEF Belongs, Files

LEMMA ReadMbomInv ==
    ASSUME Inv, NEW p \in People, ReadMbom(p)
    PROVE  Inv'
<1>1. job[p] \in Jobs /\ Running(p)
  BY Known
<1>2. pc[p] = "readMbom" /\ file.mbom \in Boms /\ Reading
  BY ParsedBelongs DEF ReadMbom
<1>3. job[p].cmd \in {"sign", "register", "verify"}
  BY <1>1, <1>2 DEF Running
<1>4. PICK to : to = CASE job[p].cmd = "sign" -> "readKey"
                       [] job[p].cmd = "register" -> "register"
                       [] job[p].cmd = "verify" -> "readSignature"
  OBVIOUS
<1>5. /\ job[p].cmd = "sign" => to = "readKey"
      /\ job[p].cmd = "register" => to = "register"
      /\ job[p].cmd = "verify" => to = "readSignature"
  BY <1>3, <1>4
<1> DEFINE k == [job[p] EXCEPT !.mbom = file.mbom]
<1>6. /\ k \in Jobs /\ k.mbom = file.mbom /\ k.cmd = job[p].cmd /\ k.held = job[p].held
      /\ k.store = job[p].store /\ k.asked = job[p].asked /\ k.before = job[p].before
      /\ k.out = job[p].out /\ k.manifest = job[p].manifest
  BY <1>1, <1>2 DEF Jobs
<1>7. Goto(p, "readMbom", to, k)
  BY <1>4 DEF ReadMbom
<1> HIDE DEF k
<1>8. /\ pc' = [pc EXCEPT ![p] = to] /\ job' = [job EXCEPT ![p] = k]
      /\ pc'[p] = to /\ job'[p] = k
  BY <1>7, GotoSets DEF Inv
<1>9. to \in {"readKey", "register", "readSignature"}
  BY <1>3, <1>5
<1>10. Published(p)' /\ Honoured(p)'
  BY <1>8, <1>9 DEF Published, Honoured
<1>11. UNCHANGED <<artifact, revoked, measured>>
  BY <1>2 DEF Reading, registry, ghosts
<1>12. Running(p)'
  BY <1>1, <1>2, <1>3, <1>5, <1>6, <1>8, <1>9, <1>11 DEF Running
<1> QED
  BY <1>2, <1>6, <1>8, <1>9, <1>10, <1>12, ReadInv DEF Pcs

LEMMA ReadKeyInv ==
    ASSUME Inv, NEW p \in People, ReadKey(p)
    PROVE  Inv'
<1>1. job[p] \in Jobs /\ Running(p)
  BY Known
<1>2. file.private \in Nat /\ Reading
  BY ParsedBelongs DEF ReadKey
<1> DEFINE k == [job[p] EXCEPT !.key = file.private]
<1>3. /\ k \in Jobs /\ k.key = file.private /\ k.held = job[p].held
      /\ k.store = job[p].store /\ k.asked = job[p].asked /\ k.before = job[p].before
      /\ k.out = job[p].out /\ k.manifest = job[p].manifest /\ k.mbom = job[p].mbom
  BY <1>1, <1>2 DEF Jobs
<1>4. Goto(p, "readKey", "sign", k)
  BY DEF ReadKey
<1> HIDE DEF k
<1>5. /\ pc' = [pc EXCEPT ![p] = "sign"] /\ job' = [job EXCEPT ![p] = k]
      /\ pc[p] = "readKey" /\ pc'[p] = "sign" /\ job'[p] = k
  BY <1>4, GotoSets DEF Inv
<1>6. Published(p)' /\ Honoured(p)'
  BY <1>5 DEF Published, Honoured
<1>7. UNCHANGED <<artifact, revoked, measured>>
  BY <1>2 DEF Reading, registry, ghosts
<1>8. Running(p)'
  BY <1>1, <1>2, <1>3, <1>5, <1>7 DEF Running
<1> QED
  BY <1>2, <1>3, <1>5, <1>6, <1>8, ReadInv DEF Pcs

LEMMA ReadSignatureInv ==
    ASSUME Inv, NEW p \in People, ReadSignature(p)
    PROVE  Inv'
<1>1. job[p] \in Jobs /\ Running(p)
  BY Known
<1>2. file.signature \in Signed /\ file.signature \in Envelopes /\ Reading
  BY ParsedBelongs DEF ReadSignature
<1> DEFINE k == [job[p] EXCEPT !.envelope = file.signature]
<1>3. /\ k \in Jobs /\ k.envelope = file.signature /\ k.held = job[p].held /\ k.cmd = job[p].cmd
      /\ k.store = job[p].store /\ k.asked = job[p].asked /\ k.before = job[p].before
  BY <1>1, <1>2 DEF Jobs
<1>4. Goto(p, "readSignature", "hashForVerify", k)
  BY DEF ReadSignature
<1> HIDE DEF k
<1>5. /\ pc' = [pc EXCEPT ![p] = "hashForVerify"] /\ job' = [job EXCEPT ![p] = k]
      /\ pc[p] = "readSignature" /\ pc'[p] = "hashForVerify" /\ job'[p] = k
  BY <1>4, GotoSets DEF Inv
<1>6. Published(p)' /\ Honoured(p)'
  BY <1>5 DEF Published, Honoured
<1>7. UNCHANGED <<artifact, revoked, measured, issued>>
  BY <1>2 DEF Reading, registry, ghosts
<1>8. k.envelope \in Signed'
  BY <1>2, <1>3, <1>7 DEF Signed
<1>9. Running(p)'
  BY <1>1, <1>3, <1>5, <1>7, <1>8 DEF Running
<1> QED
  BY <1>2, <1>3, <1>5, <1>6, <1>9, ReadInv DEF Pcs

LEMMA HashForVerifyInv ==
    ASSUME Inv, NEW p \in People, HashForVerify(p)
    PROVE  Inv'
<1>1. job[p] \in Jobs /\ Running(p) /\ artifact \in Contents
  BY Known DEF StateOK
<1>2. Reading
  BY DEF HashForVerify
<1> DEFINE k == [job[p] EXCEPT !.hashed = artifact]
<1>3. /\ k \in Jobs /\ k.hashed = artifact /\ k.held = job[p].held /\ k.cmd = job[p].cmd
      /\ k.store = job[p].store /\ k.asked = job[p].asked /\ k.before = job[p].before
      /\ k.envelope = job[p].envelope
  BY <1>1 DEF Jobs
<1>4. Goto(p, "hashForVerify", "decide", k)
  BY DEF HashForVerify
<1> HIDE DEF k
<1>5. /\ pc' = [pc EXCEPT ![p] = "decide"] /\ job' = [job EXCEPT ![p] = k]
      /\ pc[p] = "hashForVerify" /\ pc'[p] = "decide" /\ job'[p] = k
  BY <1>4, GotoSets DEF Inv
<1>6. Published(p)' /\ Honoured(p)'
  BY <1>5 DEF Published, Honoured
<1>7. UNCHANGED <<artifact, revoked, measured, issued>>
  BY <1>2 DEF Reading, registry, ghosts
<1>8. k.envelope \in Signed'
  <2>1. job[p].envelope \in Signed
    BY <1>1, <1>5 DEF Running
  <2> QED
    BY <1>3, <1>7, <2>1 DEF Signed
<1>9. Running(p)'
  BY <1>1, <1>3, <1>5, <1>7, <1>8 DEF Running
<1> QED
  BY <1>2, <1>3, <1>5, <1>6, <1>9, ReadInv DEF Pcs

\* A step that ends a command and changes more than the person's own state.
LEMMA LastInv ==
    ASSUME Inv, NEW p \in People, NEW from, Goto(p, from, "idle", NoJob), artifact' = artifact,
           Grows, StateOK', FilesAreWhole', SignedBytesWereThere'
    PROVE  Inv'
<1>1. /\ pc' = [pc EXCEPT ![p] = "idle"] /\ job' = [job EXCEPT ![p] = NoJob]
      /\ pc'[p] = "idle" /\ job'[p] = NoJob
  BY GotoSets DEF Inv
<1>2. Running(p)' /\ Published(p)' /\ Honoured(p)'
  BY <1>1, NoJobOk, IdleOk
<1> QED
  BY <1>1, <1>2, NoJobOk, StepInv DEF Pcs

\* Files that are left alone stay whole, and so do signatures.
LEMMA LeftAlone ==
    ASSUME Inv, measured' = measured, issued' = issued
    PROVE  SignedBytesWereThere' /\ (file' = file => FilesAreWhole')
BY DEF Inv, FilesAreWhole, SignedBytesWereThere, Belongs, Signed

LEMMA ReadPublicInv ==
    ASSUME Inv, NEW p \in People, ReadPublic(p)
    PROVE  Inv'
<1>1. file.public \in Nat
  BY ParsedBelongs DEF ReadPublic
<1>2. /\ Goto(p, "readPublic", "idle", NoJob) /\ trusted' = trusted \cup {file.public}
      /\ UNCHANGED <<artifact, file, revoked, measured, issued, nextKey, serials, commands, edits>>
  BY DEF ReadPublic, Succeed, registry, ghosts, counters
<1>3. StateOK' /\ Grows
  BY <1>1, <1>2 DEF Inv, TypeOK, StateOK, Grows
<1> QED
  BY <1>2, <1>3, LeftAlone, LastInv

LEMMA ReadManifestInv ==
    ASSUME Inv, NEW p \in People, ReadManifest(p)
    PROVE  Inv'
<1>1. job[p] \in Jobs /\ Running(p) /\ serials \in Nat
  BY Known DEF StateOK
<1>2. file.manifest \in measured /\ file.manifest \in Manifests
  BY ParsedBelongs DEF ReadManifest
<1>3. UNCHANGED <<artifact, file, revoked, trusted, measured, issued, nextKey, commands, edits>>
  BY DEF ReadManifest, registry, ghosts
<1>4. Grows /\ FilesAreWhole' /\ SignedBytesWereThere'
  BY <1>3, LeftAlone DEF Grows
<1>5. CASE job[p].cmd = "mbom"
  <2>1. PICK bom : bom = generate_mbom(file.manifest, serials)
    OBVIOUS
  <2>2. bom \in Boms
    BY <1>1, <1>2, <2>1 DEF generate_mbom, Boms, Manifests
  <2> DEFINE k == [job[p] EXCEPT !.doc = bom]
  <2>3. /\ k \in Jobs /\ k.doc = bom /\ k.held = job[p].held /\ k.out = job[p].out
        /\ k.store = job[p].store /\ k.asked = job[p].asked /\ k.before = job[p].before
    BY <1>1, <2>2 DEF Jobs, Docs
  <2>4. Goto(p, "readManifest", "open", k) /\ serials' = serials + 1
    BY <1>5, <2>1 DEF ReadManifest
  <2> HIDE DEF k
  <2>5. /\ pc' = [pc EXCEPT ![p] = "open"] /\ job' = [job EXCEPT ![p] = k]
        /\ pc[p] = "readManifest" /\ pc'[p] = "open" /\ job'[p] = k
    BY <2>4, GotoSets DEF Inv
  <2>6. StateOK'
    BY <1>3, <2>4 DEF Inv, TypeOK, StateOK
  <2>7. Published(p)' /\ Honoured(p)'
    BY <2>5 DEF Published, Honoured
  <2>8. Running(p)'
    BY <1>1, <1>3, <1>5, <2>2, <2>3, <2>5 DEF Running, Belongs, Files
  <2> QED
    BY <1>3, <1>4, <2>3, <2>5, <2>6, <2>7, <2>8, StepInv DEF Pcs
<1>6. CASE job[p].cmd # "mbom"
  <2> DEFINE k == [job[p] EXCEPT !.manifest = file.manifest]
  <2>1. /\ k \in Jobs /\ k.manifest = file.manifest /\ k.held = job[p].held /\ k.out = job[p].out
        /\ k.store = job[p].store /\ k.asked = job[p].asked /\ k.before = job[p].before
        /\ k.cmd = job[p].cmd
    BY <1>1, <1>2 DEF Jobs
  <2>2. Goto(p, "readManifest", "readMbom", k) /\ serials' = serials
    BY <1>6 DEF ReadManifest
  <2> HIDE DEF k
  <2>3. /\ pc' = [pc EXCEPT ![p] = "readMbom"] /\ job' = [job EXCEPT ![p] = k]
        /\ pc[p] = "readManifest" /\ pc'[p] = "readMbom" /\ job'[p] = k
    BY <2>2, GotoSets DEF Inv
  <2>4. StateOK'
    BY <1>3, <2>2 DEF Inv, TypeOK, StateOK
  <2>5. Published(p)' /\ Honoured(p)'
    BY <2>3 DEF Published, Honoured
  <2>6. Running(p)'
    BY <1>1, <1>2, <1>3, <1>6, <2>1, <2>3 DEF Running
  <2> QED
    BY <1>3, <1>4, <2>1, <2>3, <2>4, <2>5, <2>6, StepInv DEF Pcs
<1> QED
  BY <1>5, <1>6

LEMMA HashForManifestInv ==
    ASSUME Inv, NEW p \in People, HashForManifest(p)
    PROVE  Inv'
<1>1. job[p] \in Jobs /\ Running(p) /\ artifact \in Contents
  BY Known DEF StateOK
<1>2. PICK m : m = build_manifest(artifact, job[p].name)
  OBVIOUS
<1>3. m \in Manifests
  BY <1>1, <1>2 DEF build_manifest, Manifests, Jobs
<1> DEFINE k == [job[p] EXCEPT !.doc = m]
<1>4. /\ k \in Jobs /\ k.doc = m /\ k.held = job[p].held /\ k.out = job[p].out
      /\ k.store = job[p].store /\ k.asked = job[p].asked /\ k.before = job[p].before
  BY <1>1, <1>3 DEF Jobs, Docs
<1>5. /\ Goto(p, "hashForManifest", "open", k) /\ measured' = measured \cup {m}
      /\ UNCHANGED <<artifact, file, revoked, trusted, issued, nextKey, serials, commands, edits>>
  BY <1>2 DEF HashForManifest, registry, counters
<1> HIDE DEF k
<1>6. /\ pc' = [pc EXCEPT ![p] = "open"] /\ job' = [job EXCEPT ![p] = k]
      /\ pc[p] = "hashForManifest" /\ pc'[p] = "open" /\ job'[p] = k
  BY <1>5, GotoSets DEF Inv
<1>7. StateOK' /\ Grows
  BY <1>3, <1>5 DEF Inv, TypeOK, StateOK, Grows
<1>8. FilesAreWhole' /\ SignedBytesWereThere'
  BY <1>5 DEF Inv, FilesAreWhole, SignedBytesWereThere, Belongs, Signed
<1>9. Published(p)' /\ Honoured(p)'
  BY <1>6 DEF Published, Honoured
<1>10. m \in measured'
  BY <1>5
<1>11. Running(p)'
  BY <1>1, <1>4, <1>5, <1>6, <1>10 DEF Running, Belongs, Files
<1> QED
  BY <1>4, <1>5, <1>6, <1>7, <1>8, <1>9, <1>11, StepInv DEF Pcs

-----------------------------------------------------------------------------
(* Signing and writing.                                                    *)

LEMMA CheckAndSignInv ==
    ASSUME Inv, NEW p \in People, CheckAndSign(p)
    PROVE  Inv'
<1>1. job[p] \in Jobs /\ Running(p) /\ StateOK
  BY Known
<1>2. pc[p] = "sign" /\ artifact = job[p].manifest.digest
  BY DEF CheckAndSign
<1>3. PICK m, bom, key, held : /\ m = job[p].manifest /\ bom = job[p].mbom /\ key = job[p].key
                               /\ held = job[p].held
  OBVIOUS
<1>4. /\ m \in measured /\ bom \in Boms /\ key \in Nat /\ artifact \in held
      /\ held \in SUBSET Contents /\ job[p].out = "signature"
  BY <1>1, <1>2, <1>3 DEF Running, Jobs
<1>5. m \in Manifests
  BY <1>1, <1>4 DEF StateOK
<1>6. PICK e : e = sign_artifact(m, bom, key)
  OBVIOUS
<1>7. e \in Envelopes /\ e.artifact = m.digest /\ e.name = m.name
  BY <1>4, <1>5, <1>6 DEF sign_artifact, Envelopes, Manifests
<1>8. m = build_manifest(e.artifact, e.name)
  BY <1>5, <1>7 DEF build_manifest, Manifests
<1>9. PICK i : i = [envelope |-> e, held |-> held]
  OBVIOUS
<1>10. /\ i \in [envelope : Envelopes, held : SUBSET Contents]
       /\ i.envelope = e /\ i.held = held
  BY <1>4, <1>7, <1>9
<1> DEFINE k == [job[p] EXCEPT !.doc = e]
<1>11. /\ k \in Jobs /\ k.doc = e /\ k.held = job[p].held /\ k.out = job[p].out
       /\ k.store = job[p].store /\ k.asked = job[p].asked /\ k.before = job[p].before
  BY <1>1, <1>7 DEF Jobs, Docs
<1>12. /\ Goto(p, "sign", "open", k) /\ issued' = issued \cup {i}
       /\ UNCHANGED <<artifact, file, revoked, trusted, measured, nextKey, serials, commands, edits>>
  BY <1>3, <1>6, <1>9 DEF CheckAndSign, registry, counters
<1> HIDE DEF k
<1>13. /\ pc' = [pc EXCEPT ![p] = "open"] /\ job' = [job EXCEPT ![p] = k]
       /\ pc'[p] = "open" /\ job'[p] = k
  BY <1>12, GotoSets DEF Inv
<1>14. StateOK' /\ Grows
  BY <1>10, <1>12 DEF Inv, TypeOK, StateOK, Grows
<1>15. FilesAreWhole'
  BY <1>12 DEF Inv, FilesAreWhole, Belongs, Signed
<1>16. SignedBytesWereThere'
  <2>1. e.artifact \in held /\ build_manifest(e.artifact, e.name) \in measured
    BY <1>2, <1>3, <1>4, <1>7, <1>8
  <2> QED
    BY <1>10, <1>12, <2>1 DEF Inv, SignedBytesWereThere
<1>17. e \in Signed'
  BY <1>10, <1>12 DEF Signed
<1>18. Published(p)' /\ Honoured(p)'
  BY <1>13 DEF Published, Honoured
<1>19. Running(p)'
  BY <1>1, <1>2, <1>4, <1>11, <1>12, <1>13, <1>17 DEF Running, Belongs, Files
<1> QED
  BY <1>11, <1>12, <1>13, <1>14, <1>15, <1>16, <1>18, <1>19, StepInv DEF Pcs

LEMMA OpenInv ==
    ASSUME Inv, NEW p \in People, Open(p)
    PROVE  Inv'
<1>1. job[p] \in Jobs /\ Running(p)
  BY Known
<1>2. /\ Goto(p, "open", "fill", job[p]) /\ file' = [file EXCEPT ![job[p].out] = Empty]
      /\ UNCHANGED <<artifact, revoked, trusted, measured, issued, nextKey, serials, commands, edits>>
  BY DEF Open, registry, ghosts, counters
<1>3. PICK k : k = job[p]
  OBVIOUS
<1>4. /\ pc' = [pc EXCEPT ![p] = "fill"] /\ job' = [job EXCEPT ![p] = k]
      /\ pc[p] = "open" /\ pc'[p] = "fill" /\ job'[p] = k
  BY <1>2, <1>3, GotoSets DEF Inv
<1>5. StateOK' /\ Grows
  BY <1>2 DEF Inv, TypeOK, StateOK, Grows
<1>6. FilesAreWhole'
  BY <1>2 DEF Inv, TypeOK, StateOK, FilesAreWhole, Belongs, Signed
<1>7. Published(p)' /\ Honoured(p)'
  BY <1>4 DEF Published, Honoured
<1>8. Running(p)'
  BY <1>1, <1>2, <1>3, <1>4 DEF Running, Belongs, Signed
<1> QED
  BY <1>1, <1>2, <1>3, <1>4, <1>5, <1>6, <1>7, <1>8, LeftAlone, StepInv DEF Pcs

LEMMA FillInv ==
    ASSUME Inv, NEW p \in People, Fill(p)
    PROVE  Inv'
<1>1. job[p] \in Jobs /\ Running(p) /\ StateOK
  BY Known
<1>2. PICK f, doc : f = job[p].out /\ doc = job[p].doc
  OBVIOUS
<1>3. PICK written \in {doc, Torn} : file' = [file EXCEPT ![f] = written]
  BY <1>2 DEF Fill
<1>4. /\ pc[p] = "fill"
      /\ UNCHANGED <<artifact, revoked, trusted, measured, issued, nextKey, serials, commands, edits>>
  BY DEF Fill, registry, ghosts, counters
<1>5. f \in Files /\ Belongs(f, doc)
  BY <1>1, <1>2, <1>4 DEF Running
<1>6. doc \in Docs
  <2>1. Signed \subseteq Envelopes /\ measured \subseteq Manifests
    BY <1>1 DEF StateOK, Signed
  <2> QED
    BY <1>5, <2>1 DEF Belongs, Docs, Files
<1>7. StateOK' /\ Grows
  BY <1>1, <1>3, <1>4, <1>5, <1>6 DEF StateOK, Grows
<1>8. FilesAreWhole'
  BY <1>1, <1>3, <1>4, <1>5 DEF Inv, StateOK, FilesAreWhole, Belongs, Signed
<1>9. SignedBytesWereThere'
  BY <1>4, LeftAlone
<1>10. CASE f # "private"
  <2>1. Goto(p, "fill", "idle", NoJob)
    BY <1>2, <1>10 DEF Fill, Succeed
  <2> QED
    BY <1>4, <1>7, <1>8, <1>9, <2>1, LastInv
<1>11. CASE f = "private"
  <2> DEFINE k == [job[p] EXCEPT !.out = "public"]
  <2>1. /\ k \in Jobs /\ k.out = "public" /\ k.held = job[p].held /\ k.doc = doc
        /\ k.store = job[p].store /\ k.asked = job[p].asked /\ k.before = job[p].before
    BY <1>1, <1>2 DEF Jobs, Files
  <2>2. Goto(p, "fill", "open", k)
    BY <1>2, <1>11 DEF Fill
  <2> HIDE DEF k
  <2>3. /\ pc' = [pc EXCEPT ![p] = "open"] /\ job' = [job EXCEPT ![p] = k]
        /\ pc'[p] = "open" /\ job'[p] = k
    BY <2>2, GotoSets DEF Inv
  <2>4. Published(p)' /\ Honoured(p)'
    BY <2>3 DEF Published, Honoured
  <2>5. doc \in Nat
    BY <1>5, <1>11 DEF Belongs
  <2>6. Running(p)'
    BY <1>1, <1>4, <2>1, <2>3, <2>5 DEF Running, Belongs, Files
  <2> QED
    BY <1>4, <1>7, <1>8, <1>9, <2>1, <2>3, <2>4, <2>6, StepInv DEF Pcs
<1> QED
  BY <1>10, <1>11

-----------------------------------------------------------------------------
(* The registry and the verification.                                      *)

LEMMA RegisterInv ==
    ASSUME Inv, NEW p \in People, Register(p)
    PROVE  Inv'
<1>1. Goto(p, "register", "idle", NoJob)
  BY DEF Register, Fail, Succeed
<1>2. UNCHANGED <<artifact, file, revoked, trusted, measured, issued, nextKey, serials, commands, edits>>
  BY DEF Register, ghosts, counters
<1>3. StateOK' /\ Grows
  BY <1>2 DEF Inv, TypeOK, StateOK, Grows
<1> QED
  BY <1>1, <1>2, <1>3, LeftAlone, LastInv

LEMMA RevokeInv ==
    ASSUME Inv, NEW p \in People, Revoke(p)
    PROVE  Inv'
<1>1. /\ Goto(p, "revoke", "idle", NoJob)
      /\ revoked' = [revoked EXCEPT ![job[p].store] = @ \cup {job[p].name}]
      /\ UNCHANGED <<artifact, file, trusted, measured, issued, nextKey, serials, commands, edits>>
  BY DEF Revoke, Succeed, ghosts, counters
<1>2. job[p].name \in Names
  BY <1>1, Known DEF Goto, Running
<1>3. StateOK' /\ Grows
  BY <1>1, <1>2 DEF Inv, TypeOK, StateOK, Grows
<1> QED
  BY <1>1, <1>3, LeftAlone, LastInv

LEMMA GetInv ==
    ASSUME Inv, NEW p \in People, Get(p)
    PROVE  Inv'
<1>1. job[p] \in Jobs /\ Running(p)
  BY Known
<1>2. Reading /\ pc[p] = "get"
  BY DEF Get
<1>3. CASE Goto(p, "get", "idle", NoJob)
  BY <1>2, <1>3, EndInv
<1>4. CASE Goto(p, "get", "isRevoked", job[p])
  <2>1. PICK k : k = job[p]
    OBVIOUS
  <2>2. /\ pc' = [pc EXCEPT ![p] = "isRevoked"] /\ job' = [job EXCEPT ![p] = k]
        /\ pc'[p] = "isRevoked" /\ job'[p] = k
    BY <1>4, <2>1, GotoSets DEF Inv
  <2>3. UNCHANGED <<artifact, revoked>>
    BY <1>2 DEF Reading, registry
  <2>4. Running(p)' /\ Published(p)' /\ Honoured(p)'
    BY <1>1, <1>2, <2>1, <2>2, <2>3 DEF Running, Published, Honoured
  <2> QED
    BY <1>1, <1>2, <2>1, <2>2, <2>4, ReadInv DEF Pcs
<1> QED
  BY <1>3, <1>4 DEF Get, Fail

LEMMA IsRevokedInv ==
    ASSUME Inv, NEW p \in People, IsRevoked(p)
    PROVE  Inv'
<1>1. job[p] \in Jobs /\ Running(p)
  BY Known
<1>2. PICK b \in BOOLEAN : b <=> job[p].name \in revoked[job[p].store]
  OBVIOUS
<1> DEFINE k == [job[p] EXCEPT !.shown = b]
<1>3. /\ k \in Jobs /\ k.shown = b /\ k.cmd = job[p].cmd /\ k.asked = job[p].asked
      /\ k.before = job[p].before /\ k.name = job[p].name
  BY <1>1 DEF Jobs
<1>4. Goto(p, "isRevoked", "idle", k) /\ Reading
  BY <1>2 DEF IsRevoked, Succeed
<1> HIDE DEF k
<1>5. /\ pc' = [pc EXCEPT ![p] = "idle"] /\ job' = [job EXCEPT ![p] = k]
      /\ pc[p] = "isRevoked" /\ pc'[p] = "idle" /\ job'[p] = k
  BY <1>4, GotoSets DEF Inv
<1>6. /\ job[p].cmd = "resolve"
      /\ job[p].asked # None => job[p].before \subseteq revoked[job[p].store]
  BY <1>1, <1>5 DEF Running
<1>7. Running(p)' /\ Published(p)'
  BY <1>3, <1>5, <1>6 DEF Running, Published
<1>8. job[p].asked # None /\ job[p].name \in job[p].before => b
  BY <1>2, <1>6
<1>9. Honoured(p)'
  BY <1>3, <1>5, <1>6, <1>8 DEF Honoured
<1> QED
  BY <1>3, <1>4, <1>5, <1>7, <1>9, ReadInv DEF Pcs

\* verify exits with 0 only for what was published and is not revoked.
LEMMA DecideInv ==
    ASSUME Inv, NEW p \in People, Decide(p)
    PROVE  Inv'
<1>1. job[p] \in Jobs /\ Running(p)
  BY Known
<1>2. Reading /\ pc[p] = "decide"
  BY DEF Decide
<1>3. CASE Goto(p, "decide", "idle", NoJob)
  BY <1>2, <1>3, EndInv
<1>4. CASE /\ Goto(p, "decide", "idle", job[p]) /\ Accepts(job[p])
           /\ ~(job[p].store # None /\ job[p].envelope.name \in revoked[job[p].store])
  <2>1. PICK k : k = job[p]
    OBVIOUS
  <2>2. /\ pc' = [pc EXCEPT ![p] = "idle"] /\ job' = [job EXCEPT ![p] = k]
        /\ pc'[p] = "idle" /\ job'[p] = k
    BY <1>4, <2>1, GotoSets DEF Inv
  <2>3. UNCHANGED <<artifact, revoked, issued>>
    BY <1>2 DEF Reading, registry, ghosts
  <2>4. /\ k.cmd = "verify" /\ k.envelope \in Signed /\ k.hashed \in k.held /\ k.store = k.asked
        /\ k.asked # None => k.before \subseteq revoked[k.asked]
    BY <1>1, <1>2, <2>1 DEF Running
  <2>5. PICK i \in issued : i.envelope = k.envelope
    BY <2>4 DEF Signed
  <2>6. Published(p)'
    BY <1>4, <2>1, <2>2, <2>3, <2>4, <2>5 DEF Published, Accepts
  <2>7. Honoured(p)'
    BY <1>4, <2>1, <2>2, <2>4 DEF Honoured
  <2>8. Running(p)'
    BY <2>2 DEF Running
  <2> QED
    BY <1>1, <1>2, <2>1, <2>2, <2>6, <2>7, <2>8, ReadInv DEF Pcs
<1> QED
  BY <1>3, <1>4 DEF Decide, Fail, Succeed

-----------------------------------------------------------------------------
(* An edit of the artifact, and every step.                                *)

LEMMA EditArtifactInv ==
    ASSUME Inv, EditArtifact
    PROVE  Inv'
<1>1. PICK c \in Contents \ {artifact} :
        /\ artifact' = c
        /\ job' = [p \in People |-> IF pc[p] = "idle" THEN job[p]
                                    ELSE [job[p] EXCEPT !.held = @ \cup {c}]]
  BY DEF EditArtifact
<1>2. /\ edits < MaxEdits /\ edits' = edits + 1
      /\ UNCHANGED <<file, revoked, trusted, pc, measured, issued, nextKey, serials, commands>>
  BY DEF EditArtifact, registry, ghosts
<1>3. StateOK'
  BY <1>1, <1>2, BoundsAssumption DEF Inv, TypeOK, StateOK
<1>4. FilesAreWhole' /\ SignedBytesWereThere'
  BY <1>2, LeftAlone
<1>5. ASSUME NEW p \in People
      PROVE  job'[p] \in Jobs /\ Running(p)' /\ Published(p)' /\ Honoured(p)'
  <2>1. job[p] \in Jobs /\ Running(p) /\ Published(p) /\ Honoured(p)
    BY DEF Inv, TypeOK
  <2>2. CASE pc[p] = "idle"
    <3>1. job'[p] = job[p] /\ pc'[p] = "idle"
      BY <1>1, <1>2, <2>2
    <3> QED
      BY <1>2, <2>1, <2>2, <3>1 DEF Running, Published, Honoured
  <2>3. CASE pc[p] # "idle"
    <3> DEFINE k == [job[p] EXCEPT !.held = @ \cup {c}]
    <3>1. job'[p] = k
      BY <1>1, <2>3
    <3>2. job[p].held \cup {c} \in SUBSET Contents
      BY <2>1 DEF Jobs
    <3>3. /\ k \in Jobs /\ k.held = job[p].held \cup {c}
          /\ k.store = job[p].store /\ k.asked = job[p].asked /\ k.before = job[p].before
          /\ k.out = job[p].out /\ k.doc = job[p].doc /\ k.name = job[p].name
          /\ k.cmd = job[p].cmd /\ k.manifest = job[p].manifest /\ k.mbom = job[p].mbom
          /\ k.key = job[p].key /\ k.envelope = job[p].envelope /\ k.hashed = job[p].hashed
      BY <2>1, <3>2 DEF Jobs
    <3> HIDE DEF k
    <3>4. Published(p)' /\ Honoured(p)'
      BY <1>2, <2>3 DEF Published, Honoured
    <3>5. PICK f, d : f = job[p].out /\ d = job[p].doc
      OBVIOUS
    <3>6. Belongs(f, d) => Belongs(f, d)'
      BY <1>2 DEF Belongs, Signed
    <3>7. pc[p] \in {"open", "fill"} => f \in Files /\ Belongs(f, d)
      BY <2>1, <3>5 DEF Running
    <3>8. pc'[p] \in {"open", "fill"} => job'[p].out \in Files /\ Belongs(job[p].out, job[p].doc)'
      BY <1>2, <3>1, <3>3, <3>5, <3>6, <3>7 DEF Belongs, Signed
    <3>9. job[p].envelope \in Signed => job'[p].envelope \in Signed'
      BY <1>2, <3>1, <3>3 DEF Signed
    <3>10. artifact' \in k.held /\ (job[p].hashed \in job[p].held => k.hashed \in k.held)
      BY <1>1, <3>3
    <3>11. Running(p)'
      BY <1>2, <2>1, <3>1, <3>3, <3>8, <3>9, <3>10 DEF Running
    <3> QED
      BY <3>1, <3>3, <3>4, <3>11
  <2> QED
    BY <2>2, <2>3
<1>6. TypeOK'
  <2>1. job' \in [People -> Jobs]
    BY <1>1, <1>5
  <2> QED
    BY <1>2, <1>3, <2>1 DEF Inv, TypeOK
<1> QED
  BY <1>3, <1>4, <1>5, <1>6 DEF Inv

LEMMA StutterInv ==
    ASSUME Inv, UNCHANGED vars
    PROVE  Inv'
<1>1. UNCHANGED <<artifact, file, revoked, trusted, pc, job, measured, issued, nextKey, serials,
                  commands, edits>>
  BY DEF vars, registry, ghosts, counters
<1>2. TypeOK' /\ Grows
  BY <1>1 DEF Inv, TypeOK, StateOK, Grows
<1>3. \A o \in People : Running(o)' /\ Published(o)' /\ Honoured(o)'
  BY <1>1, <1>2, Undisturbed
<1> QED
  BY <1>1, <1>2, <1>3, LeftAlone DEF Inv

LEMMA NextInv ==
    ASSUME Inv, [Next]_vars
    PROVE  Inv'
<1>1. ASSUME NEW p \in People, Step(p)
      PROVE  Inv'
  BY <1>1, HashForManifestInv, ReadManifestInv, ReadMbomInv, ReadKeyInv, ReadPublicInv,
     ReadSignatureInv, FailureInv, CheckAndSignInv, OpenInv, FillInv, RegisterInv, RevokeInv,
     GetInv, IsRevokedInv, HashForVerifyInv, DecideInv
  DEF Step
<1> QED
  BY <1>1, CommandInv, FailureInv, EditArtifactInv, StutterInv DEF Next

-----------------------------------------------------------------------------
(* Theorems.                                                               *)

\* The invariant: every file that parses was written whole by one command, and
\* a running command has read what is or was there.
THEOREM Invariance == Spec => []Inv
<1>1. Init => Inv
  BY InitInv
<1>2. Inv /\ [Next]_vars => Inv'
  BY NextInv
<1> QED
  BY <1>1, <1>2, PTL DEF Spec

\* What sign signed was the artifact while it ran, and one manifest command
\* had measured it under that name: cli/main.py hashes again before it signs.
THEOREM SignaturesAreAboutBytes == Spec => []SignedBytesWereThere
<1>1. Inv => SignedBytesWereThere
  BY DEF Inv
<1> QED
  BY <1>1, Invariance, PTL

\* verify exits with 0 only for bytes and an ML-BOM that one sign command put
\* under one signature, by a key the caller names if the caller names any.
THEOREM AcceptanceMeansPublished == Spec => []AcceptedWasPublished
<1>1. Inv => AcceptedWasPublished
  BY DEF Inv, Published, AcceptedWasPublished
<1> QED
  BY <1>1, Invariance, PTL

\* A revocation that was there when verify or resolve started is honoured,
\* whether or not the environment has the variable with the DSN.
THEOREM RevocationsAreHonoured == Spec => []RevocationIsHonoured
<1>1. Inv => RevocationIsHonoured
  BY DEF Inv, Honoured, RevocationIsHonoured
<1> QED
  BY <1>1, Invariance, PTL

-----------------------------------------------------------------------------
(* The provenance graph: what is in a sequence, and what is reachable.     *)

Nodes(s) == {s[k] : k \in DOMAIN s}
Distinct(s) == \A k, l \in DOMAIN s : k # l => s[k] # s[l]

\* A sequence with one element put in, and with one taken off.
More(s, more, x) ==
    /\ Nodes(more) = Nodes(s) \cup {x}
    /\ Distinct(s) /\ x \notin Nodes(s) => Distinct(more)
Fewer(s, rest, x) ==
    /\ Nodes(s) = Nodes(rest) \cup {x}
    /\ Distinct(s) => Distinct(rest) /\ x \notin Nodes(rest)

\* frontier.pop() takes one node off.
LEMMA PopNodes ==
    ASSUME NEW S, NEW s \in Seq(S), s # << >>,
           NEW top, top = s[Len(s)], NEW rest, rest = SubSeq(s, 1, Len(s) - 1)
    PROVE  /\ rest \in Seq(S) /\ top \in S
           /\ Fewer(s, rest, top)
<1>1. PICK n \in Nat : n = Len(s) /\ n # 0 /\ DOMAIN s = 1..n
  OBVIOUS
<1>2. rest \in Seq(S) /\ DOMAIN rest = 1..(n - 1) /\ \A k \in 1..(n - 1) : rest[k] = s[k]
  BY <1>1
<1>3. n \in 1..n /\ \A k \in 1..n : k = n \/ k \in 1..(n - 1)
  BY <1>1
<1>4. \A k \in 1..(n - 1) : k \in 1..n /\ k # n
  BY <1>1
<1>5. top \in S
  BY <1>1, <1>3
<1>6. Nodes(s) = Nodes(rest) \cup {top}
  <2>1. ASSUME NEW x \in Nodes(s) PROVE x \in Nodes(rest) \cup {top}
    <3>1. PICK k \in 1..n : x = s[k]
      BY <1>1 DEF Nodes
    <3>2. CASE k = n
      BY <1>1, <3>1, <3>2
    <3>3. CASE k \in 1..(n - 1)
      BY <1>2, <3>1, <3>3 DEF Nodes
    <3> QED
      BY <1>3, <3>2, <3>3
  <2>2. ASSUME NEW x \in Nodes(rest) PROVE x \in Nodes(s)
    <3>1. PICK k \in 1..(n - 1) : x = rest[k]
      BY <1>2 DEF Nodes
    <3> QED
      BY <1>1, <1>2, <1>4, <3>1 DEF Nodes
  <2>3. top \in Nodes(s)
    BY <1>1, <1>3 DEF Nodes
  <2> QED
    BY <2>1, <2>2, <2>3
<1>7. ASSUME Distinct(s) PROVE Distinct(rest) /\ top \notin Nodes(rest)
  <2>1. \A k, l \in 1..n : k # l => s[k] # s[l]
    BY <1>1, <1>7 DEF Distinct
  <2>2. Distinct(rest)
    BY <1>2, <1>4, <2>1 DEF Distinct
  <2>3. \A k \in 1..(n - 1) : s[k] # top
    BY <1>1, <1>3, <1>4, <2>1
  <2> QED
    BY <1>2, <2>2, <2>3 DEF Nodes
<1> QED
  BY <1>2, <1>5, <1>6, <1>7 DEF Fewer

\* append() puts one in.
LEMMA PushNodes ==
    ASSUME NEW S, NEW s \in Seq(S), NEW x \in S, NEW more, more = Append(s, x)
    PROVE  more \in Seq(S) /\ More(s, more, x)
<1>1. PICK n \in Nat : n = Len(s) /\ DOMAIN s = 1..n
  OBVIOUS
<1>2. /\ more \in Seq(S) /\ DOMAIN more = 1..(n + 1) /\ more[n + 1] = x
      /\ \A k \in 1..n : more[k] = s[k]
  BY <1>1
<1>3. n + 1 \in 1..(n + 1) /\ \A k \in 1..(n + 1) : k = n + 1 \/ k \in 1..n
  BY <1>1
<1>4. \A k \in 1..n : k \in 1..(n + 1) /\ k # n + 1
  BY <1>1
<1>5. Nodes(more) = Nodes(s) \cup {x}
  BY <1>1, <1>2, <1>3, <1>4 DEF Nodes
<1>6. Distinct(s) /\ x \notin Nodes(s) => Distinct(more)
  BY <1>1, <1>2, <1>3, <1>4 DEF Distinct, Nodes
<1> QED
  BY <1>2, <1>5, <1>6 DEF More

LEMMA NoNodes == Nodes(<< >>) = {} /\ Distinct(<< >>)
BY DEF Nodes, Distinct

LEMMA OneNode ==
    ASSUME NEW x
    PROVE  Nodes(<<x>>) = {x} /\ Distinct(<<x>>)
BY DEF Nodes, Distinct

\* One log continues another.
Extends(a, b) == \A i \in DOMAIN a : i \in DOMAIN b /\ b[i] = a[i]

LEMMA ExtendsTransitive ==
    ASSUME NEW a, NEW b, NEW c, Extends(a, b), Extends(b, c)
    PROVE  Extends(a, c)
BY DEF Extends

LEMMA ExtendsAppend ==
    ASSUME NEW S, NEW a \in Seq(S), NEW e \in S
    PROVE  Extends(a, Append(a, e))
BY DEF Extends

\* Recorded events are never taken back, so a derived model stays one.
LEMMA DescendantsGrow ==
    ASSUME NEW a, NEW b, Extends(a, b), NEW id
    PROVE  Graph!Descendants(a, id) \subseteq Graph!Descendants(b, id)
<1>1. \A x, y : Graph!Edge(a, x, y) => Graph!Edge(b, x, y)
  BY DEF Extends, Graph!Edge
<1> QED
  BY <1>1 DEF Graph!Descendants

\* Whoever derives from a model does so by an edge to it.
LEMMA DescendantsNeedEdge ==
    ASSUME NEW a, NEW id, NEW m \in Graph!Descendants(a, id)
    PROVE  \E x \in Graph!Ids : Graph!Edge(a, x, id)
<1>1. SUFFICES ASSUME \A x \in Graph!Ids : ~Graph!Edge(a, x, id) PROVE FALSE
  OBVIOUS
<1>2. /\ {} \in SUBSET Graph!Ids
      /\ \A x \in Graph!Ids, y \in {} \cup {id} : Graph!Edge(a, x, y) => x \in {}
  BY <1>1
<1> QED
  BY <1>2 DEF Graph!Descendants

\* A set of ids that every edge into it, or to id, begins in holds all descendants.
LEMMA DescendantsLeast ==
    ASSUME NEW a, NEW id, NEW V \in SUBSET Graph!Ids,
           \A x \in Graph!Ids, y \in V \cup {id} : Graph!Edge(a, x, y) => x \in V
    PROVE  Graph!Descendants(a, id) \subseteq V
BY DEF Graph!Descendants

LEMMA DescendantsClosed ==
    ASSUME NEW a, NEW id, NEW x \in Graph!Ids, NEW y \in Graph!Descendants(a, id) \cup {id},
           Graph!Edge(a, x, y)
    PROVE  x \in Graph!Descendants(a, id)
<1>1. ASSUME NEW S \in SUBSET Graph!Ids,
             \A u \in Graph!Ids, v \in S \cup {id} : Graph!Edge(a, u, v) => u \in S
      PROVE  x \in S
  <2>1. y \in S \cup {id}
    BY <1>1 DEF Graph!Descendants
  <2> QED
    BY <1>1, <2>1
<1> QED
  BY <1>1 DEF Graph!Descendants

LEMMA AncestorsLeast ==
    ASSUME NEW a, NEW id, NEW V \in SUBSET Graph!Ids,
           \A x \in V \cup {id}, y \in Graph!Ids : Graph!Edge(a, x, y) => y \in V
    PROVE  Graph!Ancestors(a, id) \subseteq V
BY DEF Graph!Ancestors

LEMMA AncestorsClosed ==
    ASSUME NEW a, NEW id, NEW y \in Graph!Ids, NEW x \in Graph!Ancestors(a, id) \cup {id},
           Graph!Edge(a, x, y)
    PROVE  y \in Graph!Ancestors(a, id)
<1>1. ASSUME NEW S \in SUBSET Graph!Ids,
             \A u \in S \cup {id}, v \in Graph!Ids : Graph!Edge(a, u, v) => v \in S
      PROVE  y \in S
  <2>1. x \in S \cup {id}
    BY <1>1 DEF Graph!Ancestors
  <2> QED
    BY <1>1, <2>1
<1> QED
  BY <1>1 DEF Graph!Ancestors

\* The ids of a recorded event.
LEMMA EventIds ==
    ASSUME NEW e \in Graph!Event
    PROVE  e.subject_id \in Graph!Ids /\ e.object_id \in Graph!Ids
BY DEF Graph!Event, Graph!Ids

-----------------------------------------------------------------------------
(* The two traversals: E is the log as loaded, F the frontier, X the edges *)
(* left to loop over, V the nodes visited, R the edges returned.           *)

LineageEdge(E, i) == i \in DOMAIN E /\ E[i].relationship = Graph!Lineage

\* find_models_derived_from(): what was visited derives from the model, and what
\* an edge leads to from there is visited, or its edge is still ahead.
DownInv(E, from, F, X, V) ==
    /\ V \subseteq Graph!Ids /\ V \subseteq Graph!Descendants(E, from)
    /\ Nodes(F) \subseteq V \cup {from}
    /\ \A i \in X : LineageEdge(E, i) /\ E[i].object_id \in V \cup {from}
    /\ \A i : LineageEdge(E, i) /\ E[i].object_id \in V \cup {from} =>
          E[i].subject_id \in V \/ i \in X \/ E[i].object_id \in Nodes(F)

\* lineage(): the same upwards, and each node's edges are taken once.
UpInv(E, from, F, X, V, R) ==
    /\ V \subseteq Graph!Ids /\ V \subseteq Graph!Ancestors(E, from) \cup {from} /\ from \in V
    /\ Nodes(F) \subseteq V /\ Distinct(F) /\ Distinct(R)
    /\ \A i \in X : LineageEdge(E, i) /\ E[i].subject_id \in V \ Nodes(F)
    /\ \A i \in Nodes(R) : LineageEdge(E, i) /\ E[i].subject_id \in V \ Nodes(F) /\ i \notin X
    /\ \A i : LineageEdge(E, i) /\ E[i].subject_id \in V =>
          (i \in Nodes(R) /\ E[i].object_id \in V) \/ i \in X \/ E[i].subject_id \in Nodes(F)

LEMMA EdgeAt ==
    ASSUME NEW E, NEW i, LineageEdge(E, i)
    PROVE  Graph!Edge(E, E[i].subject_id, E[i].object_id)
BY DEF LineageEdge, Graph!Edge

LEMMA EdgeIs ==
    ASSUME NEW E, NEW x, NEW y, Graph!Edge(E, x, y)
    PROVE  \E i : LineageEdge(E, i) /\ E[i].subject_id = x /\ E[i].object_id = y
BY DEF LineageEdge, Graph!Edge

LEMMA DownStart ==
    ASSUME NEW E, NEW from
    PROVE  DownInv(E, from, <<from>>, {}, {})
BY OneNode DEF DownInv

LEMMA DownPop ==
    ASSUME NEW E, NEW from, NEW F \in Seq(Graph!Ids), F # << >>, NEW V, DownInv(E, from, F, {}, V),
           NEW top, top = F[Len(F)], NEW rest, rest = SubSeq(F, 1, Len(F) - 1),
           NEW X, X = Graph!direct_children(E, top)
    PROVE  DownInv(E, from, rest, X, V)
<1>1. Fewer(F, rest, top)
  BY PopNodes, Zenon
<1>2. \A i : i \in X <=> LineageEdge(E, i) /\ E[i].object_id = top
  BY DEF Graph!direct_children, LineageEdge
<1> QED
  BY <1>1, <1>2 DEF DownInv, Fewer

LEMMA DownVisit ==
    ASSUME NEW E \in Seq(Graph!Event), NEW from, NEW F \in Seq(Graph!Ids), NEW X, NEW V,
           DownInv(E, from, F, X, V), NEW i \in X, NEW node, node = E[i].subject_id,
           NEW G, G = IF node \in V THEN F ELSE Append(F, node)
    PROVE  DownInv(E, from, G, X \ {i}, V \cup {node})
<1>1. LineageEdge(E, i) /\ E[i].object_id \in V \cup {from} /\ E[i] \in Graph!Event
  BY DEF DownInv, LineageEdge
<1>2. node \in Graph!Ids
  BY <1>1, EventIds
<1>3. node \in Graph!Descendants(E, from)
  <2>1. E[i].object_id \in Graph!Descendants(E, from) \cup {from}
    BY <1>1 DEF DownInv
  <2> QED
    BY <1>1, <1>2, <2>1, EdgeAt, DescendantsClosed
<1>4. Nodes(G) = IF node \in V THEN Nodes(F) ELSE Nodes(F) \cup {node}
  <2>1. CASE node \in V
    BY <2>1
  <2>2. CASE node \notin V
    <3>1. G = Append(F, node)
      BY <2>2
    <3>2. More(F, G, node)
      BY <1>2, <3>1, PushNodes, Zenon
    <3> QED
      BY <2>2, <3>2 DEF More
  <2> QED
    BY <2>1, <2>2
<1>5. V \cup {node} \subseteq Graph!Ids /\ V \cup {node} \subseteq Graph!Descendants(E, from)
  BY <1>2, <1>3 DEF DownInv
<1>6. Nodes(G) \subseteq V \cup {node} \cup {from}
  BY <1>4 DEF DownInv
<1>7. \A j \in X \ {i} : LineageEdge(E, j) /\ E[j].object_id \in (V \cup {node}) \cup {from}
  BY DEF DownInv
<1>8. ASSUME NEW j, LineageEdge(E, j), E[j].object_id \in (V \cup {node}) \cup {from}
      PROVE  E[j].subject_id \in V \cup {node} \/ j \in X \ {i} \/ E[j].object_id \in Nodes(G)
  <2>1. CASE E[j].object_id \in V \cup {from}
    BY <1>4, <1>8, <2>1 DEF DownInv
  <2>2. CASE E[j].object_id \notin V \cup {from}
    BY <1>4, <1>8, <2>2
  <2> QED
    BY <2>1, <2>2
<1> QED
  BY <1>5, <1>6, <1>7, <1>8 DEF DownInv

LEMMA DownEnd ==
    ASSUME NEW E \in Seq(Graph!Event), NEW from, NEW V, DownInv(E, from, << >>, {}, V)
    PROVE  V = Graph!Descendants(E, from)
<1>1. ASSUME NEW x \in Graph!Ids, NEW y \in V \cup {from}, Graph!Edge(E, x, y) PROVE x \in V
  <2>1. PICK i : LineageEdge(E, i) /\ E[i].subject_id = x /\ E[i].object_id = y
    BY <1>1, EdgeIs
  <2> QED
    BY <2>1, NoNodes DEF DownInv
<1>2. V \in SUBSET Graph!Ids
  BY DEF DownInv
<1>3. Graph!Descendants(E, from) \subseteq V
  BY <1>1, <1>2, DescendantsLeast
<1> QED
  BY <1>3 DEF DownInv

LEMMA UpStart ==
    ASSUME NEW E, NEW from \in Graph!Ids
    PROVE  UpInv(E, from, <<from>>, {}, {from}, << >>)
BY OneNode, NoNodes DEF UpInv

LEMMA UpPop ==
    ASSUME NEW E, NEW from, NEW F \in Seq(Graph!Ids), F # << >>, NEW V, NEW R,
           UpInv(E, from, F, {}, V, R),
           NEW top, top = F[Len(F)], NEW rest, rest = SubSeq(F, 1, Len(F) - 1),
           NEW X, X = Graph!direct_parents(E, top)
    PROVE  UpInv(E, from, rest, X, V, R)
<1>1. /\ Nodes(F) = Nodes(rest) \cup {top}
      /\ Distinct(F) => Distinct(rest) /\ top \notin Nodes(rest)
  <2>1. Fewer(F, rest, top)
    BY PopNodes, Zenon
  <2> QED
    BY <2>1 DEF Fewer
<1>2. \A i : i \in X <=> LineageEdge(E, i) /\ E[i].subject_id = top
  BY DEF Graph!direct_parents, LineageEdge
<1>3. \A i \in X : LineageEdge(E, i) /\ E[i].subject_id \in V \ Nodes(rest)
  BY <1>1, <1>2 DEF UpInv
<1>4. \A i \in Nodes(R) :
        LineageEdge(E, i) /\ E[i].subject_id \in V \ Nodes(rest) /\ i \notin X
  BY <1>1, <1>2 DEF UpInv
<1>5. \A i : LineageEdge(E, i) /\ E[i].subject_id \in V =>
        (i \in Nodes(R) /\ E[i].object_id \in V) \/ i \in X \/ E[i].subject_id \in Nodes(rest)
  BY <1>1, <1>2 DEF UpInv
<1> QED
  BY <1>1, <1>3, <1>4, <1>5 DEF UpInv

LEMMA UpVisit ==
    ASSUME NEW E \in Seq(Graph!Event), NEW from, NEW F \in Seq(Graph!Ids), NEW X, NEW V,
           NEW R \in Seq(Nat), UpInv(E, from, F, X, V, R),
           NEW i \in X, NEW node, node = E[i].object_id,
           NEW G, G = IF node \in V THEN F ELSE Append(F, node), NEW Q, Q = Append(R, i)
    PROVE  UpInv(E, from, G, X \ {i}, V \cup {node}, Q)
<1>1. /\ LineageEdge(E, i) /\ E[i].subject_id \in V \ Nodes(F) /\ E[i] \in Graph!Event
      /\ i \in Nat
  BY DEF UpInv, LineageEdge
<1>2. node \in Graph!Ids
  BY <1>1, EventIds
<1>3. node \in Graph!Ancestors(E, from)
  <2>1. E[i].subject_id \in Graph!Ancestors(E, from) \cup {from}
    BY <1>1 DEF UpInv
  <2> QED
    BY <1>1, <1>2, <2>1, EdgeAt, AncestorsClosed
<1>4. /\ Nodes(G) = IF node \in V THEN Nodes(F) ELSE Nodes(F) \cup {node}
      /\ Distinct(G)
  <2>1. node \notin V => node \notin Nodes(F)
    BY DEF UpInv
  <2>2. Distinct(F)
    BY DEF UpInv
  <2>3. CASE node \in V
    BY <2>2, <2>3
  <2>4. CASE node \notin V
    <3>1. G = Append(F, node)
      BY <2>4
    <3>2. More(F, G, node)
      BY <1>2, <3>1, PushNodes, Zenon
    <3> QED
      BY <2>1, <2>2, <2>4, <3>2 DEF More
  <2> QED
    BY <2>3, <2>4
<1>5. Nodes(Q) = Nodes(R) \cup {i} /\ Distinct(Q)
  <2>1. i \notin Nodes(R) /\ Distinct(R)
    BY DEF UpInv
  <2>2. More(R, Q, i)
    BY <1>1, PushNodes, Zenon
  <2> QED
    BY <2>1, <2>2 DEF More
<1>6. /\ V \cup {node} \subseteq Graph!Ids /\ from \in V \cup {node}
      /\ V \cup {node} \subseteq Graph!Ancestors(E, from) \cup {from}
  BY <1>2, <1>3 DEF UpInv
<1>7. Nodes(G) \subseteq V \cup {node}
  BY <1>4 DEF UpInv
<1>8. \A x \in V \ Nodes(F) : x \in (V \cup {node}) \ Nodes(G)
  BY <1>4
<1>9. \A j \in X \ {i} : LineageEdge(E, j) /\ E[j].subject_id \in (V \cup {node}) \ Nodes(G)
  BY <1>8 DEF UpInv
<1>10. \A j \in Nodes(Q) :
         LineageEdge(E, j) /\ E[j].subject_id \in (V \cup {node}) \ Nodes(G) /\ j \notin X \ {i}
  BY <1>1, <1>5, <1>8 DEF UpInv
<1>11. ASSUME NEW j, LineageEdge(E, j), E[j].subject_id \in V \cup {node}
       PROVE  \/ j \in Nodes(Q) /\ E[j].object_id \in V \cup {node}
              \/ j \in X \ {i} \/ E[j].subject_id \in Nodes(G)
  <2>1. CASE E[j].subject_id \in V
    BY <1>4, <1>5, <1>11, <2>1 DEF UpInv
  <2>2. CASE E[j].subject_id \notin V
    BY <1>4, <1>11, <2>2
  <2> QED
    BY <2>1, <2>2
<1> QED
  BY <1>4, <1>5, <1>6, <1>7, <1>9, <1>10, <1>11 DEF UpInv

LEMMA UpEnd ==
    ASSUME NEW E \in Seq(Graph!Event), NEW from, NEW V, NEW R, UpInv(E, from, << >>, {}, V, R)
    PROVE  /\ V = {from} \cup Graph!Ancestors(E, from) /\ Distinct(R)
           /\ Nodes(R) = {i \in DOMAIN E : /\ E[i].relationship = Graph!Lineage
                                           /\ E[i].subject_id \in V}
<1>1. ASSUME NEW x \in V \cup {from}, NEW y \in Graph!Ids, Graph!Edge(E, x, y) PROVE y \in V
  <2>1. PICK i : LineageEdge(E, i) /\ E[i].subject_id = x /\ E[i].object_id = y
    BY <1>1, EdgeIs
  <2> QED
    BY <2>1, NoNodes DEF UpInv
<1>2. V \in SUBSET Graph!Ids
  BY DEF UpInv
<1>3. Graph!Ancestors(E, from) \subseteq V
  BY <1>1, <1>2, AncestorsLeast
<1>4. \A i : i \in Nodes(R) <=> LineageEdge(E, i) /\ E[i].subject_id \in V
  BY NoNodes DEF UpInv
<1> QED
  BY <1>3, <1>4 DEF UpInv, LineageEdge

-----------------------------------------------------------------------------
(* The invariant of the provenance queries.                                *)

Walks == [events : Seq(Graph!Event), from : Models \cup {None}, frontier : Seq(Graph!Ids),
          edges : SUBSET Nat, visited : SUBSET Graph!Ids, result : Seq(Nat)]
Scans == [events : Seq(Graph!Event), next : Nat \ {0}, field : {"subject_id", "object_id"},
          asked : SUBSET Versions, revoked_ids : SUBSET Models, todo : SUBSET Models,
          affected : SUBSET Graph!Ids]
Spans == [always : SUBSET InRegistry, ever : SUBSET InRegistry, before : Seq(Graph!Event)]

GraphTypeOK ==
    /\ log \in Seq(Graph!Event) /\ withdrawn \in SUBSET InRegistry
    /\ query \in {"idle", "lineage", "derived", "scan", "collect", "affected"}
    /\ walk \in Walks /\ scan \in Scans /\ span \in Spans

\* A query that runs has not answered.
Unanswered == query # "idle" => answer = None

\* The traversal that is under way.
Traversal ==
    /\ query = "lineage" =>
          UpInv(walk.events, walk.from, walk.frontier, walk.edges, walk.visited, walk.result)
    /\ Graph!Deriving =>
          DownInv(walk.events, walk.from, walk.frontier, walk.edges, walk.visited)

\* What held while the query for deployments ran.
SpanIsTrue ==
    Graph!FindingDeployments =>
        /\ Extends(span.before, log)
        /\ span.always \subseteq withdrawn /\ withdrawn \subseteq span.ever
        /\ \A id \in scan.revoked_ids : \E r \in span.ever : r[1] = id

\* A model is found if the revocation of one of these versions stood.
FoundOf(s, p, id, versions) ==
    \A v \in versions : <<id, v>> \in p.always => id \in s.revoked_ids

\* Of the events before n, all models that stayed revoked are found.
Found(n) ==
    \A j \in DOMAIN span.before : j < n =>
        /\ FoundOf(scan, span, span.before[j].subject_id, Versions)
        /\ FoundOf(scan, span, span.before[j].object_id, Versions)

LookingUp ==
    query = "scan" =>
        /\ scan.events = span.before /\ Found(scan.next) /\ scan.affected = {} /\ scan.todo = {}
        /\ scan.next \in DOMAIN scan.events =>
              /\ FoundOf(scan, span, Graph!Candidate(scan), scan.asked)
              /\ scan.field = "object_id" =>
                    FoundOf(scan, span, scan.events[scan.next].subject_id, Versions)

\* The models found, what derives from those that are done, and nothing else.
Collecting ==
    query \in {"collect", "affected"} =>
        /\ Found(Len(span.before) + 1)
        /\ Extends(span.before, scan.events) /\ Extends(scan.events, log)
        /\ scan.todo \subseteq scan.revoked_ids /\ scan.revoked_ids \subseteq scan.affected
        /\ \A r \in scan.revoked_ids :
              \/ r \in scan.todo \/ (query = "affected" /\ walk.from = r)
              \/ Graph!Descendants(span.before, r) \subseteq scan.affected
        /\ \A m \in scan.affected : \E r \in scan.revoked_ids :
              m = r \/ m \in Graph!Descendants(log, r)

\* The log in which those that derive from one of them are looked for.
Affecting ==
    query = "affected" =>
        /\ walk.from \in scan.revoked_ids
        /\ Extends(span.before, walk.events) /\ Extends(walk.events, log)

GraphInv ==
    /\ GraphTypeOK /\ Unanswered /\ Traversal
    /\ SpanIsTrue /\ LookingUp /\ Collecting /\ Affecting
    /\ TraversalsExact /\ DeploymentsExact

LEMMA EmptyLog == << >> \in Seq(Graph!Event) /\ Extends(<< >>, << >>) /\ DOMAIN << >> = {}
BY DEF Extends

LEMMA NothingTyped == Graph!NoWalk \in Walks /\ Graph!NoScan \in Scans /\ Graph!NoSpan \in Spans
BY EmptyLog DEF Graph!NoWalk, Graph!NoScan, Graph!NoSpan, Walks, Scans, Spans

\* Without an answer there is nothing to be wrong.
LEMMA Silent ==
    ASSUME answer' = None
    PROVE  Unanswered' /\ TraversalsExact' /\ DeploymentsExact'
BY DEF Unanswered, TraversalsExact, DeploymentsExact, Graph!TraversalsExact, Graph!LineageExact,
       Graph!DerivedExact, Graph!DeploymentsExact, Graph!DeploymentsComplete,
       Graph!DeploymentsSound

LEMMA GraphInitInv ==
    ASSUME Graph!Init
    PROVE  GraphInv
<1>1. GraphTypeOK
  BY NothingTyped, EmptyLog DEF Graph!Init, GraphTypeOK
<1>2. TraversalsExact /\ DeploymentsExact
  BY DEF Graph!Init, TraversalsExact, DeploymentsExact, Graph!TraversalsExact,
         Graph!LineageExact, Graph!DerivedExact, Graph!DeploymentsExact,
         Graph!DeploymentsComplete, Graph!DeploymentsSound
<1>3. query = "idle"
  BY DEF Graph!Init
<1> QED
  BY <1>1, <1>2, <1>3
  DEF GraphInv, Unanswered, Traversal, Graph!Deriving, SpanIsTrue, Graph!FindingDeployments,
      LookingUp, Collecting, Affecting

\* Nothing is asked: nothing to show but types.
LEMMA IdleInv ==
    ASSUME GraphTypeOK', query' = "idle", answer' = None
    PROVE  GraphInv'
BY Silent
   DEF GraphInv, Traversal, Graph!Deriving, SpanIsTrue, Graph!FindingDeployments,
       LookingUp, Collecting, Affecting

\* An event more: what was read stays read, and what derives still does.
LEMMA RecordInv ==
    ASSUME GraphInv, NEW e \in Graph!Event, Graph!record(e)
    PROVE  GraphInv'
<1>1. /\ log' = Append(log, e) /\ answer' = None
      /\ UNCHANGED <<withdrawn, query, walk, scan>>
      /\ span' = IF Graph!FindingDeployments THEN span ELSE Graph!NoSpan
  BY DEF Graph!record
<1>2. log' \in Seq(Graph!Event) /\ Extends(log, log')
  BY <1>1, ExtendsAppend DEF GraphInv, GraphTypeOK
<1>3. GraphTypeOK'
  BY <1>1, <1>2, NothingTyped DEF GraphInv, GraphTypeOK
<1>4. Traversal'
  BY <1>1 DEF GraphInv, Traversal, Graph!Deriving
<1>5. CASE Graph!FindingDeployments
  <2>1. span' = span
    BY <1>1, <1>5
  <2>2. SpanIsTrue'
    BY <1>1, <1>2, <1>5, <2>1, ExtendsTransitive
    DEF GraphInv, SpanIsTrue, Graph!FindingDeployments
  <2>3. LookingUp'
    BY <1>1, <2>1 DEF GraphInv, LookingUp, Found, FoundOf, Graph!Candidate
  <2>4. Collecting'
    <3>1. \A r : Graph!Descendants(log, r) \subseteq Graph!Descendants(log', r)
      BY <1>2, DescendantsGrow
    <3>2. ASSUME query \in {"collect", "affected"} PROVE Extends(scan.events, log')
      BY <1>2, <3>2, ExtendsTransitive DEF GraphInv, Collecting
    <3> QED
      BY <1>1, <2>1, <3>1, <3>2 DEF GraphInv, Collecting, Found, FoundOf
  <2>5. Affecting'
    <3>1. ASSUME query = "affected" PROVE Extends(walk.events, log')
      BY <1>2, <3>1, ExtendsTransitive DEF GraphInv, Affecting
    <3> QED
      BY <1>1, <2>1, <3>1 DEF GraphInv, Affecting
  <2> QED
    BY <1>1, <1>3, <1>4, <2>2, <2>3, <2>4, <2>5, Silent DEF GraphInv
<1>6. CASE ~Graph!FindingDeployments
  BY <1>1, <1>3, <1>4, <1>6, Silent
  DEF GraphInv, SpanIsTrue, LookingUp, Collecting, Affecting, Graph!FindingDeployments
<1> QED
  BY <1>5, <1>6

\* A revocation or its reversal: the models that stayed revoked become fewer,
\* those that were at some time become more.
LEMMA ChangeRevocationInv ==
    ASSUME GraphInv, NEW ids \in SUBSET InRegistry, Graph!ChangeRevocation(ids)
    PROVE  GraphInv'
<1>1. /\ withdrawn' = ids /\ answer' = None
      /\ UNCHANGED <<log, query, walk, scan>>
      /\ span' = IF Graph!FindingDeployments
                 THEN [span EXCEPT !.always = @ \cap ids, !.ever = @ \cup ids]
                 ELSE Graph!NoSpan
  BY DEF Graph!ChangeRevocation
<1>2. Traversal'
  BY <1>1 DEF GraphInv, Traversal, Graph!Deriving
<1>3. CASE Graph!FindingDeployments
  <2>1. /\ span' \in Spans /\ span'.before = span.before
        /\ span'.always = span.always \cap ids /\ span'.ever = span.ever \cup ids
    BY <1>1, <1>3 DEF GraphInv, GraphTypeOK, Spans
  <2>2. GraphTypeOK'
    BY <1>1, <2>1 DEF GraphInv, GraphTypeOK
  <2>3. SpanIsTrue'
    BY <1>1, <1>3, <2>1 DEF GraphInv, SpanIsTrue, Graph!FindingDeployments
  <2>4. /\ \A id, V : FoundOf(scan, span, id, V) => FoundOf(scan', span', id, V)
        /\ \A n : Found(n) => Found(n)'
    BY <1>1, <2>1 DEF Found, FoundOf
  <2>5. LookingUp' /\ Affecting'
    BY <1>1, <2>1, <2>4 DEF GraphInv, LookingUp, Affecting, Graph!Candidate
  <2>6. Collecting'
    BY <1>1, <2>1, <2>4 DEF GraphInv, Collecting
  <2> QED
    BY <1>1, <1>2, <2>2, <2>3, <2>5, <2>6, Silent DEF GraphInv
<1>4. CASE ~Graph!FindingDeployments
  <2>1. GraphTypeOK'
    BY <1>1, <1>4, NothingTyped DEF GraphInv, GraphTypeOK
  <2> QED
    BY <1>1, <1>2, <1>4, <2>1, Silent
    DEF GraphInv, SpanIsTrue, LookingUp, Collecting, Affecting, Graph!FindingDeployments
<1> QED
  BY <1>3, <1>4

\* The locals with which a traversal begins.
BeginsAt(w, id, V) ==
    /\ w \in Walks /\ w.events = log /\ w.from = id /\ w.visited = V
    /\ w.frontier = <<id>> /\ w.edges = {} /\ w.result = << >>

LEMMA StartWalk ==
    ASSUME GraphTypeOK, NEW id \in Models, NEW V \in SUBSET Graph!Ids, NEW w, w = Graph!Start(id, V)
    PROVE  BeginsAt(w, id, V)
<1>1. PICK F : F = <<id>>
  OBVIOUS
<1>2. F \in Seq(Graph!Ids)
  BY <1>1 DEF Graph!Ids
<1>3. w = [events |-> log, from |-> id, frontier |-> F, edges |-> {}, visited |-> V,
           result |-> << >>]
  BY <1>1 DEF Graph!Start
<1>4. w \in Walks
  BY <1>2, <1>3 DEF GraphTypeOK, Walks
<1> QED
  BY <1>1, <1>3, <1>4 DEF BeginsAt

LEMMA StartDerivedWalk ==
    ASSUME GraphTypeOK, NEW id \in Models, Graph!StartDerived(id)
    PROVE  /\ walk' \in Walks /\ walk'.events = log /\ walk'.from = id
           /\ DownInv(walk'.events, walk'.from, walk'.frontier, walk'.edges, walk'.visited)
<1>1. walk' = Graph!Start(id, {})
  BY DEF Graph!StartDerived
<1>2. PICK V \in SUBSET Graph!Ids : V = {}
  OBVIOUS
<1>3. BeginsAt(walk', id, V)
  BY <1>1, <1>2, StartWalk, Zenon
<1>4. /\ walk' \in Walks /\ walk'.events = log /\ walk'.from = id /\ walk'.visited = {}
      /\ walk'.frontier = <<id>> /\ walk'.edges = {}
  BY <1>2, <1>3, Zenon DEF BeginsAt
<1>5. DownInv(log, id, <<id>>, {}, {})
  BY DownStart
<1> QED
  BY <1>4, <1>5, Zenon

LEMMA LineageInv ==
    ASSUME GraphInv, NEW id \in Models, Graph!lineage(id)
    PROVE  GraphInv'
<1>1. /\ query' = "lineage" /\ answer' = None /\ UNCHANGED <<log, withdrawn, scan>>
      /\ span' = Graph!NoSpan
      /\ walk' = Graph!Start(id, {id})
  BY DEF Graph!lineage, Graph!Begin
<1>2. id \in Graph!Ids /\ {id} \in SUBSET Graph!Ids /\ GraphTypeOK
  BY DEF Graph!Ids, GraphInv
<1>3. /\ walk' \in Walks /\ walk'.events = log /\ walk'.from = id /\ walk'.visited = {id}
      /\ walk'.frontier = <<id>> /\ walk'.edges = {} /\ walk'.result = << >>
  <2>1. PICK V \in SUBSET Graph!Ids : V = {id}
    BY <1>2
  <2>2. BeginsAt(walk', id, V)
    BY <1>1, <1>2, <2>1, StartWalk, Zenon
  <2> QED
    BY <2>1, <2>2, Zenon DEF BeginsAt
<1>4. GraphTypeOK'
  BY <1>1, <1>3, NothingTyped DEF GraphInv, GraphTypeOK
<1>5. Traversal'
  <2>1. UpInv(log, id, <<id>>, {}, {id}, << >>)
    BY <1>2, UpStart
  <2>2. UpInv(walk'.events, walk'.from, walk'.frontier, walk'.edges, walk'.visited, walk'.result)
    BY <1>3, <2>1, Zenon
  <2> QED
    BY <1>1, <2>2 DEF Traversal, Graph!Deriving
<1> QED
  BY <1>1, <1>4, <1>5, Silent
  DEF GraphInv, SpanIsTrue, LookingUp, Collecting, Affecting, Graph!FindingDeployments

LEMMA FindDerivedInv ==
    ASSUME GraphInv, NEW id \in Models, Graph!find_models_derived_from(id)
    PROVE  GraphInv'
<1>1. /\ query' = "derived" /\ answer' = None /\ UNCHANGED <<log, withdrawn, scan>>
      /\ span' = Graph!NoSpan /\ Graph!StartDerived(id)
  BY DEF Graph!find_models_derived_from, Graph!Begin
<1>2. /\ walk' \in Walks
      /\ DownInv(walk'.events, walk'.from, walk'.frontier, walk'.edges, walk'.visited)
  BY <1>1, StartDerivedWalk DEF GraphInv
<1>3. GraphTypeOK'
  BY <1>1, <1>2, NothingTyped DEF GraphInv, GraphTypeOK
<1>4. Traversal'
  BY <1>1, <1>2 DEF Traversal, Graph!Deriving
<1> QED
  BY <1>1, <1>3, <1>4, Silent
  DEF GraphInv, SpanIsTrue, LookingUp, Collecting, Affecting, Graph!FindingDeployments

\* A step of a traversal concerns its locals only.
LEMMA TraverseInv ==
    ASSUME GraphInv, query \in {"lineage", "derived", "affected"}, Graph!Traverse,
           walk' \in Walks, walk'.events = walk.events, walk'.from = walk.from, Traversal'
    PROVE  GraphInv'
<1>1. UNCHANGED <<log, withdrawn, query, scan, answer, span>>
  BY DEF Graph!Traverse
<1>2. answer' = None
  BY <1>1 DEF GraphInv, Unanswered
<1>3. GraphTypeOK'
  BY <1>1 DEF GraphInv, GraphTypeOK
<1>4. SpanIsTrue' /\ LookingUp'
  BY <1>1 DEF GraphInv, SpanIsTrue, LookingUp, Found, Graph!FindingDeployments, Graph!Candidate
<1>5. Collecting' /\ Affecting'
  BY <1>1 DEF GraphInv, Collecting, Affecting, Found
<1> QED
  BY <1>2, <1>3, <1>4, <1>5, Silent DEF GraphInv

\* frontier.pop() changes the frontier and the edges.
PoppedFrom(w, v, X) ==
    /\ v \in Walks /\ v.events = w.events /\ v.from = w.from /\ v.visited = w.visited
    /\ v.result = w.result /\ v.edges = X
    /\ v.frontier = SubSeq(w.frontier, 1, Len(w.frontier) - 1)

LEMMA PoppedFields ==
    ASSUME NEW w \in Walks, w.frontier # << >>, NEW X \in SUBSET Nat, NEW v,
           v = Graph!Popped(w, X)
    PROVE  PoppedFrom(w, v, X)
<1>1. PICK F \in Seq(Graph!Ids) : F = w.frontier
  BY DEF Walks
<1>2. PICK rest : rest = SubSeq(F, 1, Len(F) - 1)
  OBVIOUS
<1>3. rest \in Seq(Graph!Ids)
  BY <1>1, <1>2, PopNodes, Zenon
<1>4. v = [w EXCEPT !.frontier = rest, !.edges = X]
  BY <1>1, <1>2 DEF Graph!Popped
<1>5. /\ v \in Walks /\ v.events = w.events /\ v.from = w.from /\ v.visited = w.visited
      /\ v.result = w.result /\ v.edges = X /\ v.frontier = rest
  BY <1>3, <1>4 DEF Walks
<1> QED
  BY <1>1, <1>2, <1>5 DEF PoppedFrom

\* A visit takes one edge off, and may put its node on the frontier.
VisitedFrom(w, v, i, node) ==
    /\ v \in Walks /\ v.events = w.events /\ v.from = w.from
    /\ v.visited = w.visited \cup {node}
    /\ v.result = w.result /\ v.edges = w.edges \ {i}
    /\ v.frontier = IF node \in w.visited THEN w.frontier ELSE Append(w.frontier, node)

LEMMA VisitFields ==
    ASSUME NEW w \in Walks, NEW i, NEW node \in Graph!Ids, NEW v, v = Graph!Visit(w, i, node)
    PROVE  VisitedFrom(w, v, i, node)
<1>1. PICK G : G = IF node \in w.visited THEN w.frontier ELSE Append(w.frontier, node)
  OBVIOUS
<1>2. w.frontier \in Seq(Graph!Ids)
  BY DEF Walks
<1>3. G \in Seq(Graph!Ids)
  BY <1>1, <1>2
<1>4. PICK X \in SUBSET Nat : X = w.edges \ {i}
  BY DEF Walks
<1>5. PICK V \in SUBSET Graph!Ids : V = w.visited \cup {node}
  BY DEF Walks
<1>6. v = [w EXCEPT !.edges = X, !.visited = V, !.frontier = G]
  BY <1>1, <1>4, <1>5 DEF Graph!Visit
<1>7. v \in Walks
  BY <1>3, <1>6 DEF Walks
<1>8. /\ v.events = w.events /\ v.from = w.from /\ v.visited = V
      /\ v.result = w.result /\ v.edges = X /\ v.frontier = G
  BY <1>6 DEF Walks
<1> QED
  BY <1>1, <1>4, <1>5, <1>7, <1>8 DEF VisitedFrom

\* The locals of a traversal as the loop reads them.
LEMMA WalkFields ==
    ASSUME GraphInv
    PROVE  /\ GraphTypeOK /\ walk \in Walks /\ walk.events \in Seq(Graph!Event)
           /\ walk.frontier \in Seq(Graph!Ids) /\ walk.result \in Seq(Nat)
BY DEF GraphInv, GraphTypeOK, Walks

LEMMA PopUpInv ==
    ASSUME GraphInv, Graph!PopUp
    PROVE  GraphInv'
<1>1. /\ query = "lineage" /\ walk.edges = {} /\ walk.frontier # << >> /\ Graph!Traverse
      /\ walk' = Graph!Popped(walk, Graph!direct_parents(walk.events, Graph!Top(walk)))
      /\ query' = query
  BY DEF Graph!PopUp, Graph!PopNode, Graph!Traverse
<1>2. PICK X : X = Graph!direct_parents(walk.events, Graph!Top(walk))
  OBVIOUS
<1>3. X \in SUBSET Nat
  BY <1>2, WalkFields DEF Graph!direct_parents
<1>4. PoppedFrom(walk, walk', X)
  BY <1>1, <1>2, <1>3, WalkFields, PoppedFields, Zenon
<1>5. UpInv(walk.events, walk.from, walk.frontier, {}, walk.visited, walk.result)
  BY <1>1 DEF GraphInv, Traversal
<1>6. PICK rest : rest = SubSeq(walk.frontier, 1, Len(walk.frontier) - 1)
  OBVIOUS
<1>7. PICK top : /\ top = walk.frontier[Len(walk.frontier)]
                 /\ X = Graph!direct_parents(walk.events, top)
  BY <1>2 DEF Graph!Top
<1>8. UpInv(walk.events, walk.from, rest, X, walk.visited, walk.result)
  BY <1>1, <1>5, <1>6, <1>7, WalkFields, UpPop, Zenon
<1>9. UpInv(walk'.events, walk'.from, walk'.frontier, walk'.edges, walk'.visited, walk'.result)
  BY <1>4, <1>6, <1>8, Zenon DEF PoppedFrom
<1>10. Traversal'
  BY <1>1, <1>9 DEF Traversal, Graph!Deriving
<1>11. walk' \in Walks /\ walk'.events = walk.events /\ walk'.from = walk.from
  BY <1>4, Zenon DEF PoppedFrom
<1>12. query \in {"lineage", "derived", "affected"}
  BY <1>1
<1> QED
  BY <1>1, <1>10, <1>11, <1>12, TraverseInv, Zenon

LEMMA PopDownInv ==
    ASSUME GraphInv, Graph!PopDown
    PROVE  GraphInv'
<1>1. /\ Graph!Deriving /\ walk.edges = {} /\ walk.frontier # << >> /\ Graph!Traverse
      /\ walk' = Graph!Popped(walk, Graph!direct_children(walk.events, Graph!Top(walk)))
      /\ query' = query
  BY DEF Graph!PopDown, Graph!PopNode, Graph!Traverse
<1>2. PICK X : X = Graph!direct_children(walk.events, Graph!Top(walk))
  OBVIOUS
<1>3. X \in SUBSET Nat
  BY <1>2, WalkFields DEF Graph!direct_children
<1>4. PoppedFrom(walk, walk', X)
  BY <1>1, <1>2, <1>3, WalkFields, PoppedFields, Zenon
<1>5. DownInv(walk.events, walk.from, walk.frontier, {}, walk.visited)
  BY <1>1 DEF GraphInv, Traversal
<1>6. PICK rest : rest = SubSeq(walk.frontier, 1, Len(walk.frontier) - 1)
  OBVIOUS
<1>7. PICK top : /\ top = walk.frontier[Len(walk.frontier)]
                 /\ X = Graph!direct_children(walk.events, top)
  BY <1>2 DEF Graph!Top
<1>8. DownInv(walk.events, walk.from, rest, X, walk.visited)
  BY <1>1, <1>5, <1>6, <1>7, WalkFields, DownPop, Zenon
<1>9. DownInv(walk'.events, walk'.from, walk'.frontier, walk'.edges, walk'.visited)
  BY <1>4, <1>6, <1>8, Zenon DEF PoppedFrom
<1>10. Traversal'
  BY <1>1, <1>9 DEF Traversal, Graph!Deriving
<1>11. walk' \in Walks /\ walk'.events = walk.events /\ walk'.from = walk.from
  BY <1>4, Zenon DEF PoppedFrom
<1>12. query \in {"lineage", "derived", "affected"}
  BY <1>1 DEF Graph!Deriving
<1> QED
  BY <1>1, <1>10, <1>11, <1>12, TraverseInv, Zenon

LEMMA FollowDownInv ==
    ASSUME GraphInv, NEW i \in walk.edges, Graph!FollowDown(i)
    PROVE  GraphInv'
<1>1. /\ Graph!Deriving /\ Graph!Traverse /\ query' = query
      /\ walk' = Graph!Visit(walk, i, walk.events[i].subject_id)
  BY DEF Graph!FollowDown, Graph!Traverse
<1>2. DownInv(walk.events, walk.from, walk.frontier, walk.edges, walk.visited)
  BY <1>1 DEF GraphInv, Traversal
<1>3. PICK node : node = walk.events[i].subject_id
  OBVIOUS
<1>4. node \in Graph!Ids
  <2>1. walk.events[i] \in Graph!Event
    BY <1>2, WalkFields DEF DownInv, LineageEdge
  <2> QED
    BY <1>3, <2>1, EventIds
<1>5. VisitedFrom(walk, walk', i, node)
  BY <1>1, <1>3, <1>4, WalkFields, VisitFields, Zenon
<1>6. PICK G : G = IF node \in walk.visited THEN walk.frontier ELSE Append(walk.frontier, node)
  OBVIOUS
<1>7. DownInv(walk.events, walk.from, G, walk.edges \ {i}, walk.visited \cup {node})
  BY <1>2, <1>3, <1>6, WalkFields, DownVisit, Zenon
<1>8. DownInv(walk'.events, walk'.from, walk'.frontier, walk'.edges, walk'.visited)
  BY <1>5, <1>6, <1>7 DEF VisitedFrom
<1>9. Traversal'
  BY <1>1, <1>8 DEF Traversal, Graph!Deriving
<1>10. walk' \in Walks /\ walk'.events = walk.events /\ walk'.from = walk.from
  BY <1>5, Zenon DEF VisitedFrom
<1>11. query \in {"lineage", "derived", "affected"}
  BY <1>1 DEF Graph!Deriving
<1> QED
  BY <1>1, <1>9, <1>10, <1>11, TraverseInv, Zenon

LEMMA FollowUpInv ==
    ASSUME GraphInv, NEW i \in walk.edges, Graph!FollowUp(i)
    PROVE  GraphInv'
<1>1. /\ query = "lineage" /\ Graph!Traverse /\ query' = query
      /\ walk' = [Graph!Visit(walk, i, walk.events[i].object_id) EXCEPT !.result = Append(@, i)]
  BY DEF Graph!FollowUp, Graph!Traverse
<1>2. UpInv(walk.events, walk.from, walk.frontier, walk.edges, walk.visited, walk.result)
  BY <1>1 DEF GraphInv, Traversal
<1>3. PICK node : node = walk.events[i].object_id
  OBVIOUS
<1>4. i \in Nat /\ node \in Graph!Ids
  <2>1. i \in Nat /\ walk.events[i] \in Graph!Event
    BY <1>2, WalkFields DEF UpInv, LineageEdge
  <2> QED
    BY <1>3, <2>1, EventIds
<1>5. PICK v : v = Graph!Visit(walk, i, node)
  OBVIOUS
<1>6. VisitedFrom(walk, v, i, node)
  BY <1>4, <1>5, WalkFields, VisitFields, Zenon
<1>7. PICK Q : Q = Append(walk.result, i)
  OBVIOUS
<1>8. Q \in Seq(Nat)
  BY <1>4, <1>7, WalkFields
<1>9. v \in Walks /\ v.result = walk.result
  BY <1>6, Zenon DEF VisitedFrom
<1>10. walk' = [v EXCEPT !.result = Q]
  BY <1>1, <1>3, <1>5, <1>7, <1>9
<1>11. /\ walk' \in Walks /\ walk'.events = v.events /\ walk'.from = v.from
       /\ walk'.frontier = v.frontier /\ walk'.edges = v.edges /\ walk'.visited = v.visited
       /\ walk'.result = Q
  BY <1>8, <1>9, <1>10 DEF Walks
<1>12. PICK G : G = IF node \in walk.visited THEN walk.frontier ELSE Append(walk.frontier, node)
  OBVIOUS
<1>13. UpInv(walk.events, walk.from, G, walk.edges \ {i}, walk.visited \cup {node}, Q)
  BY <1>2, <1>3, <1>7, <1>12, WalkFields, UpVisit, Zenon
<1>14. UpInv(walk'.events, walk'.from, walk'.frontier, walk'.edges, walk'.visited, walk'.result)
  BY <1>6, <1>11, <1>12, <1>13 DEF VisitedFrom
<1>15. Traversal'
  BY <1>1, <1>14 DEF Traversal, Graph!Deriving
<1>16. walk' \in Walks /\ walk'.events = walk.events /\ walk'.from = walk.from
  BY <1>6, <1>11 DEF VisitedFrom
<1>17. query \in {"lineage", "derived", "affected"}
  BY <1>1
<1> QED
  BY <1>1, <1>15, <1>16, <1>17, TraverseInv, Zenon

\* A loop with nothing left to do has found everything.
LEMMA WalkDoneInv ==
    ASSUME GraphInv, Graph!WalkDone
    PROVE  GraphInv'
<1>1. /\ query \in {"lineage", "derived"} /\ walk.edges = {} /\ walk.frontier = << >>
      /\ query' = "idle" /\ UNCHANGED <<log, withdrawn, scan, span>> /\ walk' = Graph!NoWalk
      /\ answer' = [query |-> query, id |-> walk.from, events |-> walk.events,
                    value |-> IF query = "lineage" THEN walk.result ELSE walk.visited]
  BY DEF Graph!WalkDone, Graph!WalkEnded, Graph!Answer
<1>2. /\ answer'.query = query /\ answer'.id = walk.from /\ answer'.events = walk.events
      /\ query = "lineage" => answer'.value = walk.result
      /\ query = "derived" => answer'.value = walk.visited
  BY <1>1
<1>3. GraphTypeOK'
  BY <1>1, NothingTyped DEF GraphInv, GraphTypeOK
<1>4. ASSUME query = "lineage" PROVE Graph!LineageExact'
  <2>1. UpInv(walk.events, walk.from, << >>, {}, walk.visited, walk.result)
    BY <1>1, <1>4 DEF GraphInv, Traversal
  <2>2. /\ walk.visited = {walk.from} \cup Graph!Ancestors(walk.events, walk.from)
        /\ Distinct(walk.result)
        /\ Nodes(walk.result) =
              {i \in DOMAIN walk.events : /\ walk.events[i].relationship = Graph!Lineage
                                          /\ walk.events[i].subject_id \in walk.visited}
    BY <2>1, WalkFields, UpEnd
  <2> QED
    BY <1>2, <1>4, <2>2 DEF Graph!LineageExact, Distinct, Nodes
<1>5. ASSUME query = "derived" PROVE Graph!DerivedExact'
  <2>1. DownInv(walk.events, walk.from, << >>, {}, walk.visited)
    BY <1>1, <1>5 DEF GraphInv, Traversal, Graph!Deriving
  <2>2. walk.visited = Graph!Descendants(walk.events, walk.from)
    BY <2>1, WalkFields, DownEnd
  <2> QED
    BY <1>2, <1>5, <2>2 DEF Graph!DerivedExact
<1>6. TraversalsExact'
  <2>1. query # "lineage" => Graph!LineageExact'
    BY <1>2 DEF Graph!LineageExact
  <2>2. query # "derived" => Graph!DerivedExact'
    BY <1>2 DEF Graph!DerivedExact
  <2> QED
    BY <1>4, <1>5, <2>1, <2>2 DEF TraversalsExact, Graph!TraversalsExact
<1>7. DeploymentsExact'
  BY <1>1, <1>2
  DEF DeploymentsExact, Graph!DeploymentsExact, Graph!DeploymentsComplete, Graph!DeploymentsSound
<1> QED
  BY <1>1, <1>3, <1>6, <1>7
  DEF GraphInv, Unanswered, Traversal, Graph!Deriving, SpanIsTrue, Graph!FindingDeployments,
      LookingUp, Collecting, Affecting

LEMMA FindDeploymentsInv ==
    ASSUME GraphInv, Graph!FindDeployments
    PROVE  GraphInv'
<1>1. /\ query' = "scan" /\ answer' = None /\ UNCHANGED <<log, withdrawn, walk>>
      /\ scan' = [Graph!NoScan EXCEPT !.events = log]
      /\ span' = [always |-> withdrawn, ever |-> withdrawn, before |-> log]
  BY DEF Graph!FindDeployments, Graph!Begin
<1>2. /\ scan' \in Scans /\ scan'.events = log /\ scan'.next = 1 /\ scan'.revoked_ids = {}
      /\ scan'.field = "subject_id" /\ scan'.asked = {} /\ scan'.todo = {} /\ scan'.affected = {}
  BY <1>1 DEF GraphInv, GraphTypeOK, Scans, Graph!NoScan
<1>3. /\ span' \in Spans /\ span'.always = withdrawn /\ span'.ever = withdrawn
      /\ span'.before = log
  BY <1>1 DEF GraphInv, GraphTypeOK, Spans
<1>4. GraphTypeOK'
  BY <1>1, <1>2, <1>3 DEF GraphInv, GraphTypeOK
<1>5. SpanIsTrue'
  BY <1>1, <1>2, <1>3 DEF SpanIsTrue, Extends
<1>6. LookingUp'
  <2>1. \A j \in DOMAIN log : ~(j < 1)
    BY DEF GraphInv, GraphTypeOK
  <2>2. Found(scan.next)'
    BY <1>2, <1>3, <2>1 DEF Found
  <2> QED
    BY <1>2, <1>3, <2>2 DEF LookingUp, FoundOf
<1> QED
  BY <1>1, <1>4, <1>5, <1>6, Silent
  DEF GraphInv, Traversal, Graph!Deriving, Collecting, Affecting

\* A candidate is the subject or the object of the event at hand.
LEMMA CandidateOf ==
    ASSUME scan \in Scans, scan.next \in DOMAIN scan.events
    PROVE  Graph!Candidate(scan) = IF scan.field = "subject_id"
                                   THEN scan.events[scan.next].subject_id
                                   ELSE scan.events[scan.next].object_id
BY DEF Graph!Candidate

\* While events are left to look at, there is one at hand.
LEMMA AtHand ==
    ASSUME scan \in Scans, scan.next <= Len(scan.events)
    PROVE  scan.next \in DOMAIN scan.events
<1>1. PICK E \in Seq(Graph!Event) : E = scan.events
  BY DEF Scans
<1>2. scan.next \in Nat \ {0}
  BY DEF Scans
<1> QED
  BY <1>1, <1>2

\* What is looked up now is revoked now, so it was while the query ran; what
\* stayed revoked is revoked now.
LEMMA LookUpInv ==
    ASSUME GraphInv, NEW v \in Versions, Graph!LookUp(v)
    PROVE  GraphInv'
<1> DEFINE id == Graph!Candidate(scan)
<1>1. /\ query = "scan" /\ UNCHANGED <<log, withdrawn, query, walk, answer, span>>
      /\ <<id, v>> \in InRegistry
      /\ scan' = [scan EXCEPT !.asked = @ \cup {v},
                              !.revoked_ids = @ \cup {x \in {id} : <<x, v>> \in withdrawn}]
  BY DEF Graph!LookUp, Graph!LookingUp, Graph!list_versions
<1>2. PICK found : found = {x \in {id} : <<x, v>> \in withdrawn}
  OBVIOUS
<1>3. scan \in Scans /\ found \in SUBSET Models /\ scan.next \in DOMAIN scan.events
  <2>1. scan \in Scans /\ scan.next <= Len(scan.events)
    BY DEF GraphInv, GraphTypeOK, Graph!LookUp, Graph!LookingUp
  <2>2. scan.next \in DOMAIN scan.events
    BY <2>1, AtHand
  <2>3. id \in Models
    BY <1>1, IdsAssumption
  <2> QED
    BY <1>2, <2>1, <2>2, <2>3
<1>4. /\ scan' \in Scans /\ scan'.events = scan.events /\ scan'.next = scan.next
      /\ scan'.field = scan.field /\ scan'.asked = scan.asked \cup {v}
      /\ scan'.revoked_ids = scan.revoked_ids \cup found
      /\ scan'.todo = scan.todo /\ scan'.affected = scan.affected
  <2>1. PICK A \in SUBSET Versions : A = scan.asked \cup {v}
    BY <1>3 DEF Scans
  <2>2. PICK R \in SUBSET Models : R = scan.revoked_ids \cup found
    BY <1>3 DEF Scans
  <2>3. scan' = [scan EXCEPT !.asked = A, !.revoked_ids = R]
    BY <1>1, <1>2, <2>1, <2>2
  <2> QED
    BY <1>3, <2>1, <2>2, <2>3 DEF Scans
<1>5. Graph!Candidate(scan)' = id
  BY <1>4 DEF Graph!Candidate
<1> HIDE DEF id
<1>6. GraphTypeOK'
  BY <1>1, <1>4 DEF GraphInv, GraphTypeOK
<1>7. SpanIsTrue'
  <2>1. /\ Extends(span.before, log)
        /\ span.always \subseteq withdrawn /\ withdrawn \subseteq span.ever
        /\ \A m \in scan.revoked_ids : \E r \in span.ever : r[1] = m
    BY <1>1 DEF GraphInv, SpanIsTrue, Graph!FindingDeployments
  <2>2. \A m \in found : \E r \in span.ever : r[1] = m
    <3> SUFFICES ASSUME NEW m \in found
                 PROVE  \E r \in span.ever : r[1] = m
      OBVIOUS
    <3>1. <<m, v>> \in span.ever /\ <<m, v>>[1] = m
      BY <1>2, <2>1
    <3> QED
      BY <3>1
  <2> QED
    BY <1>1, <1>4, <2>1, <2>2 DEF SpanIsTrue, Graph!FindingDeployments
<1>8. LookingUp'
  <2>1. /\ scan.events = span.before /\ Found(scan.next)
        /\ scan.affected = {} /\ scan.todo = {} /\ span.always \subseteq withdrawn
        /\ FoundOf(scan, span, id, scan.asked)
        /\ scan.field = "object_id" =>
              FoundOf(scan, span, scan.events[scan.next].subject_id, Versions)
    BY <1>1, <1>3 DEF GraphInv, LookingUp, SpanIsTrue, Graph!FindingDeployments, id
  <2>2. \A m, V : FoundOf(scan, span, m, V) => FoundOf(scan', span', m, V)
    BY <1>1, <1>4 DEF FoundOf
  <2>3. Found(scan.next)'
    BY <1>1, <1>4, <2>1, <2>2 DEF Found
  <2>4. FoundOf(scan', span', id, scan'.asked)
    <3>1. <<id, v>> \in span.always => id \in found
      BY <1>2, <2>1
    <3> QED
      BY <1>1, <1>4, <2>1, <3>1 DEF FoundOf
  <2>5. scan'.field = "object_id" =>
          FoundOf(scan', span', scan'.events[scan'.next].subject_id, Versions)
    BY <1>4, <2>1, <2>2
  <2>6. scan'.events = span'.before /\ scan'.affected = {} /\ scan'.todo = {}
    BY <1>1, <1>4, <2>1
  <2> QED
    BY <1>5, <2>3, <2>4, <2>5, <2>6 DEF LookingUp
<1>9. answer' = None
  BY <1>1 DEF GraphInv, Unanswered
<1> QED
  BY <1>1, <1>6, <1>7, <1>8, <1>9, Silent
  DEF GraphInv, Traversal, Graph!Deriving, Collecting, Affecting

\* All versions of a candidate have been asked for when the next one is taken up.
LEMMA NextCandidateInv ==
    ASSUME GraphInv, Graph!NextCandidate
    PROVE  GraphInv'
<1> DEFINE id == Graph!Candidate(scan)
<1>1. /\ query = "scan" /\ UNCHANGED <<log, withdrawn, query, walk, answer, span>>
      /\ Graph!list_versions(id) \subseteq scan.asked /\ scan' = Graph!Advance(scan)
  BY DEF Graph!NextCandidate, Graph!LookingUp
<1>2. /\ scan \in Scans /\ scan.next \in Nat \ {0} /\ scan.next \in DOMAIN scan.events
      /\ span.before \in Seq(Graph!Event)
  <2>1. /\ scan \in Scans /\ scan.next <= Len(scan.events) /\ span \in Spans
    BY DEF GraphInv, GraphTypeOK, Graph!NextCandidate, Graph!LookingUp
  <2> QED
    BY <2>1, AtHand DEF Scans, Spans
<1>3. PICK n \in Nat \ {0}, f \in {"subject_id", "object_id"} :
        /\ scan' = [scan EXCEPT !.field = f, !.next = n, !.asked = {}]
        /\ \/ scan.field = "subject_id" /\ f = "object_id" /\ n = scan.next
           \/ scan.field = "object_id" /\ f = "subject_id" /\ n = scan.next + 1
  <2>1. CASE scan.field = "subject_id"
    <3>1. scan' = [scan EXCEPT !.field = "object_id", !.next = scan.next, !.asked = {}]
      BY <1>1, <1>2, <2>1 DEF Graph!Advance, Scans
    <3> QED
      BY <1>2, <2>1, <3>1
  <2>2. CASE scan.field # "subject_id"
    <3>1. scan.field = "object_id"
      BY <1>2, <2>2 DEF Scans
    <3>2. scan' = [scan EXCEPT !.field = "subject_id", !.next = scan.next + 1, !.asked = {}]
      BY <1>1, <1>2, <2>2 DEF Graph!Advance, Scans
    <3>3. PICK n \in Nat \ {0} : n = scan.next + 1
      BY <1>2
    <3> QED
      BY <3>1, <3>2, <3>3
  <2> QED
    BY <2>1, <2>2
<1>4. /\ scan' \in Scans /\ scan'.events = scan.events /\ scan'.next = n
      /\ scan'.field = f /\ scan'.asked = {} /\ scan'.revoked_ids = scan.revoked_ids
      /\ scan'.todo = scan.todo /\ scan'.affected = scan.affected
  BY <1>2, <1>3 DEF Scans
<1>5. GraphTypeOK'
  BY <1>1, <1>4 DEF GraphInv, GraphTypeOK
<1>6. SpanIsTrue'
  BY <1>1, <1>4 DEF GraphInv, SpanIsTrue, Graph!FindingDeployments
<1>7. LookingUp'
  <2>1. /\ scan.events = span.before /\ Found(scan.next) /\ scan.affected = {} /\ scan.todo = {}
        /\ FoundOf(scan, span, id, scan.asked) /\ span.always \in SUBSET InRegistry
        /\ scan.field = "object_id" =>
              FoundOf(scan, span, scan.events[scan.next].subject_id, Versions)
    BY <1>1, <1>2 DEF GraphInv, GraphTypeOK, LookingUp, Spans
  <2>2. \A m, V : FoundOf(scan, span, m, V) => FoundOf(scan', span', m, V)
    BY <1>1, <1>4 DEF FoundOf
  <2>3. FoundOf(scan, span, id, Versions)
    BY <1>1, <2>1 DEF FoundOf, Graph!list_versions
  <2>4. id = IF scan.field = "subject_id" THEN scan.events[scan.next].subject_id
             ELSE scan.events[scan.next].object_id
    BY <1>2, CandidateOf
  <2> HIDE DEF id
  <2>5. Found(n)
    <3>1. CASE n = scan.next
      BY <2>1, <3>1
    <3>2. CASE n = scan.next + 1 /\ scan.field = "object_id"
      <4> SUFFICES ASSUME NEW j \in DOMAIN span.before, j < n
                   PROVE  /\ FoundOf(scan, span, span.before[j].subject_id, Versions)
                          /\ FoundOf(scan, span, span.before[j].object_id, Versions)
        BY DEF Found
      <4>1. j < scan.next \/ j = scan.next
        BY <1>2, <3>2
      <4>2. CASE j < scan.next
        BY <2>1, <4>2 DEF Found
      <4>3. CASE j = scan.next
        BY <2>1, <2>3, <2>4, <3>2, <4>3
      <4> QED
        BY <4>1, <4>2, <4>3
    <3> QED
      BY <1>3, <3>1, <3>2
  <2>6. Found(scan.next)'
    BY <1>1, <1>4, <2>2, <2>5 DEF Found
  <2>7. scan'.field = "object_id" =>
          FoundOf(scan', span', scan'.events[scan'.next].subject_id, Versions)
    BY <1>3, <1>4, <2>2, <2>3, <2>4
  <2>8. \A m : FoundOf(scan', span', m, scan'.asked)
    BY <1>4 DEF FoundOf
  <2>9. scan'.events = span'.before /\ scan'.affected = {} /\ scan'.todo = {}
    BY <1>1, <1>4, <2>1
  <2> QED
    BY <2>6, <2>7, <2>8, <2>9 DEF LookingUp
<1>8. answer' = None
  BY <1>1 DEF GraphInv, Unanswered
<1> QED
  BY <1>1, <1>5, <1>6, <1>7, <1>8, Silent
  DEF GraphInv, Traversal, Graph!Deriving, Collecting, Affecting

LEMMA LoadDeploymentsInv ==
    ASSUME GraphInv, Graph!LoadDeployments
    PROVE  GraphInv'
<1>1. /\ query = "scan" /\ query' = "collect" /\ scan.next > Len(scan.events)
      /\ UNCHANGED <<log, withdrawn, walk, answer, span>>
      /\ scan' = [scan EXCEPT !.events = log, !.todo = scan.revoked_ids,
                              !.affected = scan.revoked_ids]
  BY DEF Graph!LoadDeployments
<1>2. /\ scan' \in Scans /\ scan'.events = log /\ scan'.revoked_ids = scan.revoked_ids
      /\ scan'.todo = scan.revoked_ids /\ scan'.affected = scan.revoked_ids
  BY <1>1 DEF GraphInv, GraphTypeOK, Scans, Graph!Ids
<1>3. GraphTypeOK'
  BY <1>1, <1>2 DEF GraphInv, GraphTypeOK
<1>4. SpanIsTrue'
  BY <1>1, <1>2 DEF GraphInv, SpanIsTrue, Graph!FindingDeployments
<1>5. Collecting'
  <2>1. Found(scan.next) /\ scan.events = span.before /\ Extends(span.before, log)
    BY <1>1 DEF GraphInv, LookingUp, SpanIsTrue, Graph!FindingDeployments
  <2>2. \A j \in DOMAIN span.before : j < scan.next
    BY <1>1, <2>1 DEF GraphInv, GraphTypeOK, Scans, Spans
  <2>3. Found(Len(span.before) + 1)'
    BY <1>1, <1>2, <2>1, <2>2 DEF Found, FoundOf
  <2>4. Extends(log, log)
    BY DEF Extends
  <2> QED
    BY <1>1, <1>2, <2>1, <2>3, <2>4 DEF Collecting
<1>6. answer' = None
  BY <1>1 DEF GraphInv, Unanswered
<1> QED
  BY <1>1, <1>3, <1>4, <1>5, <1>6, Silent
  DEF GraphInv, Traversal, Graph!Deriving, LookingUp, Affecting

LEMMA DeriveInv ==
    ASSUME GraphInv, NEW id \in Models, Graph!Derive(id)
    PROVE  GraphInv'
<1>1. /\ query = "collect" /\ query' = "affected" /\ id \in scan.todo /\ Graph!StartDerived(id)
      /\ scan' = [scan EXCEPT !.todo = @ \ {id}]
      /\ UNCHANGED <<log, withdrawn, answer, span>>
  BY DEF Graph!Derive
<1>2. /\ scan' \in Scans /\ scan'.events = scan.events /\ scan'.revoked_ids = scan.revoked_ids
      /\ scan'.todo = scan.todo \ {id} /\ scan'.affected = scan.affected
  BY <1>1 DEF GraphInv, GraphTypeOK, Scans
<1>3. /\ walk' \in Walks /\ walk'.events = log /\ walk'.from = id
      /\ DownInv(walk'.events, walk'.from, walk'.frontier, walk'.edges, walk'.visited)
  BY <1>1, StartDerivedWalk DEF GraphInv
<1>4. GraphTypeOK'
  BY <1>1, <1>2, <1>3 DEF GraphInv, GraphTypeOK
<1>5. Traversal'
  BY <1>1, <1>3 DEF Traversal, Graph!Deriving
<1>6. SpanIsTrue'
  BY <1>1, <1>2 DEF GraphInv, SpanIsTrue, Graph!FindingDeployments
<1>7. Collecting'
  BY <1>1, <1>2, <1>3 DEF GraphInv, Collecting, Found, FoundOf
<1>8. Affecting'
  <2>1. Extends(span.before, log) /\ Extends(log, log)
    BY <1>1 DEF GraphInv, SpanIsTrue, Graph!FindingDeployments, Extends
  <2>2. id \in scan.revoked_ids
    BY <1>1 DEF GraphInv, Collecting
  <2> QED
    BY <1>1, <1>2, <1>3, <2>1, <2>2 DEF Affecting
<1>9. answer' = None
  BY <1>1 DEF GraphInv, Unanswered
<1> QED
  BY <1>1, <1>4, <1>5, <1>6, <1>7, <1>8, <1>9, Silent DEF GraphInv, LookingUp

\* The log a traversal read goes on from what was on record when the query
\* began, and is continued by what is on record now.
LEMMA DerivedInv ==
    ASSUME GraphInv, Graph!Derived
    PROVE  GraphInv'
<1>1. /\ query = "affected" /\ query' = "collect" /\ walk.edges = {} /\ walk.frontier = << >>
      /\ scan' = [scan EXCEPT !.affected = @ \cup walk.visited] /\ walk' = Graph!NoWalk
      /\ UNCHANGED <<log, withdrawn, answer, span>>
  BY DEF Graph!Derived, Graph!WalkEnded
<1>2. /\ scan' \in Scans /\ scan'.events = scan.events /\ scan'.revoked_ids = scan.revoked_ids
      /\ scan'.todo = scan.todo /\ scan'.affected = scan.affected \cup walk.visited
  BY <1>1 DEF GraphInv, GraphTypeOK, Scans, Walks
<1>3. walk.visited = Graph!Descendants(walk.events, walk.from)
  <2>1. DownInv(walk.events, walk.from, << >>, {}, walk.visited)
    BY <1>1 DEF GraphInv, Traversal, Graph!Deriving
  <2> QED
    BY <2>1, WalkFields, DownEnd
<1>4. /\ Graph!Descendants(span.before, walk.from) \subseteq walk.visited
      /\ walk.visited \subseteq Graph!Descendants(log, walk.from)
      /\ walk.from \in scan.revoked_ids
  BY <1>1, <1>3, DescendantsGrow DEF GraphInv, Affecting
<1>5. GraphTypeOK'
  BY <1>1, <1>2, NothingTyped DEF GraphInv, GraphTypeOK
<1>6. SpanIsTrue'
  BY <1>1, <1>2 DEF GraphInv, SpanIsTrue, Graph!FindingDeployments
<1>7. Collecting'
  <2>1. Found(Len(span.before) + 1)'
    BY <1>1, <1>2 DEF GraphInv, Collecting, Found, FoundOf
  <2>2. \A r \in scan.revoked_ids :
          \/ r \in scan.todo
          \/ Graph!Descendants(span.before, r) \subseteq scan.affected \cup walk.visited
    BY <1>1, <1>4 DEF GraphInv, Collecting
  <2>3. \A m \in scan.affected \cup walk.visited : \E r \in scan.revoked_ids :
          m = r \/ m \in Graph!Descendants(log, r)
    BY <1>1, <1>4 DEF GraphInv, Collecting
  <2> QED
    BY <1>1, <1>2, <2>1, <2>2, <2>3 DEF GraphInv, Collecting
<1>8. answer' = None
  BY <1>1 DEF GraphInv, Unanswered
<1> QED
  BY <1>1, <1>5, <1>6, <1>7, <1>8, Silent
  DEF GraphInv, Traversal, Graph!Deriving, LookingUp, Affecting

\* What is reported is on record, and what was on record and affected is reported.
LEMMA ReportInv ==
    ASSUME GraphInv, Graph!Report
    PROVE  GraphInv'
<1> DEFINE hits == {i \in DOMAIN scan.events :
                       /\ scan.events[i].relationship = Graph!Deployed
                       /\ scan.events[i].subject_id \in scan.affected}
<1>1. /\ query = "collect" /\ scan.todo = {} /\ query' = "idle" /\ scan' = Graph!NoScan
      /\ answer' = [query |-> "deployments", id |-> None, events |-> scan.events, value |-> hits]
      /\ UNCHANGED <<log, withdrawn, walk, span>>
  BY DEF Graph!Report, Graph!Answer
<1>2. answer'.query = "deployments" /\ answer'.events = scan.events /\ answer'.value = hits
  BY <1>1
<1>3. GraphTypeOK'
  BY <1>1, NothingTyped DEF GraphInv, GraphTypeOK
<1>4. /\ Found(Len(span.before) + 1)
      /\ Extends(span.before, scan.events) /\ Extends(scan.events, log)
      /\ scan.revoked_ids \subseteq scan.affected
      /\ \A r \in scan.revoked_ids : Graph!Descendants(span.before, r) \subseteq scan.affected
      /\ \A m \in scan.affected : \E r \in scan.revoked_ids :
            m = r \/ m \in Graph!Descendants(log, r)
  BY <1>1 DEF GraphInv, Collecting
<1>5. Graph!Reported' = {scan.events[i] : i \in hits}
  BY <1>2 DEF Graph!Reported
<1>6. ASSUME NEW i \in DOMAIN span.before, span.before[i].relationship = Graph!Deployed,
             NEW r \in span.always,
             span.before[i].subject_id \in {r[1]} \cup Graph!Descendants(span.before, r[1])
      PROVE  span.before[i] \in {scan.events[j] : j \in hits}
  <2>1. PICK id \in Models, v \in Versions : r = <<id, v>> /\ r[1] = id
    BY <1>6, IdsAssumption DEF GraphInv, GraphTypeOK, Spans
  <2>2. \A j \in DOMAIN span.before : j < Len(span.before) + 1
    BY DEF GraphInv, GraphTypeOK, Spans
  <2>3. \A j \in DOMAIN span.before :
          id \in {span.before[j].subject_id, span.before[j].object_id} => id \in scan.revoked_ids
    BY <1>4, <1>6, <2>1, <2>2 DEF Found, FoundOf
  <2>4. id \in scan.revoked_ids
    <3>1. CASE span.before[i].subject_id = id
      BY <2>3, <3>1
    <3>2. CASE span.before[i].subject_id \in Graph!Descendants(span.before, id)
      <4>1. PICK x \in Graph!Ids : Graph!Edge(span.before, x, id)
        BY <3>2, DescendantsNeedEdge
      <4>2. PICK j \in DOMAIN span.before : span.before[j].object_id = id
        BY <4>1 DEF Graph!Edge
      <4> QED
        BY <2>3, <4>2
    <3> QED
      BY <1>6, <2>1, <3>1, <3>2
  <2>5. span.before[i].subject_id \in scan.affected
    BY <1>4, <1>6, <2>1, <2>4
  <2>6. i \in DOMAIN scan.events /\ scan.events[i] = span.before[i]
    BY <1>4 DEF Extends
  <2>7. i \in hits
    BY <1>6, <2>5, <2>6
  <2> QED
    BY <2>6, <2>7
<1>7. ASSUME NEW e \in {scan.events[j] : j \in hits}
      PROVE  /\ \E i \in DOMAIN log : log[i] = e
             /\ \E r \in span.ever : e.subject_id \in {r[1]} \cup Graph!Descendants(log, r[1])
  <2>1. PICK i \in DOMAIN scan.events : e = scan.events[i] /\ e.subject_id \in scan.affected
    OBVIOUS
  <2>2. i \in DOMAIN log /\ log[i] = e
    BY <1>4, <2>1 DEF Extends
  <2>3. PICK id \in scan.revoked_ids : e.subject_id \in {id} \cup Graph!Descendants(log, id)
    BY <1>4, <2>1
  <2>4. PICK r \in span.ever : r[1] = id
    BY <1>1 DEF GraphInv, SpanIsTrue, Graph!FindingDeployments
  <2> QED
    BY <2>2, <2>3, <2>4
<1> HIDE DEF hits
<1>8. DeploymentsExact'
  <2>1. Graph!DeploymentsComplete'
    BY <1>1, <1>5, <1>6 DEF Graph!DeploymentsComplete
  <2>2. Graph!DeploymentsSound'
    BY <1>1, <1>5, <1>7 DEF Graph!DeploymentsSound
  <2> QED
    BY <2>1, <2>2 DEF DeploymentsExact, Graph!DeploymentsExact
<1>9. TraversalsExact'
  BY <1>2 DEF TraversalsExact, Graph!TraversalsExact, Graph!LineageExact, Graph!DerivedExact
<1> QED
  BY <1>1, <1>3, <1>8, <1>9
  DEF GraphInv, Unanswered, Traversal, Graph!Deriving, SpanIsTrue, Graph!FindingDeployments,
      LookingUp, Collecting, Affecting

LEMMA RaiseInv ==
    ASSUME GraphInv, Graph!Raise
    PROVE  GraphInv'
<1>1. /\ query # "idle" /\ query' = "idle" /\ UNCHANGED <<log, withdrawn, answer>>
      /\ walk' = Graph!NoWalk /\ scan' = Graph!NoScan /\ span' = Graph!NoSpan
  BY DEF Graph!Raise
<1>2. GraphTypeOK' /\ answer' = None
  BY <1>1, NothingTyped DEF GraphInv, GraphTypeOK, Unanswered
<1> QED
  BY <1>1, <1>2, IdleInv

LEMMA GraphStutterInv ==
    ASSUME GraphInv, UNCHANGED Graph!vars
    PROVE  GraphInv'
<1>1. UNCHANGED <<log, withdrawn, query, walk, scan, answer, span>>
  BY DEF Graph!vars
<1>2. GraphTypeOK' /\ Unanswered' /\ Traversal'
  BY <1>1 DEF GraphInv, GraphTypeOK, Unanswered, Traversal, Graph!Deriving
<1>3. SpanIsTrue' /\ LookingUp' /\ Affecting'
  BY <1>1 DEF GraphInv, SpanIsTrue, LookingUp, Found, FoundOf, Affecting, Graph!Candidate,
              Graph!FindingDeployments
<1>4. Collecting'
  BY <1>1 DEF GraphInv, Collecting, Found, FoundOf
<1>5. TraversalsExact'
  BY <1>1 DEF GraphInv, TraversalsExact, Graph!TraversalsExact, Graph!LineageExact,
              Graph!DerivedExact
<1>6. DeploymentsExact'
  BY <1>1 DEF GraphInv, DeploymentsExact, Graph!DeploymentsExact, Graph!DeploymentsComplete,
              Graph!DeploymentsSound, Graph!Reported
<1> QED
  BY <1>2, <1>3, <1>4, <1>5, <1>6 DEF GraphInv

LEMMA GraphNextInv ==
    ASSUME GraphInv, [Graph!Next]_Graph!vars
    PROVE  GraphInv'
<1>1. CASE \E e \in Graph!Event : Graph!record(e)
  BY <1>1, RecordInv
<1>2. CASE \/ \E r \in InRegistry \ withdrawn : Graph!ChangeRevocation(withdrawn \cup {r})
           \/ \E r \in withdrawn : Graph!ChangeRevocation(withdrawn \ {r})
  <2>1. PICK ids \in SUBSET InRegistry : Graph!ChangeRevocation(ids)
    BY <1>2 DEF GraphInv, GraphTypeOK
  <2> QED
    BY <2>1, ChangeRevocationInv
<1>3. CASE \E id \in Models :
             Graph!lineage(id) \/ Graph!find_models_derived_from(id) \/ Graph!Derive(id)
  BY <1>3, LineageInv, FindDerivedInv, DeriveInv
<1>4. CASE Graph!PopUp \/ Graph!PopDown
  BY <1>4, PopUpInv, PopDownInv
<1>5. CASE \E i \in walk.edges : Graph!FollowUp(i) \/ Graph!FollowDown(i)
  BY <1>5, FollowUpInv, FollowDownInv
<1>6. CASE Graph!WalkDone \/ Graph!Derived \/ Graph!Report \/ Graph!Raise
  BY <1>6, WalkDoneInv, DerivedInv, ReportInv, RaiseInv
<1>7. CASE \/ Graph!FindDeployments \/ (\E v \in Versions : Graph!LookUp(v))
           \/ Graph!NextCandidate \/ Graph!LoadDeployments
  BY <1>7, FindDeploymentsInv, LookUpInv, NextCandidateInv, LoadDeploymentsInv
<1>8. CASE UNCHANGED Graph!vars
  BY <1>8, GraphStutterInv
<1> QED
  BY <1>1, <1>2, <1>3, <1>4, <1>5, <1>6, <1>7, <1>8 DEF Graph!Next

\* Whatever is recorded and revoked while the queries of graph.py run, and
\* wherever they raise, their local state is what their loops rely on.
THEOREM GraphInvariance == Graph!Spec => []GraphInv
<1>1. Graph!Init => GraphInv
  BY GraphInitInv
<1>2. GraphInv /\ [Graph!Next]_Graph!vars => GraphInv'
  BY GraphNextInv
<1> QED
  BY <1>1, <1>2, PTL DEF Graph!Spec

\* lineage() returns exactly the edges of the model and its ancestors, each
\* once, and find_models_derived_from() exactly the models on a path to the base,
\* for every log, with cycles, self-loops and parallel edges.
THEOREM TraversalsAreExact == Graph!Spec => []TraversalsExact
<1>1. GraphInv => TraversalsExact
  BY DEF GraphInv
<1> QED
  BY <1>1, GraphInvariance, PTL

\* find_deployments_using_revoked_model() reports every deployment on record when
\* it began of what is or derives from a model that stayed revoked, and none but
\* of models revoked while it ran, whatever others record, revoke and unrevoke
\* between its reads.
THEOREM DeploymentsAreExact == Graph!Spec => []DeploymentsExact
<1>1. GraphInv => DeploymentsExact
  BY DEF GraphInv
<1> QED
  BY <1>1, GraphInvariance, PTL

\* A step of a loop brings it nearer to its end: a node is visited that was not,
\* or the frontier is shorter by one, or the pending edges are fewer.  There are
\* as many nodes as ids and as many edges as events.
Nearer(w, v) ==
    /\ w.visited \subseteq v.visited /\ v.visited \subseteq Graph!Ids
    /\ \/ v.visited # w.visited
       \/ Len(v.frontier) = Len(w.frontier) - 1 /\ Len(w.frontier) > 0
       \/ v.frontier = w.frontier /\ v.edges \subseteq w.edges /\ v.edges # w.edges

LEMMA PopIsNearer ==
    ASSUME GraphInv, NEW X \in SUBSET Nat, walk.frontier # << >>, walk' = Graph!Popped(walk, X)
    PROVE  Nearer(walk, walk')
<1>1. PoppedFrom(walk, walk', X)
  BY WalkFields, PoppedFields, Zenon
<1>2. PICK F \in Seq(Graph!Ids) : F = walk.frontier
  BY WalkFields
<1>3. F # << >> /\ walk'.frontier = SubSeq(F, 1, Len(F) - 1)
  BY <1>1, <1>2 DEF PoppedFrom
<1>4. Len(walk'.frontier) = Len(F) - 1 /\ Len(F) > 0
  BY <1>2, <1>3
<1>5. walk'.visited = walk.visited /\ walk.visited \subseteq Graph!Ids
  BY <1>1, WalkFields DEF PoppedFrom, Walks
<1> QED
  BY <1>2, <1>4, <1>5 DEF Nearer

LEMMA VisitIsNearer ==
    ASSUME GraphInv, NEW i \in walk.edges, NEW node \in Graph!Ids, NEW v,
           v = Graph!Visit(walk, i, node)
    PROVE  Nearer(walk, v)
<1>1. VisitedFrom(walk, v, i, node)
  BY WalkFields, VisitFields, Zenon
<1>2. /\ v.visited = walk.visited \cup {node} /\ v.edges = walk.edges \ {i}
      /\ node \in walk.visited => v.frontier = walk.frontier
      /\ walk.visited \subseteq Graph!Ids
  BY <1>1, WalkFields DEF VisitedFrom, Walks
<1> QED
  BY <1>2 DEF Nearer

\* Both traversals end on every finite log, cycles and self-loops included: while
\* one runs, whatever others do meanwhile, each step it takes brings it nearer
\* to its end.
THEOREM TraversalsComeToAnEnd ==
    Graph!Spec => [][query' = query => Nearer(walk, walk')]_walk
<1>1. ASSUME GraphInv, [Graph!Next]_Graph!vars, query' = query, walk' # walk
      PROVE  Nearer(walk, walk')
  <2>1. \/ Graph!PopUp \/ Graph!PopDown
        \/ \E i \in walk.edges : Graph!FollowUp(i) \/ Graph!FollowDown(i)
    BY <1>1
    DEF Graph!Next, Graph!vars, Graph!record, Graph!ChangeRevocation, Graph!lineage,
        Graph!find_models_derived_from, Graph!Begin, Graph!Derive, Graph!WalkDone, Graph!Answer,
        Graph!FindDeployments, Graph!LookUp, Graph!NextCandidate, Graph!LoadDeployments,
        Graph!Derived, Graph!Report, Graph!Raise
  <2>2. CASE Graph!PopUp
    <3>1. PICK X : X = Graph!direct_parents(walk.events, Graph!Top(walk))
      OBVIOUS
    <3>2. X \in SUBSET Nat
      BY <1>1, <3>1, WalkFields DEF Graph!direct_parents
    <3>3. walk.frontier # << >> /\ walk' = Graph!Popped(walk, X)
      BY <2>2, <3>1 DEF Graph!PopUp, Graph!PopNode
    <3> QED
      BY <1>1, <3>2, <3>3, PopIsNearer, Zenon
  <2>3. CASE Graph!PopDown
    <3>1. PICK X : X = Graph!direct_children(walk.events, Graph!Top(walk))
      OBVIOUS
    <3>2. X \in SUBSET Nat
      BY <1>1, <3>1, WalkFields DEF Graph!direct_children
    <3>3. walk.frontier # << >> /\ walk' = Graph!Popped(walk, X)
      BY <2>3, <3>1 DEF Graph!PopDown, Graph!PopNode
    <3> QED
      BY <1>1, <3>2, <3>3, PopIsNearer, Zenon
  <2>4. ASSUME NEW i \in walk.edges, Graph!FollowDown(i) PROVE Nearer(walk, walk')
    <3>1. PICK node : node = walk.events[i].subject_id
      OBVIOUS
    <3>2. DownInv(walk.events, walk.from, walk.frontier, walk.edges, walk.visited)
      BY <1>1, <2>4 DEF GraphInv, Traversal, Graph!FollowDown
    <3>3. walk.events[i] \in Graph!Event
      BY <1>1, <3>2, WalkFields DEF DownInv, LineageEdge
    <3>4. node \in Graph!Ids
      BY <3>1, <3>3, EventIds
    <3>5. walk' = Graph!Visit(walk, i, node)
      BY <2>4, <3>1 DEF Graph!FollowDown
    <3> QED
      BY <1>1, <3>4, <3>5, VisitIsNearer, Zenon
  <2>5. ASSUME NEW i \in walk.edges, Graph!FollowUp(i) PROVE Nearer(walk, walk')
    <3>1. PICK node, v : node = walk.events[i].object_id /\ v = Graph!Visit(walk, i, node)
      OBVIOUS
    <3>2. UpInv(walk.events, walk.from, walk.frontier, walk.edges, walk.visited, walk.result)
      BY <1>1, <2>5 DEF GraphInv, Traversal, Graph!FollowUp
    <3>3. walk.events[i] \in Graph!Event
      BY <1>1, <3>2, WalkFields DEF UpInv, LineageEdge
    <3>4. node \in Graph!Ids
      BY <3>1, <3>3, EventIds
    <3>5. VisitedFrom(walk, v, i, node) /\ Nearer(walk, v)
      BY <1>1, <3>1, <3>4, WalkFields, VisitFields, VisitIsNearer, Zenon
    <3>6. walk' = [v EXCEPT !.result = Append(@, i)]
      BY <2>5, <3>1 DEF Graph!FollowUp
    <3>7. walk'.visited = v.visited /\ walk'.frontier = v.frontier /\ walk'.edges = v.edges
      BY <3>5, <3>6 DEF VisitedFrom, Walks
    <3> QED
      BY <3>5, <3>7 DEF Nearer
  <2> QED
    BY <2>1, <2>2, <2>3, <2>4, <2>5
<1>2. GraphInv /\ [Graph!Next]_Graph!vars => [query' = query => Nearer(walk, walk')]_walk
  BY <1>1
<1> QED
  BY <1>2, GraphInvariance, PTL DEF Graph!Spec

-----------------------------------------------------------------------------
(* The two specifications that are model-checked.                          *)

\* What the runs explore are behaviours of Publishing and of Provenance: what is
\* proved of these holds of those.
THEOREM RunsAreInstances == (PublishingSpec => Spec) /\ (ProvenanceSpec => Graph!Spec)
<1>1. [PublishingNext]_<<publishingVars, graphVars>> => [Next]_vars
  BY DEF PublishingNext, publishingVars
<1>2. [ProvenanceNext]_<<publishingVars, graphVars>> => [Graph!Next]_Graph!vars
  BY DEF ProvenanceNext, graphVars, Graph!vars
<1>3. PublishingSpec => Spec
  BY <1>1, PTL DEF PublishingSpec, PublishingInit, Spec
<1>4. ProvenanceSpec => Graph!Spec
  BY <1>2, PTL DEF ProvenanceSpec, ProvenanceInit, Graph!Spec
<1> QED
  BY <1>3, <1>4
=============================================================================
