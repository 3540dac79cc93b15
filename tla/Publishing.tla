----------------------------- MODULE Publishing -----------------------------
(***************************************************************************)
(* Publishing and checking a model with the command line (cli/main.py):    *)
(* keygen, fingerprint, manifest, mbom generate, sign, register, revoke,   *)
(* resolve and verify, with what they run of sdk.py, manifest/, mbom/ and  *)
(* signing/keys.py.  Several people run them in one working directory,     *)
(* while the artifact is edited.  Each command reads its files one after   *)
(* the other and writes its output in place: the file is truncated when it *)
(* is opened and filled later, so a command that dies, or two that write   *)
(* the same file, can leave one that does not parse.                       *)
(*                                                                         *)
(* A digest is modelled by what it is the digest of, a key pair by a       *)
(* number, a registry by its contract (module Registry), a model_id and    *)
(* version by one name.  A signature is the payload and the key that made  *)
(* it; what can be done to one by editing its file is in module Signing.   *)
(***************************************************************************)
EXTENDS Naturals

CONSTANTS
    People,         \* those who run commands
    Contents,       \* contents of the artifact
    Names,          \* names a manifest can declare
    None,           \* nothing there, not given
    Empty, Torn,    \* a file that was truncated, a mixture of two documents
    MaxCommands,    \* bound: commands started
    MaxEdits        \* bound: edits of the artifact

ASSUME MarkersAssumption ==
    None \notin Names \cup Contents \cup {"verify", "resolve"} /\ Empty # Torn
ASSUME BoundsAssumption == MaxCommands \in Nat /\ MaxEdits \in Nat

Stores == {"local", "postgres"}
Documents == {"manifest", "mbom", "signature"}

VARIABLES
    artifact,   \* its content now
    file,       \* the documents and the key files
    records,    \* per registry: registered [name, digest, mbom]
    revoked,    \* per registry: revoked names
    trusted,    \* fingerprints handed to those who verify
    pc, job,            \* each person's latest command, unless it failed
    nextKey, serials,   \* key pairs and ML-BOM serial numbers handed out
    measured,   \* ghost: the manifests put together so far
    issued,     \* ghost: [envelope, held]: signed, and what the artifact was meanwhile
    commands, edits     \* counters for the bounds

registry == <<records, revoked>>
ghosts == <<measured, issued>>
counters == <<nextKey, serials, commands, edits>>
vars == <<artifact, file, registry, trusted, pc, job, ghosts, counters>>

-----------------------------------------------------------------------------
(* Documents.                                                              *)

\* build_manifest(): the measured digest with the declared metadata.
build_manifest(content, name) == [digest |-> content, name |-> name]

\* generate_mbom(): bound to the digest in the manifest, with a new serial number.
generate_mbom(m, serial) == [digest |-> m.digest, serial |-> serial]

\* sign_artifact(): what the payload commits to, and the key.
sign_artifact(m, bom, key) ==
    [artifact |-> m.digest, mbom |-> bom, name |-> m.name, key |-> key]

Parses(f) == file[f] \notin {Empty, Torn}

NoJob == [cmd |-> None, name |-> None, store |-> None, asked |-> None, before |-> {},
          trust |-> None, manifest |-> None, mbom |-> None, envelope |-> None,
          key |-> None, hashed |-> None, held |-> {}, out |-> None, doc |-> None,
          shown |-> None]

\* One content was published with the first key pair, and may have changed since.
Init ==
    \E c \in Contents, n \in Names \cup {None} :
        LET m == build_manifest(c, n)
            bom == generate_mbom(m, 0)
            envelope == sign_artifact(m, bom, 0)
        IN  /\ artifact \in Contents
            /\ file = [manifest |-> m, mbom |-> bom, signature |-> envelope,
                       private |-> 0, public |-> 0]
            /\ records = [s \in Stores |-> {}] /\ revoked = [s \in Stores |-> {}]
            /\ trusted = {0}
            /\ pc = [p \in People |-> "idle"]
            /\ job = [p \in People |-> NoJob]
            /\ nextKey = 1 /\ serials = 1
            /\ measured = {m} /\ issued = {[envelope |-> envelope, held |-> {c}]}
            /\ commands = 0 /\ edits = 0

\* _registry_from_env() and _make_guard(): the registry a command uses; dsn
\* tells if the variable of --registry-dsn-env is set in its environment.
_registry_from_env_FallsBack(option, dsn) ==
    IF option = "postgres" /\ ~dsn THEN "local" ELSE option
_registry_from_env(option, dsn) ==
    IF option = "postgres" /\ ~dsn THEN "refused" ELSE option

-----------------------------------------------------------------------------
(* Starting and ending a command.  One that succeeds exits with 0; all     *)
(* errors (exit code 1, uncaught ones included) and a denied verification  *)
(* (exit code 2) are failures.                                             *)

Start(p, cmd, to, j) ==
    /\ pc[p] = "idle"
    /\ commands < MaxCommands
    /\ commands' = commands + 1
    /\ pc' = [pc EXCEPT ![p] = to]
    /\ job' = [job EXCEPT ![p] = [j EXCEPT !.cmd = cmd, !.held = {artifact}]]
    /\ UNCHANGED <<artifact, file, registry, trusted, ghosts, serials, edits>>

\* Commands that use a registry make a guard first.
StartGuarded(p, cmd, to, option, j) ==
    \E dsn \in BOOLEAN :
    LET store == _registry_from_env(option, dsn) IN
    /\ Start(p, cmd, IF store = "refused" THEN "refused" ELSE to,
             [j EXCEPT !.store = store, !.asked = option,
                       !.before = IF option = None THEN {} ELSE revoked[option]])
    /\ UNCHANGED nextKey

Goto(p, from, to, j) ==
    /\ pc[p] = from
    /\ pc' = [pc EXCEPT ![p] = to]
    /\ job' = [job EXCEPT ![p] = j]

Succeed(p, from, j) == Goto(p, from, "idle", j)
Fail(p, from) == Goto(p, from, "idle", NoJob)

Reading == UNCHANGED <<artifact, file, registry, trusted, ghosts, counters>>

-----------------------------------------------------------------------------
(* The commands, to their first step.                                      *)

manifest(p, n) ==
    /\ Start(p, "manifest", "hashForManifest", [NoJob EXCEPT !.name = n, !.out = "manifest"])
    /\ UNCHANGED nextKey
mbom_generate(p) ==
    /\ Start(p, "mbom", "readManifest", [NoJob EXCEPT !.out = "mbom"])
    /\ UNCHANGED nextKey
sign(p) ==
    /\ Start(p, "sign", "readManifest", [NoJob EXCEPT !.out = "signature"])
    /\ UNCHANGED nextKey
fingerprint(p) ==
    /\ Start(p, "fingerprint", "readPublic", NoJob)
    /\ UNCHANGED nextKey
\* generate_keypair(), then save_keypair() over any pair that is there.
keygen(p) ==
    /\ Start(p, "keygen", "open", [NoJob EXCEPT !.out = "private", !.doc = nextKey])
    /\ nextKey' = nextKey + 1
register(p, option) ==
    StartGuarded(p, "register", "readManifest", option, NoJob)
revoke(p, n, option) ==
    StartGuarded(p, "revoke", "revoke", option, [NoJob EXCEPT !.name = n])
resolve(p, n, option) ==
    StartGuarded(p, "resolve", "get", option, [NoJob EXCEPT !.name = n])
\* Without a fingerprint the signer is not checked.
verify(p, option, trust) ==
    StartGuarded(p, "verify", "readMbom", option, [NoJob EXCEPT !.trust = trust])

-----------------------------------------------------------------------------
(* Reading.                                                                *)

HashForManifest(p) ==
    LET m == build_manifest(artifact, job[p].name) IN
    /\ Goto(p, "hashForManifest", "open", [job[p] EXCEPT !.doc = m])
    /\ measured' = measured \cup {m}
    /\ UNCHANGED <<artifact, file, registry, trusted, issued, counters>>

\* mbom generate has its document now; sign and register go on to the ML-BOM.
ReadManifest(p) ==
    /\ Parses("manifest")
    /\ IF job[p].cmd = "mbom"
       THEN /\ Goto(p, "readManifest", "open",
                    [job[p] EXCEPT !.doc = generate_mbom(file.manifest, serials)])
            /\ serials' = serials + 1
       ELSE /\ Goto(p, "readManifest", "readMbom", [job[p] EXCEPT !.manifest = file.manifest])
            /\ UNCHANGED serials
    /\ UNCHANGED <<artifact, file, registry, trusted, ghosts, nextKey, commands, edits>>

ReadMbom(p) ==
    /\ pc[p] = "readMbom" /\ Parses("mbom")
    /\ Goto(p, "readMbom",
            CASE job[p].cmd = "sign" -> "readKey"
              [] job[p].cmd = "register" -> "register"
              [] job[p].cmd = "verify" -> "readSignature",
            [job[p] EXCEPT !.mbom = file.mbom])
    /\ Reading

\* load_private_key().
ReadKey(p) ==
    /\ Parses("private")
    /\ Goto(p, "readKey", "sign", [job[p] EXCEPT !.key = file.private])
    /\ Reading

\* load_public_key() and the fingerprint that is handed out.
ReadPublic(p) ==
    /\ Parses("public") /\ Succeed(p, "readPublic", NoJob)
    /\ trusted' = trusted \cup {file.public}
    /\ UNCHANGED <<artifact, file, registry, ghosts, counters>>

\* load_envelope().
ReadSignature(p) ==
    /\ Parses("signature")
    /\ Goto(p, "readSignature", "hashForVerify", [job[p] EXCEPT !.envelope = file.signature])
    /\ Reading

\* What is read does not parse, or no registry can be used.
FileOf == [readManifest |-> "manifest", readMbom |-> "mbom", readKey |-> "private",
           readPublic |-> "public", readSignature |-> "signature"]
Refuse(p) ==
    /\ pc[p] = "refused" \/ (pc[p] \in DOMAIN FileOf /\ ~Parses(FileOf[pc[p]]))
    /\ Fail(p, pc[p])
    /\ Reading

-----------------------------------------------------------------------------
(* Signing and writing.                                                    *)

CheckAndSign_Unchecked(p) ==
    LET envelope == sign_artifact(job[p].manifest, job[p].mbom, job[p].key) IN
    /\ Goto(p, "sign", "open", [job[p] EXCEPT !.doc = envelope])
    /\ issued' = issued \cup {[envelope |-> envelope, held |-> job[p].held]}
    /\ UNCHANGED <<artifact, file, registry, trusted, measured, counters>>

\* sign hashes the artifact and signs only what the manifest is about.
CheckAndSign(p) ==
    LET envelope == sign_artifact(job[p].manifest, job[p].mbom, job[p].key) IN
    /\ pc[p] = "sign" /\ artifact = job[p].manifest.digest
    /\ Goto(p, "sign", "open", [job[p] EXCEPT !.doc = envelope])
    /\ issued' = issued \cup {[envelope |-> envelope, held |-> job[p].held]}
    /\ UNCHANGED <<artifact, file, registry, trusted, measured, counters>>

RefuseToSign(p) ==
    /\ pc[p] = "sign" /\ artifact # job[p].manifest.digest
    /\ Fail(p, "sign")
    /\ Reading

\* write_text(), write_bytes() and os.open() empty the file first.
Open(p) ==
    /\ Goto(p, "open", "fill", job[p])
    /\ file' = [file EXCEPT ![job[p].out] = Empty]
    /\ UNCHANGED <<artifact, registry, trusted, ghosts, counters>>

\* Two that write one document can leave the tail of the longer one; all keys
\* have one length.  After the private key save_keypair() writes the public one.
Fill(p) ==
    LET f == job[p].out IN
    /\ pc[p] = "fill"
    /\ \E written \in {job[p].doc, Torn} :
        /\ written = Torn => f \in Documents /\ file[f] # Empty
        /\ file' = [file EXCEPT ![f] = written]
    /\ IF f = "private"
       THEN Goto(p, "fill", "open", [job[p] EXCEPT !.out = "public"])
       ELSE Succeed(p, "fill", NoJob)
    /\ UNCHANGED <<artifact, registry, trusted, ghosts, counters>>

-----------------------------------------------------------------------------
(* The registry.                                                           *)

Registered(s) == {r.name : r \in records[s]}

\* ModelGuard.register(): a name is needed, and taken only once.
Register(p) ==
    LET m == job[p].manifest
        s == job[p].store
        refused == m.name = None \/ m.name \in Registered(s)
    IN  /\ pc[p] = "register"
        /\ IF refused THEN Fail(p, "register") ELSE Succeed(p, "register", NoJob)
        /\ records' = IF refused THEN records
                      ELSE [records EXCEPT ![s] = @ \cup
                                {[name |-> m.name, digest |-> m.digest, mbom |-> job[p].mbom]}]
        /\ UNCHANGED <<artifact, file, revoked, trusted, ghosts, counters>>

Revoke(p) ==
    /\ Succeed(p, "revoke", NoJob)
    /\ revoked' = [revoked EXCEPT ![job[p].store] = @ \cup {job[p].name}]
    /\ UNCHANGED <<artifact, file, records, trusted, ghosts, counters>>

\* resolve: get(), and is_revoked() only for a registered name.
Get(p) ==
    /\ pc[p] = "get"
    /\ IF job[p].name \in Registered(job[p].store)
       THEN Goto(p, "get", "isRevoked", job[p])
       ELSE Fail(p, "get")
    /\ Reading
IsRevoked(p) ==
    /\ Succeed(p, "isRevoked",
               [job[p] EXCEPT !.shown = job[p].name \in revoked[job[p].store]])
    /\ Reading

-----------------------------------------------------------------------------
(* ModelGuard.verify().                                                    *)

HashForVerify(p) ==
    /\ Goto(p, "hashForVerify", "decide", [job[p] EXCEPT !.hashed = artifact])
    /\ Reading

\* The signature is genuine: an envelope is only ever written whole.
Accepts_AnyMbom(j) ==
    /\ j.hashed = j.envelope.artifact
    /\ j.trust # None => j.envelope.key \in j.trust
Accepts(j) ==
    /\ j.mbom = j.envelope.mbom
    /\ j.hashed = j.envelope.artifact
    /\ j.trust # None => j.envelope.key \in j.trust

\* is_revoked() is asked when there is a registry and the payload has a name.
Decide(p) ==
    LET j == job[p]
        denied == j.store # None /\ j.envelope.name \in revoked[j.store]
    IN  /\ pc[p] = "decide"
        /\ IF Accepts(j) /\ ~denied THEN Succeed(p, "decide", j) ELSE Fail(p, "decide")
        /\ Reading

-----------------------------------------------------------------------------
(* What happens around the commands.                                       *)

\* A command dies, with whatever it has written so far.
Crash(p) ==
    /\ pc[p] # "idle" /\ Fail(p, pc[p])
    /\ Reading

EditArtifact ==
    /\ edits < MaxEdits /\ edits' = edits + 1
    /\ \E c \in Contents \ {artifact} :
        /\ artifact' = c
        /\ job' = [p \in People |-> IF pc[p] = "idle" THEN job[p]
                                    ELSE [job[p] EXCEPT !.held = @ \cup {c}]]
    /\ UNCHANGED <<file, registry, trusted, pc, ghosts, nextKey, serials, commands>>

Command(p) ==
    \/ mbom_generate(p) \/ sign(p) \/ fingerprint(p) \/ keygen(p)
    \/ \E n \in Names \cup {None} : manifest(p, n)
    \/ \E option \in Stores : register(p, option)
    \/ \E option \in Stores, n \in Names : revoke(p, n, option) \/ resolve(p, n, option)
    \/ \E option \in Stores \cup {None}, trust \in {None, trusted} : verify(p, option, trust)

Step(p) ==
    \/ HashForManifest(p) \/ ReadManifest(p) \/ ReadMbom(p) \/ ReadKey(p)
    \/ ReadPublic(p) \/ ReadSignature(p) \/ Refuse(p)
    \/ CheckAndSign(p) \/ RefuseToSign(p) \/ Open(p) \/ Fill(p)
    \/ Register(p) \/ Revoke(p) \/ Get(p) \/ IsRevoked(p)
    \/ HashForVerify(p) \/ Decide(p)

Next ==
    \/ \E p \in People : Command(p) \/ Step(p) \/ Crash(p)
    \/ EditArtifact

Spec == Init /\ [][Next]_vars

-----------------------------------------------------------------------------
(* Properties.                                                             *)

\* Every signature sign made is about a content that the artifact had while
\* that command ran, and about a name somebody declared for that content in one
\* manifest command: a stale or half-written manifest is never signed.
SignedBytesWereThere ==
    \A i \in issued :
        /\ i.envelope.artifact \in i.held
        /\ build_manifest(i.envelope.artifact, i.envelope.name) \in measured

\* When verify exits with 0, the bytes it hashed were the artifact's while it
\* ran, a sign command made the signature for them and for the very ML-BOM that
\* was read, and with fingerprints given the key is one of them.
AcceptedWasPublished ==
    \A p \in People :
        pc[p] = "idle" /\ job[p].cmd = "verify" =>
            LET j == job[p] IN
            /\ j.hashed \in j.held
            /\ \E i \in issued :
                /\ i.envelope = j.envelope
                /\ i.envelope.artifact = j.hashed /\ i.envelope.mbom = j.mbom
                /\ j.trust # None => i.envelope.key \in j.trust

\* A name revoked in a registry before a verify or a resolve that names that
\* registry started is not accepted by the one nor shown as unrevoked by the
\* other, whatever the environment of the caller.
RevocationIsHonoured ==
    \A p \in People :
        pc[p] = "idle" /\ job[p].asked # None =>
            /\ job[p].cmd = "verify" => job[p].envelope.name \notin job[p].before
            /\ job[p].cmd = "resolve" /\ job[p].name \in job[p].before => job[p].shown
=============================================================================
