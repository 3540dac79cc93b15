# ModelGuard: a TLA+ verification project

ModelGuard signs machine-learning artifacts, records them in a registry, and decides at
deployment time whether an artifact may run. Its promises are about what happens when several
processes, crashes and other people's edits meet the same files, tables and buckets. This
directory holds TLA+ models of the parts that make those promises, TLC configurations that check
them on small instances, and TLAPS proofs of the most important ones for every instance.

`PROJECT.json` lists components, runs, mutants, hazards and theorems, and maps each definition to
the lines it models. Paths below are relative to `src/src/modelguard/`.

## 1. The system

| Part | State | Operations | Meets |
| --- | --- | --- | --- |
| PostgreSQL registry, `registry/postgres.py`, `migrations.py` | tables `registry_records`, `revocation_events`, an advisory lock, id sequences | `register`, `get`, `get_by_digest`, `revoke`, `unrevoke`, `is_revoked`, `verify_revocation_chain` | other clients of the database |
| Schema migrations, `registry/migrations.py`, `postgres.py` | the schema, table `modelguard_schema_migrations`, an advisory lock; `_schema_verified` per object | `migrate`, the schema check of a first connection | processes of other releases |
| Local registry, `registry/local.py` | one JSON file per name, a digest index, a hash-chained revocation log | the same | other processes on the same directory, crashes |
| Hash chain, `audit/chain.py`, `audit/log.py` | a JSON Lines file | `append_entry`, `read_all_entries`, `verify_chain` | other writers, torn writes, edits at rest |
| Admission gate, `admission.py`; SDK, `sdk.py` | none of its own; reads artifact, ML-BOM, signature, registry | `admit`, `verify`, `check_policy_detailed` | whoever replaces the files or revokes meanwhile; the audit log |
| Policy engine, `policy/engine.py`, `models.py` | none | `evaluate` | facts from verification and scan |
| Scanning and hashing, `scanning/`, `hashing/digest.py` | none; walks the artifact | `run_scanners`, `hash_directory`, the command `scan` | scanners that raise, edits during the walks |
| Digest cache, `cache/digest_cache.py` | a JSON cache file | `CachedHasher.hash` | edits of the artifact, the clock, other processes |
| Blob stores, `storage/local.py`, `s3.py`, `_io.py` | files or objects named by digest, temporary files | `exists`, `put`, `get_to` | other uploaders, crashes, lost requests, foreign writes |
| Transfer, `storage/transfer.py` | blobs and manifests in a store, staging directory, destination | `upload_artifact`, `download_artifact` | edits of the source, other downloads |
| Trust configuration, `signing/trust_config.py`, `cli/main.py` (trust commands) | a JSON file; copies in `ModelGuard` objects | `add-key`, `retire-key`, `revoke-key`, `remove-key`, `evaluate_trust`, merge | other operators, crashes, the clock |
| Signing, `signing/signer.py`, `providers.py`, `kms.py`, `hsm.py`; verification, `verifier.py`, `schemes.py`, `envelope.py` | cached public keys, token handles; signature files | `sign_with_provider`, `verify_envelope_signature` | aliases and labels that move, edited signature files |
| Provenance, `provenance/` | a hash-chained event log | `record`, `parents`, `children`, `lineage`, `find_models_derived_from`, `find_deployments_using_revoked_model` | other recorders, the registry |
| Publishing, `cli/main.py`, `manifest/`, `mbom/`, `signing/keys.py` | key, manifest, ML-BOM and signature files in a working directory; the registry named by option and environment | `keygen`, `fingerprint`, `manifest`, `mbom generate`, `sign`, `register`, `revoke`, `resolve`, `verify` | other commands in the same directory, edits of the artifact, crashes |
| Identifiers, policy loader, the remaining commands | none | parsing, validation, one SDK call each | (not modelled) |

What makes these parts hard: nothing but the database has transactions. Files are read more than
once within a decision; logs are appended by reading the last line and writing later; a copy is
checked after it was made; two lookups of one name may meet two objects. Each such gap is a pair
of steps in a model, with everything the environment can do in between. The complete list, with
the line at which each hazard bites and the property that would notice, is in `PROJECT.json`.

## 2. Modules

Each component has a module; `MC…` modules only instantiate it for TLC and `…Proofs` modules hold
its theorems: `StorageProofs` those of `LocalBlobStore`, `LocalRegistry`, `HashChain` and
`S3BlobStore`, `AdmissionProofs` those of `Policy`, `Admission` and `Scanning`, `SigningProofs` those
of `Signing` and `TrustConfig`.

| Module | Models | State ↔ code |
| --- | --- | --- |
| `Registry` | what any backend promises | `records`: name → digest; `revoked`: names |
| `PostgresRegistry` | statement-by-statement transactions of concurrent clients | `rows`, `events`: committed table rows; `nextRow`, `nextEvent`: the `bigserial` sequences; `lock`: `pg_advisory_xact_lock`; `pc`, `arg`, `result`: a client's transaction, its parameters and what the caller heard |
| `SchemaState`, `SchemaMigrations` | what releases ship and what the database holds; `migrate()` and the schema check, statement by statement, by processes of several releases that fail anywhere and restart as another release | `schema`: the SQL committed so far; `migrationTable`: recorded versions and checksums; `migrationLock`: `_MIGRATION_LOCK`; `verified`: `_schema_verified`; `tx`: the open transaction |
| `ChainFile` | the text of a chain file and what readers make of it | a line is the entries whose text it holds, and whether it ends in a fragment |
| `HashChain` | `append_entry` as read, then write; faults; edits at rest | `file`; ghosts `acked`, `issued`, `raced` |
| `LocalRegistry` | records, index and revocation log, truncate and fill as two steps | `record`, `index`, `log`; ghosts `acked`, `answers`, `standing` |
| `Policy`, `Admission` | `evaluate()`; one `admit()` call with each read as a step | `artifact`, `mbom`, `envelope`: files as they are now; `seen`: what the call has read; `verdict`, `audit`; ghosts `cleared`, `swapped` |
| `Scanning` | the hash and one walk per scanner: a listing per directory, then a check and a read per file; the exit code | `tree`: what stands at each path now; `listable`; `walk`, `digest`, `found`: locals; `findings`, `statuses`: the report; ghost `touched` |
| `DigestCache` | `hash()` with one step per `lstat` and per file read | `content`, `ctime`, `now`: the file system; `cache`: the file; `job`: locals; ghosts `held`, `prompt`, `began` |
| `BlobStore`, `LocalBlobStore` | the atomic put; `put()` through a temporary file | `inode`, `tmp`, `final`: inodes and the names that lead to them; `Pid`: the process of a thread; ghost `shared` |
| `S3BlobStore` | uploads, checks, clean-up and downloads as requests | `object`: bucket; ghosts `owner`, `acked`, `wronged`, `excused` |
| `Transfer` | uploads with the manifest last, staged downloads | `dir`, `blob`, `dest`, and per call `files`, `part`, `done`, `want` |
| `TrustConfig` | the four commands with their atomic save; objects | `file`, temporary files; `guard`: objects with the configuration they loaded |
| `Signing` | `sign_with_provider` call by call, `verify_envelope_signature` | `named`: which key an alias means; `cache`, `handle`; ghosts `made`, `returned` |
| `Publishing` | nine commands as reads, one computation, and a write that truncates and then fills | `artifact`, `file`: the directory; `records`, `revoked`: per registry; `job`: a command's locals; ghosts `measured`, `issued`, `held` |
| `Provenance` | worklist traversals and the query for deployments | `log`, `revoked` (releases of models), and the locals `walk`, `scan`: the query asks the registry about one version of one id at a time; ghost `span` |

Composition: `PostgresRegistry` and `LocalRegistry` implement `Registry`; `LocalBlobStore`
implements `BlobStore`, whose atomic `Put` is what `Transfer` uses; `LocalRegistry` and
`HashChain` are built on `ChainFile`; `Admission` uses `Policy`. In `Admission` the answer of
`verify_envelope_signature` is a fact of the signature; `Signing` is about that answer. A scan is
one step of `Admission` with any report and any raising scanner; `Scanning` takes that step apart.
`Publishing` uses the contract of `Registry`, once per backend. In `Provenance` an append is one
step; `HashChain` is about appends.

`MCPostgresRegistry`, `MCGate`, `MCStorage` and `MCKeys` check modules that share no state side by
side: the variable `part` says which one a behaviour is about, the others stand still, and the properties are those of the
instantiated modules under their own names. `MCReleases` holds `Publishing` and an instance of
`Provenance` in the same way, with a specification and a run for each.

Data is kept only as far as a property tells it apart. A SHA-256 digest is what it is the digest
of, so equal exactly if the bytes are; a chain hash is the sequence of records it covers. A
signature is the key and the bytes, which only the key's holder can combine. Names that fail
`validate_identifier` raise before anything happens and are left out, except in `Provenance`,
where the code meets them in recorded events. The SQL of a migration is its checksum. A file is to
`Scanning` what the scanners can tell of it: plain, a secret, a pickle header, unreadable, a link.

## 3. Runs

Twelve runs. Eight pass; `scanner_error`, `slow_hash`, `shared_tmp` and `s3_delete` are the
findings of section 5. Each takes less than three minutes with two workers.

| Run | Instance | Shows |
| --- | --- | --- |
| `postgres` | registry: 2 clients, 2 names, 1 digest, 2 registrations, 2 events. Schema: 2 processes, 3 releases (one adds two migrations to another, one edited a released migration), 3 `migrate()` calls, 2 restarts | refinement of `Registry`; reported outcomes match the tables; the chain never forks and its unique hash never refuses an append; settled digests stay. The migrations table tells what ran; upgrades are whole, never mix disagreeing releases and are run once however many processes migrate; operations meet the migrations their release ships. Every call returns |
| `storage` | log: 2 writers, 4 appends, 1 failing write, 2 edits. Local registry: 1 process that registers and 1 more that revokes, 2 names, 2 digests, 3 registrations, 2 events. Blobs: 3 threads of 2 processes, 2 digests, 3 puts. Bucket: 2 clients, 2 digests, 4 calls, 1 foreign write | log: acknowledged records are read back or the reader fails, forks do not verify, faults are no tampering, edited records and hashes and moved or removed lines are detected (a cut tail is the documented exception; an edited index is not detected, section 5); refinement of `Registry` across crashes, digests never repointed, revocations fail closed; blobs are whole and `BlobStore` is refined, but for the bytes of a digest that two threads of one process have put at a time; wrong bytes stay in a bucket only where an uploader was cut short, and what was acknowledged stays |
| `shared_tmp` | 3 threads of 1 process, 1 digest, 3 puts | **violated**: see section 5 |
| `gate` | admission: 3 artifacts, 2 keys, 4 policies, 2 changes during the call. Scan: 3 paths in 2 directories, 5 kinds of entry, 1 edit, any scanner raising | admitted bytes were signed by a trusted key; their ML-BOM declares the license the policy asks for; `revocation_checked` is honest; no admission without its audit record; exit code 0 means that nothing was missed in the files left alone; hash and scan speak of the same files |
| `scanner_error` | admission as in `gate` | **violated**: see section 5 |
| `publishing` | 2 people, 2 contents, 1 name, 3 commands, 1 edit, crashes anywhere | signatures are about bytes and names that were measured together and were still there; `verify` accepts only what a `sign` made, for the ML-BOM that was read; revocations hold whatever the caller's environment |
| `cache` | 2 hashers, 2 artifacts of which one is a directory of 2 files and the other a single file, margin 2, granularity 1, 3 clock values, 2 edits, cache of 1 entry; no bound on the time between two steps but the clock's | a hit on an entry that was stored promptly is never stale, however slow the other calls are |
| `slow_hash` | 1 hasher, the directory of 2 files, 1 edit, time passing only during a hash, otherwise as `cache` | **violated**: see section 5 |
| `s3_delete` | 2 clients, 2 digests, 2 calls | **violated**: see section 5 |
| `transfer` | 2 uploads, 2 downloads, 2 paths, 2 contents, 1 edit, 1 tampered blob | manifests are complete; the destination is whole; directories are never replaced |
| `keys` | signing: 1 local key, 1 alias, 1 token, 3 P-256 keys of which one is weak, 2 calls, 1 move. Trust: 1 key, 2 operators, 1 object, 3 commands | envelopes are by the key they name; what is accepted was signed; keys cannot be replaced; revocation sticks and the file can always be loaded; flags do not widen trust |
| `provenance` | 3 models of 2 versions each, 1 environment, 3 events, 2 revocation changes | traversals equal their reference definitions on every graph of 3 lineage edges; the deployment query, a registry call per id and version, is complete and sound while others write |

**Why the bounds suffice.** Each violation the mutants cause needs two actors, or one actor and
one fault or edit, and is found well inside the bounds. The bounds leave room for a retry after a
failure: two registrations of one digest, a revoke and an unrevoke, two uploads and two downloads,
a rotation after a revocation. Two clients of PostgreSQL are enough for every interleaving of a
lock holder and a waiter; the theorems of section 4 cover any number. `cache` needs three clock
values: an edit in the tick of the fingerprint, the margin, and the hit; the third is also where a
slow hash ends, which `slow_hash` shows. Blobs need three calls under one
temporary name: one that writes, one whose clean-up removes the name, and one that takes it; two
threads can make them, and `storage` has those and a process beside them. `provenance` needs three edges: a chain of two and its deployment, or a cycle; and two versions, so that one may be revoked
while the other is asked about. The migrations need a release with two
migrations to add, so that a process can die between them, and a third call for the retry.
`publishing` starts from an artifact that is already published, so that three commands are enough
for, say, a manifest, a signature and a verification, or a revocation, a new key and a
verification; each command meets any environment, registry option and trust. In the
scan one edit hits any file at any moment of any walk; every directory content over the five kinds
of entry is an initial state.

**Symmetry** is used over sets of names, digests, contents and processes that the model only
compares, and never in a run with a liveness property.

**Deadlock.** The bounded numbers of calls end, so all runs but `postgres` have
`CHECK_DEADLOCK FALSE`. In `postgres` deadlock is checked, but that says little: a connection can
break in every state of a call, so some step is always possible. That nobody waits for ever is what
the liveness property says, whose fairness asks nothing of failures.

**Fairness.** `postgres` has a liveness property, `NobodyWaitsForEver`: every call of an operation
or of `migrate()` returns. Its specification asks strong fairness of each client's own progress:
PostgreSQL executes every statement that does not wait, grants a lock that is free again and again,
and a client that is never scheduled is not part of the claim. No fairness is asked of failures or
of new calls. The other components have no waiting: each call is a fixed sequence of steps, and the
loops of `Provenance` end by `TraversalsComeToAnEnd` (section 4).

## 4. Proofs

| Module | Theorems | Assumptions |
| --- | --- | --- |
| `PostgresRegistryProofs` | `TypeCorrect`, `Invariance`, `ChainAlwaysVerifies`, `EventHashAlwaysFresh`, `SettledForEver`, `ContractImplemented`, `OutcomesAreTruthful`; `DatabaseIsBoth` | the marker `NoClient` is no client; bounds are naturals; there are names and digests |
| `SchemaMigrationsProofs` | `TypeCorrect`, `Invariance`, `RecordsAreTrue`, `OperationsFindTheirSchema`, `UpgradesComplete` | every release ships at least one migration |
| `StorageProofs`, blob directory | `Invariance`, `UnsharedBlobsAlwaysVerify`, `ContractImplemented` | every thread has a process id |
| `StorageProofs`, local registry | `RegistryInvariance`, `DigestsAreNeverRepointed`, `RegistrationsResolve`, `FilesImplementRegistry` | `OneRegistrar`: one process registers, any number revokes |
| | `EventInvariance`, `RevocationsFailClosed` | none |
| `StorageProofs`, hash chain | `ChainInvariance`, `AppendsAreReadable`, `NoWriteIsTampering`, `VerifiedLogsAreGenuine` | none |
| `StorageProofs`, bucket and whole | `BucketAlwaysSettles`; `PartsAreIndependent` | none |
| `AdmissionProofs`, admission | `Invariance`, `AdmissionNeedsSignature`, `AdmissionHonoursRevocation`, `AdmissionIsOnRecord`, `AdmissionNeedsLicense` | policies are policy documents |
| `AdmissionProofs`, scan | `ScanInvariance`, `ScansAreNeverSilent`, `ScansReportWhatWasHashed` | every path is in a directory of the artifact |
| `TransferProofs` | `Invariance`, `ManifestsAreComplete`, `DownloadsAreWhole`, `DirectoriesStay` | a file is no directory tree |
| `ReleasesProofs`, publishing | `Invariance`, `SignaturesAreAboutBytes`, `AcceptanceMeansPublished`, `RevocationsAreHonoured` | none |
| `ReleasesProofs`, provenance | `GraphInvariance`, `TraversalsAreExact`, `DeploymentsAreExact`, `TraversalsComeToAnEnd`; `RunsAreInstances` | none |
| `SigningProofs`, signing | `Invariance`, `EnvelopesAreBound`, `AcceptanceMeansSigned`, `KeysCannotBeReplaced` | a key is of one algorithm |
| `SigningProofs`, trust | `TrustInvariance`, `RevocationsStick`, `FlagsNeverOverride`; `RotationIsIndependent` | validity windows are pairs of times |
| `DigestCacheProofs` | `Invariance`, `PromptHitsAreFresh` | artifacts are nonempty sets of files and share none; the granularity is positive |

They hold for any sets of clients, names, digests, processes, files, keys and policies and for any
bounds. Every module also assumes that markers such as `None` are told from the values they stand
in for and that bounds are naturals. What is named in the last column in code font is a hypothesis
of the theorem; the rest are `ASSUME`s of the component, which TLC evaluates in every run.
`OneRegistrar` is what the code needs, since `registry/local.py` rewrites its index without a lock,
and what the documentation asks for: the local registry is "single-machine, single-writer"
(`docs/limitations.md:123-124`). No such sentence is about blob stores, so their theorems take any
assignment of process ids to threads, and say what a shared temporary name can do.

*PostgreSQL.* That the chain verifies is not inductive: one must know who may append. `Inv` adds
that exactly the client between taking and releasing the advisory lock owns it (`LockInv`), that
events are committed in the order of their ids (`EventIdInv`; ids are drawn under the lock), and
that the owner's `prev` is the hash of the last event (`ChainInv`). The length of a hash is its
position, so a new hash is longer than all others, whence `EventHashAlwaysFresh`. For
registrations, ids are distinct (`RowIdInv`), and names are unique among committed rows and the
open ones that passed the index (`NameInv`). `SettledForEver` follows since a row with a smaller
id can come only from an open transaction, and there is none. `ContractImplemented` maps a commit
to `Register`, `Revoke` or `Unrevoke` and every other step to a stutter; the event committed last
has the greatest id of all, so it alone changes `is_revoked`, and of its own name only.
`OutcomesAreTruthful` needs in addition that a transaction in progress is about the arguments of
its call (`CallInv`).

*Migrations.* The owner of `_MIGRATION_LOCK` alone has SQL open (`OwnsLock`); its transaction
continues the committed schema with the migrations of its release, each recorded right after it was
executed (`InOrder`). The table can then be compared with the schema version by version
(`TableTells`), and a verification that an object remembers stays true since schemas only grow
(`Trusts`).

*Local blob store.* `OneUser` says that calls which share a process id and a digest at a time have
put that digest into `shared`; for the others `OwnTmp` says that from creation to renaming a thread's
name leads to the inode it has open, and that what passed the check is complete. `OneName` says that no
two names lead to one inode, and `OwnDigest` that a thread has open only what stands under its own
digest: so nobody writes to an unshared blob once it has been renamed into place, and the damage of a
shared name stays with its digest. `StoreContract` counts a shared digest as stored whatever its bytes.

*Bucket.* The invariant is `WrongBytesAreRemoved` with the facts that make `AckedIsKept` inductive
(`Clean`): where nobody has ever put wrong bytes, objects, acknowledgements and what clients hold
agree. Wrong bytes then belong to an upload that is about to compare, since each upload becomes
the owner of what it overwrites and each that ends early is excused.

*Local registry.* The index on disk points to records of its digests (`Resolves`) and agrees with
every answer ever given (`Remembers`), or it is torn and empty and lookups raise (`IndexIsTrue`);
so is the index that the registering process is about to write (`Registers`). For revocations the
newest event on a name decides: every write, whole, cut short or by a process that read the log
long ago, keeps the events that are there in their order and makes its own the newest (`Adds`).
`FilesImplementRegistry` maps filling a record to `Register` and the write of an event to `Revoke`
or `Unrevoke`; truncations and writes cut short are stutters.

*Hash chain.* A line is made of entries that some append built, with an index equal to the number
of records its hash covers (`HashedEntry`, `Text`). The acknowledged records have places in the file
in their order (`Embeds`), in a file that racing writers have forked, too. While no two appends
overlapped, what a writer prepared continues the file (`Alone`), so it verifies. `VerifiedIsGenuine`
says of a whole chain what verification checks link by link. Its proof takes the least position at
which the chain would depart from the hash it ends in, so it is an induction over the naturals,
carried out with the least-number principle (`LeastNumber`), which follows from the library's theorem
on well-founded relations without an operator parameter.

*Admission.* `Inv` relates what the call has read, the facts it derived and the verdict, step by
step (`ReadSoFar`, `SameMbom`, `Cleared`). `EvaluateIsMostSevere` and `AllowedPasses` are about the
policy engine: an allowed verdict passes every rule that denies. The integrity gate comes before
all rules, so `AdmissionNeedsSignature` needs nothing of the policy.

*Scan.* The invariant speaks of files that others leave alone. Each such file is still ahead of the
walk (`Remains`), or it is in the digest, or reported, exactly as it is (`HashInv`, `CompleteInv`).
Hashing refuses links, so no scanner can skip a file that was hashed (`FindingsInv`). A scanner that
raised loses its findings but not its status, and the exit code asks for both (`ExitInv`).

*Transfer.* Every blob an upload counts as done is stored (`Uploads`), and the manifest comes last;
staged files are `None` or what was wanted (`Downloads`).

*Publishing.* A file that parses was written whole by one command (`FilesAreWhole`: a reader may
meet an empty or a torn one, never a mixture). A running command's locals are documents that were
there, and the hash it took is of a content the artifact had meanwhile (`Running`). The properties
then concern one command and the envelopes made so far, a set that only grows.

*Provenance.* A traversal takes one node off the frontier, or one edge off those it loops over, per
step. Downwards (`DownInv`), what was visited derives from the base, and each lineage edge into what
was visited begins in a visited node, is still pending, or ends in a node of the frontier. With
nothing pending and an empty frontier the visited nodes are closed under edges, so they include all
descendants, which are the least such set (`DescendantsLeast`). Upwards (`UpInv`) no node is on the
frontier twice, so that no edge is taken twice. The references, `Descendants` and `Ancestors`, are
defined as least closed sets, which needs no induction over paths. The query for deployments has
asked, as far as it got, about every version of a registered model that stayed revoked (`Found`); whoever derives
from a model does so by an edge that names it (`DescendantsNeedEdge`), so no such model can be
missed for want of a candidate. Each log it loads continues the one it began with and is continued
by the log as it is now (`Extends`), and descendants only grow with the log (`DescendantsGrow`):
the first makes the report complete, the second makes it sound (`Collecting`, `Affecting`).
`TraversalsComeToAnEnd` gives the measure by which the loops end: unvisited ids, then the length of
the frontier, then pending edges.

*Signing.* `CanonicalInjective` shows that the canonical form determines the payload although unset
fields are left out of it, so a signature determines version, algorithm and key. `Made` says of
the envelope under way that its payload names the key that was read, while the signer may be
another key; the self-check removes just that case.

*Trust.* `Rotates` says that what a command has in memory refuses every key that stands revoked,
except one that it is removing. A command that ends while others run may overwrite theirs; nothing
is promised from there until the next revocation, as the documentation says.

*Digest cache.* A timestamp is *settled* for a call when it was a granule old as the call began; no
later edit repeats it. `Inv` says that a file which still has its settled timestamp has the content
that was read since (`ReadInv`), that a call which finds both fingerprints equal has computed what
was there (`HashInv`), and that entries stored promptly have settled timestamps only and are true of
every file that still has its own (`EntryInv`, `TrueOf`). *Prompt* means that the time from the
beginning of the call to storing, plus a granule, is within the margin: the margin is measured when the
entry is stored and not when the fingerprint was taken. No hypothesis bounds that time; entries that
took longer are in the model, and are the subject of `slow_hash`.

`PartsAreIndependent` shows that the composition `MCStorage` implements each of its four parts, so
that each part's theorems hold of it; `DatabaseIsBoth` does so for `MCPostgresRegistry`,
`RotationIsIndependent` for `MCKeys` and `RunsAreInstances` for `MCReleases`. Type invariants
are proved rather than run where a module has theorems.

Every safety property of a passing run is stated by a theorem. Only model-checked is
`NobodyWaitsForEver`: liveness under fairness is out of TLAPS's reach. The four findings of section
5 are violations and stay with TLC.

## 5. Where code and words differ

`s3_delete`: `storage/s3.py:25-26` says the store "never deletes except to remove an object it just
wrote whose content failed verification". `put()` checks after the upload and deletes in a second
request (`s3.py:201`); an object that another uploader stored in between is deleted instead. Uploads
can be repeated and downloads are verified, so the loss is of availability.

`scanner_error`: `scanning/models.py:6-8` says that scanner statuses are kept "so a caller (and the
policy engine)" can tell a scanner that found nothing from one that crashed, and
`docs/security/threat-model.md:84` that a crash is never folded into "zero findings".
`check_policy_detailed()` (`sdk.py:553`) passes the counts to the policy engine without the
statuses, and no rule asks for them: with every rule on deny and a limit of zero findings, an
artifact is admitted although a scanner raised. The command `scan` does take the statuses into its
exit code (`ZeroExitIsClean`).

`slow_hash`: `cache/digest_cache.py:30-33` says that an entry is stored only if its timestamps are
`RACY_MARGIN_NS` older "than the moment of storing", since "otherwise an edit landing in the same
timestamp tick as the hash could be invisible later", and line 52 that "a miss costs time, never
correctness". The timestamps were read before the hash and are compared with the time after it
(`:244`), so the margin must cover the hash as well, and nothing bounds that. In the trace the first
file of a directory is edited after it was read, in the tick in which it was stat'ed; reading the
second takes longer than the margin; the fingerprints are equal, the entry is stored, and the next
call answers from it. With the 2 s margin of the code (`:78`) and a fine clock this takes an edit in the
very tick of the fingerprint; with a granularity of 2 s, which the margin is meant to cover, it takes no
more than a hash that ends in a later tick. The run allows time to pass only while a file is being
hashed (`HashingTakesTime`): the violation needs no pause between any other steps.

`shared_tmp`: the temporary name of `storage/local.py:44` is made of the digest and the process id, so
threads of one process share it, as do processes of equal ids in containers that share a volume.
The `O_EXCL` open of a second call fails, and its clean-up unlinks the name under which the first is
writing; a third call creates the name anew; the first, whose own bytes passed the check, renames
that half-written file into place, where `exists()` reports it. `storage/protocol.py:7-9` demands of
every implementation to "verify content against the digest on both write and read", and `:26-27` says
that `put()` raises "storing nothing" if the bytes are wrong, which the third call may then do with
its bytes in place. `get_to()` still refuses them; but nobody uploads the blob again, since
`exists()` is true. What holds, and is proved, is that only digests put twice at a time under one
process id are touched (`UnsharedBlobsVerify`).

Other observations made while modelling. The step is in the model in each case, and the
properties are stated so as to be true of the code:

- `registry/postgres.py:251-256`: ids are drawn before the commit, so a registration that began
  first and commits second changes what a digest resolves to. `SettledDigestStable` states what
  holds.
- `registry/local.py:43-54`: a crash between record and index leaves a name that is registered,
  cannot be registered again, and is not found by its digest; a later registration wins it.
- `registry/postgres.py:146`: the schema is checked on an object's first connection only. A process
  that lives through an upgrade goes on operating on a newer schema, which a new process of its
  release would refuse (`docs/deployment/postgres.md:46-48`). What holds is that the migrations it
  ships are there, unedited (`OperatesOnShippedSchema`).
- `cli/main.py:334`, `sdk.py` (`sign`, `verify`, `register`): the digest an ML-BOM was generated for
  is compared with neither the manifest nor the artifact. A signature ties bytes to the ML-BOM that
  was read, which may be about other bytes if the manifest was rewritten between two commands.
- `hashing/digest.py`, `scanning/_walk.py`: `os.walk` without `onerror` skips a directory that cannot
  be listed, in the digest and in the scans alike; files in it are in neither.
- `signing/keys.py`: two `keygen` commands that overlap can leave a private key and the public key of
  the other pair. What is signed is then trusted by nobody.
- `audit/chain.py:83, 141-151`: the index of a line is covered by no hash and compared by nobody, so an
  edited index verifies. `VerifiedIsGenuine` speaks of the records and their order only.
- `storage/_io.py:104`: `os.replace()` overwrites a single-file destination that appeared during
  the download; directories are safe (`DirectoryUntouched`).
- `sdk.py:182`: an object keeps the trust configuration it was constructed with, so a revoked key
  stays trusted in processes that live on.
- `cli/main.py` (trust commands): two that overlap lose an update, as `docs/limitations.md`
  says; `RevocationSticks` speaks of commands that do not overlap.
- `provenance/graph.py:40`: "breadth-first", but `pop()` takes the newest node; the set of edges
  is the same.
- `sdk.py:473`: one recorded id that is not a valid name makes every later query for deployments
  raise; a model that was revoked without ever being registered is not found by it. Since the registry is
  asked version by version, a model whose revocation passes from one version to another meanwhile may
  be missed; `DeploymentsExact` speaks of versions that stay revoked.
- `sdk.py:345`: a revocation after the lookup and before the verdict is not noticed. `RevocationHonest` asks
  that the model was not revoked at some moment of the call.
- `sdk.py:517`: the ML-BOM that the rules see is read apart from the one that is verified.
  `AdmittedIsLicensed` speaks of checks during which that file is left alone; `docs/security/threat-model.md`
  leaves the rest to read-only mounts.
- `scanning/_walk.py:80`: a file replaced between the hash and its scan is scanned as it then is;
  `HashAndScanAgree` speaks of files left alone.

## 6. Not modelled

Identifier validation, YAML and JSON schemas, descriptive fields of manifests and ML-BOMs, regular
expressions and byte patterns of the scanners, key file formats and encodings, size limits,
endpoint checks and output formatting: stateless, and best tested. Each refusal there is one cause
of a call that raises. The commands `policy check`, `lineage`, `provenance record`, `artifact push`
and `pull` and `registry verify-chain` call one SDK method that a module models and print its
result. Loss of data the operating system had accepted (nothing is `fsync`ed) is outside what the
code handles. In `Scanning` directories are not created, removed or replaced during the scan, and a
path is checked for a link in one step; in `Publishing` the artifact is replaced as a whole.

Two hazards have no property of their own, since the code does not exclude them and the documentation
says so: rotation commands that overlap lose an update, and an ML-BOM replaced between its two reads is
judged by one and verified by the other. In `provenance` every id is a valid name (`Unsafe` is empty);
an invalid one is one more cause of a query that raises, which `Raise` allows at any moment.

## 7. Plan

The order in which the modules were written: `Registry` and `PostgresRegistry` with its proofs;
`ChainFile`, `HashChain`, `LocalRegistry`; `Policy`, `Admission`; `DigestCache`, the blob stores,
`Transfer`; `TrustConfig`; `Signing`; `Provenance`; `SchemaMigrations`; `Scanning`; `Publishing`.
What is left is an admission gate in which several calls share the audit log and the digest cache,
and whatever new releases of the code bring.
