------------------------------ MODULE Transfer ------------------------------
(***************************************************************************)
(* Uploading and downloading whole artifacts (storage/transfer.py) through *)
(* a blob store.  A directory is stored as one blob per file and, last,    *)
(* its manifest under the artifact digest; a download rebuilds it in a     *)
(* staging directory and renames that into place.  Sources are edited      *)
(* while they are hashed and uploaded, processes die between any two       *)
(* steps, several downloads may aim at one destination, and what the store *)
(* returns may have been tampered with.                                    *)
(*                                                                         *)
(* put() is the atomic put of BlobStore, which LocalBlobStore implements.  *)
(* A content is its own digest, and the digest of a directory is its       *)
(* manifest, the function from paths to contents.                          *)
(***************************************************************************)
EXTENDS Naturals, FiniteSets

CONSTANTS
    Paths,          \* the relative paths of an artifact
    Contents,       \* contents of a file
    Uploaders, Downloaders,     \* calls of upload_artifact(), download_artifact()
    Types,          \* artifact types downloaded: "file", "directory"
    None,           \* no blob, no destination, nothing read yet
    Bad,            \* bytes that match no digest
    MaxEdits,       \* bound: edits of the source
    MaxTampers      \* bound: blobs changed behind the store's back

Trees == [Paths -> Contents]
Digests == Contents \cup Trees

ASSUME DigestsAssumption == Contents \cap Trees = {} /\ None # Bad /\ {None, Bad} \cap Digests = {}
ASSUME CallsAssumption == Uploaders \cap Downloaders = {}
ASSUME BoundsAssumption ==
    MaxEdits \in Nat /\ MaxTampers \in Nat /\ Paths # {}

VARIABLES
    dir,        \* the source directory
    blob,       \* what the store returns for each digest
    dest,       \* the destination of the downloads
    pc,         \* where a process stands in its call
    files,      \* per process: the files hashed, or fetched into staging
    part,       \* per uploader: the paths of its artifact, all or one
    done,       \* per uploader: the paths whose blob is stored
    want,       \* per downloader: the digest asked for
    uploaded,   \* digests whose upload_artifact() returned
    asked,      \* digests that download_artifact() was called with
    edits, tampers              \* counters for the bounds

counters == <<edits, tampers>>
vars == <<dir, blob, dest, pc, files, part, done, want, uploaded, asked, counters>>

Processes == Uploaders \cup Downloaders
Unread == [p \in Paths |-> None]

Init ==
    /\ dir \in Trees
    /\ blob = [d \in Digests |-> None]
    /\ dest = None
    /\ pc = [x \in Processes |-> "idle"]
    /\ files = [x \in Processes |-> Unread]
    /\ part = [u \in Uploaders |-> {}] /\ done = [u \in Uploaders |-> {}]
    /\ want = [x \in Downloaders |-> None]
    /\ uploaded = {} /\ asked = {}
    /\ edits = 0 /\ tampers = 0

-----------------------------------------------------------------------------
Step(x, from, to) ==
    /\ pc[x] = from
    /\ pc' = [pc EXCEPT ![x] = to]

Begin(x, to) ==
    /\ Step(x, "idle", to)
    /\ files' = [files EXCEPT ![x] = Unread]
    /\ UNCHANGED <<dir, blob, dest, uploaded, counters>>

\* An exception reaches the caller, who finds the staging directory removed,
\* or the process dies and leaves it: neither touches the destination.
Raise(x) ==
    /\ pc[x] \notin {"idle", "end"}
    /\ pc' = [pc EXCEPT ![x] = "end"]
    /\ UNCHANGED <<dir, blob, dest, files, part, done, want, uploaded, asked, counters>>

(* upload_artifact()                                                       *)

\* The artifact is the directory, or a single file of it.
UploadBegin(u) ==
    /\ Begin(u, "hash")
    /\ \E artifact \in {Paths} \cup {{p} : p \in Paths} : part' = [part EXCEPT ![u] = artifact]
    /\ done' = [done EXCEPT ![u] = {}]
    /\ UNCHANGED <<want, asked>>

\* hash_artifact(), one file at a time.
HashFile(u, p) ==
    /\ pc[u] = "hash"
    /\ p \in part[u] /\ files[u][p] = None
    /\ files' = [files EXCEPT ![u][p] = dir[p]]
    /\ pc' = [pc EXCEPT ![u] =
                 IF \A q \in part[u] \ {p} : files[u][q] # None THEN "put" ELSE "hash"]
    /\ UNCHANGED <<dir, blob, dest, part, done, want, uploaded, asked, counters>>

PutDone(u, p) ==
    /\ pc[u] = "put"
    /\ p \in part[u] \ done[u]
    /\ done' = [done EXCEPT ![u] = @ \cup {p}]
    /\ UNCHANGED <<dir, dest, pc, files, part, want, uploaded, asked, counters>>

\* _put_if_absent(): exists() is true.
SkipFile(u, p) == PutDone(u, p) /\ blob[files[u][p]] # None /\ UNCHANGED blob

\* store.put() of a file: it raises if the file changed since it was hashed.
PutFile(u, p) ==
    /\ PutDone(u, p)
    /\ dir[p] = files[u][p]
    /\ blob' = [blob EXCEPT ![files[u][p]] = dir[p]]

FilesDone_Some(u) == done[u] # {}
FilesDone(u) == done[u] = part[u]

\* A single file is done: its digest is returned.
FileStored(u) ==
    /\ Step(u, "put", "end")
    /\ part[u] # Paths /\ FilesDone(u)
    /\ uploaded' = uploaded \cup {files[u][p] : p \in part[u]}
    /\ UNCHANGED <<dir, blob, dest, files, part, done, want, asked, counters>>

\* The manifest of a directory goes last.
PutManifest(u) ==
    /\ Step(u, "put", "end")
    /\ part[u] = Paths /\ FilesDone(u)
    /\ blob' = [blob EXCEPT ![files[u]] = IF @ = None THEN files[u] ELSE @]
    /\ uploaded' = uploaded \cup {files[u]}
    /\ UNCHANGED <<dir, dest, files, part, done, want, asked, counters>>

(* download_artifact()                                                     *)

\* The destination must not exist.
DownloadBegin(x, d) ==
    /\ Begin(x, IF d \in Contents THEN "file" ELSE "manifest")
    /\ dest = None
    /\ want' = [want EXCEPT ![x] = d]
    /\ asked' = asked \cup {d}
    /\ UNCHANGED <<part, done>>

\* get_to(): only bytes that hash to the digest are kept.
Fetched_Unverified(d) == blob[d]
Fetched(d) == IF blob[d] = d THEN d ELSE None

\* A single file: write_verified() looks for the destination once more,
CheckDest(x) ==
    /\ Step(x, "file", "fetch")
    /\ dest = None
    /\ UNCHANGED <<dir, blob, dest, files, part, done, want, uploaded, asked, counters>>

\* copies the blob to a temporary file while hashing it,
FetchBlob(x) ==
    /\ Step(x, "fetch", "replace")
    /\ Fetched(want[x]) # None
    /\ files' = [files EXCEPT ![x] = Fetched(want[x])]
    /\ UNCHANGED <<dir, blob, dest, part, done, want, uploaded, asked, counters>>

\* and moves that with os.replace(), which fails on a directory only.
ReplaceDest(x) ==
    /\ Step(x, "replace", "end")
    /\ dest \in Contents \cup {None}
    /\ dest' = files[x]
    /\ UNCHANGED <<dir, blob, files, part, done, want, uploaded, asked, counters>>

\* _fetch_manifest(): verified against the artifact digest first.
FetchManifest(x) ==
    /\ Step(x, "manifest", "stage")
    /\ Fetched(want[x]) # None
    /\ UNCHANGED <<dir, blob, dest, files, part, done, want, uploaded, asked, counters>>

FetchFile(x, p) ==
    /\ pc[x] = "stage"
    /\ files[x][p] = None
    /\ Fetched(want[x][p]) # None
    /\ files' = [files EXCEPT ![x][p] = Fetched(want[x][p])]
    /\ UNCHANGED <<dir, blob, dest, pc, part, done, want, uploaded, asked, counters>>

\* os.rename(staging, dest) fails on a directory that is not empty.
RenameStaging_Overwrites(x) ==
    /\ Step(x, "stage", "verify")
    /\ \A p \in Paths : files[x][p] # None
    /\ dest' = files[x]
    /\ UNCHANGED <<dir, blob, files, part, done, want, uploaded, asked, counters>>
RenameStaging(x) ==
    /\ Step(x, "stage", "verify")
    /\ \A p \in Paths : files[x][p] # None
    /\ dest = None
    /\ dest' = files[x]
    /\ UNCHANGED <<dir, blob, files, part, done, want, uploaded, asked, counters>>

\* verify_after: hash_artifact(dest), removed if it is not what was asked for.
VerifyAfter(x) ==
    /\ Step(x, "verify", "end")
    /\ dest' = IF dest = want[x] THEN dest ELSE None
    /\ UNCHANGED <<dir, blob, files, part, done, want, uploaded, asked, counters>>

-----------------------------------------------------------------------------
(* The world around it.                                                    *)

EditSource ==
    /\ edits < MaxEdits
    /\ edits' = edits + 1
    /\ \E p \in Paths, c \in Contents : dir' = [dir EXCEPT ![p] = c]
    /\ UNCHANGED <<blob, dest, pc, files, part, done, want, uploaded, asked, tampers>>

TamperBlob ==
    /\ tampers < MaxTampers
    /\ tampers' = tampers + 1
    /\ \E d \in Digests : blob[d] # None /\ blob' \in {[blob EXCEPT ![d] = x] : x \in {None, Bad}}
    /\ UNCHANGED <<dir, dest, pc, files, part, done, want, uploaded, asked, edits>>

Wanted == (IF "file" \in Types THEN Contents ELSE {}) \cup (IF "directory" \in Types THEN Trees ELSE {})

Upload(u) ==
    \/ UploadBegin(u) \/ FileStored(u) \/ PutManifest(u)
    \/ \E p \in Paths : HashFile(u, p) \/ SkipFile(u, p) \/ PutFile(u, p)

Download(x) ==
    \/ \E d \in Wanted : DownloadBegin(x, d)
    \/ CheckDest(x) \/ FetchBlob(x) \/ ReplaceDest(x)
    \/ FetchManifest(x) \/ RenameStaging(x) \/ VerifyAfter(x)
    \/ \E p \in Paths : FetchFile(x, p)

Next ==
    \/ \E u \in Uploaders : Upload(u)
    \/ \E x \in Downloaders : Download(x)
    \/ \E x \in Processes : Raise(x)
    \/ EditSource \/ TamperBlob

Spec == Init /\ [][Next]_vars

-----------------------------------------------------------------------------
(* Properties.                                                             *)

\* "Knowing only the artifact digest is enough": a manifest that can be
\* fetched lists only files that can be fetched, and an upload that returned
\* left its manifest, whoever crashed or edited the source half way, as
\* long as nobody tampers with the store.
ManifestsComplete ==
    tampers = 0 =>
        /\ \A t \in Trees : blob[t] # None => \A p \in Paths : blob[t[p]] = t[p]
        /\ \A t \in uploaded : blob[t] = t

\* The destination appears whole or not at all: it is never a mixture or a
\* part of what was asked for, nor bytes that somebody put into the store.
DestIsWhole == dest # None => dest \in asked

\* "Nothing pre-existing at the destination is ever touched" holds of
\* directories: os.rename() never replaces one that is not empty, and
\* verify_after never removes one that another download put there.
DirectoryUntouched == [][dest \notin Contents \cup {None} => dest' = dest]_vars
=============================================================================
