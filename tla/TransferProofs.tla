--------------------------- MODULE TransferProofs ---------------------------
(***************************************************************************)
(* TLAPS proofs about Transfer, for any paths, contents, uploads and       *)
(* downloads and any number of edits: a manifest in an untampered store    *)
(* can be rebuilt, and the destination appears whole or not at all.        *)
(***************************************************************************)
EXTENDS Transfer, TLAPS

-----------------------------------------------------------------------------
(* The inductive invariant.                                                *)

\* What has been hashed, or fetched into staging.
PartTrees == [Paths -> Contents \cup {None}]

PcUpload == {"hash", "put"}
PcFile == {"file", "fetch", "replace"}
PcDirectory == {"manifest", "stage", "verify"}

TypeOK ==
    /\ dir \in Trees
    /\ blob \in [Digests -> Digests \cup {None, Bad}]
    /\ dest \in Digests \cup {None}
    /\ pc \in [Processes -> {"idle", "end"} \cup PcUpload \cup PcFile \cup PcDirectory]
    /\ files \in [Processes -> PartTrees \cup Contents]
    /\ part \in [Uploaders -> SUBSET Paths] /\ done \in [Uploaders -> SUBSET Paths]
    /\ want \in [Downloaders -> Digests \cup {None}]
    /\ uploaded \subseteq Digests /\ asked \subseteq Digests
    /\ edits \in 0..MaxEdits /\ tampers \in 0..MaxTampers

\* An upload stores the files it hashed, each before it counts as done.
Uploads(u) ==
    /\ pc[u] \notin PcFile \cup PcDirectory
    /\ pc[u] \in PcUpload => files[u] \in PartTrees
    /\ pc[u] = "hash" => done[u] = {}
    /\ pc[u] = "put" => (\A p \in part[u] : files[u][p] # None) /\ done[u] \subseteq part[u]
    /\ pc[u] = "put" /\ tampers = 0 => \A p \in done[u] : blob[files[u][p]] = files[u][p]

\* A download holds only what was asked for, and nobody replaces a directory
\* it renamed into place.
Downloads(x) ==
    /\ pc[x] \notin PcUpload
    /\ pc[x] \in PcFile => want[x] \in Contents \cap asked
    /\ pc[x] \in PcDirectory => want[x] \in Trees \cap asked
    /\ pc[x] = "replace" => files[x] = want[x]
    /\ pc[x] = "manifest" => files[x] = Unread
    /\ pc[x] = "stage" => files[x] \in PartTrees /\ \A p \in Paths : files[x][p] \in {None, want[x][p]}
    /\ pc[x] = "verify" => dest = want[x]

\* A store nobody tampers with returns what was put.
StoreIsTrue == tampers = 0 => \A d \in Digests : blob[d] \in {None, d}

Inv ==
    /\ TypeOK /\ StoreIsTrue
    /\ \A u \in Uploaders : Uploads(u)
    /\ \A x \in Downloaders : Downloads(x)
    /\ ManifestsComplete /\ DestIsWhole

-----------------------------------------------------------------------------
(* Frames.                                                                 *)

\* A file that an upload has put is a content.
LEMMA HashedIsContent ==
    ASSUME Inv, NEW u \in Uploaders, pc[u] = "put", NEW p \in part[u]
    PROVE  p \in Paths /\ files[u][p] \in Contents /\ files[u][p] \in Digests
BY DEF Inv, TypeOK, Uploads, PcUpload, PartTrees, Digests

\* A step of an upload leaves the other calls alone, as long as the store keeps
\* what it has.
LEMMA UploadFrame ==
    ASSUME Inv, NEW u \in Uploaders,
           \A z \in Processes \ {u} : pc'[z] = pc[z] /\ files'[z] = files[z],
           \A o \in Uploaders \ {u} : part'[o] = part[o] /\ done'[o] = done[o],
           UNCHANGED <<want, dest, asked, tampers>>,
           \A d \in Digests : blob[d] = d => blob'[d] = d
    PROVE  /\ \A o \in Uploaders \ {u} : Uploads(o)'
           /\ \A x \in Downloaders : Downloads(x)'
<1>1. ASSUME NEW o \in Uploaders \ {u}
      PROVE  Uploads(o)'
  <2>1. pc'[o] = pc[o] /\ files'[o] = files[o] /\ part'[o] = part[o] /\ done'[o] = done[o]
    BY DEF Processes
  <2>2. Uploads(o)
    BY DEF Inv
  <2>3. ASSUME pc[o] = "put", tampers = 0, NEW p \in done[o]
        PROVE  blob'[files[o][p]] = files[o][p]
    <3>1. p \in part[o]
      BY <2>2, <2>3 DEF Uploads
    <3>2. files[o][p] \in Digests
      BY <2>3, <3>1, HashedIsContent
    <3> QED
      BY <2>2, <2>3, <3>2 DEF Uploads
  <2> QED
    BY <2>1, <2>2, <2>3 DEF Uploads
<1>2. ASSUME NEW x \in Downloaders
      PROVE  Downloads(x)'
  <2>1. x \in Processes \ {u}
    BY CallsAssumption DEF Processes
  <2> QED
    BY <2>1 DEF Inv, Downloads
<1> QED
  BY <1>1, <1>2

\* A step of a download leaves the other calls alone, as long as it does not
\* replace a directory that another one checks.
LEMMA DownloadFrame ==
    ASSUME Inv, NEW x \in Downloaders,
           \A z \in Processes \ {x} : pc'[z] = pc[z] /\ files'[z] = files[z],
           \A y \in Downloaders \ {x} : want'[y] = want[y],
           UNCHANGED <<part, done, blob, tampers>>, asked \subseteq asked',
           dest \notin Contents \cup {None} => dest' = dest
    PROVE  /\ \A u \in Uploaders : Uploads(u)'
           /\ \A y \in Downloaders \ {x} : Downloads(y)'
<1>1. ASSUME NEW u \in Uploaders
      PROVE  Uploads(u)'
  <2>1. u \in Processes \ {x}
    BY CallsAssumption DEF Processes
  <2> QED
    BY <2>1 DEF Inv, Uploads
<1>2. ASSUME NEW y \in Downloaders \ {x}
      PROVE  Downloads(y)'
  <2>1. pc'[y] = pc[y] /\ files'[y] = files[y] /\ want'[y] = want[y]
    BY DEF Processes
  <2>2. Downloads(y)
    BY DEF Inv
  <2>3. pc[y] = "verify" => dest' = dest
    <3>1. pc[y] = "verify" => dest \in Trees
      BY <2>2 DEF Downloads, PcDirectory
    <3> QED
      BY <3>1, DigestsAssumption DEF Digests
  <2> QED
    BY <2>1, <2>2, <2>3 DEF Downloads
<1> QED
  BY <1>1, <1>2

LEMMA InitInv ==
    ASSUME Init
    PROVE  Inv
<1>1. Unread \in PartTrees
  BY DEF Unread, PartTrees
<1>2. TypeOK
  BY <1>1, BoundsAssumption DEF Init, TypeOK
<1>3. StoreIsTrue /\ ManifestsComplete /\ DestIsWhole
  BY DEF Init, StoreIsTrue, ManifestsComplete, DestIsWhole, Digests
<1>4. \A u \in Uploaders : Uploads(u)
  BY DEF Init, Uploads, Processes, PcUpload, PcFile, PcDirectory
<1>5. \A x \in Downloaders : Downloads(x)
  BY DEF Init, Downloads, Processes, PcUpload, PcFile, PcDirectory
<1> QED
  BY <1>2, <1>3, <1>4, <1>5 DEF Inv

-----------------------------------------------------------------------------
(* upload_artifact().                                                      *)

LEMMA UploadBeginInv ==
    ASSUME Inv, NEW u \in Uploaders, UploadBegin(u)
    PROVE  Inv'
<1>1. u \in Processes /\ Unread \in PartTrees /\ TypeOK
  BY DEF Processes, Unread, PartTrees, Inv
<1>2. /\ pc' = [pc EXCEPT ![u] = "hash"] /\ files' = [files EXCEPT ![u] = Unread]
      /\ UNCHANGED <<dir, blob, dest, want, uploaded, asked, edits, tampers>>
      /\ done' = [done EXCEPT ![u] = {}]
      /\ \E a \in SUBSET Paths : part' = [part EXCEPT ![u] = a]
  BY DEF UploadBegin, Begin, Step, counters
<1>3. TypeOK'
  BY <1>1, <1>2 DEF TypeOK, PcUpload
<1>4. Uploads(u)'
  BY <1>1, <1>2 DEF TypeOK, Uploads, PcUpload, PcFile, PcDirectory
<1>5. (\A o \in Uploaders \ {u} : Uploads(o)') /\ \A x \in Downloaders : Downloads(x)'
  BY <1>1, <1>2, UploadFrame DEF TypeOK
<1>6. StoreIsTrue' /\ ManifestsComplete' /\ DestIsWhole'
  BY <1>2 DEF Inv, StoreIsTrue, ManifestsComplete, DestIsWhole
<1> QED
  BY <1>3, <1>4, <1>5, <1>6 DEF Inv

LEMMA HashFileInv ==
    ASSUME Inv, NEW u \in Uploaders, NEW p \in Paths, HashFile(u, p)
    PROVE  Inv'
<1>1. u \in Processes /\ TypeOK /\ Uploads(u) /\ pc[u] = "hash" /\ files[u] \in PartTrees /\ dir[p] \in Contents
  BY DEF Processes, Inv, HashFile, Uploads, PcUpload, TypeOK, Trees
<1> DEFINE new == [files[u] EXCEPT ![p] = dir[p]]
<1>2. new \in PartTrees /\ new[p] = dir[p] /\ \A q \in Paths \ {p} : new[q] = files[u][q]
  BY <1>1 DEF PartTrees
<1>3. /\ files' = [files EXCEPT ![u] = new]
      /\ UNCHANGED <<dir, blob, dest, part, done, want, uploaded, asked, edits, tampers>>
      /\ pc' = [pc EXCEPT ![u] = IF \A q \in part[u] \ {p} : files[u][q] # None THEN "put" ELSE "hash"]
  BY <1>1 DEF HashFile, TypeOK, counters
<1>4. TypeOK'
  BY <1>1, <1>2, <1>3 DEF TypeOK, PcUpload
<1>5. Uploads(u)'
  <2>1. pc'[u] \in {"put", "hash"} /\ files'[u] = new /\ done'[u] = {} /\ part'[u] = part[u]
    BY <1>1, <1>3 DEF TypeOK, Uploads
  <2>2. pc'[u] = "put" => \A q \in part[u] : new[q] # None
    <3>1. pc'[u] = "put" => \A q \in part[u] \ {p} : files[u][q] # None
      BY <1>1, <1>3 DEF TypeOK
    <3>2. part[u] \subseteq Paths /\ dir[p] # None
      BY <1>1, DigestsAssumption DEF TypeOK, Digests
    <3> QED
      BY <1>2, <3>1, <3>2
  <2> HIDE DEF new
  <2> QED
    BY <1>2, <2>1, <2>2 DEF Uploads, PcUpload, PcFile, PcDirectory
<1>6. (\A o \in Uploaders \ {u} : Uploads(o)') /\ \A x \in Downloaders : Downloads(x)'
  BY <1>1, <1>3, UploadFrame DEF TypeOK
<1>7. StoreIsTrue' /\ ManifestsComplete' /\ DestIsWhole'
  BY <1>3 DEF Inv, StoreIsTrue, ManifestsComplete, DestIsWhole
<1> QED
  BY <1>4, <1>5, <1>6, <1>7 DEF Inv

\* One more file counts as done; the store gains at most the blob of its content.
LEMMA PutDoneInv ==
    ASSUME Inv, NEW u \in Uploaders, NEW p \in Paths, PutDone(u, p),
           blob' \in [Digests -> Digests \cup {None, Bad}],
           \A d \in Digests : blob'[d] \in {blob[d], d},
           \A t \in Trees : blob'[t] = blob[t],
           tampers = 0 => blob'[files[u][p]] = files[u][p]
    PROVE  Inv'
<1>1. u \in Processes /\ TypeOK /\ Uploads(u) /\ pc[u] = "put" /\ p \in part[u]
  BY DEF Processes, Inv, PutDone
<1>2. /\ done' = [done EXCEPT ![u] = @ \cup {p}]
      /\ UNCHANGED <<dir, dest, pc, files, part, want, uploaded, asked, edits, tampers>>
  BY DEF PutDone, counters
<1>3. TypeOK'
  BY <1>1, <1>2 DEF TypeOK
<1>4. \A d \in Digests : blob[d] = d => blob'[d] = d
  OBVIOUS
<1>5. Uploads(u)'
  <2>1. done'[u] = done[u] \cup {p}
    BY <1>1, <1>2 DEF TypeOK
  <2>2. ASSUME tampers = 0, NEW q \in done[u] \cup {p}
        PROVE  blob'[files[u][q]] = files[u][q]
    <3>1. CASE q \in done[u]
      <4>1. files[u][q] \in Digests /\ blob[files[u][q]] = files[u][q]
        BY <1>1, <2>2, <3>1, HashedIsContent DEF Uploads
      <4> QED
        BY <1>4, <4>1
    <3> QED
      BY <2>2, <3>1
  <2> QED
    BY <1>1, <1>2, <2>1, <2>2 DEF Uploads, PcUpload, PcFile, PcDirectory
<1>6. (\A o \in Uploaders \ {u} : Uploads(o)') /\ \A x \in Downloaders : Downloads(x)'
  BY <1>1, <1>2, <1>4, UploadFrame DEF TypeOK
<1>7. StoreIsTrue' /\ DestIsWhole'
  BY <1>2 DEF Inv, StoreIsTrue, DestIsWhole
<1>8. ManifestsComplete'
  <2> SUFFICES ASSUME tampers = 0
               PROVE  /\ \A t \in Trees : blob'[t] # None => \A q \in Paths : blob'[t[q]] = t[q]
                      /\ \A t \in uploaded : blob'[t] = t
    BY <1>2 DEF ManifestsComplete
  <2>1. \A t \in Trees, q \in Paths : t[q] \in Digests
    BY DEF Trees, Digests
  <2>2. uploaded \subseteq Digests
    BY <1>1 DEF TypeOK
  <2> QED
    BY <1>4, <2>1, <2>2 DEF Inv, ManifestsComplete
<1> QED
  BY <1>3, <1>5, <1>6, <1>7, <1>8 DEF Inv

LEMMA SkipFileInv ==
    ASSUME Inv, NEW u \in Uploaders, NEW p \in Paths, SkipFile(u, p)
    PROVE  Inv'
<1>1. blob' = blob /\ PutDone(u, p) /\ blob[files[u][p]] # None /\ pc[u] = "put" /\ p \in part[u]
  BY DEF SkipFile, PutDone
<1>2. files[u][p] \in Digests
  BY <1>1, HashedIsContent
<1>3. tampers = 0 => blob[files[u][p]] = files[u][p]
  BY <1>1, <1>2 DEF Inv, StoreIsTrue
<1> QED
  BY <1>1, <1>3, PutDoneInv DEF Inv, TypeOK

LEMMA PutFileInv ==
    ASSUME Inv, NEW u \in Uploaders, NEW p \in Paths, PutFile(u, p)
    PROVE  Inv'
<1> DEFINE c == files[u][p]
<1>1. blob' = [blob EXCEPT ![c] = c] /\ PutDone(u, p) /\ pc[u] = "put" /\ p \in part[u]
  BY DEF PutFile, PutDone
<1>2. c \in Contents /\ c \in Digests /\ blob \in [Digests -> Digests \cup {None, Bad}]
  BY <1>1, HashedIsContent DEF Inv, TypeOK
<1>3. /\ blob' \in [Digests -> Digests \cup {None, Bad}] /\ blob'[c] = c
      /\ \A d \in Digests : blob'[d] \in {blob[d], d}
      /\ \A t \in Trees : blob'[t] = blob[t]
  BY <1>1, <1>2, DigestsAssumption DEF Digests
<1> QED
  BY <1>1, <1>3, PutDoneInv

LEMMA FileStoredInv ==
    ASSUME Inv, NEW u \in Uploaders, FileStored(u)
    PROVE  Inv'
<1> DEFINE new == {files[u][p] : p \in part[u]}
<1>1. u \in Processes /\ TypeOK /\ Uploads(u) /\ pc[u] = "put" /\ done[u] = part[u]
  BY DEF Processes, Inv, FileStored, Step, FilesDone
<1>2. /\ pc' = [pc EXCEPT ![u] = "end"] /\ uploaded' = uploaded \cup new
      /\ UNCHANGED <<dir, blob, dest, files, part, done, want, asked, edits, tampers>>
  BY DEF FileStored, Step, counters
<1>3. new \subseteq Digests /\ (tampers = 0 => \A d \in new : blob[d] = d)
  BY <1>1, HashedIsContent DEF Uploads
<1>4. TypeOK'
  BY <1>1, <1>2, <1>3 DEF TypeOK
<1>5. Uploads(u)'
  BY <1>1, <1>2 DEF TypeOK, Uploads, PcUpload, PcFile, PcDirectory
<1>6. (\A o \in Uploaders \ {u} : Uploads(o)') /\ \A x \in Downloaders : Downloads(x)'
  BY <1>1, <1>2, UploadFrame DEF TypeOK
<1>7. StoreIsTrue' /\ ManifestsComplete' /\ DestIsWhole'
  BY <1>2, <1>3 DEF Inv, StoreIsTrue, ManifestsComplete, DestIsWhole
<1> QED
  BY <1>4, <1>5, <1>6, <1>7 DEF Inv

\* The manifest is stored when every file of it is.
LEMMA PutManifestInv ==
    ASSUME Inv, NEW u \in Uploaders, PutManifest(u)
    PROVE  Inv'
<1> DEFINE t == files[u]
<1>1. /\ u \in Processes /\ TypeOK /\ Uploads(u) /\ pc[u] = "put"
      /\ part[u] = Paths /\ done[u] = Paths
  BY DEF Processes, Inv, PutManifest, Step, FilesDone
<1>2. /\ pc' = [pc EXCEPT ![u] = "end"] /\ uploaded' = uploaded \cup {t}
      /\ blob' = [blob EXCEPT ![t] = IF @ = None THEN t ELSE @]
      /\ UNCHANGED <<dir, dest, files, part, done, want, asked, edits, tampers>>
  BY DEF PutManifest, Step, counters
<1>3. t \in Trees /\ t \in Digests
  <2>1. \A p \in Paths : t[p] \in Contents
    BY <1>1, HashedIsContent
  <2>2. t \in PartTrees
    BY <1>1 DEF Uploads, PcUpload
  <2> QED
    BY <2>1, <2>2 DEF PartTrees, Trees, Digests
<1>4. tampers = 0 => \A p \in Paths : blob[t[p]] = t[p]
  BY <1>1 DEF Uploads
<1>5. /\ blob' \in [Digests -> Digests \cup {None, Bad}]
      /\ blob'[t] = IF blob[t] = None THEN t ELSE blob[t]
      /\ \A d \in Digests \ {t} : blob'[d] = blob[d]
  BY <1>1, <1>2, <1>3 DEF TypeOK
<1> HIDE DEF t
<1>6. \A d \in Digests : blob[d] = d => blob'[d] = d
  BY <1>3, <1>5
<1>7. TypeOK'
  BY <1>1, <1>2, <1>3, <1>5 DEF TypeOK
<1>8. Uploads(u)'
  BY <1>1, <1>2 DEF TypeOK, Uploads, PcUpload, PcFile, PcDirectory
<1>9. (\A o \in Uploaders \ {u} : Uploads(o)') /\ \A x \in Downloaders : Downloads(x)'
  BY <1>1, <1>2, <1>6, UploadFrame DEF TypeOK
<1>10. StoreIsTrue' /\ DestIsWhole'
  BY <1>2, <1>3, <1>5 DEF Inv, StoreIsTrue, DestIsWhole
<1>11. ManifestsComplete'
  <2> SUFFICES ASSUME tampers = 0
               PROVE  /\ \A s \in Trees : blob'[s] # None => \A q \in Paths : blob'[s[q]] = s[q]
                      /\ \A s \in uploaded \cup {t} : blob'[s] = s
    BY <1>2 DEF ManifestsComplete
  <2>1. \A s \in Trees, q \in Paths : s[q] \in Digests
    BY DEF Trees, Digests
  <2>2. ASSUME NEW s \in Trees, blob'[s] # None, NEW q \in Paths
        PROVE  blob'[s[q]] = s[q]
    <3>1. blob[s[q]] = s[q]
      <4>1. CASE s = t
        BY <1>4, <4>1
      <4>2. CASE s # t
        BY <1>5, <2>2, <4>2 DEF Inv, ManifestsComplete, Digests
      <4> QED
        BY <4>1, <4>2
    <3> QED
      BY <1>6, <2>1, <3>1
  <2>3. ASSUME NEW s \in uploaded \cup {t}
        PROVE  blob'[s] = s
    <3>1. CASE s = t
      BY <1>3, <1>5, <3>1 DEF Inv, StoreIsTrue
    <3>2. CASE s \in uploaded
      BY <1>1, <1>6, <3>2 DEF Inv, ManifestsComplete, TypeOK
    <3> QED
      BY <3>1, <3>2
  <2> QED
    BY <2>2, <2>3
<1> QED
  BY <1>7, <1>8, <1>9, <1>10, <1>11 DEF Inv

-----------------------------------------------------------------------------
(* download_artifact().                                                    *)

\* A step of a download keeps the invariant if it keeps the types, its own
\* part and the destination whole.
LEMMA DownloadInv ==
    ASSUME Inv, NEW x \in Downloaders,
           \A z \in Processes \ {x} : pc'[z] = pc[z] /\ files'[z] = files[z],
           \A y \in Downloaders \ {x} : want'[y] = want[y],
           UNCHANGED <<part, done, blob, tampers, uploaded>>, asked \subseteq asked',
           dest \notin Contents \cup {None} => dest' = dest,
           TypeOK', Downloads(x)', DestIsWhole'
    PROVE  Inv'
<1>1. (\A u \in Uploaders : Uploads(u)') /\ \A y \in Downloaders \ {x} : Downloads(y)'
  BY DownloadFrame
<1>2. StoreIsTrue' /\ ManifestsComplete'
  BY DEF Inv, StoreIsTrue, ManifestsComplete
<1> QED
  BY <1>1, <1>2 DEF Inv

LEMMA DownloadBeginInv ==
    ASSUME Inv, NEW x \in Downloaders, NEW d \in Wanted, DownloadBegin(x, d)
    PROVE  Inv'
<1>1. x \in Processes /\ TypeOK /\ d \in Digests /\ Unread \in PartTrees
  BY DEF Processes, Inv, Wanted, Digests, Unread, PartTrees
<1>2. /\ pc' = [pc EXCEPT ![x] = IF d \in Contents THEN "file" ELSE "manifest"]
      /\ files' = [files EXCEPT ![x] = Unread] /\ want' = [want EXCEPT ![x] = d]
      /\ asked' = asked \cup {d}
      /\ UNCHANGED <<dir, blob, dest, part, done, uploaded, edits, tampers>>
  BY DEF DownloadBegin, Begin, Step, counters
<1>3. TypeOK'
  BY <1>1, <1>2 DEF TypeOK, PcFile, PcDirectory
<1>4. Downloads(x)'
  <2>1. /\ pc'[x] = IF d \in Contents THEN "file" ELSE "manifest"
        /\ files'[x] = Unread /\ want'[x] = d
    BY <1>1, <1>2 DEF TypeOK
  <2> QED
    BY <1>1, <1>2, <2>1 DEF Downloads, PcUpload, PcFile, PcDirectory, Digests
<1>5. DestIsWhole'
  BY <1>2 DEF Inv, DestIsWhole
<1> QED
  BY <1>1, <1>2, <1>3, <1>4, <1>5, DownloadInv DEF TypeOK

LEMMA CheckFetchInv ==
    ASSUME Inv, NEW x \in Downloaders, CheckDest(x) \/ FetchManifest(x)
    PROVE  Inv'
<1>1. x \in Processes /\ TypeOK /\ Downloads(x)
  BY DEF Processes, Inv
<1>2. /\ \/ pc[x] = "file" /\ pc' = [pc EXCEPT ![x] = "fetch"]
         \/ pc[x] = "manifest" /\ pc' = [pc EXCEPT ![x] = "stage"]
      /\ UNCHANGED <<dir, blob, dest, files, part, done, want, uploaded, asked, edits, tampers>>
  BY DEF CheckDest, FetchManifest, Step, counters
<1>3. TypeOK'
  BY <1>1, <1>2 DEF TypeOK, PcFile, PcDirectory
<1>4. Downloads(x)'
  <2>1. Unread \in PartTrees /\ \A p \in Paths : Unread[p] = None
    BY DEF Unread, PartTrees
  <2>2. \/ pc[x] = "file" /\ pc'[x] = "fetch"
        \/ pc[x] = "manifest" /\ pc'[x] = "stage"
    BY <1>1, <1>2 DEF TypeOK
  <2> QED
    BY <1>1, <1>2, <2>1, <2>2 DEF Downloads, PcUpload, PcFile, PcDirectory
<1>5. DestIsWhole'
  BY <1>2 DEF Inv, DestIsWhole
<1> QED
  BY <1>1, <1>2, <1>3, <1>4, <1>5, DownloadInv DEF TypeOK

LEMMA FetchBlobInv ==
    ASSUME Inv, NEW x \in Downloaders, FetchBlob(x)
    PROVE  Inv'
<1>1. x \in Processes /\ TypeOK /\ Downloads(x) /\ pc[x] = "fetch"
  BY DEF Processes, Inv, FetchBlob, Step
<1>2. /\ pc' = [pc EXCEPT ![x] = "replace"] /\ files' = [files EXCEPT ![x] = want[x]]
      /\ UNCHANGED <<dir, blob, dest, part, done, want, uploaded, asked, edits, tampers>>
  BY DEF FetchBlob, Fetched, Step, counters
<1>3. want[x] \in Contents \cap asked
  BY <1>1 DEF Downloads, PcFile
<1>4. TypeOK'
  BY <1>1, <1>2, <1>3 DEF TypeOK, PcFile
<1>5. Downloads(x)'
  BY <1>1, <1>2, <1>3 DEF TypeOK, Downloads, PcUpload, PcFile, PcDirectory
<1>6. DestIsWhole'
  BY <1>2 DEF Inv, DestIsWhole
<1> QED
  BY <1>1, <1>2, <1>4, <1>5, <1>6, DownloadInv DEF TypeOK

LEMMA ReplaceDestInv ==
    ASSUME Inv, NEW x \in Downloaders, ReplaceDest(x)
    PROVE  Inv'
<1>1. x \in Processes /\ TypeOK /\ Downloads(x) /\ pc[x] = "replace"
  BY DEF Processes, Inv, ReplaceDest, Step
<1>2. want[x] \in Contents \cap asked /\ files[x] = want[x]
  BY <1>1 DEF Downloads, PcFile
<1>3. /\ pc' = [pc EXCEPT ![x] = "end"] /\ dest \in Contents \cup {None} /\ dest' = want[x]
      /\ UNCHANGED <<dir, blob, files, part, done, want, uploaded, asked, edits, tampers>>
  BY <1>2 DEF ReplaceDest, Step, counters
<1>4. TypeOK'
  BY <1>1, <1>2, <1>3 DEF TypeOK, Digests
<1>5. Downloads(x)'
  BY <1>1, <1>3 DEF TypeOK, Downloads, PcUpload, PcFile, PcDirectory
<1>6. DestIsWhole'
  BY <1>2, <1>3 DEF DestIsWhole
<1> QED
  BY <1>1, <1>3, <1>4, <1>5, <1>6, DownloadInv DEF TypeOK

LEMMA FetchFileInv ==
    ASSUME Inv, NEW x \in Downloaders, NEW p \in Paths, FetchFile(x, p)
    PROVE  Inv'
<1>1. x \in Processes /\ TypeOK /\ Downloads(x) /\ pc[x] = "stage"
  BY DEF Processes, Inv, FetchFile
<1>2. /\ want[x] \in Trees \cap asked /\ files[x] \in PartTrees
      /\ \A q \in Paths : files[x][q] \in {None, want[x][q]}
  BY <1>1 DEF Downloads, PcDirectory
<1> DEFINE new == [files[x] EXCEPT ![p] = want[x][p]]
<1>3. files' = [files EXCEPT ![x] = new]
  BY <1>1 DEF FetchFile, Fetched, TypeOK
<1>4. UNCHANGED <<dir, blob, dest, pc, part, done, want, uploaded, asked, edits, tampers>>
  BY DEF FetchFile, counters
<1>5. new \in PartTrees /\ \A q \in Paths : new[q] \in {None, want[x][q]}
  BY <1>2 DEF PartTrees, Trees
<1> HIDE DEF new
<1>6. TypeOK'
  BY <1>1, <1>3, <1>4, <1>5 DEF TypeOK
<1>7. Downloads(x)'
  BY <1>1, <1>2, <1>3, <1>4, <1>5 DEF TypeOK, Downloads, PcUpload, PcFile, PcDirectory
<1>8. DestIsWhole'
  BY <1>4 DEF Inv, DestIsWhole
<1> QED
  BY <1>1, <1>3, <1>4, <1>6, <1>7, <1>8, DownloadInv DEF TypeOK

\* A complete staging directory is the directory that was asked for.
LEMMA RenameStagingInv ==
    ASSUME Inv, NEW x \in Downloaders, RenameStaging(x)
    PROVE  Inv'
<1>1. x \in Processes /\ TypeOK /\ Downloads(x) /\ pc[x] = "stage"
  BY DEF Processes, Inv, RenameStaging, Step
<1>2. /\ want[x] \in Trees \cap asked /\ files[x] \in PartTrees
      /\ \A p \in Paths : files[x][p] \in {None, want[x][p]}
  BY <1>1 DEF Downloads, PcDirectory
<1>3. files[x] = want[x]
  <2>1. \A p \in Paths : files[x][p] = want[x][p]
    BY <1>2 DEF RenameStaging
  <2> QED
    BY <1>2, <2>1 DEF PartTrees, Trees
<1>4. /\ pc' = [pc EXCEPT ![x] = "verify"] /\ dest = None /\ dest' = want[x]
      /\ UNCHANGED <<dir, blob, files, part, done, want, uploaded, asked, edits, tampers>>
  BY <1>3 DEF RenameStaging, Step, counters
<1>5. TypeOK'
  BY <1>1, <1>2, <1>4 DEF TypeOK, Digests, PcDirectory
<1>6. Downloads(x)'
  BY <1>1, <1>2, <1>4 DEF TypeOK, Downloads, PcUpload, PcFile, PcDirectory
<1>7. DestIsWhole'
  BY <1>2, <1>4 DEF DestIsWhole
<1> QED
  BY <1>1, <1>4, <1>5, <1>6, <1>7, DownloadInv DEF TypeOK

\* verify_after finds the directory it renamed into place.
LEMMA VerifyAfterInv ==
    ASSUME Inv, NEW x \in Downloaders, VerifyAfter(x)
    PROVE  Inv' /\ dest' = dest
<1>1. x \in Processes /\ TypeOK /\ Downloads(x) /\ pc[x] = "verify"
  BY DEF Processes, Inv, VerifyAfter, Step
<1>2. /\ pc' = [pc EXCEPT ![x] = "end"] /\ dest' = dest
      /\ UNCHANGED <<dir, blob, files, part, done, want, uploaded, asked, edits, tampers>>
  BY <1>1 DEF VerifyAfter, Step, counters, Downloads
<1>3. TypeOK'
  BY <1>1, <1>2 DEF TypeOK
<1>4. Downloads(x)'
  BY <1>1, <1>2 DEF TypeOK, Downloads, PcUpload, PcFile, PcDirectory
<1>5. DestIsWhole'
  BY <1>2 DEF Inv, DestIsWhole
<1> QED
  BY <1>1, <1>2, <1>3, <1>4, <1>5, DownloadInv DEF TypeOK

-----------------------------------------------------------------------------
(* Failures, and the world around.                                         *)

LEMMA RaiseInv ==
    ASSUME Inv, NEW z \in Processes, Raise(z)
    PROVE  Inv'
<1>1. /\ TypeOK /\ pc' = [pc EXCEPT ![z] = "end"]
      /\ UNCHANGED <<dir, blob, dest, files, part, done, want, uploaded, asked, edits, tampers>>
  BY DEF Inv, Raise, counters
<1>2. TypeOK'
  BY <1>1 DEF TypeOK
<1>3. pc'[z] = "end" /\ \A o \in Processes \ {z} : pc'[o] = pc[o]
  BY <1>1 DEF TypeOK
<1>4. ASSUME NEW u \in Uploaders
      PROVE  Uploads(u)'
  BY <1>1, <1>3 DEF Processes, Inv, Uploads, PcUpload, PcFile, PcDirectory
<1>5. ASSUME NEW x \in Downloaders
      PROVE  Downloads(x)'
  BY <1>1, <1>3 DEF Processes, Inv, Downloads, PcUpload, PcFile, PcDirectory
<1>6. StoreIsTrue' /\ ManifestsComplete' /\ DestIsWhole'
  BY <1>1 DEF Inv, StoreIsTrue, ManifestsComplete, DestIsWhole
<1> QED
  BY <1>2, <1>4, <1>5, <1>6 DEF Inv

LEMMA EditSourceInv ==
    ASSUME Inv, EditSource
    PROVE  Inv'
<1>1. /\ TypeOK
      /\ UNCHANGED <<blob, dest, pc, files, part, done, want, uploaded, asked, tampers>>
  BY DEF Inv, EditSource
<1>2. dir' \in Trees /\ edits' \in 0..MaxEdits
  BY <1>1, BoundsAssumption DEF EditSource, TypeOK, Trees
<1> QED
  BY <1>1, <1>2 DEF Inv, TypeOK, StoreIsTrue, ManifestsComplete, DestIsWhole, Uploads, Downloads

\* A tampered store promises nothing about blobs, and what is downloaded is
\* checked against its digest.
LEMMA TamperBlobInv ==
    ASSUME Inv, TamperBlob
    PROVE  Inv'
<1>1. TypeOK /\ UNCHANGED <<dir, dest, pc, files, part, done, want, uploaded, asked, edits>>
  BY DEF Inv, TamperBlob
<1>2. tampers' \in 0..MaxTampers /\ tampers' # 0
  BY <1>1, BoundsAssumption DEF TamperBlob, TypeOK
<1>3. blob' \in [Digests -> Digests \cup {None, Bad}]
  BY <1>1 DEF TamperBlob, TypeOK
<1> QED
  BY <1>1, <1>2, <1>3
  DEF Inv, TypeOK, StoreIsTrue, ManifestsComplete, DestIsWhole, Uploads, Downloads

LEMMA NextInv ==
    ASSUME Inv, [Next]_vars
    PROVE  Inv'
<1>1. CASE UNCHANGED vars
  BY <1>1 DEF vars, counters, Inv, TypeOK, StoreIsTrue, ManifestsComplete, DestIsWhole, Uploads,
              Downloads
<1>2. ASSUME NEW u \in Uploaders, Upload(u)
      PROVE  Inv'
  BY <1>2, UploadBeginInv, HashFileInv, SkipFileInv, PutFileInv, FileStoredInv, PutManifestInv
  DEF Upload
<1>3. ASSUME NEW x \in Downloaders, Download(x)
      PROVE  Inv'
  BY <1>3, DownloadBeginInv, CheckFetchInv, FetchBlobInv, ReplaceDestInv, FetchFileInv,
     RenameStagingInv, VerifyAfterInv
  DEF Download
<1> QED
  BY <1>1, <1>2, <1>3, RaiseInv, EditSourceInv, TamperBlobInv DEF Next

\* The invariant: uploads store what they hashed before they count it as done,
\* downloads hold only what was asked for.
THEOREM Invariance == Spec => []Inv
BY InitInv, NextInv, PTL DEF Spec

-----------------------------------------------------------------------------
(* What it gives.                                                          *)

\* A manifest that can be fetched lists only files that can be, and an upload
\* that returned left its blobs, as long as nobody tampers with the store.
THEOREM ManifestsAreComplete == Spec => []ManifestsComplete
<1>1. Inv => ManifestsComplete
  BY DEF Inv
<1> QED
  BY <1>1, Invariance, PTL

\* The destination of downloads is never a part or a mixture of what was
\* asked for, nor what somebody put into the store.
THEOREM DownloadsAreWhole == Spec => []DestIsWhole
<1>1. Inv => DestIsWhole
  BY DEF Inv
<1> QED
  BY <1>1, Invariance, PTL

\* No step replaces or removes a directory at the destination.
THEOREM DirectoriesStay == Spec => DirectoryUntouched
<1>1. ASSUME Inv, [Next]_vars
      PROVE  [dest \notin Contents \cup {None} => dest' = dest]_vars
  <2> SUFFICES ASSUME dest \notin Contents \cup {None}, dest' # dest
               PROVE  FALSE
    OBVIOUS
  <2>1. ASSUME NEW x \in Downloaders, Download(x)
        PROVE  FALSE
    <3>1. ~VerifyAfter(x)
      BY <1>1, VerifyAfterInv
    <3>2. ReplaceDest(x) \/ RenameStaging(x)
      BY <2>1, <3>1 DEF Download, DownloadBegin, Begin, CheckDest, FetchBlob, FetchManifest, FetchFile
    <3> QED
      BY <3>2 DEF ReplaceDest, RenameStaging
  <2>2. ASSUME NEW u \in Uploaders
        PROVE  ~Upload(u)
    BY DEF Upload, UploadBegin, Begin, HashFile, SkipFile, PutFile, PutDone, FileStored, PutManifest
  <2> QED
    BY <1>1, <2>1, <2>2 DEF Next, Raise, EditSource, TamperBlob, vars
<1> QED
  BY <1>1, Invariance, PTL DEF Spec, DirectoryUntouched
=============================================================================
