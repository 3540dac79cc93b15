------------------------------ MODULE Scanning ------------------------------
(***************************************************************************)
(* One scan of an artifact directory (scanning/runner.py, the walker and   *)
(* the scanners of scanning/, hash_directory() of hashing/digest.py, and   *)
(* the command `modelguard scan`).  The directory is walked once to hash   *)
(* it and again by each scanner that reads files.  A walk lists one        *)
(* directory at a time and then checks and reads its files one by one,     *)
(* while other processes replace, remove and add files.  Any scanner may   *)
(* raise at any moment.                                                    *)
(*                                                                         *)
(* The content of a file is what the scanners can tell of it: "plain",     *)
(* "secret" and "token" (a CRITICAL or a HIGH pattern in a small text      *)
(* file), "pickle" (a pickle header), "opaque" (too large, binary or not   *)
(* UTF-8: not searched) or "unreadable".  A "link" is a symbolic link.     *)
(* Directories are not created, removed or replaced during the scan.       *)
(***************************************************************************)
EXTENDS Naturals, Sequences

CONSTANTS
    Paths,          \* paths that may exist in the artifact
    Dirs,           \* its directories, in the order of os.walk
    DirOf,          \* the directory of each path
    Pickles,        \* paths with a pickle extension
    Entries,        \* what may stand at a path: contents and "link"
    FailOn,         \* --fail-on severities the command is called with
    Metadata,       \* what manifest and ML-BOM declare, or None if not given
    None,           \* nothing there, not decided
    MaxEdits        \* bound: changes by other processes

VARIABLES
    tree,       \* the artifact, as it is now
    listable,   \* directories this process may list
    meta, fail_on,      \* how the command was called
    pc,         \* "start", "hash", a scanner's name, or "done"
    walk,       \* the walk under way: [dirs, files, at]
    digest,     \* <<path, content>> pairs hashed so far
    found,      \* findings of the scanner that is running
    findings, statuses, \* the report
    exit,       \* exit code of the command
    touched,    \* ghost: paths changed since the command started
    edits       \* counter for the bound

call == <<listable, meta, fail_on>>
report == <<findings, statuses>>
vars == <<tree, call, pc, walk, digest, found, report, exit, touched, edits>>

DEFAULT_SCANNERS == <<"unsafe_serialization", "secrets", "metadata_completeness">>
Scanners == {DEFAULT_SCANNERS[i] : i \in DOMAIN DEFAULT_SCANNERS}
Readers == {"unsafe_serialization", "secrets"}

_SEVERITY_RANK == [INFO |-> 0, LOW |-> 1, MEDIUM |-> 2, HIGH |-> 3, CRITICAL |-> 4]
Contents == Entries \ {"link"}
Finding(s, component, severity) == [scanner |-> s, component |-> component, severity |-> severity]

Init ==
    /\ tree \in [Paths -> Entries \cup {None}]
    /\ listable \in {d \in SUBSET {Dirs[i] : i \in DOMAIN Dirs} : Dirs[1] \in d}
    /\ meta \in Metadata /\ fail_on \in FailOn
    /\ pc = "start" /\ walk = None
    /\ digest = {} /\ found = {}
    /\ findings = {} /\ statuses = [s \in {} |-> None]
    /\ exit = None
    /\ touched = {} /\ edits = 0

-----------------------------------------------------------------------------
(* What the scanners say of a file, and of the metadata.                   *)

\* UnsafeSerializationScanner._scan_file(): the extension, else the header.
unsafe_serialization(p, content) ==
    IF p \in Pickles THEN {"HIGH"} ELSE IF content = "pickle" THEN {"MEDIUM"} ELSE {}

\* SecretScanner._scan_file(): a file it cannot read or decode has no findings.
secrets(content) ==
    IF content = "secret" THEN {"CRITICAL"} ELSE IF content = "token" THEN {"HIGH"} ELSE {}

OfFile(s, p, content) ==
    {Finding(s, p, severity) : severity \in
        IF s = "secrets" THEN secrets(content) ELSE unsafe_serialization(p, content)}

\* MetadataCompletenessScanner.scan()
metadata_completeness ==
    IF meta = None THEN {}
    ELSE {Finding("metadata_completeness", f, IF f = "parent_models" THEN "INFO" ELSE "LOW") :
            f \in {"license", "parent_models", "identity"} \ meta}

-----------------------------------------------------------------------------
(* os.walk(followlinks=False), shared by hash_directory() and              *)
(* iter_scannable_files().                                                 *)

NewWalk == [dirs |-> Dirs, files |-> {}, at |-> None]
WalkIs(at) == walk # None /\ walk.at = at
WalkDone == walk # None /\ walk.dirs = << >> /\ walk.files = {} /\ walk.at = None

\* Lists one directory; without onerror one that cannot be listed is skipped.
ListDirectory ==
    /\ WalkIs(None) /\ walk.files = {} /\ walk.dirs # << >>
    /\ LET d == Head(walk.dirs) IN
        walk' = [walk EXCEPT !.dirs = Tail(@),
                    !.files = {p \in Paths : DirOf[p] = d /\ d \in listable /\ tree[p] # None}]
    /\ UNCHANGED <<tree, call, pc, digest, found, report, exit, touched, edits>>

\* The next entry is no symbolic link (it may have vanished).
PassCheck(p) ==
    /\ WalkIs(None) /\ p \in walk.files
    /\ tree[p] # "link"
    /\ walk' = [walk EXCEPT !.files = @ \ {p}, !.at = p]
    /\ UNCHANGED <<tree, call, pc, digest, found, report, exit, touched, edits>>

\* Opening a path that passed the check follows a link put there since.
Opened(p) == IF tree[p] = "link" THEN Contents ELSE {tree[p]}

-----------------------------------------------------------------------------
(* hash_directory().                                                       *)

Exit(code) ==
    /\ pc' = "done" /\ exit' = code /\ walk' = None
    /\ UNCHANGED <<tree, call, digest, found, report, touched, edits>>

\* --manifest and --mbom are read first.
Start == pc = "start" /\ pc' = "hash" /\ walk' = NewWalk
         /\ UNCHANGED <<tree, call, digest, found, report, exit, touched, edits>>
BadDocuments == pc = "start" /\ meta # None /\ Exit(1)

\* UnsafePathError
HashRefusesLink_Skips(p) ==
    /\ pc = "hash" /\ WalkIs(None) /\ p \in walk.files
    /\ tree[p] = "link"
    /\ walk' = [walk EXCEPT !.files = @ \ {p}]
    /\ UNCHANGED <<tree, call, pc, digest, found, report, exit, touched, edits>>
HashRefusesLink(p) ==
    /\ pc = "hash" /\ WalkIs(None) /\ p \in walk.files
    /\ tree[p] = "link"
    /\ Exit(1)

HashFile(content) ==
    /\ pc = "hash" /\ walk.at # None
    /\ content \in Opened(walk.at) \ {None, "unreadable"}
    /\ digest' = digest \cup {<<walk.at, content>>}
    /\ walk' = [walk EXCEPT !.at = None]
    /\ UNCHANGED <<tree, call, pc, found, report, exit, touched, edits>>

\* OSError: the file vanished or cannot be read.
HashFails ==
    /\ pc = "hash" /\ walk.at # None
    /\ Opened(walk.at) \cap {None, "unreadable"} # {}
    /\ Exit(1)

\* EmptyArtifactError
HashEmpty == pc = "hash" /\ WalkDone /\ digest = {} /\ Exit(1)

HashDone ==
    /\ pc = "hash" /\ WalkDone /\ digest # {}
    /\ pc' = DEFAULT_SCANNERS[1] /\ walk' = NewWalk
    /\ UNCHANGED <<tree, call, digest, found, report, exit, touched, edits>>

-----------------------------------------------------------------------------
(* run_scanners().                                                         *)

\* _skip_finding()
SkipLink(p) ==
    /\ pc \in Readers /\ WalkIs(None) /\ p \in walk.files
    /\ tree[p] = "link"
    /\ found' = found \cup {Finding(pc, p, "LOW")}
    /\ walk' = [walk EXCEPT !.files = @ \ {p}]
    /\ UNCHANGED <<tree, call, pc, digest, report, exit, touched, edits>>

ScanFile(content) ==
    /\ pc \in Readers /\ walk.at # None
    /\ content \in Opened(walk.at)
    /\ found' = found \cup OfFile(pc, walk.at, content)
    /\ walk' = [walk EXCEPT !.at = None]
    /\ UNCHANGED <<tree, call, pc, digest, report, exit, touched, edits>>

\* The exit code of the command, from the finished report.
all_scanners_ok(st) == \A s \in DOMAIN st : st[s] = "ok"
blocking(fs) == {f \in fs : _SEVERITY_RANK[f.severity] >= _SEVERITY_RANK[fail_on]}
ExitCode_IgnoresErrors(fs, st) == IF blocking(fs) # {} THEN 2 ELSE 0
ExitCode(fs, st) == IF ~all_scanners_ok(st) \/ blocking(fs) # {} THEN 2 ELSE 0

\* The scanner returned fs, or raised; the next one starts, or the command ends.
Position(s) == CHOOSE i \in DOMAIN DEFAULT_SCANNERS : DEFAULT_SCANNERS[i] = s
NextScanner(fs, status) ==
    LET st == [s \in DOMAIN statuses \cup {pc} |-> IF s = pc THEN status ELSE statuses[s]]
        last == Position(pc) = Len(DEFAULT_SCANNERS)
        next == IF last THEN "done" ELSE DEFAULT_SCANNERS[Position(pc) + 1]
    IN  /\ findings' = findings \cup fs
        /\ statuses' = st
        /\ found' = {}
        /\ pc' = next
        /\ walk' = IF next \in Readers THEN NewWalk ELSE None
        /\ exit' = IF last THEN ExitCode(findings', st) ELSE None
        /\ UNCHANGED <<tree, call, digest, touched, edits>>

WalkerReturns == pc \in Readers /\ WalkDone /\ NextScanner(found, "ok")
MetadataReturns == pc = "metadata_completeness" /\ NextScanner(metadata_completeness, "ok")

\* What it had found is lost with it.
ScannerRaises == pc \in Scanners /\ NextScanner({}, "error")

-----------------------------------------------------------------------------
(* Other processes.                                                        *)

Edit(p, entry) ==
    /\ pc # "done" /\ pc # "start"
    /\ edits < MaxEdits
    /\ edits' = edits + 1
    /\ entry # tree[p]
    /\ tree' = [tree EXCEPT ![p] = entry]
    /\ touched' = touched \cup {p}
    /\ UNCHANGED <<call, pc, walk, digest, found, report, exit>>

Next ==
    \/ Start \/ BadDocuments \/ ListDirectory
    \/ \E p \in Paths : PassCheck(p) \/ HashRefusesLink(p) \/ SkipLink(p)
    \/ \E content \in Contents \cup {None} : HashFile(content) \/ ScanFile(content)
    \/ HashFails \/ HashEmpty \/ HashDone
    \/ WalkerReturns \/ MetadataReturns \/ ScannerRaises
    \/ \E p \in Paths, entry \in Entries \cup {None} : Edit(p, entry)

Spec == Init /\ [][Next]_vars

-----------------------------------------------------------------------------
(* Properties.                                                             *)

Reported == exit \in {0, 2}
Untouched == Paths \ touched

\* "A crashing scanner must be visible, never silently folded into 'this
\* scanner found nothing'": exit code 0 means that no scanner would have
\* reported anything at or above --fail-on about a file that is part of the
\* digest and was left alone, whatever happened to the other files.
ZeroExitIsClean ==
    exit = 0 => \A p \in Untouched, s \in Readers :
        <<p, tree[p]>> \in digest => blocking(OfFile(s, p, tree[p])) = {}

\* The report speaks of the artifact that was hashed: of the files left alone
\* exactly the regular ones in directories that can be listed are in the
\* digest, each with what it holds, and none of them was skipped as a link.
HashAndScanAgree ==
    Reported => \A p \in Untouched :
        /\ \A c \in Contents :
              <<p, c>> \in digest <=> DirOf[p] \in listable /\ tree[p] = c
        /\ \A f \in findings : f.scanner \in Readers /\ f.component = p =>
              <<p, tree[p]>> \in digest /\ f \in OfFile(f.scanner, p, tree[p])
=============================================================================
