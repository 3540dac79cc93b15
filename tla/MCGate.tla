------------------------------- MODULE MCGate -------------------------------
(***************************************************************************)
(* Model-checking instance of the admission gate and of the scan it runs,  *)
(* the latter also as the command `modelguard scan`.  Admission takes the  *)
(* result of a scan in one step; Scanning is that step in detail.  Each    *)
(* behaviour is about one of the two.                                      *)
(***************************************************************************)
EXTENDS MCAdmission, Sequences

CONSTANTS Paths, Dirs, DirOf, Pickles, Entries, FailOn, Metadata, MaxEdits,
          top, sub, weights, readme, extra

ASSUME EditsAssumption == MaxEdits \in Nat

Directories == {Dirs[i] : i \in DOMAIN Dirs}
Walks == [dirs : Seq(Directories), files : SUBSET Paths, at : Paths \cup {None}]

\* Every path is in a directory of the artifact, and what is not there or not
\* decided is told from what may be there and from an exit code.
ASSUME ArtifactAssumption ==
    /\ Dirs \in Seq(Directories) /\ \A p \in Paths : DirOf[p] \in Directories
    /\ None \notin Paths /\ None \notin Entries /\ None \notin {0, 1, 2} /\ None \notin Walks

\* A directory with a subdirectory.
MCDirs == <<top, sub>>
MCDirOf == [p \in {weights, readme, extra} |-> IF p = extra THEN sub ELSE top]

\* Documents not given, and declaring a license only.
MCMetadata == {None, {"license"}}

VARIABLES
    part,       \* what this behaviour is about
    tree, listable, meta, fail_on, scanPc, walk, digest, found, findings, statuses, exit,
    touched, edits

Scanners == INSTANCE Scanning WITH pc <- scanPc

admissionVars == vars
scanVars == <<tree, listable, meta, fail_on, scanPc, walk, digest, found, findings, statuses,
              exit, touched, edits>>

NoAdmission ==
    /\ artifact = None /\ mbom = None /\ envelope = None /\ revoked = None
    /\ trust = None /\ hasRegistry = None /\ policy = None /\ auditPath = None
    /\ pc = "done" /\ seen = None /\ verdict = Undecided
    /\ audit = None /\ cleared = None /\ swapped = None /\ changes = None

NoScan ==
    /\ tree = None /\ listable = None /\ meta = None /\ fail_on = None
    /\ scanPc = "done" /\ walk = None /\ digest = None /\ found = None
    /\ findings = None /\ statuses = None /\ exit = None
    /\ touched = None /\ edits = None

GateInit ==
    \/ part = "admission" /\ Init /\ NoScan
    \/ part = "scan" /\ NoAdmission /\ Scanners!Init

GateNext ==
    /\ UNCHANGED part
    /\ \/ part = "admission" /\ Next /\ UNCHANGED scanVars
       \/ part = "scan" /\ Scanners!Next /\ UNCHANGED admissionVars

GateSpec == GateInit /\ [][GateNext]_<<part, admissionVars, scanVars>>

-----------------------------------------------------------------------------
(* The properties of Scanning.                                             *)

\* A scan that exits with 0 has no finding to report about a file left alone.
ZeroExitIsClean == part = "scan" => Scanners!ZeroExitIsClean
\* The report speaks of exactly the files that were hashed.
HashAndScanAgree == part = "scan" => Scanners!HashAndScanAgree
=============================================================================
