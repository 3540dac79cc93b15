------------------------------ MODULE Admission ------------------------------
(***************************************************************************)
(* One admit() call (admission.py) with everything it runs: the policy     *)
(* check and the verification in sdk.py, the checks in                     *)
(* signing/verifier.py, the scan in scanning/runner.py and the policy      *)
(* engine.  Each read of a file or of the registry is a step of its own,   *)
(* because other processes replace the files and revoke models meanwhile:  *)
(* the ML-BOM and the signature are each read twice, the artifact is       *)
(* hashed once and scanned later.  Any step of the check may raise.        *)
(*                                                                         *)
(* A digest is modelled by what it is the digest of.  Whether a key is     *)
(* trusted is a fact of the trust configuration, fixed when the guard was  *)
(* constructed.                                                            *)
(***************************************************************************)
EXTENDS Policy, Naturals

CONSTANTS
    Artifacts,      \* contents of the artifact path
    Mboms,          \* ML-BOMs: [id, license, lineage]
    Envelopes,      \* signatures: [artifact, mbom, valid, key, name]
    Policies,       \* policy documents
    TrustConfigs,   \* sets of trusted keys, or None
    Findings,       \* what the scanners find: [Artifacts -> [critical, high]]
    MaxChanges      \* bound: changes by other processes during the call

ASSUME ChangesAssumption == MaxChanges \in Nat
ASSUME PoliciesAssumption == Policies \subseteq PolicyDocument

VARIABLES
    artifact, mbom, envelope,   \* the files, as they are now
    revoked,                    \* names the registry reports as revoked
    trust, hasRegistry, policy, auditPath,  \* how the call was made
    pc,         \* the next step of the call
    seen,       \* what the call has read so far
    verdict,    \* the AdmissionDecision under construction
    audit,      \* results recorded in the audit log for this call
    cleared,    \* ghost: names not revoked at some moment of the call
    swapped,    \* ghost: the ML-BOM was replaced during the call
    changes     \* counter for the bound

world == <<artifact, mbom, envelope, revoked>>
setup == <<trust, hasRegistry, policy, auditPath>>
vars == <<world, setup, pc, seen, verdict, audit, cleared, swapped, changes>>

Names == {e.name : e \in Envelopes} \ {None}

NoFindings == [critical |-> 0, high |-> 0]
Nothing == [mbom0 |-> None, mbom |-> None, envelope |-> None, hashed |-> None,
            revoked |-> FALSE, revocation_checked |-> FALSE, envelope2 |-> None,
            findings |-> NoFindings, scanners_ok |-> TRUE]

Undecided == [admitted |-> FALSE, decision |-> None, subject |-> None,
              revocation_checked |-> FALSE, audited |-> FALSE]

Init ==
    /\ artifact \in Artifacts /\ mbom \in Mboms /\ envelope \in Envelopes
    /\ revoked \in SUBSET Names
    /\ trust \in TrustConfigs /\ hasRegistry \in BOOLEAN
    /\ policy \in Policies /\ auditPath \in BOOLEAN
    /\ pc = "start"
    /\ seen = Nothing /\ verdict = Undecided
    /\ audit = {}
    /\ cleared = Names \ revoked /\ swapped = FALSE
    /\ changes = 0

-----------------------------------------------------------------------------
(* verify(): the facts, from what was read.                                *)

signature_valid == seen.envelope.valid
check_mbom_digest_Unchecked == TRUE
check_mbom_digest == seen.mbom.id = seen.envelope.mbom
digest_matches == seen.hashed = seen.envelope.artifact

\* evaluate_trust() for the key that verified, when one did.
signer_trusted_IgnoresSignature == seen.envelope.key \in trust
signer_trusted == signature_valid /\ seen.envelope.key \in trust

-----------------------------------------------------------------------------
Step(from, to) == pc = from /\ pc' = to
Read(from, to, s) ==
    /\ Step(from, to)
    /\ seen' = s
    /\ UNCHANGED <<world, setup, verdict, audit, cleared, swapped, changes>>

\* admit() without trust roots: straight to _finish().
NoTrustRoots ==
    /\ Step("start", "finish")
    /\ trust = None
    /\ UNCHANGED <<world, setup, seen, verdict, audit, cleared, swapped, changes>>

\* check_policy_detailed() reads the ML-BOM it hands to the scan and the policy.
ReadMbom == trust # None /\ Read("start", "verifyMbom", [seen EXCEPT !.mbom0 = mbom])

\* verify() reads the ML-BOM again, then the signature.
VerifyMbom == Read("verifyMbom", "verifyEnvelope", [seen EXCEPT !.mbom = mbom])
VerifyEnvelope == Read("verifyEnvelope", "hash", [seen EXCEPT !.envelope = envelope])

\* check_artifact_digest().
HashArtifact == Read("hash", "revocation", [seen EXCEPT !.hashed = artifact])

\* A ModelGuardError from the hasher is not an exception of verify(): the
\* digest then does not match.
HashFails == Read("hash", "revocation", [seen EXCEPT !.hashed = None])

\* The registry lookup, under the signed name.
CheckRevocation ==
    Read("revocation", "envelope2",
         IF hasRegistry /\ seen.envelope.name # None
         THEN [seen EXCEPT !.revocation_checked = TRUE,
                           !.revoked = seen.envelope.name \in revoked]
         ELSE seen)

\* check_policy_detailed() reads the signature again, for the subject.
ReadEnvelopeAgain == Read("envelope2", "scan", [seen EXCEPT !.envelope2 = envelope])

\* run_scanners(): the artifact as it is now.  The findings of a scanner
\* that raises are missing from the report.
Scan ==
    \E ok \in BOOLEAN :
    \E found \in [critical : 0..Findings[artifact].critical, high : 0..Findings[artifact].high] :
        /\ ok => found = Findings[artifact]
        /\ Read("scan", "evaluate", [seen EXCEPT !.scanners_ok = ok, !.findings = found])

\* build_context(); scan_performed is always TRUE here.
build_context ==
    [signature_valid |-> signature_valid, mbom_valid |-> check_mbom_digest,
     revoked |-> seen.revoked,
     has_license |-> seen.mbom0.license, has_declared_lineage |-> seen.mbom0.lineage,
     scan_performed |-> TRUE,
     critical_finding_count |-> seen.findings.critical,
     high_finding_count |-> seen.findings.high,
     artifact_digest_matches |-> digest_matches, signer_trusted |-> signer_trusted]

\* load_policy_file(), evaluate() and the reasons of admit().
Decide ==
    /\ Step("evaluate", "finish")
    /\ LET decision == evaluate(build_context, policy) IN
        verdict' = [verdict EXCEPT !.decision = decision,
                        !.admitted = is_allowed(decision) /\ digest_matches /\ signer_trusted,
                        !.subject = seen.envelope2.name,
                        !.revocation_checked = seen.revocation_checked]
    /\ UNCHANGED <<world, setup, seen, audit, cleared, swapped, changes>>

\* Any exception between reading the first file and the decision: denied.
CheckRaises ==
    /\ pc \notin {"start", "finish", "done"} \/ (pc = "start" /\ trust # None)
    /\ pc' = "finish"
    /\ UNCHANGED <<world, setup, seen, verdict, audit, cleared, swapped, changes>>

\* _finish(): record the decision if asked to.
FinishUnaudited ==
    /\ Step("finish", "done")
    /\ ~auditPath
    /\ UNCHANGED <<world, setup, seen, verdict, audit, cleared, swapped, changes>>

FinishAudited ==
    /\ Step("finish", "done")
    /\ auditPath
    /\ audit' = audit \cup {IF verdict.admitted THEN "success" ELSE "failure"}
    /\ verdict' = [verdict EXCEPT !.audited = TRUE]
    /\ UNCHANGED <<world, setup, seen, cleared, swapped, changes>>

\* The audit log raises, with or without having written its line.
AuditFails_Swallowed ==
    /\ Step("finish", "done")
    /\ auditPath
    /\ \/ UNCHANGED audit
       \/ audit' = audit \cup {IF verdict.admitted THEN "success" ELSE "failure"}
    /\ verdict' = [verdict EXCEPT !.audited = FALSE]
    /\ UNCHANGED <<world, setup, seen, cleared, swapped, changes>>
AuditFails ==
    /\ Step("finish", "done")
    /\ auditPath
    /\ \/ UNCHANGED audit
       \/ audit' = audit \cup {IF verdict.admitted THEN "success" ELSE "failure"}
    /\ verdict' = [verdict EXCEPT !.admitted = FALSE, !.audited = FALSE]
    /\ UNCHANGED <<world, setup, seen, cleared, swapped, changes>>

Check ==
    \/ NoTrustRoots \/ ReadMbom \/ VerifyMbom \/ VerifyEnvelope \/ HashArtifact \/ HashFails
    \/ CheckRevocation \/ ReadEnvelopeAgain \/ Scan \/ Decide \/ CheckRaises
    \/ FinishUnaudited \/ FinishAudited \/ AuditFails

-----------------------------------------------------------------------------
(* Other processes, while the call is running.                             *)

Change ==
    /\ pc \notin {"start", "done"}
    /\ changes < MaxChanges
    /\ changes' = changes + 1
    /\ UNCHANGED <<setup, pc, seen, verdict, audit>>

ReplaceArtifact ==
    /\ Change /\ artifact' \in Artifacts
    /\ UNCHANGED <<mbom, envelope, revoked, cleared, swapped>>
ReplaceMbom ==
    /\ Change /\ mbom' \in Mboms /\ swapped' = TRUE
    /\ UNCHANGED <<artifact, envelope, revoked, cleared>>
ReplaceEnvelope ==
    /\ Change /\ envelope' \in Envelopes
    /\ UNCHANGED <<artifact, mbom, revoked, cleared, swapped>>
ChangeRevocation ==
    /\ Change
    /\ \E n \in Names : revoked' \in {revoked \cup {n}, revoked \ {n}}
    /\ cleared' = cleared \cup (Names \ revoked')
    /\ UNCHANGED <<artifact, mbom, envelope, swapped>>

Next == Check \/ ReplaceArtifact \/ ReplaceMbom \/ ReplaceEnvelope \/ ChangeRevocation
Spec == Init /\ [][Next]_vars

-----------------------------------------------------------------------------
(* Properties.                                                             *)

\* The docstring of admit(): whatever the policy enables and whatever other
\* processes replace meanwhile, an admitted artifact had the bytes that a
\* valid signature by a trusted key names.
AdmittedBytesWereSigned ==
    verdict.admitted =>
        \E e \in Envelopes :
            /\ e.valid /\ trust # None /\ e.key \in trust
            /\ e.artifact = seen.hashed

\* revocation_checked is honest: if it is set, an enforced
\* reject_revoked_models admits only a name that was not revoked at some
\* moment of the call.
RevocationHonest ==
    verdict.admitted /\ verdict.revocation_checked /\ policy["reject_revoked_models"].enabled =>
        seen.envelope.name \in cleared

\* A deployment is admitted under an audit log only with its success on
\* record, and then it says so.
AdmittedIsAudited ==
    pc = "done" /\ verdict.admitted /\ auditPath => verdict.audited /\ "success" \in audit

\* check_policy_detailed() judges license and lineage by an ML-BOM it read
\* itself, verify() checks another copy against the signature.  As long as that
\* file is left alone, whatever happens to the others, an admission under rules
\* that enforce both rests on a signature over an ML-BOM with a license.
Denies(r) == policy[r].enabled /\ policy[r].on_fail = "deny"
AdmittedIsLicensed ==
    verdict.admitted /\ ~swapped /\ Denies("require_ml_bom") /\ Denies("require_license") =>
        \E b \in Mboms : seen.envelope.mbom = b.id /\ b.license

\* The comments in scanning/runner.py and scanning/models.py: a scanner that
\* raised is told apart, by the policy engine too, from one that found
\* nothing.  An admission under a rule that denies on a count of findings
\* would then rest on a complete scan.
ErrorIsNotZeroFindings ==
    verdict.admitted /\ (\E r \in CountRules : Denies(r)) => seen.scanners_ok
=============================================================================
