-------------------------- MODULE AdmissionProofs --------------------------
(***************************************************************************)
(* TLAPS proofs about Admission, for any files, signatures, policies and   *)
(* trust configurations and any number of changes by others: what is       *)
(* admitted was signed by a trusted key, was not revoked throughout, has   *)
(* the license its rules demand and is on record.  And about Scanning, for *)
(* any artifact and any number of edits: exit code 0 misses nothing in the *)
(* files left alone, and hash and report speak of the same files.          *)
(***************************************************************************)
EXTENDS MCGate, TLAPS

-----------------------------------------------------------------------------
(* The policy engine.                                                      *)

Decisions == {"ALLOW", "ALLOW_WITH_WARNINGS", "REVIEW_REQUIRED", "QUARANTINE", "DENY", "REVOKED"}

\* Of several decisions there is a most severe one.
LEMMA MostSevere ==
    ASSUME NEW T \in SUBSET Decisions, T # {}
    PROVE  \E d \in T : \A e \in T : Severity(e) <= Severity(d)
BY DEF Decisions, Severity

\* A rule triggers a decision.
LEMMA TriggeredIsDecision ==
    ASSUME NEW p \in PolicyDocument, NEW rule \in Rules
    PROVE  /\ Triggered(rule, p) \in Decisions
           /\ rule = "reject_revoked_models" \/ p[rule].on_fail = "deny" =>
                Severity(Triggered(rule, p)) >= 4
<1>1. p[rule].on_fail \in RuleAction
  BY DEF PolicyDocument
<1> QED
  BY <1>1 DEF Triggered, ACTION_TO_DECISION, RuleAction, Decisions, Severity

\* The decisions evaluate() chooses from.
Triggers(ctx, p) ==
    {IF ctx.artifact_digest_matches = FALSE THEN "DENY" ELSE "ALLOW"}
        \cup {Triggered(rule, p) : rule \in failed_rules(ctx, p)}

\* evaluate() returns the most severe of them.
LEMMA EvaluateIsMostSevere ==
    ASSUME NEW p \in PolicyDocument, NEW ctx
    PROVE  /\ evaluate(ctx, p) \in Decisions
           /\ \A e \in Triggers(ctx, p) : Severity(e) <= Severity(evaluate(ctx, p))
<1>1. Triggers(ctx, p) \in SUBSET Decisions /\ Triggers(ctx, p) # {}
  <2>1. \A rule \in failed_rules(ctx, p) : Triggered(rule, p) \in Decisions
    BY TriggeredIsDecision DEF failed_rules
  <2> QED
    BY <2>1 DEF Triggers, Decisions
<1>2. \E d \in Triggers(ctx, p) : \A e \in Triggers(ctx, p) : Severity(e) <= Severity(d)
  BY <1>1, MostSevere
<1>3. evaluate(ctx, p) = CHOOSE d \in Triggers(ctx, p) :
                             \A e \in Triggers(ctx, p) : Severity(e) <= Severity(d)
  BY DEF Triggers, evaluate
<1> QED
  BY <1>1, <1>2, <1>3

\* evaluate() allows only what passes every enabled rule that denies.
LEMMA AllowedPasses ==
    ASSUME NEW p \in PolicyDocument, NEW ctx, is_allowed(evaluate(ctx, p)),
           NEW rule \in Rules, p[rule].enabled,
           rule = "reject_revoked_models" \/ p[rule].on_fail = "deny"
    PROVE  Passes(rule, ctx, p[rule])
<1>1. Severity(evaluate(ctx, p)) \in {0, 1}
  BY DEF is_allowed, Severity
<1>2. ASSUME ~Passes(rule, ctx, p[rule])
      PROVE  FALSE
  <2>1. Triggered(rule, p) \in Triggers(ctx, p)
    BY <1>2 DEF failed_rules, Triggers
  <2>2. Severity(Triggered(rule, p)) >= 4 /\ Severity(Triggered(rule, p)) \in Nat
    BY TriggeredIsDecision DEF Decisions, Severity
  <2>3. Severity(Triggered(rule, p)) <= Severity(evaluate(ctx, p))
    BY <2>1, EvaluateIsMostSevere
  <2> QED
    BY <1>1, <2>2, <2>3
<1> QED
  BY <1>2

\* What the three rules the theorems are about look at.
LEMMA PassesMeans ==
    ASSUME NEW ctx, NEW config
    PROVE  /\ Passes("require_ml_bom", ctx, config) = ctx.mbom_valid
           /\ Passes("require_license", ctx, config) = ctx.has_license
           /\ Passes("reject_revoked_models", ctx, config) = ~ctx.revoked
BY DEF Passes

-----------------------------------------------------------------------------
(* The inductive invariant.                                                *)

Pcs == {"start", "verifyMbom", "verifyEnvelope", "hash", "revocation", "envelope2", "scan",
        "evaluate", "finish", "done"}

SeenType ==
    [mbom0 : Mboms \cup {None}, mbom : Mboms \cup {None}, envelope : Envelopes \cup {None},
     hashed : Artifacts \cup {None}, revoked : BOOLEAN, revocation_checked : BOOLEAN,
     envelope2 : Envelopes \cup {None}, findings : [critical : Int, high : Int],
     scanners_ok : BOOLEAN]

VerdictType ==
    [admitted : BOOLEAN, decision : Decisions \cup {None}, subject : Names \cup {None},
     revocation_checked : BOOLEAN, audited : BOOLEAN]

TypeOK ==
    /\ artifact \in Artifacts /\ mbom \in Mboms /\ envelope \in Envelopes
    /\ revoked \in SUBSET Names
    /\ trust \in TrustConfigs /\ hasRegistry \in BOOLEAN
    /\ policy \in PolicyDocument /\ auditPath \in BOOLEAN
    /\ pc \in Pcs
    /\ seen \in SeenType
    /\ verdict \in VerdictType
    /\ audit \subseteq {"success", "failure"}
    /\ cleared \subseteq Names /\ swapped \in BOOLEAN
    /\ changes \in 0..MaxChanges

\* What the call has read when it has come so far.
Early == {"start", "verifyMbom", "verifyEnvelope", "hash", "revocation"}
ReadSoFar ==
    /\ pc \in Pcs \ {"start", "finish", "done"} => trust # None
    /\ pc \in Pcs \ {"start", "verifyMbom", "finish", "done"} => seen.mbom \in Mboms
    /\ pc \in Pcs \ {"start", "verifyMbom", "verifyEnvelope", "finish", "done"} =>
            seen.envelope \in Envelopes
    /\ pc \in {"scan", "evaluate"} => seen.envelope2 \in Envelopes
    /\ pc \in Early => ~seen.revocation_checked /\ ~seen.revoked

\* Both copies of an ML-BOM that was left alone are that ML-BOM.
SameMbom ==
    ~swapped =>
        /\ pc \in Pcs \ {"start", "finish", "done"} => seen.mbom0 = mbom
        /\ pc \in Pcs \ {"start", "verifyMbom", "finish", "done"} => seen.mbom = mbom

\* A name that was found not revoked was not, at that moment.
Cleared ==
    /\ Names \ revoked \subseteq cleared
    /\ seen.revocation_checked /\ ~seen.revoked => seen.envelope.name \in cleared

\* Nothing is admitted before the decision.
NotYet == pc \notin {"finish", "done"} => ~verdict.admitted

Inv ==
    /\ TypeOK /\ ReadSoFar /\ SameMbom /\ Cleared /\ NotYet
    /\ AdmittedBytesWereSigned /\ RevocationHonest /\ AdmittedIsAudited /\ AdmittedIsLicensed

-----------------------------------------------------------------------------
(* Steps.                                                                  *)

LEMMA InitInv ==
    ASSUME Init
    PROVE  Inv
<1>1. TypeOK
  <2>1. Nothing \in SeenType
    BY DEF Nothing, NoFindings, SeenType
  <2>2. Undecided \in VerdictType
    BY DEF Undecided, VerdictType
  <2>3. policy \in PolicyDocument /\ changes \in 0..MaxChanges
    BY PoliciesAssumption, ChangesAssumption DEF Init
  <2> QED
    BY <2>1, <2>2, <2>3 DEF Init, TypeOK, Pcs
<1>2. ReadSoFar /\ SameMbom /\ NotYet /\ Cleared
  BY DEF Init, Pcs, Early, ReadSoFar, SameMbom, NotYet, Cleared, Nothing, Undecided
<1>3. AdmittedBytesWereSigned /\ RevocationHonest /\ AdmittedIsAudited /\ AdmittedIsLicensed
  BY DEF Init, Undecided, AdmittedBytesWereSigned, RevocationHonest, AdmittedIsAudited,
         AdmittedIsLicensed
<1> QED
  BY <1>1, <1>2, <1>3 DEF Inv

\* A step of the check that only reads keeps the invariant if what it has
\* seen afterwards does.
LEMMA ReadInv ==
    ASSUME Inv, NEW from \in Pcs \ {"finish", "done"}, NEW to \in Pcs \ {"done"}, NEW s,
           Read(from, to, s), s \in SeenType, ReadSoFar', SameMbom', Cleared'
    PROVE  Inv'
<1>1. /\ UNCHANGED <<artifact, mbom, envelope, revoked, trust, hasRegistry, policy, auditPath,
                     verdict, audit, cleared, swapped, changes>>
      /\ pc = from /\ pc' = to /\ seen' = s
  BY DEF Read, Step, world, setup
<1>2. TypeOK'
  BY <1>1 DEF Inv, TypeOK
<1>3. ~verdict.admitted
  BY <1>1 DEF Inv, NotYet
<1> QED
  BY <1>1, <1>2, <1>3
  DEF Inv, NotYet, AdmittedBytesWereSigned, RevocationHonest, AdmittedIsAudited, AdmittedIsLicensed

\* One field of what was seen is set.
LEMMA SeenFields ==
    ASSUME NEW s \in SeenType
    PROVE  /\ \A b \in Mboms : [s EXCEPT !.mbom0 = b] \in SeenType
           /\ \A b \in Mboms : [s EXCEPT !.mbom = b] \in SeenType
           /\ \A e \in Envelopes : [s EXCEPT !.envelope = e] \in SeenType
           /\ \A a \in Artifacts \cup {None} : [s EXCEPT !.hashed = a] \in SeenType
           /\ \A e \in Envelopes : [s EXCEPT !.envelope2 = e] \in SeenType
BY DEF SeenType

LEMMA ReadMbomInv ==
    ASSUME Inv, ReadMbom
    PROVE  Inv'
<1> DEFINE s == [seen EXCEPT !.mbom0 = mbom]
<1>1. /\ Read("start", "verifyMbom", s) /\ trust # None
      /\ pc = "start" /\ pc' = "verifyMbom" /\ seen' = s
      /\ UNCHANGED <<mbom, revoked, trust, cleared, swapped>>
  BY DEF ReadMbom, Read, Step, world, setup
<1>2. seen \in SeenType /\ mbom \in Mboms
  BY DEF Inv, TypeOK
<1>3. s \in SeenType
  BY <1>2, SeenFields
<1>4. /\ s.mbom0 = mbom /\ s.envelope = seen.envelope
      /\ s.revocation_checked = seen.revocation_checked /\ s.revoked = seen.revoked
  BY <1>2 DEF SeenType
<1>5. ReadSoFar' /\ SameMbom' /\ Cleared'
  BY <1>1, <1>4 DEF Inv, ReadSoFar, SameMbom, Cleared, Pcs, Early
<1> QED
  BY <1>1, <1>3, <1>5, ReadInv DEF Pcs

LEMMA VerifyMbomInv ==
    ASSUME Inv, VerifyMbom
    PROVE  Inv'
<1> DEFINE s == [seen EXCEPT !.mbom = mbom]
<1>1. /\ Read("verifyMbom", "verifyEnvelope", s)
      /\ pc = "verifyMbom" /\ pc' = "verifyEnvelope" /\ seen' = s
      /\ UNCHANGED <<mbom, revoked, trust, cleared, swapped>>
  BY DEF VerifyMbom, Read, Step, world, setup
<1>2. seen \in SeenType /\ mbom \in Mboms
  BY DEF Inv, TypeOK
<1>3. s \in SeenType
  BY <1>2, SeenFields
<1>4. /\ s.mbom = mbom /\ s.mbom0 = seen.mbom0 /\ s.envelope = seen.envelope
      /\ s.revocation_checked = seen.revocation_checked /\ s.revoked = seen.revoked
  BY <1>2 DEF SeenType
<1>5. ReadSoFar' /\ SameMbom' /\ Cleared'
  BY <1>1, <1>2, <1>4 DEF Inv, ReadSoFar, SameMbom, Cleared, Pcs, Early
<1> QED
  BY <1>1, <1>3, <1>5, ReadInv DEF Pcs

LEMMA VerifyEnvelopeInv ==
    ASSUME Inv, VerifyEnvelope
    PROVE  Inv'
<1> DEFINE s == [seen EXCEPT !.envelope = envelope]
<1>1. /\ Read("verifyEnvelope", "hash", s)
      /\ pc = "verifyEnvelope" /\ pc' = "hash" /\ seen' = s
      /\ UNCHANGED <<mbom, revoked, trust, cleared, swapped>>
  BY DEF VerifyEnvelope, Read, Step, world, setup
<1>2. seen \in SeenType /\ envelope \in Envelopes
  BY DEF Inv, TypeOK
<1>3. s \in SeenType
  BY <1>2, SeenFields
<1>4. /\ s.envelope = envelope /\ s.mbom0 = seen.mbom0 /\ s.mbom = seen.mbom
      /\ s.revocation_checked = seen.revocation_checked /\ s.revoked = seen.revoked
  BY <1>2 DEF SeenType
<1>5. ReadSoFar' /\ SameMbom' /\ Cleared'
  BY <1>1, <1>2, <1>4 DEF Inv, ReadSoFar, SameMbom, Cleared, Pcs, Early
<1> QED
  BY <1>1, <1>3, <1>5, ReadInv DEF Pcs

LEMMA HashArtifactInv ==
    ASSUME Inv, HashArtifact
    PROVE  Inv'
<1> DEFINE s == [seen EXCEPT !.hashed = artifact]
<1>1. /\ Read("hash", "revocation", s)
      /\ pc = "hash" /\ pc' = "revocation" /\ seen' = s
      /\ UNCHANGED <<mbom, revoked, trust, cleared, swapped>>
  BY DEF HashArtifact, Read, Step, world, setup
<1>2. seen \in SeenType /\ artifact \in Artifacts
  BY DEF Inv, TypeOK
<1>3. s \in SeenType
  BY <1>2, SeenFields
<1>4. /\ s.hashed = artifact /\ s.mbom0 = seen.mbom0 /\ s.mbom = seen.mbom /\ s.envelope = seen.envelope
      /\ s.revocation_checked = seen.revocation_checked /\ s.revoked = seen.revoked
  BY <1>2 DEF SeenType
<1>5. ReadSoFar' /\ SameMbom' /\ Cleared'
  BY <1>1, <1>2, <1>4 DEF Inv, ReadSoFar, SameMbom, Cleared, Pcs, Early
<1> QED
  BY <1>1, <1>3, <1>5, ReadInv DEF Pcs

LEMMA HashFailsInv ==
    ASSUME Inv, HashFails
    PROVE  Inv'
<1> DEFINE s == [seen EXCEPT !.hashed = None]
<1>1. /\ Read("hash", "revocation", s)
      /\ pc = "hash" /\ pc' = "revocation" /\ seen' = s
      /\ UNCHANGED <<mbom, revoked, trust, cleared, swapped>>
  BY DEF HashFails, Read, Step, world, setup
<1>2. seen \in SeenType /\ None \in Artifacts \cup {None}
  BY DEF Inv, TypeOK
<1>3. s \in SeenType
  BY <1>2, SeenFields
<1>4. /\ s.hashed = None /\ s.mbom0 = seen.mbom0 /\ s.mbom = seen.mbom /\ s.envelope = seen.envelope
      /\ s.revocation_checked = seen.revocation_checked /\ s.revoked = seen.revoked
  BY <1>2 DEF SeenType
<1>5. ReadSoFar' /\ SameMbom' /\ Cleared'
  BY <1>1, <1>2, <1>4 DEF Inv, ReadSoFar, SameMbom, Cleared, Pcs, Early
<1> QED
  BY <1>1, <1>3, <1>5, ReadInv DEF Pcs

LEMMA ReadEnvelopeAgainInv ==
    ASSUME Inv, ReadEnvelopeAgain
    PROVE  Inv'
<1> DEFINE s == [seen EXCEPT !.envelope2 = envelope]
<1>1. /\ Read("envelope2", "scan", s)
      /\ pc = "envelope2" /\ pc' = "scan" /\ seen' = s
      /\ UNCHANGED <<mbom, revoked, trust, cleared, swapped>>
  BY DEF ReadEnvelopeAgain, Read, Step, world, setup
<1>2. seen \in SeenType /\ envelope \in Envelopes
  BY DEF Inv, TypeOK
<1>3. s \in SeenType
  BY <1>2, SeenFields
<1>4. /\ s.envelope2 = envelope /\ s.mbom0 = seen.mbom0 /\ s.mbom = seen.mbom /\ s.envelope = seen.envelope
      /\ s.revocation_checked = seen.revocation_checked /\ s.revoked = seen.revoked
  BY <1>2 DEF SeenType
<1>5. ReadSoFar' /\ SameMbom' /\ Cleared'
  BY <1>1, <1>2, <1>4 DEF Inv, ReadSoFar, SameMbom, Cleared, Pcs, Early
<1> QED
  BY <1>1, <1>3, <1>5, ReadInv DEF Pcs

LEMMA CheckRevocationInv ==
    ASSUME Inv, CheckRevocation
    PROVE  Inv'
<1>1. seen \in SeenType
  BY DEF Inv, TypeOK
<1>2. CASE ~(hasRegistry /\ seen.envelope.name # None)
  <2>1. /\ Read("revocation", "envelope2", seen)
        /\ pc = "revocation" /\ pc' = "envelope2" /\ seen' = seen
        /\ UNCHANGED <<mbom, revoked, trust, cleared, swapped>>
    BY <1>2 DEF CheckRevocation, Read, Step, world, setup
  <2>2. ReadSoFar' /\ SameMbom' /\ Cleared'
    BY <2>1 DEF Inv, ReadSoFar, SameMbom, Cleared, Pcs, Early
  <2> QED
    BY <1>1, <2>1, <2>2, ReadInv DEF Pcs
<1>3. CASE hasRegistry /\ seen.envelope.name # None
  <2> DEFINE name == seen.envelope.name
             t == [seen EXCEPT !.revocation_checked = TRUE]
             s == [t EXCEPT !.revoked = name \in revoked]
  <2>1. /\ Read("revocation", "envelope2", s)
        /\ pc = "revocation" /\ pc' = "envelope2" /\ seen' = s
        /\ UNCHANGED <<mbom, revoked, trust, cleared, swapped>>
    BY <1>3 DEF CheckRevocation, Read, Step, world, setup
  <2>2. t \in SeenType /\ t.mbom0 = seen.mbom0 /\ t.mbom = seen.mbom /\ t.envelope = seen.envelope
    BY <1>1 DEF SeenType
  <2>3. /\ s \in SeenType
        /\ s.mbom0 = seen.mbom0 /\ s.mbom = seen.mbom /\ s.envelope = seen.envelope
        /\ s.revoked <=> name \in revoked
    <3> HIDE DEF t
    <3>1. PICK b \in BOOLEAN : b <=> name \in revoked
      OBVIOUS
    <3>2. s = [t EXCEPT !.revoked = b]
      BY <3>1
    <3> QED
      BY <2>2, <3>1, <3>2 DEF SeenType
  <2>4. name \in Names
    <3>1. seen.envelope \in Envelopes
      BY <2>1 DEF Inv, ReadSoFar, Pcs
    <3> QED
      BY <1>3, <3>1 DEF Names
  <2>5. ReadSoFar' /\ SameMbom' /\ Cleared'
    <3> HIDE DEF s
    <3> QED
      BY <2>1, <2>3, <2>4 DEF Inv, ReadSoFar, SameMbom, Cleared, Pcs, Early
  <2> QED
    BY <2>1, <2>3, <2>5, ReadInv DEF Pcs
<1> QED
  BY <1>2, <1>3

LEMMA ScanInv ==
    ASSUME Inv, Scan
    PROVE  Inv'
<1>1. PICK ok \in BOOLEAN :
      \E f \in [critical : 0..Findings[artifact].critical, high : 0..Findings[artifact].high] :
          Read("scan", "evaluate", [seen EXCEPT !.scanners_ok = ok, !.findings = f])
  BY DEF Scan
<1>2. PICK f \in [critical : 0..Findings[artifact].critical, high : 0..Findings[artifact].high] :
          Read("scan", "evaluate", [seen EXCEPT !.scanners_ok = ok, !.findings = f])
  BY <1>1
<1> DEFINE t == [seen EXCEPT !.scanners_ok = ok]
           s == [t EXCEPT !.findings = f]
<1>3. /\ Read("scan", "evaluate", s)
      /\ pc = "scan" /\ pc' = "evaluate" /\ seen' = s
      /\ UNCHANGED <<mbom, revoked, trust, cleared, swapped>>
  BY <1>2 DEF Read, Step, world, setup
<1>4. seen \in SeenType /\ f \in [critical : Int, high : Int]
  BY DEF Inv, TypeOK
<1>5. /\ t \in SeenType /\ t.mbom0 = seen.mbom0 /\ t.mbom = seen.mbom /\ t.envelope = seen.envelope
      /\ t.envelope2 = seen.envelope2
      /\ t.revocation_checked = seen.revocation_checked /\ t.revoked = seen.revoked
  BY <1>4 DEF SeenType
<1>6. /\ s \in SeenType /\ s.mbom0 = seen.mbom0 /\ s.mbom = seen.mbom /\ s.envelope = seen.envelope
      /\ s.envelope2 = seen.envelope2
      /\ s.revocation_checked = seen.revocation_checked /\ s.revoked = seen.revoked
  <2> HIDE DEF t
  <2> QED
    BY <1>4, <1>5 DEF SeenType
<1>7. ReadSoFar' /\ SameMbom' /\ Cleared'
  <2> HIDE DEF s
  <2> QED
    BY <1>3, <1>6 DEF Inv, ReadSoFar, SameMbom, Cleared, Pcs, Early
<1> QED
  BY <1>3, <1>6, <1>7, ReadInv DEF Pcs

\* What an admission rests on: the bytes and the signer always, a rule that
\* denies when it is enabled.
LEMMA DecideAdmits ==
    ASSUME Inv, pc = "evaluate", is_allowed(evaluate(build_context, policy)),
           digest_matches, signer_trusted
    PROVE  /\ \E e \in Envelopes :
                e.valid /\ trust # None /\ e.key \in trust /\ e.artifact = seen.hashed
           /\ seen.revocation_checked /\ policy["reject_revoked_models"].enabled =>
                seen.envelope.name \in cleared
           /\ ~swapped /\ Denies("require_ml_bom") /\ Denies("require_license") =>
                \E b \in Mboms : seen.envelope.mbom = b.id /\ b.license
<1> DEFINE ctx == build_context
<1>1. policy \in PolicyDocument /\ seen.envelope \in Envelopes /\ trust # None
  BY DEF Inv, TypeOK, ReadSoFar, Pcs
<1>2. \E e \in Envelopes :
          e.valid /\ trust # None /\ e.key \in trust /\ e.artifact = seen.hashed
  BY <1>1 DEF digest_matches, signer_trusted, signature_valid
<1>3. ASSUME seen.revocation_checked, policy["reject_revoked_models"].enabled
      PROVE  seen.envelope.name \in cleared
  <2>1. Passes("reject_revoked_models", ctx, policy["reject_revoked_models"])
    BY <1>1, <1>3, AllowedPasses DEF Rules, BooleanRules
  <2>2. ~ctx.revoked
    BY <2>1, PassesMeans
  <2> QED
    BY <1>3, <2>2 DEF build_context, Inv, Cleared
<1>4. ASSUME ~swapped, Denies("require_ml_bom"), Denies("require_license")
      PROVE  \E b \in Mboms : seen.envelope.mbom = b.id /\ b.license
  <2>1. Passes("require_ml_bom", ctx, policy["require_ml_bom"])
    BY <1>1, <1>4, AllowedPasses DEF Rules, BooleanRules, Denies
  <2>2. Passes("require_license", ctx, policy["require_license"])
    BY <1>1, <1>4, AllowedPasses DEF Rules, BooleanRules, Denies
  <2>3. ctx.mbom_valid /\ ctx.has_license
    BY <2>1, <2>2, PassesMeans
  <2>4. seen.mbom.id = seen.envelope.mbom /\ seen.mbom0.license
    BY <2>3 DEF build_context, check_mbom_digest
  <2>5. seen.mbom = mbom /\ seen.mbom0 = mbom /\ mbom \in Mboms
    BY <1>4 DEF Inv, SameMbom, TypeOK, Pcs
  <2> QED
    BY <2>4, <2>5
<1> QED
  BY <1>2, <1>3, <1>4

LEMMA DecideInv ==
    ASSUME Inv, Decide
    PROVE  Inv'
<1>1. /\ pc = "evaluate" /\ pc' = "finish"
      /\ UNCHANGED <<artifact, mbom, envelope, revoked, trust, hasRegistry, policy, auditPath,
                     seen, audit, cleared, swapped, changes>>
  BY DEF Decide, Step, world, setup
<1> DEFINE decision == evaluate(build_context, policy)
           allowed == is_allowed(decision) /\ digest_matches /\ signer_trusted
<1>2. PICK d \in Decisions, a \in BOOLEAN, n \in Names \cup {None}, c \in BOOLEAN :
          /\ d = decision /\ (a <=> allowed) /\ n = seen.envelope2.name /\ c = seen.revocation_checked
          /\ verdict' = [verdict EXCEPT !.decision = d, !.admitted = a, !.subject = n,
                                        !.revocation_checked = c]
  <2>1. decision \in Decisions
    BY EvaluateIsMostSevere DEF Inv, TypeOK
  <2>2. seen.envelope2.name \in Names \cup {None} /\ seen.revocation_checked \in BOOLEAN
    BY <1>1 DEF Inv, TypeOK, ReadSoFar, SeenType, Names
  <2>3. allowed \in BOOLEAN
    OBVIOUS
  <2> QED
    BY <2>1, <2>2, <2>3 DEF Decide
<1>3. verdict' \in VerdictType /\ verdict'.admitted = a /\ verdict'.revocation_checked = c
  <2> DEFINE v1 == [verdict EXCEPT !.decision = d]
             v2 == [v1 EXCEPT !.admitted = a]
             v3 == [v2 EXCEPT !.subject = n]
  <2>1. v1 \in VerdictType
    BY DEF Inv, TypeOK, VerdictType
  <2>2. v2 \in VerdictType /\ v2.admitted = a
    <3> HIDE DEF v1
    <3> QED
      BY <2>1 DEF VerdictType
  <2>3. v3 \in VerdictType /\ v3.admitted = a
    <3> HIDE DEF v2
    <3> QED
      BY <2>2 DEF VerdictType
  <2>4. verdict' = [v3 EXCEPT !.revocation_checked = c]
    BY <1>2
  <2> HIDE DEF v3
  <2> QED
    BY <2>3, <2>4 DEF VerdictType
<1>4. TypeOK'
  BY <1>1, <1>3 DEF Inv, TypeOK, VerdictType, Pcs
<1>5. ReadSoFar' /\ SameMbom' /\ Cleared' /\ NotYet' /\ AdmittedIsAudited'
  BY <1>1 DEF Inv, ReadSoFar, SameMbom, Cleared, NotYet, AdmittedIsAudited, Early
<1>6. AdmittedBytesWereSigned' /\ RevocationHonest' /\ AdmittedIsLicensed'
  <2>1. CASE ~allowed
    BY <1>2, <1>3, <2>1 DEF AdmittedBytesWereSigned, RevocationHonest, AdmittedIsLicensed
  <2>2. CASE allowed
    <3>1. /\ \E e \in Envelopes :
                e.valid /\ trust # None /\ e.key \in trust /\ e.artifact = seen.hashed
          /\ seen.revocation_checked /\ policy["reject_revoked_models"].enabled =>
                seen.envelope.name \in cleared
          /\ ~swapped /\ Denies("require_ml_bom") /\ Denies("require_license") =>
                \E b \in Mboms : seen.envelope.mbom = b.id /\ b.license
      BY <1>1, <2>2, DecideAdmits
    <3> QED
      BY <1>1, <1>2, <1>3, <3>1
      DEF AdmittedBytesWereSigned, RevocationHonest, AdmittedIsLicensed, Denies
  <2> QED
    BY <2>1, <2>2
<1> QED
  BY <1>4, <1>5, <1>6 DEF Inv

\* Leaving the check early: the verdict stays what it was, not admitted.
LEMMA LeaveInv ==
    ASSUME Inv, NoTrustRoots \/ CheckRaises
    PROVE  Inv'
<1>1. /\ pc \notin {"finish", "done"} /\ pc' = "finish"
      /\ UNCHANGED <<artifact, mbom, envelope, revoked, trust, hasRegistry, policy, auditPath,
                     seen, verdict, audit, cleared, swapped, changes>>
  BY DEF NoTrustRoots, CheckRaises, Step, world, setup
<1>2. ~verdict.admitted
  BY <1>1 DEF Inv, NotYet
<1> QED
  BY <1>1, <1>2
  DEF Inv, TypeOK, Pcs, Early, ReadSoFar, SameMbom, Cleared, NotYet,
      AdmittedBytesWereSigned, RevocationHonest, AdmittedIsAudited, AdmittedIsLicensed

\* _finish() never turns a denial into an admission, and keeps one only with
\* its record.
LEMMA FinishInv ==
    ASSUME Inv, FinishUnaudited \/ FinishAudited \/ AuditFails
    PROVE  Inv'
<1>1. /\ pc = "finish" /\ pc' = "done"
      /\ UNCHANGED <<artifact, mbom, envelope, revoked, trust, hasRegistry, policy, auditPath,
                     seen, cleared, swapped, changes>>
  BY DEF FinishUnaudited, FinishAudited, AuditFails, Step, world, setup
<1>2. /\ verdict' \in VerdictType
      /\ verdict'.admitted => verdict.admitted
      /\ verdict'.revocation_checked = verdict.revocation_checked
      /\ audit' \subseteq {"success", "failure"}
      /\ verdict'.admitted /\ auditPath => verdict'.audited /\ "success" \in audit'
  <2>1. verdict \in VerdictType /\ audit \subseteq {"success", "failure"} /\ auditPath \in BOOLEAN
    BY DEF Inv, TypeOK, VerdictType
  <2>2. CASE FinishUnaudited
    BY <2>1, <2>2 DEF FinishUnaudited
  <2>3. CASE FinishAudited
    <3>1. verdict' = [verdict EXCEPT !.audited = TRUE]
      BY <2>3 DEF FinishAudited
    <3>2. /\ verdict' \in VerdictType /\ verdict'.admitted = verdict.admitted /\ verdict'.audited
          /\ verdict'.revocation_checked = verdict.revocation_checked
      BY <2>1, <3>1 DEF VerdictType
    <3> QED
      BY <2>1, <2>3, <3>2 DEF FinishAudited
  <2>4. CASE AuditFails
    <3> DEFINE v == [verdict EXCEPT !.admitted = FALSE]
    <3>1. verdict' = [v EXCEPT !.audited = FALSE]
      BY <2>4 DEF AuditFails
    <3>2. v \in VerdictType /\ ~v.admitted /\ v.revocation_checked = verdict.revocation_checked
      BY <2>1 DEF VerdictType
    <3>3. /\ verdict' \in VerdictType /\ ~verdict'.admitted
          /\ verdict'.revocation_checked = verdict.revocation_checked
      <4> HIDE DEF v
      <4> QED
        BY <3>1, <3>2 DEF VerdictType
    <3> QED
      BY <2>1, <2>4, <3>3 DEF AuditFails
  <2> QED
    BY <2>2, <2>3, <2>4
<1>3. TypeOK'
  BY <1>1, <1>2 DEF Inv, TypeOK, VerdictType, Pcs
<1>4. ReadSoFar' /\ SameMbom' /\ Cleared' /\ NotYet' /\ AdmittedIsAudited'
  BY <1>1, <1>2 DEF Inv, ReadSoFar, SameMbom, Cleared, NotYet, AdmittedIsAudited, Early
<1>5. AdmittedBytesWereSigned' /\ RevocationHonest' /\ AdmittedIsLicensed'
  BY <1>1, <1>2 DEF Inv, AdmittedBytesWereSigned, RevocationHonest, AdmittedIsLicensed, Denies
<1> QED
  BY <1>3, <1>4, <1>5 DEF Inv

\* Others replace files and revoke models.
LEMMA ChangeInv ==
    ASSUME Inv, ReplaceArtifact \/ ReplaceMbom \/ ReplaceEnvelope \/ ChangeRevocation
    PROVE  Inv'
<1>1. /\ UNCHANGED <<trust, hasRegistry, policy, auditPath, pc, seen, verdict, audit>>
      /\ changes' \in 0..MaxChanges
      /\ cleared \subseteq cleared' /\ (swapped => swapped') /\ (~swapped' => mbom' = mbom)
  <2>1. changes' \in 0..MaxChanges
    BY ChangesAssumption
    DEF ReplaceArtifact, ReplaceMbom, ReplaceEnvelope, ChangeRevocation, Change, Inv, TypeOK
  <2> QED
    BY <2>1 DEF ReplaceArtifact, ReplaceMbom, ReplaceEnvelope, ChangeRevocation, Change, setup
<1>2. /\ artifact' \in Artifacts /\ mbom' \in Mboms /\ envelope' \in Envelopes
      /\ revoked' \in SUBSET Names /\ cleared' \subseteq Names /\ swapped' \in BOOLEAN
      /\ Names \ revoked' \subseteq cleared'
  BY DEF ReplaceArtifact, ReplaceMbom, ReplaceEnvelope, ChangeRevocation, Inv, TypeOK, Cleared
<1>3. TypeOK'
  BY <1>1, <1>2 DEF Inv, TypeOK
<1>4. ReadSoFar' /\ SameMbom' /\ Cleared' /\ NotYet'
  BY <1>1, <1>2 DEF Inv, ReadSoFar, SameMbom, Cleared, NotYet
<1>5. AdmittedBytesWereSigned' /\ RevocationHonest' /\ AdmittedIsAudited' /\ AdmittedIsLicensed'
  BY <1>1 DEF Inv, AdmittedBytesWereSigned, RevocationHonest, AdmittedIsAudited,
              AdmittedIsLicensed, Denies
<1> QED
  BY <1>3, <1>4, <1>5 DEF Inv

\* The invariant: what the call has read, what it was told of it, and what it
\* will admit fit together at every step.
THEOREM Invariance == Spec => []Inv
<1>1. Init => Inv
  BY InitInv
<1>2. ASSUME Inv, [Next]_vars
      PROVE  Inv'
  <2>1. CASE UNCHANGED vars
    <3>1. UNCHANGED <<artifact, mbom, envelope, revoked, trust, hasRegistry, policy, auditPath,
                      pc, seen, verdict, audit, cleared, swapped, changes>>
      BY <2>1 DEF vars, world, setup
    <3> QED
      BY <1>2, <3>1
      DEF Inv, TypeOK, ReadSoFar, SameMbom, Cleared, NotYet, AdmittedBytesWereSigned,
          RevocationHonest, AdmittedIsAudited, AdmittedIsLicensed, Denies
  <2>2. CASE Next
    BY <1>2, <2>2, ReadMbomInv, VerifyMbomInv, VerifyEnvelopeInv, HashArtifactInv, HashFailsInv,
       CheckRevocationInv, ReadEnvelopeAgainInv, ScanInv, DecideInv, LeaveInv, FinishInv, ChangeInv
    DEF Next, Check
  <2> QED
    BY <1>2, <2>1, <2>2
<1> QED
  BY <1>1, <1>2, PTL DEF Spec

-----------------------------------------------------------------------------
(* What it gives.                                                          *)

\* admit() admits only bytes that a valid signature by a trusted key names,
\* whatever the policy and whatever is replaced while it runs.
THEOREM AdmissionNeedsSignature == Spec => []AdmittedBytesWereSigned
<1>1. Inv => AdmittedBytesWereSigned
  BY DEF Inv
<1> QED
  BY <1>1, Invariance, PTL

\* With revocation checked and enforced, the signed name of what is admitted
\* was not revoked at some moment of the call.
THEOREM AdmissionHonoursRevocation == Spec => []RevocationHonest
<1>1. Inv => RevocationHonest
  BY DEF Inv
<1> QED
  BY <1>1, Invariance, PTL

\* Under an audit log, nothing is admitted without its success on record.
THEOREM AdmissionIsOnRecord == Spec => []AdmittedIsAudited
<1>1. Inv => AdmittedIsAudited
  BY DEF Inv
<1> QED
  BY <1>1, Invariance, PTL

\* While the ML-BOM file is left alone, rules that deny without a valid ML-BOM
\* and without a license admit only under a signature over a licensed one.
THEOREM AdmissionNeedsLicense == Spec => []AdmittedIsLicensed
<1>1. Inv => AdmittedIsLicensed
  BY DEF Inv
<1> QED
  BY <1>1, Invariance, PTL
-----------------------------------------------------------------------------
(* The scan.  A file that others leave alone is told by what it holds; the *)
(* others may be anything, at any moment.                                  *)

Alone == Scanners!Untouched
Listed(p) == DirOf[p] \in listable /\ tree[p] # None
Regular(p) == DirOf[p] \in listable /\ tree[p] \in Scanners!Contents

\* The walk under way will still come to p.
Remains(p) ==
    p \in walk.files \/ walk.at = p \/ \E i \in DOMAIN walk.dirs : walk.dirs[i] = DirOf[p]

Walking == {"hash"} \cup Scanners!Readers

WalkInv ==
    /\ tree \in [Paths -> Entries \cup {None}]
    /\ scanPc \in {"start", "done"} \cup Walking \cup Scanners!Scanners
    /\ scanPc \notin Walking => walk = None
    /\ scanPc \in Walking => walk \in Walks
    /\ scanPc \in Walking => \A p \in Alone : /\ p \in walk.files => Listed(p)
                                              /\ walk.at = p => Regular(p)

\* The digest has what the files left alone hold, all that the walk has passed.
HashInv ==
    /\ \A p \in Alone, c \in Entries \cup {None} :
          <<p, c>> \in digest => Regular(p) /\ tree[p] = c
    /\ scanPc = "hash" => \A p \in Alone :
          Listed(p) => Remains(p) \/ (Regular(p) /\ <<p, tree[p]>> \in digest)
    /\ scanPc \in Scanners!Scanners \/ exit \in {0, 2} => \A p \in Alone :
          Listed(p) => Regular(p) /\ <<p, tree[p]>> \in digest

\* What is reported of them is what the scanners say of what they hold ...
FindingsInv ==
    \A f \in found \cup findings, p \in Alone : f.scanner \in Scanners!Readers /\ f.component = p =>
        Regular(p) /\ f \in Scanners!OfFile(f.scanner, p, tree[p])

\* ... and nothing of that is missing, unless the scanner raised.
CompleteInv ==
    /\ scanPc \in Scanners!Readers => \A p \in Alone :
          Regular(p) => Remains(p) \/ Scanners!OfFile(scanPc, p, tree[p]) \subseteq found
    /\ \A s \in Scanners!Readers : s \in DOMAIN statuses /\ statuses[s] = "ok" => \A p \in Alone :
          Regular(p) => Scanners!OfFile(s, p, tree[p]) \subseteq findings

\* Both scanners that read files have reported when the command exits with 0.
ExitInv ==
    /\ scanPc # "done" => exit = None
    /\ scanPc \in {"secrets", "metadata_completeness"} => "unsafe_serialization" \in DOMAIN statuses
    /\ scanPc = "metadata_completeness" => "secrets" \in DOMAIN statuses
    /\ exit = 0 => /\ Scanners!Readers \subseteq DOMAIN statuses
                   /\ Scanners!all_scanners_ok(statuses) /\ Scanners!blocking(findings) = {}

ScannerInv == WalkInv /\ HashInv /\ FindingsInv /\ CompleteInv /\ ExitInv

\* Where the files and the report are as before, so is what is said of them.
LEMMA NewWalkRemains ==
    ASSUME walk' = Scanners!NewWalk
    PROVE  /\ walk' \in Walks /\ walk'.files = {} /\ walk'.at = None
           /\ \A p \in Paths : Remains(p)'
<1>1. PICK w : w = Scanners!NewWalk
  OBVIOUS
<1>2. w.dirs = Dirs /\ w.files = {} /\ w.at = None
  BY <1>1 DEF Scanners!NewWalk
<1>3. w \in Walks
  BY <1>1, ArtifactAssumption DEF Scanners!NewWalk, Walks
<1>4. \A p \in Paths : \E i \in DOMAIN Dirs : Dirs[i] = DirOf[p]
  BY ArtifactAssumption DEF Directories
<1> QED
  BY <1>1, <1>2, <1>3, <1>4 DEF Remains

LEMMA ScanInitInv == Scanners!Init => ScannerInv
<1> SUFFICES ASSUME Scanners!Init PROVE ScannerInv
  OBVIOUS
<1>1. WalkInv
  BY DEF Scanners!Init, WalkInv, Walking, Scanners!Readers
<1>2. HashInv
  BY ArtifactAssumption DEF Scanners!Init, HashInv, Scanners!Scanners, Scanners!DEFAULT_SCANNERS
<1>3. FindingsInv
  BY DEF Scanners!Init, FindingsInv
<1>4. CompleteInv
  BY DEF Scanners!Init, CompleteInv, Scanners!Readers
<1>5. ExitInv
  BY ArtifactAssumption DEF Scanners!Init, ExitInv
<1> QED
  BY <1>1, <1>2, <1>3, <1>4, <1>5 DEF ScannerInv

LEMMA ScannerNames ==
    /\ Scanners!Scanners = {"unsafe_serialization", "secrets", "metadata_completeness"}
    /\ Scanners!Position("unsafe_serialization") = 1 /\ Scanners!Position("secrets") = 2
    /\ Scanners!Position("metadata_completeness") = 3
    /\ Scanners!DEFAULT_SCANNERS[1] = "unsafe_serialization"
    /\ Scanners!DEFAULT_SCANNERS[2] = "secrets"
    /\ Scanners!DEFAULT_SCANNERS[3] = "metadata_completeness"
    /\ Len(Scanners!DEFAULT_SCANNERS) = 3
<1>1. PICK D : D = Scanners!DEFAULT_SCANNERS
  OBVIOUS
<1>2. /\ DOMAIN D = {1, 2, 3} /\ Len(D) = 3
      /\ D[1] = "unsafe_serialization" /\ D[2] = "secrets" /\ D[3] = "metadata_completeness"
  BY <1>1 DEF Scanners!DEFAULT_SCANNERS
<1>3. \A i \in DOMAIN D : /\ D[i] = "unsafe_serialization" <=> i = 1
                          /\ D[i] = "secrets" <=> i = 2
                          /\ D[i] = "metadata_completeness" <=> i = 3
  BY <1>2
<1>4. Scanners!Position("unsafe_serialization") = 1
  BY <1>1, <1>2, <1>3 DEF Scanners!Position
<1>5. Scanners!Position("secrets") = 2
  BY <1>1, <1>2, <1>3 DEF Scanners!Position
<1>6. Scanners!Position("metadata_completeness") = 3
  BY <1>1, <1>2, <1>3 DEF Scanners!Position
<1>7. Scanners!Scanners = {"unsafe_serialization", "secrets", "metadata_completeness"}
  BY <1>1, <1>2 DEF Scanners!Scanners
<1> QED
  BY <1>1, <1>2, <1>4, <1>5, <1>6, <1>7

\* The command gives up: the files it has not reported on do not matter.
LEMMA ScanExitInv ==
    ASSUME ScannerInv, Scanners!Exit(1), scanPc \in {"start", "hash"}
    PROVE  ScannerInv'
<1>1. /\ scanPc' = "done" /\ exit' = 1 /\ walk' = None
      /\ UNCHANGED <<tree, listable, fail_on, digest, found, findings, statuses, touched>>
  BY DEF Scanners!Exit, Scanners!call, Scanners!report
<1>2. WalkInv'
  BY <1>1 DEF ScannerInv, WalkInv, Walking, Scanners!Readers
<1>3. HashInv'
  BY <1>1, ScannerNames
  DEF ScannerInv, HashInv, Alone, Scanners!Untouched, Listed, Regular, Scanners!Contents
<1>4. FindingsInv'
  BY <1>1 DEF ScannerInv, FindingsInv, Alone, Scanners!Untouched, Regular, Scanners!Contents
<1>5. CompleteInv'
  BY <1>1
  DEF ScannerInv, CompleteInv, Alone, Scanners!Untouched, Regular, Scanners!Contents,
      Scanners!Readers
<1>6. ExitInv'
  BY <1>1 DEF ExitInv
<1> QED
  BY <1>2, <1>3, <1>4, <1>5, <1>6 DEF ScannerInv

\* The walk that hashes the files begins, and the first scanner's.
LEMMA ScanStartInv ==
    ASSUME ScannerInv, Scanners!Start
    PROVE  ScannerInv'
<1>1. /\ scanPc = "start" /\ scanPc' = "hash" /\ walk' = Scanners!NewWalk
      /\ UNCHANGED <<tree, listable, fail_on, digest, found, findings, statuses, exit, touched>>
  BY DEF Scanners!Start, Scanners!call, Scanners!report
<1>2. /\ walk' \in Walks /\ walk'.files = {} /\ walk'.at = None
      /\ \A p \in Paths : Remains(p)'
  BY <1>1, NewWalkRemains
<1>3. WalkInv'
  BY <1>1, <1>2, ArtifactAssumption
  DEF ScannerInv, WalkInv, Walking, Alone, Scanners!Untouched
<1>4. HashInv'
  BY <1>1, <1>2, ScannerNames, ArtifactAssumption
  DEF ScannerInv, HashInv, ExitInv, Alone, Scanners!Untouched, Listed, Regular, Scanners!Contents
<1>5. FindingsInv'
  BY <1>1 DEF ScannerInv, FindingsInv, Alone, Scanners!Untouched, Regular, Scanners!Contents
<1>6. CompleteInv'
  BY <1>1
  DEF ScannerInv, CompleteInv, Alone, Scanners!Untouched, Regular, Scanners!Contents,
      Scanners!Readers
<1>7. ExitInv'
  BY <1>1, ArtifactAssumption DEF ScannerInv, ExitInv
<1> QED
  BY <1>3, <1>4, <1>5, <1>6, <1>7 DEF ScannerInv

LEMMA HashDoneInv ==
    ASSUME ScannerInv, Scanners!HashDone
    PROVE  ScannerInv'
<1>1. /\ scanPc = "hash" /\ scanPc' = "unsafe_serialization" /\ walk' = Scanners!NewWalk
      /\ walk.dirs = << >> /\ walk.files = {} /\ walk.at = None
      /\ UNCHANGED <<tree, listable, fail_on, digest, found, findings, statuses, exit, touched>>
  BY ScannerNames DEF Scanners!HashDone, Scanners!WalkDone, Scanners!call, Scanners!report
<1>2. /\ walk' \in Walks /\ walk'.files = {} /\ walk'.at = None
      /\ \A p \in Paths : Remains(p)'
  BY <1>1, NewWalkRemains
<1>3. \A p \in Paths : ~Remains(p)
  BY <1>1, ArtifactAssumption DEF Remains
<1>4. WalkInv'
  BY <1>1, <1>2, ArtifactAssumption, ScannerNames
  DEF ScannerInv, WalkInv, Walking, Alone, Scanners!Untouched, Scanners!Readers
<1>5. HashInv'
  BY <1>1, <1>3, ScannerNames
  DEF ScannerInv, HashInv, Alone, Scanners!Untouched, Listed, Regular, Scanners!Contents
<1>6. FindingsInv'
  BY <1>1 DEF ScannerInv, FindingsInv, Alone, Scanners!Untouched, Regular, Scanners!Contents
<1>7. CompleteInv'
  BY <1>1, <1>2
  DEF ScannerInv, CompleteInv, Alone, Scanners!Untouched, Regular, Scanners!Contents,
      Scanners!Readers
<1>8. ExitInv'
  BY <1>1, ArtifactAssumption DEF ScannerInv, ExitInv
<1> QED
  BY <1>4, <1>5, <1>6, <1>7, <1>8 DEF ScannerInv

\* A step of the walk that passes no file: what remained still does.
LEMMA WalkStepInv ==
    ASSUME ScannerInv, scanPc \in Walking, walk' \in Walks,
           UNCHANGED <<tree, listable, fail_on, scanPc, digest, found, findings, statuses, exit,
                       touched>>,
           \A p \in Alone : /\ p \in walk'.files => Listed(p)
                            /\ walk'.at = p => Regular(p)
                            /\ Listed(p) /\ Remains(p) => Remains(p)'
    PROVE  ScannerInv'
<1>1. Alone' = Alone /\ \A p : (Listed(p)' <=> Listed(p)) /\ (Regular(p)' <=> Regular(p))
  BY DEF Alone, Scanners!Untouched, Listed, Regular, Scanners!Contents
<1>2. \A p : Regular(p) => Listed(p)
  BY ArtifactAssumption DEF Regular, Listed, Scanners!Contents
<1>3. WalkInv'
  BY <1>1 DEF ScannerInv, WalkInv, Walking
<1>4. HashInv'
  BY <1>1 DEF ScannerInv, HashInv
<1>5. FindingsInv'
  BY <1>1 DEF ScannerInv, FindingsInv
<1>6. CompleteInv'
  BY <1>1, <1>2 DEF ScannerInv, CompleteInv
<1>7. ExitInv'
  BY DEF ScannerInv, ExitInv, Scanners!blocking
<1> QED
  BY <1>3, <1>4, <1>5, <1>6, <1>7 DEF ScannerInv

LEMMA ListDirectoryInv ==
    ASSUME ScannerInv, Scanners!ListDirectory
    PROVE  ScannerInv'
<1>1. /\ walk # None /\ walk.at = None /\ walk.files = {} /\ walk.dirs # << >>
      /\ UNCHANGED <<tree, listable, fail_on, scanPc, digest, found, findings, statuses, exit,
                     touched>>
  BY DEF Scanners!ListDirectory, Scanners!WalkIs, Scanners!call, Scanners!report
<1>2. scanPc \in Walking /\ walk \in Walks
  BY <1>1 DEF ScannerInv, WalkInv
<1>3. PICK d : d = Head(walk.dirs)
  OBVIOUS
<1>4. PICK files : files = {p \in Paths : DirOf[p] = d /\ d \in listable /\ tree[p] # None}
  OBVIOUS
<1>5. PICK w : w = [walk EXCEPT !.dirs = Tail(walk.dirs)]
  OBVIOUS
<1>6. w \in Walks /\ w.dirs = Tail(walk.dirs) /\ w.files = {} /\ w.at = None
  <2>1. PICK s \in Seq(Directories) : s = walk.dirs /\ s # << >>
    BY <1>1, <1>2 DEF Walks
  <2>2. PICK t : t = Tail(s)
    OBVIOUS
  <2>3. t \in Seq(Directories)
    BY <2>1, <2>2
  <2>4. w = [walk EXCEPT !.dirs = t]
    BY <1>5, <2>1, <2>2
  <2> QED
    BY <1>1, <1>2, <2>1, <2>2, <2>3, <2>4 DEF Walks
<1>7. walk' = [w EXCEPT !.files = files]
  BY <1>3, <1>4, <1>5 DEF Scanners!ListDirectory
<1>8. walk' \in Walks /\ walk'.dirs = w.dirs /\ walk'.files = files /\ walk'.at = None
  BY <1>4, <1>6, <1>7 DEF Walks
<1>9. ASSUME NEW p \in Alone, Listed(p), Remains(p)
      PROVE  Remains(p)'
  <2>1. p \in Paths /\ p # None
    BY <1>9, ArtifactAssumption DEF Alone, Scanners!Untouched
  <2>2. PICK i \in DOMAIN walk.dirs : walk.dirs[i] = DirOf[p]
    BY <1>1, <1>9, <2>1 DEF Remains
  <2>3. PICK s \in Seq(Directories) : s = walk.dirs
    BY <1>2 DEF Walks
  <2>4. CASE i = 1
    <3>1. DirOf[p] = d
      BY <1>3, <2>2, <2>3, <2>4
    <3> QED
      BY <1>4, <1>8, <1>9, <2>1, <3>1 DEF Remains, Listed
  <2>5. CASE i # 1
    <3>1. i - 1 \in DOMAIN Tail(s) /\ Tail(s)[i - 1] = DirOf[p]
      BY <1>1, <2>2, <2>3, <2>5
    <3> QED
      BY <1>6, <1>8, <2>3, <3>1 DEF Remains
  <2> QED
    BY <2>4, <2>5
<1>10. \A p \in Alone : p \in walk'.files => Listed(p)
  BY <1>4, <1>8 DEF Listed
<1>11. \A p \in Alone : walk'.at # p
  BY <1>8, ArtifactAssumption DEF Alone, Scanners!Untouched
<1> QED
  BY <1>1, <1>2, <1>8, <1>9, <1>10, <1>11, WalkStepInv

LEMMA PassCheckInv ==
    ASSUME ScannerInv, NEW q \in Paths, Scanners!PassCheck(q)
    PROVE  ScannerInv'
<1>1. /\ walk # None /\ walk.at = None /\ q \in walk.files /\ tree[q] # "link"
      /\ UNCHANGED <<tree, listable, fail_on, scanPc, digest, found, findings, statuses, exit,
                     touched>>
  BY DEF Scanners!PassCheck, Scanners!WalkIs, Scanners!call, Scanners!report
<1>2. scanPc \in Walking /\ walk \in Walks
  BY <1>1 DEF ScannerInv, WalkInv
<1>3. PICK w : w = [walk EXCEPT !.files = walk.files \ {q}]
  OBVIOUS
<1>4. w \in Walks /\ w.dirs = walk.dirs /\ w.files = walk.files \ {q} /\ w.at = None
  BY <1>1, <1>2, <1>3 DEF Walks
<1>5. walk' = [w EXCEPT !.at = q]
  BY <1>3 DEF Scanners!PassCheck
<1>6. walk' \in Walks /\ walk'.dirs = walk.dirs /\ walk'.files = walk.files \ {q} /\ walk'.at = q
  BY <1>4, <1>5 DEF Walks
<1>7. \A p \in Alone : p \in walk'.files => Listed(p)
  BY <1>2, <1>6 DEF ScannerInv, WalkInv
<1>8. q \in Alone => Regular(q)
  BY <1>1, <1>2 DEF ScannerInv, WalkInv, Listed, Regular, Scanners!Contents
<1>9. \A p \in Alone : Remains(p) => Remains(p)'
  BY <1>1, <1>6, ArtifactAssumption DEF Remains, Alone, Scanners!Untouched
<1> QED
  BY <1>1, <1>2, <1>6, <1>7, <1>8, <1>9, WalkStepInv

\* A file that is read: left alone, it is read as what it holds.
LEMMA FileIsRead ==
    ASSUME ScannerInv, scanPc \in Walking, walk.at # None,
           NEW content \in Scanners!Opened(walk.at), walk' = [walk EXCEPT !.at = None]
    PROVE  /\ walk' \in Walks /\ walk'.files = walk.files /\ walk'.at = None
           /\ walk.at \in Alone => Regular(walk.at) /\ content = tree[walk.at]
           /\ \A p \in Alone : Remains(p) /\ p # walk.at => Remains(p)'
<1>1. walk \in Walks
  BY DEF ScannerInv, WalkInv
<1>2. /\ walk' \in Walks /\ walk'.files = walk.files /\ walk'.at = None
      /\ walk'.dirs = walk.dirs
  BY <1>1 DEF Walks
<1>3. PICK q : q = walk.at
  OBVIOUS
<1>4. q \in Alone => Regular(q)
  BY <1>3 DEF ScannerInv, WalkInv
<1>5. Regular(q) => content = tree[q]
  BY <1>3 DEF Regular, Scanners!Contents, Scanners!Opened
<1> QED
  BY <1>2, <1>3, <1>4, <1>5 DEF Remains

LEMMA HashFileInv ==
    ASSUME ScannerInv, NEW content, Scanners!HashFile(content)
    PROVE  ScannerInv'
<1>1. /\ scanPc = "hash" /\ walk.at # None /\ content \in Scanners!Opened(walk.at)
      /\ digest' = digest \cup {<<walk.at, content>>}
      /\ walk' = [walk EXCEPT !.at = None]
      /\ UNCHANGED <<tree, listable, fail_on, scanPc, found, findings, statuses, exit, touched>>
  BY DEF Scanners!HashFile, Scanners!call, Scanners!report
<1>2. PICK q : q = walk.at
  OBVIOUS
<1>3. /\ walk' \in Walks /\ walk'.files = walk.files /\ walk'.at = None
      /\ q \in Alone => Regular(q) /\ content = tree[q]
      /\ \A p \in Alone : Remains(p) /\ p # q => Remains(p)'
  BY <1>1, <1>2, FileIsRead DEF Walking
<1>4. Alone' = Alone /\ \A p : (Listed(p)' <=> Listed(p)) /\ (Regular(p)' <=> Regular(p))
  BY <1>1 DEF Alone, Scanners!Untouched, Listed, Regular, Scanners!Contents
<1>5. WalkInv'
  BY <1>1, <1>3, <1>4, ArtifactAssumption
  DEF ScannerInv, WalkInv, Walking, Alone, Scanners!Untouched
<1>6. HashInv'
  <2>1. ASSUME NEW p \in Alone, NEW c \in Entries \cup {None}, <<p, c>> \in digest'
        PROVE  Regular(p) /\ tree[p] = c
    <3>1. CASE <<p, c>> \in digest
      BY <3>1 DEF ScannerInv, HashInv
    <3>2. CASE p = q /\ c = content
      BY <1>3, <2>1, <3>2
    <3> QED
      BY <1>1, <1>2, <2>1, <3>1, <3>2
  <2>2. ASSUME NEW p \in Alone, Listed(p)
        PROVE  Remains(p)' \/ (Regular(p) /\ <<p, tree[p]>> \in digest')
    <3>1. CASE p = q
      BY <1>1, <1>2, <1>3, <2>2, <3>1
    <3>2. CASE p # q
      BY <1>1, <1>3, <2>2, <3>2 DEF ScannerInv, HashInv
    <3> QED
      BY <3>1, <3>2
  <2>3. scanPc' \notin Scanners!Scanners /\ exit' \notin {0, 2}
    BY <1>1, ScannerNames, ArtifactAssumption DEF ScannerInv, ExitInv
  <2> QED
    BY <1>1, <1>4, <2>1, <2>2, <2>3 DEF HashInv
<1>7. FindingsInv'
  BY <1>1, <1>4 DEF ScannerInv, FindingsInv
<1>8. CompleteInv'
  BY <1>1, <1>4 DEF ScannerInv, CompleteInv, Scanners!Readers
<1>9. ExitInv'
  BY <1>1 DEF ScannerInv, ExitInv, Scanners!blocking
<1> QED
  BY <1>5, <1>6, <1>7, <1>8, <1>9 DEF ScannerInv

\* No symbolic link is left to skip: hashing would have refused it, unless it
\* was put there since.
LEMMA SkipLinkInv ==
    ASSUME ScannerInv, NEW q \in Paths, Scanners!SkipLink(q)
    PROVE  ScannerInv'
<1>1. /\ scanPc \in Scanners!Readers /\ walk # None /\ walk.at = None /\ q \in walk.files
      /\ tree[q] = "link"
      /\ found' = found \cup {Scanners!Finding(scanPc, q, "LOW")}
      /\ walk' = [walk EXCEPT !.files = walk.files \ {q}]
      /\ UNCHANGED <<tree, listable, fail_on, scanPc, digest, findings, statuses, exit, touched>>
  BY DEF Scanners!SkipLink, Scanners!WalkIs, Scanners!call, Scanners!report
<1>2. scanPc \in Walking /\ walk \in Walks
  BY <1>1 DEF ScannerInv, WalkInv, Walking
<1>3. /\ walk' \in Walks /\ walk'.files = walk.files \ {q} /\ walk'.at = None
      /\ walk'.dirs = walk.dirs
  BY <1>1, <1>2 DEF Walks
<1>4. q \notin Alone
  <2>1. SUFFICES ASSUME q \in Alone PROVE FALSE
    OBVIOUS
  <2>2. Listed(q)
    BY <1>1, <1>2, <2>1 DEF ScannerInv, WalkInv
  <2>3. scanPc \in Scanners!Scanners
    BY <1>1, ScannerNames DEF Scanners!Readers
  <2>4. Regular(q)
    BY <2>1, <2>2, <2>3 DEF ScannerInv, HashInv
  <2> QED
    BY <1>1, <2>4 DEF Regular, Scanners!Contents
<1>5. Alone' = Alone /\ \A p : (Listed(p)' <=> Listed(p)) /\ (Regular(p)' <=> Regular(p))
  BY <1>1 DEF Alone, Scanners!Untouched, Listed, Regular, Scanners!Contents
<1>6. \A p \in Alone : Remains(p) => Remains(p)'
  BY <1>1, <1>3, <1>4, ArtifactAssumption DEF Remains, Alone, Scanners!Untouched
<1>7. WalkInv'
  BY <1>1, <1>2, <1>3, <1>5, ArtifactAssumption
  DEF ScannerInv, WalkInv, Walking, Alone, Scanners!Untouched
<1>8. HashInv'
  BY <1>1, <1>5, <1>6 DEF ScannerInv, HashInv
<1>9. FindingsInv'
  <2>1. PICK f : f = Scanners!Finding(scanPc, q, "LOW")
    OBVIOUS
  <2>2. f.component = q
    BY <2>1 DEF Scanners!Finding
  <2>3. \A g \in found' \cup findings' : g = f \/ g \in found \cup findings
    BY <1>1, <2>1
  <2> QED
    BY <1>1, <1>4, <1>5, <2>2, <2>3 DEF ScannerInv, FindingsInv
<1>10. CompleteInv'
  BY <1>1, <1>5, <1>6 DEF ScannerInv, CompleteInv
<1>11. ExitInv'
  BY <1>1 DEF ScannerInv, ExitInv, Scanners!blocking
<1> QED
  BY <1>7, <1>8, <1>9, <1>10, <1>11 DEF ScannerInv

LEMMA ScanFileInv ==
    ASSUME ScannerInv, NEW content, Scanners!ScanFile(content)
    PROVE  ScannerInv'
<1>1. /\ scanPc \in Scanners!Readers /\ walk.at # None /\ content \in Scanners!Opened(walk.at)
      /\ found' = found \cup Scanners!OfFile(scanPc, walk.at, content)
      /\ walk' = [walk EXCEPT !.at = None]
      /\ UNCHANGED <<tree, listable, fail_on, scanPc, digest, findings, statuses, exit, touched>>
  BY DEF Scanners!ScanFile, Scanners!call, Scanners!report
<1>2. PICK q : q = walk.at
  OBVIOUS
<1>3. /\ walk' \in Walks /\ walk'.files = walk.files /\ walk'.at = None
      /\ q \in Alone => Regular(q) /\ content = tree[q]
      /\ \A p \in Alone : Remains(p) /\ p # q => Remains(p)'
  BY <1>1, <1>2, FileIsRead DEF Walking
<1>4. Alone' = Alone /\ \A p : (Listed(p)' <=> Listed(p)) /\ (Regular(p)' <=> Regular(p))
  BY <1>1 DEF Alone, Scanners!Untouched, Listed, Regular, Scanners!Contents
<1>5. WalkInv'
  BY <1>1, <1>3, <1>4, ArtifactAssumption
  DEF ScannerInv, WalkInv, Walking, Alone, Scanners!Untouched
<1>6. HashInv'
  <2>1. scanPc' # "hash"
    BY <1>1 DEF Scanners!Readers
  <2> QED
    BY <1>1, <1>4, <2>1 DEF ScannerInv, HashInv
<1>7. PICK news : news = Scanners!OfFile(scanPc, q, content)
  OBVIOUS
<1>8. FindingsInv'
  <2>1. \A f \in news : f.component = q /\ f.scanner = scanPc
    BY <1>7 DEF Scanners!OfFile, Scanners!Finding
  <2>2. \A f \in found' \cup findings' : f \in news \/ f \in found \cup findings
    BY <1>1, <1>2, <1>7
  <2>3. \A f \in news, p \in Alone : f.component = p =>
            Regular(p) /\ f \in Scanners!OfFile(f.scanner, p, tree[p])
    BY <1>3, <1>7, <2>1
  <2> QED
    BY <1>1, <1>4, <2>2, <2>3 DEF ScannerInv, FindingsInv
<1>9. CompleteInv'
  <2>1. ASSUME NEW p \in Alone, Regular(p)
        PROVE  Remains(p)' \/ Scanners!OfFile(scanPc, p, tree[p]) \subseteq found'
    <3>1. CASE p = q
      BY <1>1, <1>2, <1>3, <2>1, <3>1
    <3>2. CASE p # q
      BY <1>1, <1>3, <2>1, <3>2 DEF ScannerInv, CompleteInv
    <3> QED
      BY <3>1, <3>2
  <2> QED
    BY <1>1, <1>4, <2>1 DEF ScannerInv, CompleteInv
<1>10. ExitInv'
  BY <1>1 DEF ScannerInv, ExitInv, Scanners!blocking
<1> QED
  BY <1>5, <1>6, <1>8, <1>9, <1>10 DEF ScannerInv

\* A scanner has returned fs, all there is to say of the files left alone, or
\* it raised; the next one walks the artifact anew.
LEMMA NextScannerInv ==
    ASSUME ScannerInv, scanPc \in Scanners!Scanners, NEW fs, NEW status,
           Scanners!NextScanner(fs, status),
           \A f \in fs, p \in Alone : f.scanner \in Scanners!Readers /\ f.component = p =>
               Regular(p) /\ f \in Scanners!OfFile(f.scanner, p, tree[p]),
           scanPc \in Scanners!Readers /\ status = "ok" => \A p \in Alone :
               Regular(p) => Scanners!OfFile(scanPc, p, tree[p]) \subseteq fs
    PROVE  ScannerInv'
<1>1. PICK st : st = [s \in DOMAIN statuses \cup {scanPc} |->
                         IF s = scanPc THEN status ELSE statuses[s]]
  OBVIOUS
<1>2. /\ findings' = findings \cup fs /\ statuses' = st /\ found' = {}
      /\ UNCHANGED <<tree, listable, fail_on, digest, touched>>
  BY <1>1 DEF Scanners!NextScanner, Scanners!call
<1>3. PICK last \in BOOLEAN : last <=> scanPc = "metadata_completeness"
  OBVIOUS
<1>4. PICK next : next = IF scanPc = "unsafe_serialization" THEN "secrets"
                         ELSE IF scanPc = "secrets" THEN "metadata_completeness" ELSE "done"
  OBVIOUS
<1>5. /\ scanPc' = next
      /\ walk' = IF next \in Scanners!Readers THEN Scanners!NewWalk ELSE None
      /\ exit' = IF last THEN Scanners!ExitCode(findings', st) ELSE None
  <2>1. CASE scanPc = "unsafe_serialization"
    BY <1>1, <1>3, <1>4, <2>1, ScannerNames DEF Scanners!NextScanner
  <2>2. CASE scanPc = "secrets"
    BY <1>1, <1>3, <1>4, <2>2, ScannerNames DEF Scanners!NextScanner
  <2>3. CASE scanPc = "metadata_completeness"
    BY <1>1, <1>3, <1>4, <2>3, ScannerNames DEF Scanners!NextScanner
  <2> QED
    BY <2>1, <2>2, <2>3, ScannerNames
<1>6. Alone' = Alone /\ \A p : (Listed(p)' <=> Listed(p)) /\ (Regular(p)' <=> Regular(p))
  BY <1>2 DEF Alone, Scanners!Untouched, Listed, Regular, Scanners!Contents
<1>7. next \in Scanners!Readers =>
        /\ walk' \in Walks /\ walk'.files = {} /\ walk'.at = None
        /\ \A p \in Paths : Remains(p)'
  BY <1>5, NewWalkRemains
<1>8. next # "hash" /\ next \in {"done"} \cup Scanners!Scanners
  BY <1>4, ScannerNames
<1>9. WalkInv'
  <2>1. next \in Walking <=> next \in Scanners!Readers
    BY <1>8 DEF Walking
  <2>2. \A p \in Alone : p # None
    BY ArtifactAssumption DEF Alone, Scanners!Untouched
  <2> QED
    BY <1>2, <1>5, <1>6, <1>7, <1>8, <2>1, <2>2 DEF ScannerInv, WalkInv
<1>10. HashInv'
  BY <1>2, <1>5, <1>6, <1>8 DEF ScannerInv, HashInv
<1>11. FindingsInv'
  <2>1. \A f \in found' \cup findings' : f \in fs \/ f \in found \cup findings
    BY <1>2
  <2> QED
    BY <1>2, <1>6, <2>1 DEF ScannerInv, FindingsInv
<1>12. CompleteInv'
  <2>1. next \in Scanners!Readers => \A p \in Alone : Remains(p)'
    BY <1>7 DEF Alone, Scanners!Untouched
  <2>2. ASSUME NEW s \in Scanners!Readers, s \in DOMAIN st, st[s] = "ok",
               NEW p \in Alone, Regular(p)
        PROVE  Scanners!OfFile(s, p, tree[p]) \subseteq findings'
    <3>1. CASE s = scanPc
      BY <1>1, <1>2, <2>2, <3>1
    <3>2. CASE s # scanPc
      BY <1>1, <1>2, <2>2, <3>2 DEF ScannerInv, CompleteInv
    <3> QED
      BY <3>1, <3>2
  <2> QED
    BY <1>2, <1>5, <1>6, <2>1, <2>2 DEF CompleteInv
<1>13. ExitInv'
  <2>1. DOMAIN st = DOMAIN statuses \cup {scanPc}
    BY <1>1
  <2>2. CASE last
    <3>1. next = "done" /\ exit' = Scanners!ExitCode(findings', st)
      BY <1>3, <1>4, <1>5, <2>2
    <3>2. Scanners!Readers \subseteq DOMAIN st
      BY <1>3, <2>1, <2>2 DEF ScannerInv, ExitInv, Scanners!Readers
    <3>3. exit' = 0 => Scanners!all_scanners_ok(st) /\ Scanners!blocking(findings') = {}
      BY <3>1 DEF Scanners!ExitCode
    <3>4. Scanners!blocking(findings)' = Scanners!blocking(findings')
      BY <1>2 DEF Scanners!blocking
    <3> QED
      BY <1>2, <1>5, <3>1, <3>2, <3>3, <3>4 DEF ExitInv
  <2>3. CASE ~last
    <3>1. exit' = None /\ scanPc \in {"unsafe_serialization", "secrets"}
      BY <1>3, <1>5, <2>3, ScannerNames
    <3> QED
      BY <1>2, <1>4, <1>5, <2>1, <3>1, ArtifactAssumption DEF ScannerInv, ExitInv
  <2> QED
    BY <1>3, <2>2, <2>3
<1> QED
  BY <1>9, <1>10, <1>11, <1>12, <1>13 DEF ScannerInv

LEMMA ReportInv ==
    ASSUME ScannerInv,
           Scanners!WalkerReturns \/ Scanners!MetadataReturns \/ Scanners!ScannerRaises
    PROVE  ScannerInv'
<1>1. CASE Scanners!WalkerReturns
  <2>1. /\ scanPc \in Scanners!Readers /\ Scanners!NextScanner(found, "ok")
        /\ walk.dirs = << >> /\ walk.files = {} /\ walk.at = None
    BY <1>1 DEF Scanners!WalkerReturns, Scanners!WalkDone
  <2>2. \A p \in Alone : ~Remains(p)
    BY <2>1, ArtifactAssumption DEF Remains, Alone, Scanners!Untouched
  <2>3. \A p \in Alone : Regular(p) => Scanners!OfFile(scanPc, p, tree[p]) \subseteq found
    BY <2>1, <2>2 DEF ScannerInv, CompleteInv
  <2>4. \A f \in found, p \in Alone : f.scanner \in Scanners!Readers /\ f.component = p =>
            Regular(p) /\ f \in Scanners!OfFile(f.scanner, p, tree[p])
    BY DEF ScannerInv, FindingsInv
  <2>5. scanPc \in Scanners!Scanners
    BY <2>1, ScannerNames DEF Scanners!Readers
  <2> QED
    BY <2>1, <2>3, <2>4, <2>5, NextScannerInv
<1>2. CASE Scanners!MetadataReturns
  <2>1. PICK fs : fs = Scanners!metadata_completeness
    OBVIOUS
  <2>2. scanPc = "metadata_completeness" /\ Scanners!NextScanner(fs, "ok")
    BY <1>2, <2>1 DEF Scanners!MetadataReturns
  <2>3. \A f \in fs : f.scanner = "metadata_completeness"
    BY <2>1 DEF Scanners!metadata_completeness, Scanners!Finding
  <2>4. scanPc \in Scanners!Scanners /\ "metadata_completeness" \notin Scanners!Readers
    BY <2>2, ScannerNames DEF Scanners!Readers
  <2> QED
    BY <2>2, <2>3, <2>4, NextScannerInv
<1>3. CASE Scanners!ScannerRaises
  BY <1>3, NextScannerInv DEF Scanners!ScannerRaises
<1> QED
  BY <1>1, <1>2, <1>3

\* Others change a file: nothing more is promised of it.
LEMMA EditInv ==
    ASSUME ScannerInv, NEW q \in Paths, NEW entry \in Entries \cup {None}, Scanners!Edit(q, entry)
    PROVE  ScannerInv'
<1>1. /\ tree' = [tree EXCEPT ![q] = entry] /\ touched' = touched \cup {q} /\ scanPc # "done"
      /\ UNCHANGED <<listable, fail_on, scanPc, walk, digest, found, findings, statuses, exit>>
  BY DEF Scanners!Edit, Scanners!call, Scanners!report
<1>2. tree' \in [Paths -> Entries \cup {None}] /\ \A p \in Paths : p # q => tree'[p] = tree[p]
  BY <1>1 DEF ScannerInv, WalkInv
<1>3. \A p \in Alone' : /\ p \in Alone /\ tree'[p] = tree[p] /\ (Listed(p)' <=> Listed(p))
                        /\ (Regular(p)' <=> Regular(p)) /\ (Remains(p)' <=> Remains(p))
  BY <1>1, <1>2 DEF Alone, Scanners!Untouched, Listed, Regular, Remains, Scanners!Contents
<1>4. WalkInv'
  BY <1>1, <1>2, <1>3 DEF ScannerInv, WalkInv, Walking
<1>5. HashInv'
  BY <1>1, <1>3 DEF ScannerInv, HashInv
<1>6. FindingsInv'
  BY <1>1, <1>3 DEF ScannerInv, FindingsInv
<1>7. CompleteInv'
  BY <1>1, <1>3 DEF ScannerInv, CompleteInv
<1>8. ExitInv'
  BY <1>1 DEF ScannerInv, ExitInv, Scanners!blocking
<1> QED
  BY <1>4, <1>5, <1>6, <1>7, <1>8 DEF ScannerInv

LEMMA ScanStepInv ==
    ASSUME ScannerInv, [Scanners!Next]_scanVars
    PROVE  ScannerInv'
<1>1. CASE UNCHANGED scanVars
  <2>1. /\ Alone' = Alone /\ \A p : (Listed(p)' <=> Listed(p)) /\ (Regular(p)' <=> Regular(p))
        /\ \A p : Remains(p)' <=> Remains(p)
    BY <1>1 DEF scanVars, Alone, Scanners!Untouched, Listed, Regular, Remains, Scanners!Contents
  <2> QED
    BY <1>1, <2>1
    DEF scanVars, ScannerInv, WalkInv, HashInv, FindingsInv, CompleteInv, ExitInv,
        Scanners!blocking
<1>2. ASSUME Scanners!BadDocuments \/ (\E p \in Paths : Scanners!HashRefusesLink(p))
             \/ Scanners!HashFails \/ Scanners!HashEmpty
      PROVE  ScannerInv'
  BY <1>2, ScanExitInv
  DEF Scanners!BadDocuments, Scanners!HashRefusesLink, Scanners!HashFails, Scanners!HashEmpty
<1>3. CASE Scanners!Next
  BY <1>2, <1>3, ScanStartInv, ListDirectoryInv, PassCheckInv, SkipLinkInv, HashFileInv,
     ScanFileInv, HashDoneInv, ReportInv, EditInv
  DEF Scanners!Next
<1> QED
  BY <1>1, <1>3

\* The gate's specification keeps the invariant of its scan.
THEOREM ScanInvariance == GateSpec => [](part = "scan" => ScannerInv)
<1>1. GateInit => (part = "scan" => ScannerInv)
  BY ScanInitInv DEF GateInit
<1>2. (part = "scan" => ScannerInv) /\ [GateNext]_<<part, admissionVars, scanVars>>
        => (part = "scan" => ScannerInv)'
  <2> SUFFICES ASSUME part = "scan" => ScannerInv, [GateNext]_<<part, admissionVars, scanVars>>,
                      part' = "scan"
               PROVE  ScannerInv'
    OBVIOUS
  <2>1. part = "scan" /\ [Scanners!Next]_scanVars
    BY DEF GateNext
  <2> QED
    BY <2>1, ScanStepInv
<1> QED
  BY <1>1, <1>2, PTL DEF GateSpec

\* `modelguard scan` exits with 0 only if no scanner that reads files has
\* anything to report, at or above --fail-on, about a file that is part of the
\* digest and was left alone: a scanner that raises never passes for one that
\* found nothing.
THEOREM ScansAreNeverSilent == GateSpec => []ZeroExitIsClean
<1>1. ScannerInv => Scanners!ZeroExitIsClean
  <2> SUFFICES ASSUME ScannerInv, exit = 0, NEW p \in Alone, NEW s \in Scanners!Readers,
                      <<p, tree[p]>> \in digest
               PROVE  Scanners!blocking(Scanners!OfFile(s, p, tree[p])) = {}
    BY DEF Scanners!ZeroExitIsClean, Alone
  <2>1. s \in DOMAIN statuses /\ statuses[s] = "ok" /\ Scanners!blocking(findings) = {}
    BY DEF ScannerInv, ExitInv, Scanners!all_scanners_ok
  <2>2. tree[p] \in Entries \cup {None}
    BY DEF ScannerInv, WalkInv, Alone, Scanners!Untouched
  <2>3. Regular(p)
    BY <2>2 DEF ScannerInv, HashInv
  <2>4. Scanners!OfFile(s, p, tree[p]) \subseteq findings
    BY <2>1, <2>3 DEF ScannerInv, CompleteInv
  <2> QED
    BY <2>1, <2>4 DEF Scanners!blocking
<1> QED
  BY <1>1, ScanInvariance, PTL DEF ZeroExitIsClean

\* The report speaks of the artifact that was hashed, though hashing and each
\* scanner walk it anew while others change it.
THEOREM ScansReportWhatWasHashed == GateSpec => []HashAndScanAgree
<1>1. ScannerInv => Scanners!HashAndScanAgree
  <2> SUFFICES ASSUME ScannerInv, exit \in {0, 2}, NEW p \in Alone
               PROVE  /\ \A c \in Scanners!Contents :
                           <<p, c>> \in digest <=> DirOf[p] \in listable /\ tree[p] = c
                      /\ \A f \in findings : f.scanner \in Scanners!Readers /\ f.component = p =>
                           /\ <<p, tree[p]>> \in digest
                           /\ f \in Scanners!OfFile(f.scanner, p, tree[p])
    BY DEF Scanners!HashAndScanAgree, Scanners!Reported, Alone
  <2>1. Regular(p) => Listed(p)
    BY ArtifactAssumption DEF Regular, Listed, Scanners!Contents
  <2>2. Listed(p) => <<p, tree[p]>> \in digest
    BY DEF ScannerInv, HashInv
  <2>3. \A c \in Scanners!Contents : DirOf[p] \in listable /\ tree[p] = c => Regular(p)
    BY DEF Regular
  <2>4. \A c \in Scanners!Contents : <<p, c>> \in digest => DirOf[p] \in listable /\ tree[p] = c
    BY DEF ScannerInv, HashInv, Regular, Scanners!Contents
  <2> QED
    BY <2>1, <2>2, <2>3, <2>4 DEF ScannerInv, FindingsInv
<1> QED
  BY <1>1, ScanInvariance, PTL DEF HashAndScanAgree
=============================================================================
