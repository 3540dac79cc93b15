------------------------------- MODULE Policy -------------------------------
(***************************************************************************)
(* Policy evaluation (policy/engine.py, policy/models.py): the facts of a  *)
(* verification and a scan against a policy document, giving the most      *)
(* severe decision that any enabled rule triggers.                         *)
(***************************************************************************)
EXTENDS Integers

CONSTANT None       \* "not evaluated", "not configured"

BooleanRules == {"require_valid_signature", "require_trusted_signer", "require_ml_bom",
                 "require_known_lineage", "require_license", "reject_revoked_models"}
CountRules == {"max_critical_findings", "max_high_findings"}
Rules == BooleanRules \cup CountRules

RuleAction == {"warn", "review", "quarantine", "deny"}

\* A policy document: the configuration of each rule it names.  An absent
\* rule and one with enabled: false are the same to the engine.
Disabled == [enabled |-> FALSE, on_fail |-> "deny", max_count |-> 0]
Rule(on_fail, max_count) == [enabled |-> TRUE, on_fail |-> on_fail, max_count |-> max_count]
PolicyDocument == [Rules -> [enabled : BOOLEAN, on_fail : RuleAction, max_count : Int]]

\* Decision and its _SEVERITY.
Severity(decision) ==
    CASE decision = "ALLOW" -> 0
      [] decision = "ALLOW_WITH_WARNINGS" -> 1
      [] decision = "REVIEW_REQUIRED" -> 2
      [] decision = "QUARANTINE" -> 3
      [] decision = "DENY" -> 4
      [] decision = "REVOKED" -> 5

is_allowed(decision) == decision \in {"ALLOW", "ALLOW_WITH_WARNINGS"}

ACTION_TO_DECISION ==
    [warn |-> "ALLOW_WITH_WARNINGS", review |-> "REVIEW_REQUIRED",
     quarantine |-> "QUARANTINE", deny |-> "DENY"]

\* The _check_* functions.
Passes(rule, ctx, config) ==
    CASE rule = "require_valid_signature" -> ctx.signature_valid
      [] rule = "require_trusted_signer" -> ctx.signer_trusted = TRUE
      [] rule = "require_ml_bom" -> ctx.mbom_valid
      [] rule = "require_known_lineage" -> ctx.has_declared_lineage
      [] rule = "require_license" -> ctx.has_license
      [] rule = "reject_revoked_models" -> ~ctx.revoked
      [] rule = "max_critical_findings" ->
            ctx.scan_performed /\ ctx.critical_finding_count <= config.max_count
      [] rule = "max_high_findings" ->
            ctx.scan_performed /\ ctx.high_finding_count <= config.max_count

failed_rules(ctx, policy) ==
    {rule \in Rules : policy[rule].enabled /\ ~Passes(rule, ctx, policy[rule])}

Triggered_ConfiguredAction(rule, policy) == ACTION_TO_DECISION[policy[rule].on_fail]
Triggered(rule, policy) ==
    IF rule = "reject_revoked_models" THEN "REVOKED" ELSE ACTION_TO_DECISION[policy[rule].on_fail]

\* evaluate(): start from ALLOW, or from DENY behind the integrity gate, and
\* take the most severe decision triggered.
evaluate(ctx, policy) ==
    LET gate == IF ctx.artifact_digest_matches = FALSE THEN "DENY" ELSE "ALLOW"
        triggered == {gate} \cup {Triggered(rule, policy) : rule \in failed_rules(ctx, policy)}
    IN  CHOOSE d \in triggered : \A e \in triggered : Severity(e) <= Severity(d)
=============================================================================
