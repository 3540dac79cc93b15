----------------------------- MODULE MCAdmission -----------------------------
(* Model-checking instances of Admission. *)
EXTENDS Admission

CONSTANTS a1, a2, a3, k1, k2, n1

\* A clean model, one with findings, and one that no trusted key signed.
MCArtifacts == {a1, a2, a3}
MCFindings == [a \in MCArtifacts |-> IF a = a2 THEN [critical |-> 1, high |-> 1] ELSE NoFindings]
MCMboms == {[id |-> 1, license |-> TRUE, lineage |-> TRUE],
            [id |-> 2, license |-> FALSE, lineage |-> FALSE]}

\* Genuine signatures with and without a name, a stranger's, a broken one.
MCEnvelopes ==
    {[artifact |-> a1, mbom |-> 1, valid |-> TRUE, key |-> k1, name |-> n1],
     [artifact |-> a2, mbom |-> 2, valid |-> TRUE, key |-> k1, name |-> None],
     [artifact |-> a3, mbom |-> 1, valid |-> TRUE, key |-> k2, name |-> n1],
     [artifact |-> a3, mbom |-> 1, valid |-> FALSE, key |-> k1, name |-> n1]}

MCTrustConfigs == {None, {k1}}

\* No rule, every rule denying, every rule warning, and a mixture.
Permissive == [r \in Rules |-> Disabled]
Strict == [r \in Rules |-> Rule("deny", 0)]
Warning == [r \in Rules |-> Rule("warn", 0)]
Mixed == [r \in Rules |-> IF r \in CountRules THEN Rule("quarantine", 1) ELSE Rule("review", 0)]
MCPolicies == {Permissive, Strict, Warning, Mixed}
=============================================================================
