\* The claim that a scanner that raised is told apart from one that found nothing.
SPECIFICATION Spec
CONSTANTS
    None = None
    a1 = a1
    a2 = a2
    a3 = a3
    k1 = k1
    k2 = k2
    n1 = n1
    Artifacts <- MCArtifacts
    Mboms <- MCMboms
    Envelopes <- MCEnvelopes
    Policies <- MCPolicies
    TrustConfigs <- MCTrustConfigs
    Findings <- MCFindings
    MaxChanges = 0
INVARIANTS ErrorIsNotZeroFindings
CHECK_DEADLOCK FALSE
