\* One admission check while files are replaced and models revoked; one scan of a
\* directory with a subdirectory while files are replaced.
SPECIFICATION GateSpec
CONSTANTS
    None = None
    \* admission
    a1 = a1
    a2 = a2
    a3 = a3
    k1 = k1
    k2 = k2
    n1 = n1
    Artifacts <- MCArtifacts
    Mboms <- MCMboms
    Envelopes <- MCEnvelopes
    Policies <- MCPolicies
    TrustConfigs <- MCTrustConfigs
    Findings <- MCFindings
    MaxChanges = 2
    \* scan
    top = top
    sub = sub
    weights = weights
    readme = readme
    extra = extra
    Paths = {weights, readme, extra}
    Dirs <- MCDirs
    DirOf <- MCDirOf
    Pickles = {weights}
    Entries = {"plain", "secret", "pickle", "unreadable", "link"}
    FailOn = {"MEDIUM", "CRITICAL"}
    Metadata <- MCMetadata
    MaxEdits = 1
INVARIANTS
    AdmittedBytesWereSigned RevocationHonest AdmittedIsAudited AdmittedIsLicensed
    ZeroExitIsClean HashAndScanAgree
CHECK_DEADLOCK FALSE
