\* Two clients of the registry, or two processes of three releases that migrate.
SPECIFICATION FairDatabaseSpec
CONSTANTS
    \* registry: two clients register, revoke and unrevoke at once and fail anywhere
    Clients = {c1, c2}
    Names = {n1, n2}
    Digests = {d1}
    NoClient = NoClient
    MaxRegisters = 2
    MaxEvents = 2
    \* schema: two processes of three releases migrate, use the database and fail anywhere
    Processes = {c1, c2}
    Releases = {older, newer, edited}
    MIGRATIONS <- MCMigrations
    NoProcess = NoProcess
    None = None
    older = older
    newer = newer
    edited = edited
    sql1 = sql1
    sql2 = sql2
    sql3 = sql3
    sqlX = sqlX
    MaxMigrates = 3
    MaxRestarts = 2
INVARIANTS OutcomeIsTruthful ChainVerifies EventHashFresh RecordIsTrue OperatesOnShippedSchema
PROPERTIES
    RegistryContract SettledDigestStable UpgradesAreWhole NobodyWaitsForEver
