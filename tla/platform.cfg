SPECIFICATION PlatformSpec
CONSTANTS
    p1 = p1
    p2 = p2
    p3 = p3
    r1 = r1
    r2 = r2
    k1 = k1
    k2 = k2
    v1 = v1
    v2 = v2
    None = None
    Writers <- ThreeActors
    Quota = 3
    Sizes = {1, 2}
    MaxFaults = 1
    Faults = {"failure", "crash", "slow"}
    Calls <- TwoActors
    Providers <- TwoProviders
    Cloud <- OneProvider
    Users <- OneRow
    OrganizationLimit = 2
    ProviderLimit = 1
    UserLimit = 1
    MutationLimit = 1
    Window = 1
    MaxTime = 1
    MaxCalls = 3
    ToolCalls <- TwoKeys
    Unpersisted <- OneKey
    MaxScript = 5
    Queues <- OneRow
    Keys <- OneKey
    JobKeys <- OneKey
    Nothing = Nothing
    Limits = {1, 2}
    MaxJobs = 2
    MaxSequence = 2
    Callers <- TwoActors
    MaxDrawn = 5
    MaxReopened = 3
    MaxThreads = 1
    Pupils <- TwoActors
    Plans <- TwoRows
    Units <- TwoKeys
    Tests <- OneRow
    Items <- TwoKeys
    Free <- OneKey
    MaxLog = 2
    Requests <- TwoActors
    People <- TwoKeys
    Founder = k1
    Invitations <- TwoRows
    Codes <- OneKey
    Documents <- TwoRows
    Files <- TwoKeys
    Profiles = {"one", "two"}
    MaxBlobs = 2
    MaxVersions = 2
    MaxInstalled = 3
    MaxEdits = 1
SYMMETRY Symmetry
INVARIANTS
    AccountKept
    BudgetKept
    TurnHonest
    AccessKept
    VersionsLinked
    OneEnabled
    ReplaysAlike
    PortsKept
PROPERTIES
    ContractKept
CHECK_DEADLOCK FALSE
