CONSTANTS
    Agents <- MCAgents
    Ids = {e1, e2, e3, e4}
    Packs <- MCPacks
    AgentsOf <- MCAgentsOf
    PackSize <- MCPackSize
    Prints <- MCPrints
    Envs <- MCEnvs
    Buckets <- MCBuckets
    Configs <- GoodConfigs
    DefaultPackInlineLimitBytes = 1
    InFlightAgents <- NoAgents
    Commands <- ChangingCommands
    FaultKinds <- RecoverableFaults
    MaxFaults = 1
    None = None
    Nameless = Nameless
    Gone = Gone
    Vanished = Vanished
    both = both
    second = second
    plain = plain
    tuned = tuned
    envA = envA
    envB = envB
    b1 = b1
SPECIFICATION FairSpec
PROPERTIES
    ReapplyingConverges
    DestroyingConverges
    DestroyedMeansGone
    ImplementsContract
