CONSTANTS
    Agents <- MCAgents
    Ids = {e1, e2, e3, e4}
    Packs <- MCPacks
    AgentsOf <- MCAgentsOf
    PackSize <- MCPackSize
    Prints <- MCPrints
    Envs <- MCEnvs
    Buckets <- MCBuckets
    Configs <- OneConfig
    DefaultPackInlineLimitBytes = 1
    InFlightAgents <- NoAgents
    Commands <- ChangingCommands
    FaultKinds <- CallbackFaults
    MaxFaults = 1
    None = None
    Nameless = Nameless
    Gone = Gone
    Vanished = Vanished
    both = both
    second = second
    plain = plain
    tuned = tuned
    envA = envA
    envB = envB
    b1 = b1
SYMMETRY IdSymmetry
SPECIFICATION Spec
PROPERTIES
    DestroyedMeansGone
