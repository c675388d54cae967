CONSTANTS
    Agents <- MCAgents
    Ids = {e1, e2, e3, e4}
    Packs <- MCPacks
    AgentsOf <- MCAgentsOf
    PackSize <- MCPackSize
    Prints <- MCPrints
    Envs <- MCEnvs
    Buckets <- MCBuckets
    Configs <- AllConfigs
    DefaultPackInlineLimitBytes = 1
    InFlightAgents <- OneAgent
    Commands <- AllCommands
    FaultKinds <- AllFaults
    MaxFaults = 2
    None = None
    Nameless = Nameless
    Gone = Gone
    Vanished = Vanished
    both = both
    second = second
    plain = plain
    tuned = tuned
    envA = envA
    envB = envB
    b1 = b1
SYMMETRY IdSymmetry
SPECIFICATION Spec
INVARIANTS
    TypeOK
    RecordsOwnEngines
    StagedPackPresent
    AppliedMeansDeployed
    AbsenceConfirmed
    StatusDeployedMeansFound
PROPERTIES
    PartialApplyKeepsProgress
    SuccessfulApplyKeepsNames
    OrphansNeedTrouble
    DeletesOnlyRetired
    DestroyAttemptsAll
