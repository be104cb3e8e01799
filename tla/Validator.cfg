SPECIFICATION FairSpec
CONSTANTS
    Nil = Nil
    EmptyMap = EmptyMap
    Lookup <- mcLookup
    Encodable <- mcEncodable
    Pool <- mcPool
    Configs <- mcConfigs
    Entities <- mcEntities
    Manifest <- mcManifest
    MaxPolicies = 3
    MaxWorkers = 2
    Sinks = 2
    WriteCompliance = TRUE
INVARIANTS
    TypeOK
    NoPanic
    SendNeverBlocks
    WorkerLimit
    ResultComplete
    SinksServed
    MutationOutcome
PROPERTIES
    ImplementsSpec
    Termination
