SPECIFICATION Spec
CONSTANTS
    Cases <- MCCases
    Requests = {r1, r2}
    MaxAudits = 2
    ChanSize = 1
    BatchSize = 2
CHECK_DEADLOCK FALSE
INVARIANTS
    TypeOK
    NoSinkLeftOpen
    ExitTells
    AsConfigured
PROPERTIES
    SinksUsed
    ModesIsolated
    ExitsAfterShutdown
