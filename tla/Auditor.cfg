SPECIFICATION FairSpec
CONSTANTS
    Rules <- mcRules
    APIResources <- mcAPIResources
    Objects <- mcObjects
    Limit = 1
    MaxChanges = 1
CHECK_DEADLOCK FALSE
INVARIANTS
    TypeOK
    Exact
    AuditsAllReadable
PROPERTIES
    AuditsProceed
    StopsOnShutdown
