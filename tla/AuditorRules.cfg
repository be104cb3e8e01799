SPECIFICATION Spec
CONSTANTS
    Rules <- namesFirstRules
    APIResources <- mcAPIResources
    Objects <- mcObjects
    Limit = 1
    MaxChanges = 1
CHECK_DEADLOCK FALSE
INVARIANTS
    AuditsAllReadable
