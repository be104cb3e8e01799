SPECIFICATION Spec
CONSTANTS
    Names = {"c"}
    PolicyIDs = {"p"}
    MaxChanges = 2
    MaxFailures = 1
CHECK_DEADLOCK FALSE
INVARIANTS
    NoWakeupLost
