SPECIFICATION FairSpec
CONSTANTS
    Names = {"c", "d"}
    PolicyIDs = {"p", "q"}
    MaxChanges = 3
    MaxFailures = 1
CHECK_DEADLOCK FALSE
INVARIANTS
    TypeOK
    QuietAccurate
PROPERTIES
    StatusConverges
