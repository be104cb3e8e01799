SPECIFICATION Spec
CONSTANTS
    Lower <- mcLower
    Workspace <- mcWorkspace
    NoOwner = NoOwner
    Candidates <- mcCandidates
    Entities <- mcEntities
    MaxWrites = 3
    SerialWrites = FALSE
CHECK_DEADLOCK FALSE
INVARIANTS
    NoOverlap
