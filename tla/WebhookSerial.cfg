SPECIFICATION Spec
CONSTANTS
    Lower <- mcLower
    Workspace <- mcWorkspace
    NoOwner = NoOwner
    Candidates <- mcCandidates
    Entities <- mcEntities
    MaxWrites = 4
    SerialWrites = TRUE
CHECK_DEADLOCK FALSE
INVARIANTS
    NoOverlap
    OnePerTier
    Deterministic
