SPECIFICATION Spec
CONSTANTS
    Nil = Nil
    EmptyMap = EmptyMap
    Lookup <- mcLookup
    Encodable <- mcEncodable
    Pool <- mcPool
    Namespaces = {"team", "kube-system"}
    Documents <- mcDocuments
    MaxChanges = 2
CHECK_DEADLOCK FALSE
INVARIANTS
    TypeOK
    EnforcedHolds
    DeniedForCause
    MutationFootprint
