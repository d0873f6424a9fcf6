CONSTANTS
    k1 = k1
    k2 = k2
    NoKey = NoKey
    Policies <- TrustPolicies
    Width = 2
    Keys = {k1, k2}
    MaxRecords = 3
    MaxExports = 2
    MaxTampers = 1
SYMMETRY SymmetricKeys
SPECIFICATION Spec
INVARIANTS VerifiedIsLogged ExportVerifies AcceptedCoversNoRevoked
PROPERTY NothingTakenBack
CHECK_DEADLOCK FALSE
