SPECIFICATION Spec
CONSTANTS
    alice = alice
    bob = bob
    carol = carol
    s1 = s1
    d1 = d1
    d2 = d2
    NoRef = NoRef
    Addrs <- MCAddrs
    Schemas = {s1}
    Datas = {d1, d2}
    UIDs <- TwoClaims
    Expirations <- SomeExpirations
    ValidFroms <- SomeValidFroms
    RevInputs <- OnlyZero
    SchemaViews <- ChangingViews
    RateLimits <- NoLimits
    AdminOps = {"pause", "prune"}
    MaxTime = 4
    MaxBatch = 1
SYMMETRY DataSymmetry
INVARIANTS
    AnchorsMatch
    EverValid
    SchemaRulesHold
PROPERTIES
    VerdictHistory
    RevokedFrozen
    DeprecationFreezes
