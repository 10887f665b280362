SPECIFICATION Spec
CONSTANTS
    alice = alice
    bob = bob
    carol = carol
    s1 = s1
    d1 = d1
    d2 = d2
    NoRef = NoRef
    Addrs <- MCAddrs
    Schemas = {s1}
    Datas = {d1, d2}
    UIDs <- TwoClaims
    Expirations <- OnlyZero
    ValidFroms <- SomeValidFroms
    RevInputs <- OnlyZero
    SchemaViews <- OpenViews
    RateLimits <- NoLimits
    AdminOps = {}
    MaxTime = 3
    MaxBatch = 1
PROPERTY ReplacementLeavesNoGap
