SPECIFICATION Spec
CONSTANTS
    alice = alice
    bob = bob
    carol = carol
    s1 = s1
    d1 = d1
    d2 = d2
    NoRef = NoRef
    Addrs <- MCAddrs
    Schemas = {s1}
    Datas = {d1}
    UIDs <- OneClaim
    Expirations <- OnlyZero
    ValidFroms <- OnlyZero
    RevInputs <- OnlyZero
    SchemaViews <- OpenViews
    RateLimits <- NoLimits
    AdminOps = {"fee"}
    MaxTime = 2
    MaxBatch = 1
PROPERTY UnpaidIssuanceRefused
