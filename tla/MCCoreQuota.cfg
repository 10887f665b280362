SPECIFICATION Spec
CONSTANTS
    alice = alice
    bob = bob
    carol = carol
    s1 = s1
    d1 = d1
    d2 = d2
    NoRef = NoRef
    Addrs <- ThreeAddrs
    Schemas = {s1}
    Datas = {d1, d2}
    UIDs <- ThreeClaims
    Expirations <- OnlyZero
    ValidFroms <- OnlyZero
    RevInputs <- OnlyZero
    SchemaViews <- IrrevocableViews
    RateLimits <- SomeLimits
    AdminOps = {"rate", "exempt", "fee"}
    MaxTime = 3
    MaxBatch = 2
INVARIANTS
    RateBound
