SPECIFICATION DelegationSpec
CONSTANTS
    alice = alice
    bob = bob
    s1 = s1
    d1 = d1
    d2 = d2
    ka = ka
    kb = kb
    k1 = k1
    k2 = k2
    kg = kg
    z1 = z1
    NoRef = NoRef
    Addrs = {alice, bob}
    Schemas = {s1}
    Datas = {d1, d2}
    UIDs <- TwoClaims
    Expirations <- OnlyZero
    ValidFroms <- OnlyZero
    RevInputs <- OnlyZero
    SchemaViews <- OpenViews
    RateLimits <- NoLimits
    AdminOps = {"pause"}
    MaxTime = 1
    MaxBatch = 2
    NoKey = NoKey
    AnySchema = AnySchema
    AccountKey <- MCAccountKey
    Keys = {ka, kb}
    Delegators = {alice}
    RegKeys = {}
    GroupKeys = {}
    Scopes <- NoScopes
    Nullifiers = {z1}
    MaxNonce = 2
    MaxVersion = 0
INVARIANTS
    SpentOnce
    RefsAcyclic
PROPERTIES
    InvalidatedNeverSpent
    ImplementsCore
