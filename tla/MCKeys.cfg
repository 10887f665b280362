SPECIFICATION DelegationSpec
CONSTANTS
    alice = alice
    bob = bob
    s1 = s1
    d1 = d1
    d2 = d2
    ka = ka
    kb = kb
    k1 = k1
    k2 = k2
    kg = kg
    z1 = z1
    NoRef = NoRef
    Addrs = {alice, bob}
    Schemas = {s1}
    Datas = {d1}
    UIDs <- OneClaim
    Expirations <- OnlyZero
    ValidFroms <- OnlyZero
    RevInputs <- SomeRevInputs
    SchemaViews <- OpenViews
    RateLimits <- NoLimits
    AdminOps = {"fee"}
    MaxTime = 2
    MaxBatch = 1
    NoKey = NoKey
    AnySchema = AnySchema
    AccountKey <- MCAccountKey
    Keys = {ka, kb, k1, k2, kg}
    Delegators = {alice}
    RegKeys = {k1, k2}
    GroupKeys = {kg}
    Scopes <- SomeScopes
    Nullifiers = {}
    MaxNonce = 1
    MaxVersion = 2
PROPERTIES
    RetiredKeysRefused
