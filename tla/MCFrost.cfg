SPECIFICATION DelegationSpec
CONSTANTS
    alice = alice
    bob = bob
    s1 = s1
    d1 = d1
    d2 = d2
    ka = ka
    kb = kb
    k1 = k1
    k2 = k2
    kg = kg
    z1 = z1
    NoRef = NoRef
    Addrs = {alice, bob}
    Schemas = {s1}
    Datas = {d1}
    UIDs <- OneClaim
    Expirations <- OnlyZero
    ValidFroms <- OnlyZero
    RevInputs <- OnlyZero
    SchemaViews <- OpenViews
    RateLimits <- NoLimits
    AdminOps = {}
    MaxTime = 1
    MaxBatch = 1
    NoKey = NoKey
    AnySchema = AnySchema
    AccountKey <- MCAccountKey
    Keys = {ka, kb, kg}
    Delegators = {}
    RegKeys = {}
    GroupKeys = {kg}
    Scopes <- SomeScopes
    Nullifiers = {}
    MaxNonce = 1
    MaxVersion = 0
PROPERTY GroupEndorsesDelegated
