SPECIFICATION PartsSpec
CONSTANTS
    adm = adm
    cre = cre
    att = att
    xlm = xlm
    Unset = Unset
    Self = Self
    Parties = {adm, cre, att}
    Roles = {adm, cre}
    FeeTokens = {xlm, usd}
    PaidSchemas = {s1}
    Claims <- TwoClaims
    Funds = 5
    FeeAmounts = {2}
    Rates = {0, 1}
    Bps = {5000}
    MaxVersion = 2
    MaxChanges = 3
    Destinations = {Self, att}
    Amounts = {2}
    alice = alice
    bob = bob
    carol = carol
    s1 = s1
    s2 = s2
    s3 = s3
    kyc = kyc
    v1 = v1
    k1 = k1
    k2 = k2
    usd = usd
    r1 = r1
    sA = sA
    sB = sB
    pf = pf
    n1 = n1
    n2 = n2
    c1 = c1
    t1 = t1
    None = None
    NoOne = NoOne
    Absent = Absent
    Addrs = {alice, bob, carol}
    Schemas = {s1, s2, s3}
    Revocable = {s1}
    Extends <- Appends
    Categories = {kyc}
    Values = {v1}
    Ttls = {0, 5}
    Royalties = {5000, 5001}
    Expiries = {0, 2}
    Thresholds = {0, 1, 2, 3}
    MAX_OWNER_SET = 3
    MAX_SCHEMA_LINEAGE_DEPTH = 1
    MAX_SCHEMA_HISTORY_DEPTH = 2
    MAX_SCAN_BUDGET = 1
    MAX_SCHEMA_BATCH_SIZE = 2
    MAX_KNOWN_VERSION = 2
    Groups <- SomeGroups
    MaxTime = 2
    MaxSets = 2
    Users = {alice, bob}
    Cooldowns = {0, 2, 5}
    Balances = {0, 1}
    Fees = {0, 1}
    Tokens = {usd}
    Supply = 1
    Signers = {k1, k2}
    SignerLists <- Lists
    Payloads <- SomePayloads
    MAX_U64 = 5
    MaxNow = 4
    MaxIssued = 3
    RemoteUIDs = {r1}
    Accounts = {alice, bob}
    Sources = {sA, sB}
    Proofs = {pf}
    MAX_VALIDITY_SECONDS = 1
    MaxClock = 3
    MaxSent = 2
    Nullifiers = {n1, n2}
    Commitments = {c1}
    Attestations = {t1}
    THRESHOLD = 2
    EXTEND_TO = 3
    MIN_TTL = 1
    MAX_ZK_PROOF_AGE_SECONDS = 1
    MaxLedger = 6
    u1 = u1
    la = la
    lb = lb
    lc = lc
    StoredUids = {u1}
    Nothing = Nothing
    Leaves = {la, lb, lc}
    Bundles <- SomeBundles
    OtherData = OtherData
    MAX_PROOF = 2
    MAX_VERIFY_BATCH = 2
    MaxSequence = 4
    Gaps = {1, 2}
    Targets = {"testnet", "mainnet"}
    Admins = {"alice", "bob"}
    Stranger = "stranger"
    Blank = Blank
    MaxContracts = 4
    MaxDeployments = 3
INVARIANTS
    DeploymentConsistent
    RegistryReadsComplete
    BooksBacked
    RolesAgree
    ResolverRulesHold
    RemoteVerdictCurrent
    NullifiersKept
    ReadersAgree
PROPERTIES
    ViewsKeepFaith
CHECK_DEADLOCK FALSE
