SPECIFICATION PartsSpec
CONSTANTS
    p1 = p1
    p2 = p2
    p3 = p3
    u1 = u1
    u2 = u2
    s1 = s1
    s2 = s2
    n1 = n1
    n2 = n2
    Calls = {p1, p2}
    Nothing = Nothing
    Clients <- SomeClients
    MaxPolls = 2
    LastSeq = 2
    MaxTx = 2
    NotTracked = NotTracked
    BaseFees = {1, 2}
    pending_ledger_threshold = 1
    multiplier_percent = 150
    max_fee_strops = 4
    max_attempts = 2
    MaxClosed = 4
    SchemaUids = {u1, u2}
    Threads = {p1, p2}
    Missing = Missing
    capacity = 1
    ttl = 1
    MaxInstant = 2
    MAX_BULK_ROWS = 3
    MaxRows = 4
    ChunkSizes = {1, 2}
    Torn = Torn
    NoFile = NoFile
    BatchSizes = {1, 2}
    MaxRecords = 3
    evm_retries = 1
    MaxRuns = 3
    Endpoints = 2
    Requests = {p1, p2, p3}
    Weights <- EqualWeights
    threshold = 2
    cooldown = 1
    maxAttempts = 2
    MaxMs = 2
    MaxAnswers = 3
    Shells = {s1, s2}
    Networks = {n1, n2}
    Profiles <- TwoProfiles
    Busy = {n1}
    Menu <- TwoMenus
    Unset = Unset
    TornFile = TornFile
    cache_ttl = 1
    expiration = 1
    page_limit = 1
    MaxClock = 1
    MaxWrites = 2
    RpcCallers = {p1, p2}
    SingleMethods = {"sendTransaction"}
    rate_retries = 1
    max_skew = 0
    Lags = {0, 1}
    Offsets = {0}
    MaxRequests = 3
    MaxTip = 1
    Executions = {p1, p2}
    NoExecution = NoExecution
    KeyPrefixes <- SomePrefixes
    MaxHeight = 1
INVARIANTS
    WritesOnTarget
    ReadsTrue
    CallOutcomesHonest
    BumpsTracked
    CacheCoherent
    RowsAccounted
    BatchesExact
    CircuitsTruthful
    AnswersOwn
    HooksHonest
SYMMETRY Alike
CHECK_DEADLOCK FALSE
