SPECIFICATION FairSpec
CONSTANTS
    alice = alice
    bob = bob
    s1 = s1
    d1 = d1
    d2 = d2
    NoRec = NoRec
    Addrs = {alice, bob}
    Schemas = {s1}
    UIDs <- BothWays
    Expirations = {0, 2}
    Requests <- SomeRequests
    Irrevocable <- Lasting
    PublicMarks <- SomeMarks
    MIN_CHUNK_SIZE = 1
    MID_CHUNK_SIZE = 1
    MAX_CHUNK_SIZE = 2
    MaxChunk = 4
    MaxTime = 2
INVARIANTS
    GapsAnnounced
    ReadersExact
PROPERTIES
    ImplementsLedger
    GapsRepaired
