SPECIFICATION PartsSpec
CONSTANTS
    c1 = c1
    c2 = c2
    c3 = c3
    s1 = s1
    Parts = {"sequence", "stream"}
    Callers = {c1, c2, c3}
    NoCaller = NoCaller
    Strict = FALSE
    MaxSeq = 3
    MaxDisturbed = 2
    Schemas = {s1}
    AnySchema = AnySchema
    PageLimit = 2
    ChannelSize = 1
    MaxEvents = 3
    MaxCrashes = 1
    MaxErrors = 1
INVARIANTS
    DistinctReservations
    NumbersAccounted
    NoEventMissed
PROPERTIES
    Recovers
    EventsArrive
CHECK_DEADLOCK FALSE
