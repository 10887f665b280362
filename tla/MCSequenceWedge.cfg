SPECIFICATION PartsSpec
CONSTANTS
    c1 = c1
    c2 = c2
    c3 = c3
    s1 = s1
    Parts = {"sequence"}
    Callers = {c1, c2}
    NoCaller = NoCaller
    Strict = TRUE
    MaxSeq = 3
    MaxDisturbed = 1
    Schemas = {s1}
    AnySchema = AnySchema
    PageLimit = 2
    ChannelSize = 1
    MaxEvents = 3
    MaxCrashes = 1
    MaxErrors = 1
PROPERTIES
    OneFailureHeals
CHECK_DEADLOCK FALSE
