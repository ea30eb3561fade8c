SPECIFICATION RuntimeSpec
CONSTANTS
    t1 = t1
    t2 = t2
    t3 = t3
    c1 = c1
    c2 = c2
    k1 = k1
    k2 = k2
    p1 = p1
    p2 = p2
    Turns = {t1}
    Conversations = {c1}
    TransportKeys = {k1, k2}
    None = None
    MaxDepthPerConversation = 2
    MaxGlobalPending = 1
    MaxSafeInteger = 30
    OfferedFacts <- Unoffered
    OfferedMoves <- Unoffered
    MaxContextEntries = 2
    PolicyVersions = {p1}
    OfferedLlmResults = {"completed", "quota-unavailable", "error"}
    PageLimit = 1
    MaxFaults = 0
    MaxCrashes = 1
    MaxDrains = 0
INVARIANT KnownFailureIsRecovered
CHECK_DEADLOCK FALSE
