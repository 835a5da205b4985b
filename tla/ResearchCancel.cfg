SPECIFICATION ResearchSessionSpec
CONSTANTS
    ResearchReplicas = {r1, r2}
    ResearchClients = {c1}
    Asks = {"status", "cancel"}
    ResearchPhases = 2
    RedisTTL = 2
    CacheTTL = 3
    Nowhere = nowhere
CHECK_DEADLOCK FALSE
PROPERTY CancelIsFinal
