SPECIFICATION Spec
CONSTANTS
    Replicas = {r1, r2}
    Clients = {c1, c2}
    Kinds = {"status", "cancel"}
    Phases = 1
    MaxCrashes = 0
    StoreMayFail = FALSE
    Nobody = nobody
CHECK_DEADLOCK FALSE
PROPERTY ResultStays
