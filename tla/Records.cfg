SPECIFICATION RecordsSpec
CONSTANTS
    Replicas = {r1, r2}
    Clients = {c1, c2}
    Kinds = {"status", "cancel", "record_cancel"}
    Phases = 1
    MaxCrashes = 1
    StoreMayFail = FALSE
    Nobody = nobody
    ChatRequests = {q1, q2}
    ChatUsers = {u1, u2}
    FirstUser = u1
    max_attempts = 2
    Ops <- AllOps
    NoDoc = NoDoc
    Writers = {w1, w2, w3}
    MaxProgress = 1
    NoRecord = NoRecord
    AuthRequests = {a1, a2, a3}
    MaxFailedLogins = 2
    LoginsPerMinute = 2
    NoRow = NoRow
    Queries = {s1, s2}
    Pipelines = {p}
    ChatIds = {h1, h2}
    FirstChat = h1
    NoChat = NoChat
    NoQuery = NoQuery
    MaxEvents = 3
CHECK_DEADLOCK FALSE
INVARIANTS
    RecordsTypesOK
    RecordAfterHistory
    QuietIsSettled
    HistoryIntact
    RecordSound
    AccountsSound
    ConversationSound
PROPERTIES
    HomeOutcomeSettled
    OwnersOnly
