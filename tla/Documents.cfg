SPECIFICATION DocumentSpec
CONSTANTS
    Callers = {c1, c2, c3}
    failure_threshold = 2
    half_open_max_calls = 2
    Cancellable = TRUE
    rate = 2
    TokenTime = 2
    MaxTime = 12
    TranslationJobs = {"de1", "fr1", "de2", "de3"}
    TextOf <- MCTextOf
    PairOf <- MCPairOf
    batch_size = 4
    HasTranslator = TRUE
    Started = TRUE
    TranslateCallers = {t1, t2}
    max_requests_per_minute = 1
    MaxRedisFaults = 2
    NoText = NoText
    Runs = {r1, r2}
    SourceChunks <- MCSourceChunks
    ProviderAttempts <- MCProviderAttempts
    max_concurrent_sources = 2
    TextLen = 6
    chunk_size = 4
    chunk_overlap = 2
    SentenceKinds = 1
    Messages = {m1, m2, m3}
    Passes = {p1, p2}
    Limits = {0, 2}
    MaxRetries = 1
    MayClear = TRUE
CHECK_DEADLOCK FALSE
INVARIANTS
    DocumentTypesOK
    BreakerBounds
    AtMostDoubled
    TranslationSound
    ProcessingSound
    ChunksCover
    EveryEntryAccounted
PROPERTIES
    RecoveryNeedsStreak
    HalfOpenResolves
