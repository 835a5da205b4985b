SPECIFICATION WorkSpec
CONSTANTS
    Tasks = {t1, t2}
    Managers = {m1}
    Cancellers = {c1}
    Handled = {t1}
    UseKafka = FALSE
    max_retries = 2
    max_workers = 1
    MaxFaults = 0
    Rebalances = FALSE
    u1 = u1
    u2 = u2
    CrawlUrls = {u1, u2}
    CrawlDomains = {"d"}
    DomainOf <- MCDomainOf
    HashPositions <- MCHashPositions
    SeedLists <- MCSeedLists
    MinDelay = 1
    DefaultDelay = 1
    MaxDelay = 2
    Seeders = {s1}
    CrawlWorkers = {k1}
    NoScore = NoScore
    MaxWorkers = 2
    HighWatermark = 1
    ErrorLimit = 1
    BlockTime = 1
    MaxRetries = 1
    PipelineDocs = {a, b}
    StageWorkers = 1
    MaxStarts = 2
CHECK_DEADLOCK FALSE
INVARIANTS
    WorkTypesOK
    AttemptsInOrder
    FrontierSound
    PipelineSound
PROPERTIES
    PoolImplemented
    CrawlEnds
