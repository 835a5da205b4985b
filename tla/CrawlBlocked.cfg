SPECIFICATION WorkSpec
CONSTANTS
    Tasks = {}
    Managers = {}
    Cancellers = {}
    Handled = {}
    UseKafka = FALSE
    max_retries = 2
    max_workers = 1
    MaxFaults = 0
    Rebalances = FALSE
    u1 = u1
    u2 = u2
    CrawlUrls = {u1, u2}
    CrawlDomains = {"d"}
    DomainOf <- MCDomainOf
    HashPositions <- MCHashPositions
    SeedLists <- MCSeedLists
    MinDelay = 1
    DefaultDelay = 1
    MaxDelay = 2
    Seeders = {s1}
    CrawlWorkers = {k1}
    NoScore = NoScore
    MaxWorkers = 2
    HighWatermark = 2
    ErrorLimit = 1
    BlockTime = 1
    MaxRetries = 1
    PipelineDocs = {}
    StageWorkers = 1
    MaxStarts = 2
CHECK_DEADLOCK FALSE
PROPERTY BlockedIsRequeued
