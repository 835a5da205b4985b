SPECIFICATION AssistantSpec
CONSTANTS
    Replicas = {r1, r2}
    Clients = {c1}
    Kinds = {"status", "cancel", "record_cancel"}
    Phases = 2
    MaxCrashes = 0
    StoreMayFail = TRUE
    Nobody = nobody
    ResearchUrls = {u1, u2, u3}
    num_sub_questions = 2
    variants_per_subq = 1
    SearchMax = 2
    max_total_sources = 3
    analyze_concurrency = 2
    ThoroughTier = TRUE
    FilterTier = TRUE
    RelevanceScores = {0, 1, 2}
    min_score = 1
    max_sources = 2
    ResearchReplicas = {r1, r2}
    ResearchClients = {c1}
    Asks = {"status", "cancel"}
    ResearchPhases = 1
    RedisTTL = 2
    CacheTTL = 3
    Nowhere = nowhere
    Pages = {p, q, w}
    Authoritative = {w}
    SlugPage = w
    max_results = 2
    max_concurrent = 1
    scrape_attempts = 2
    EngineMax = 2
    Fetchers = {f1, f2, f3}
    failure_threshold = 2
    max_retries = 1
    max_concurrent_per_domain = 2
    Askers = {a1, a2}
    OllamaReplicas = {r1, r2}
    Prompts <- CacheTexts
    Systems <- CacheTexts
    TokenLimits <- CacheLimits
    AutoPull = TRUE
    MaxRemovals = 2
    NoAsker = nobody
CHECK_DEADLOCK FALSE
INVARIANTS
    AssistantTypesOK
    EngineSound
    ResearchSound
    ReportStands
    GatherSound
    FetchesBounded
    OwnResponse
PROPERTIES
    PullsNeeded
    AnswersEnd
