SPECIFICATION ScopeSpec
CONSTANTS
    Tasks = {t1, t2}
    Managers = {m1, m2}
    Cancellers = {c1}
    Handled = {t1, t2}
    UseKafka = TRUE
    max_retries = 2
    max_workers = 1
    MaxFaults = 1
    Rebalances = TRUE
SYMMETRY Symmetry
CHECK_DEADLOCK FALSE
INVARIANTS
    NotConcurrent
    StatsAgree
PROPERTY CommitsOnlySpawned
