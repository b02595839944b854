SPECIFICATION Spec
CONSTANTS
    Scheduler = {s1, s2}
    Handler = {h1, h2}
    ManualTask = {t1}
    NoTask = NoTask
    Nobody = Nobody
    Orphan = Orphan
    MaxRetry = 1
    FailedRetention = 1
    TaskRetention = 2
    MaxBatches = 3
    MaxFaults = 2
    MaxTime = 2
SYMMETRY RunnerSymmetry
INVARIANTS PublishedByStarter DoneMeansPublished OncePerSchedule
PROPERTIES Publications
CHECK_DEADLOCK FALSE
