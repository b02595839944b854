SPECIFICATION FairSpec
CONSTANTS
    Scheduler = {s1}
    Handler = {h1}
    ManualTask = {t1}
    NoTask = NoTask
    Nobody = Nobody
    Orphan = Orphan
    MaxRetry = 1
    FailedRetention = 1
    TaskRetention = 2
    MaxBatches = 6
    MaxFaults = 1
    MaxTime = 3
PROPERTIES ScheduleCovered TaskSettles
CHECK_DEADLOCK FALSE
