SPECIFICATION FairSpec
CONSTANTS
    c1 = c1
    c2 = c2
    i1 = i1
    i2 = i2
    q1 = q1
    q2 = q2
    s1 = s1
    Nobody = Nobody
    Call = {c1, c2}
    Revoker = {r1}
    Instance = {i1}
    Query = {q1}
    Student = {s1}
    InstanceOf <- OneInstance
    QueryOf <- OneQuery
    StudentOf <- OneStudent
    CacheMode <- AllNormal
    FreshTTL <- Fresh1
    StaleTTL <- Stale2
    Timeout = 1
    StaleRefreshTimeout = 1
    LeaseTTL = 2
    RetryAfter = 1
    RevokeBudget = 1
    TaskTimeout = 1
    MaxConcurrent = 1
    BookkeepingSlots = 1
    LastStart = 1
    MaxTime = 4
INVARIANTS UpstreamBounded
PROPERTIES CallsAnswered NoLeaseStuck
CHECK_DEADLOCK FALSE
