SPECIFICATION Spec
CONSTANTS
    Credential = {"p1"}
    Ttl <- Lifetimes
    V1 = {"v1"}
    MaxTime = 1
    MaxMishaps = 1
    q1 = q1
    q2 = q2
    Caller = {q1, q2}
    KindsOf <- Kinds
    LevelsOf <- Levels
    MaxConcurrent = 2
    Allowed = {"ouc", "mock"}
CONSTRAINT Bounded
VIEW Later
INVARIANTS WrongPasswordSentOnce IndexCovers
PROPERTIES NotPoisoned CacheBestEffort
CHECK_DEADLOCK FALSE
