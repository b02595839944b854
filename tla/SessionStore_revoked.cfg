SPECIFICATION StoreSpec
CONSTANTS
    Credential = {"p1"}
    Ttl <- Lifetimes
    V1 = {"v1", "v1graduate"}
    MaxTime = 2
    MaxMishaps = 1
PROPERTIES RemovesEveryIndexed
CHECK_DEADLOCK FALSE
