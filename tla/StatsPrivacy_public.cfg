SPECIFICATION Spec
CONSTANTS
    Nobody = Nobody
    p1 = p1
    p2 = p2
    m1 = m1
    m2 = m2
    t1 = t1
    t2 = t2
    shared = shared
    Run = {r1}
    Cohort = {p1}
    Course = {m1}
    CourseOf <- OnePeriod
    Teacher = {t1, t2}
    Minimum = {2}
    Snapshots <- TwoTeachers
    MaxTime = 0
    MaxBatches = 3
INVARIANTS PublicValuesCompared
CHECK_DEADLOCK FALSE
