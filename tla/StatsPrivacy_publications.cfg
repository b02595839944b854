SPECIFICATION Spec
CONSTANTS
    Nobody = Nobody
    p1 = p1
    p2 = p2
    m1 = m1
    m2 = m2
    t1 = t1
    t2 = t2
    shared = shared
    Run = {r1, r2}
    Cohort = {p1, p2}
    Course = {m1}
    CourseOf <- TwoPeriods
    Teacher = {t1, t2}
    Minimum = {2, 3}
    Snapshots <- Publications
    MaxTime = 1
    MaxBatches = 3
SYMMETRY RunSymmetry
INVARIANTS CutoffConservative CourseHeldWithInstructor RowsMoveForward SmallDeltasWithheld ListTotalExact
CHECK_DEADLOCK FALSE
