--------------------------- MODULE MCStatsPrivacy ---------------------------
(* Model-checking instances of StatsPrivacy.  The snapshots are the        *)
(* groupings the source query makes of grades by cohort and teacher.       *)
EXTENDS StatsPrivacy, TLC

CONSTANTS p1, p2, m1, m2, t1, t2, shared   \* periods, courses, teachers, no single teacher

Sum(f, S) == MapThenSumSet(LAMBDA x : f[x], S)

CourseRow(g, c, teachers) ==
    [valid |-> Sum([t \in teachers |-> g[<<c, t>>].valid], teachers),
     pass |-> Sum([t \in teachers |-> g[<<c, t>>].pass], teachers),
     numeric |-> Sum([t \in teachers |-> g[<<c, t>>].numeric], teachers),
     sum |-> Sum([t \in teachers |-> g[<<c, t>>].sum], teachers)]

Grouped(g, cohorts, teachers) ==
    [courses |-> [c \in {c \in cohorts : \E t \in teachers : g[<<c, t>>].valid > 0} |->
                     CourseRow(g, c, teachers)],
     instructors |-> [k \in {k \in cohorts \X (teachers \ {shared}) : g[k].valid > 0} |-> g[k]]]

Grades(valid, pass, numeric, sum) ==
    [valid |-> valid, pass |-> pass, numeric |-> numeric, sum |-> sum]
Passed(n) == Grades(n, n, n, n)
NoGrades == Passed(0)

Snapshot(cohorts, teachers, grades) ==
    {Grouped(g, cohorts, teachers) : g \in [cohorts \X teachers -> grades]}

(* Two teachers of one cohort.                                             *)
TwoTeachers == Snapshot({p1}, {t1, t2}, {NoGrades, Passed(1), Passed(2), Passed(3), Passed(4)})

(* Few grades of two teachers, a changed score, and two periods.           *)
Publications ==
    Snapshot({p1}, {t1, t2}, {NoGrades, Passed(3)}) \cup Snapshot({p1}, {t1}, {Grades(4, 4, 2, 2)})
    \cup Snapshot({p1, p2}, {shared}, {Passed(1)})

RunSymmetry == Permutations(Run)

OnePeriod == [c \in {p1} |-> m1]
TwoPeriods == [c \in {p1, p2} |-> m1]
=============================================================================
