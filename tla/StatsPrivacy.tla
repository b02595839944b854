---------------------------- MODULE StatsPrivacy ----------------------------
(***************************************************************************)
(* What a statistics publication contains (academic_statistics/            *)
(* infrastructure/store.go, source.go, application/manager.go).  A run     *)
(* reads the source database's time, aggregates the grades, and publishes  *)
(* the aggregate after comparing each row with the latest published row of *)
(* its partition: a row that would move a public count by less than the    *)
(* minimum sample size is replaced by the published one, and the batch     *)
(* then claims no later source cutoff than the replaced rows'.             *)
(*                                                                         *)
(* A cohort is a course partition (education level, period, course code).  *)
(* An aggregate keeps one count of each sort: all valid grades, the passed *)
(* ones, the numeric ones and the sum of the numeric scores; the counts of *)
(* the score buckets are treated as the passed ones are.  Grades change at *)
(* will between two reads, so a snapshot is any member of Snapshots.  One  *)
(* rule version is deployed.  Locks, IDs and retries are module            *)
(* StatsBatch's; here runs may overlap, and StartBatch fails whichever     *)
(* batch is still running.                                                 *)
(***************************************************************************)
EXTENDS Integers, Sequences, FiniteSetsExt

CONSTANTS
    Run,              \* runs, each with the process that performs it
    Nobody,
    Cohort, Course,   \* course partitions, course codes with their level
    CourseOf,         \* the course of each cohort
    Teacher,
    Minimum,          \* configured minimum_sample_size values
    Snapshots,        \* what an aggregation of the source may return
    MaxTime, MaxBatches   \* bounds

Taught == Cohort \X Teacher

(* One row of the aggregation over some valid grades.                      *)
Consistent(row) == row.valid > 0 /\ row.pass <= row.valid /\ row.numeric <= row.valid
Aggregate == {a \in [valid : Nat, pass : Nat, numeric : Nat, sum : Nat] : Consistent(a)}
Rows(f, K, R) == f \in [DOMAIN f -> R] /\ DOMAIN f \subseteq K

ASSUME PrivacyAssumption ==
    /\ Nobody \notin Run
    /\ IsFiniteSet(Course) /\ CourseOf \in [Cohort -> Course]
    /\ Minimum \subseteq Nat \ {0}
    /\ \A s \in Snapshots : /\ Rows(s.courses, Cohort, Aggregate)
                            /\ Rows(s.instructors, Taught, Aggregate)
                            /\ \A k \in DOMAIN s.instructors : k[1] \in DOMAIN s.courses
    /\ MaxTime \in Nat /\ MaxBatches \in Nat

VARIABLES
    now,         \* time of the source database
    minimum,     \* minimumSampleSize of each run's process
    run,         \* what each run is doing
    running,     \* the run whose batch row has status running
    published    \* the published batches, oldest first

vars == <<now, minimum, run, running, published>>

(* A statistics row; at is when its grades were read (history).            *)
Row == {a \in [valid : Nat, pass : Nat, numeric : Nat, sum : Nat, at : Nat] : Consistent(a)}

Phase == {"idle", "started", "cutoff", "aggregated", "publishing"}

(* at is when the run read the grades (history).                           *)
IdleRun == [phase |-> "idle", cutoff |-> 0, at |-> 0,
            courses |-> <<>>, instructors |-> <<>>, listed |-> 0]

IsContent(c) ==
    /\ c.cutoff \in Nat /\ c.at \in Nat /\ c.listed \in Nat
    /\ Rows(c.courses, Cohort, Row) /\ Rows(c.instructors, Taught, Row)

TypeOK ==
    /\ now \in Nat
    /\ minimum \in [Run -> Minimum]
    /\ run = [r \in Run |-> run[r]]
    /\ \A r \in Run : run[r].phase \in Phase /\ IsContent(run[r])
    /\ running \in Run \cup {Nobody}
    /\ \A n \in DOMAIN published : /\ published[n].minimum \in Minimum
                                   /\ IsContent(published[n])

Init ==
    /\ now = 0
    /\ minimum \in [Run -> Minimum]
    /\ run = [r \in Run |-> IdleRun]
    /\ running = Nobody
    /\ published = <<>>

-----------------------------------------------------------------------------
(* The latest published row of a partition, hidden from readers or not.    *)

Holding(batches, part, k) == {n \in DOMAIN batches : k \in DOMAIN batches[n][part]}
HasBaseline(batches, part, k) == Holding(batches, part, k) # {}
OldestBatch(batches, part, k) == Min(Holding(batches, part, k))   \* ORDER BY ... ASC
BaselineBatch(batches, part, k) == Max(Holding(batches, part, k))
Baseline(batches, part, k) == batches[BaselineBatch(batches, part, k)][part][k]

(* publicationCounts; unsafePublicationDelta.                              *)
Counts(row) == <<row.valid, row.pass, row.valid - row.pass, row.numeric, row.valid - row.numeric>>

Delta(m, n) == IF m < n THEN n - m ELSE m - n
Small(d, min) == 0 < d /\ d < min

UnsafeDelta(old, new, min) ==
    \/ \E i \in 1..5 : Small(Delta(Counts(old)[i], Counts(new)[i]), min)
    \/ /\ old.numeric >= min /\ new.numeric >= min
       /\ Delta(old.numeric, new.numeric) < min
       /\ old.numeric # new.numeric \/ old.sum # new.sum

(* Which rows of a batch about to be published give way to their baseline. *)
Public(row, min) == row.valid >= min

ComparedWith(batches, part, k, min) ==
    HasBaseline(batches, part, k) /\ Public(Baseline(batches, part, k), min)

SuppressedInstructors(batches, rows, min) ==
    {k \in DOMAIN rows : /\ ComparedWith(batches, "instructors", k, min)
                         /\ UnsafeDelta(Baseline(batches, "instructors", k), rows[k], min)}
SuppressedAlone(batches, rows, min, held) ==   \* no instructorSuppressed
    {c \in DOMAIN rows : /\ ComparedWith(batches, "courses", c, min)
                         /\ UnsafeDelta(Baseline(batches, "courses", c), rows[c], min)}
SuppressedCourses(batches, rows, min, held) ==
    {c \in DOMAIN rows : /\ ComparedWith(batches, "courses", c, min)
                         /\ \/ \E k \in held : k[1] = c
                            \/ UnsafeDelta(Baseline(batches, "courses", c), rows[c], min)}

(* copyCourseStatistics, copyInstructorStatistics.                         *)
Copied(row, baseline) == baseline

Replaced(batches, part, rows, held) ==
    [k \in DOMAIN rows |->
        IF k \in held THEN Copied(rows[k], Baseline(batches, part, k)) ELSE rows[k]]

(* earliestPublishedCutoff, and the lesser of it and the snapshot's own.   *)
CourseCutoff(batches, cutoff, heldCourses, heldInstructors) ==   \* courses only
    Min({cutoff}
        \cup {batches[BaselineBatch(batches, "courses", k)].cutoff : k \in heldCourses})
EffectiveCutoff(batches, cutoff, heldCourses, heldInstructors) ==
    Min({cutoff}
        \cup {batches[BaselineBatch(batches, "courses", k)].cutoff : k \in heldCourses}
        \cup {batches[BaselineBatch(batches, "instructors", k)].cutoff : k \in heldInstructors})

(* coursePassRateEntities: a course's rows of all periods, added up.       *)
ListedCount(courses, code) ==
    MapThenSumSet(LAMBDA c : courses[c].valid, {c \in DOMAIN courses : CourseOf[c] = code})
ListedCourses(courses, min) == {code \in Course : ListedCount(courses, code) >= min}

-----------------------------------------------------------------------------
(* StartBatch: any batch still running has been abandoned.                 *)
StartBatch(r) ==
    /\ run[r].phase = "idle"
    /\ Len(published) < MaxBatches
    /\ run' = [run EXCEPT ![r] = [IdleRun EXCEPT !.phase = "started"]]
    /\ running' = r
    /\ UNCHANGED <<now, minimum, published>>

(* Aggregate reads the source's time before its consistent view exists.    *)
ReadCutoff(r) ==
    /\ run[r].phase = "started"
    /\ run' = [run EXCEPT ![r] = [IdleRun EXCEPT !.phase = "cutoff", !.cutoff = now]]
    /\ UNCHANGED <<now, minimum, running, published>>

Stamped(rows) ==
    [k \in DOMAIN rows |->
        [valid |-> rows[k].valid, pass |-> rows[k].pass, numeric |-> rows[k].numeric,
         sum |-> rows[k].sum, at |-> now]]

Aggregated(r, s) ==
    [phase |-> "aggregated", cutoff |-> run[r].cutoff, at |-> now,
     courses |-> Stamped(s.courses), instructors |-> Stamped(s.instructors), listed |-> 0]

(* The consistent view; Snapshot.Validate refuses one without courses.     *)
ReadGrades(r) ==
    /\ run[r].phase = "cutoff"
    /\ \E s \in Snapshots :
        /\ DOMAIN s.courses # {}
        /\ run' = [run EXCEPT ![r] = Aggregated(r, s)]
    /\ UNCHANGED <<now, minimum, running, published>>

Suppressed(c, batches, min) ==
    LET instructors == SuppressedInstructors(batches, c.instructors, min)
        courses == SuppressedCourses(batches, c.courses, min, instructors)
        kept == Replaced(batches, "courses", c.courses, courses)
    IN  [phase |-> "publishing", at |-> c.at,
         cutoff |-> EffectiveCutoff(batches, c.cutoff, courses, instructors),
         courses |-> kept,
         instructors |-> Replaced(batches, "instructors", c.instructors, instructors),
         listed |-> Cardinality(ListedCourses(kept, min))]

(* The publishing transaction up to its inserts.                           *)
SuppressDeltas(r) ==
    /\ run[r].phase = "aggregated"
    /\ run' = [run EXCEPT ![r] = Suppressed(run[r], published, minimum[r])]
    /\ UNCHANGED <<now, minimum, running, published>>

Batch(r) ==
    [minimum |-> minimum[r], cutoff |-> run[r].cutoff, at |-> run[r].at,
     courses |-> run[r].courses, instructors |-> run[r].instructors, listed |-> run[r].listed]

NeverFailed(r) == TRUE   \* an unconditional update
StillRunning(r) == running = r

(* Its conditional update and commit: a batch that is no longer running    *)
(* rolls the transaction back, and cannot be marked failed once more.      *)
Publish(r) ==
    /\ run[r].phase = "publishing"
    /\ IF StillRunning(r)
       THEN published' = Append(published, Batch(r)) /\ running' = Nobody
       ELSE UNCHANGED <<running, published>>
    /\ run' = [run EXCEPT ![r] = IdleRun]
    /\ UNCHANGED <<now, minimum>>

(* Any step fails, an empty snapshot is refused: FailBatch.                *)
Fail(r) ==
    /\ run[r].phase # "idle"
    /\ run' = [run EXCEPT ![r] = IdleRun]
    /\ running' = IF StillRunning(r) THEN Nobody ELSE running
    /\ UNCHANGED <<now, minimum, published>>

(* The process dies, or FailBatch fails too: the row stays running.        *)
Crash(r) ==
    /\ run[r].phase # "idle"
    /\ run' = [run EXCEPT ![r] = IdleRun]
    /\ UNCHANGED <<now, minimum, running, published>>

(* The process starts with another minimum_sample_size.                    *)
Reconfigure(r) ==
    /\ run[r].phase = "idle"
    /\ \E m \in Minimum : minimum' = [minimum EXCEPT ![r] = m]
    /\ UNCHANGED <<now, run, running, published>>

(* The bound on time.                                                      *)
Tick ==
    /\ now < MaxTime
    /\ now' = now + 1
    /\ UNCHANGED <<minimum, run, running, published>>

Next ==
    \/ Tick
    \/ \E r \in Run : \/ StartBatch(r) \/ ReadCutoff(r) \/ ReadGrades(r)
                      \/ SuppressDeltas(r) \/ Publish(r)
                      \/ Fail(r) \/ Crash(r) \/ Reconfigure(r)

Spec == Init /\ [][Next]_vars

-----------------------------------------------------------------------------
(* Readers: the unfiltered course list of one batch, of a process with     *)
(* this minimum.                                                           *)

AlwaysCached(batch, min) == TRUE   \* whatever the reader's minimum
UsesCachedCount(batch, min) == batch.minimum = min
ListTotal(batch, min) ==
    IF UsesCachedCount(batch, min)
    THEN batch.listed
    ELSE Cardinality(ListedCourses(batch.courses, min))

-----------------------------------------------------------------------------
(* Properties.                                                             *)

Part == {"courses", "instructors"}
Before(n) == [m \in 1..(n - 1) |-> published[m]]

(* Aggregate's "conservative freshness boundary that never claims          *)
(* visibility beyond the snapshot": no published row is older than the     *)
(* source cutoff of its batch, replaced rows included, and the rows they   *)
(* were replaced by may have been replaced before.                         *)
CutoffConservative ==
    \A n \in DOMAIN published, part \in Part :
        \A k \in DOMAIN published[n][part] :
            published[n].cutoff <= published[n][part][k].at

(* suppressSmallPublicationDeltas: no publication moves a row its readers  *)
(* could see by a small delta, whichever runs overlapped.                  *)
SmallDeltasWithheld ==
    \A n \in DOMAIN published, part \in Part :
        \A k \in DOMAIN published[n][part] :
            ComparedWith(Before(n), part, k, published[n].minimum)
            => ~UnsafeDelta(Baseline(Before(n), part, k), published[n][part][k],
                            published[n].minimum)

(* instructorSuppressed: when a teacher's row was replaced, the course row *)
(* is the published one too, where it was public.                          *)
CourseHeldWithInstructor ==
    \A n \in DOMAIN published :
        \A k \in DOMAIN published[n].instructors :
            /\ published[n].instructors[k].at < published[n].at
            /\ ComparedWith(Before(n), "courses", k[1], published[n].minimum)
            => published[n].courses[k[1]] = Baseline(Before(n), "courses", k[1])

(* StartBatch and PublishBatch: a publication never brings back grades     *)
(* older than those of an earlier publication of the same partition.       *)
RowsMoveForward ==
    \A m, n \in DOMAIN published, part \in Part :
        m < n =>
        \A k \in DOMAIN published[m][part] \cap DOMAIN published[n][part] :
            published[m][part][k].at <= published[n][part][k].at

(* courseProjectionUsesCachedCount: the total of the course list is the    *)
(* number of courses the list shows, under any configured minimum.         *)
ListTotalExact ==
    \A n \in DOMAIN published, min \in Minimum :
        ListTotal(published[n], min) = Cardinality(ListedCourses(published[n].courses, min))

(* latestPublishedCourseBaselines' comment, "the latest public value per   *)
(* privacy cohort": a row is compared with the last one readers could see. *)
Shown(n, part, k) ==
    {m \in Holding(Before(n), part, k) : Public(published[m][part][k], published[m].minimum)}
PublicValuesCompared ==
    \A n \in DOMAIN published, part \in Part :
        \A k \in DOMAIN published[n][part] :
            /\ Public(published[n][part][k], published[n].minimum)
            /\ Shown(n, part, k) # {}
            => ~UnsafeDelta(published[Max(Shown(n, part, k))][part][k],
                            published[n][part][k], published[n].minimum)

=============================================================================
