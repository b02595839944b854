------------------------- MODULE StatsPrivacyProofs -------------------------
(***************************************************************************)
(* Proofs about the content of a publication, for any number of runs,      *)
(* cohorts, teachers and publications, any snapshots and any minimum: the  *)
(* types, that a batch claims no later cutoff than its rows, that rows     *)
(* move forward in time, that small deltas are withheld, and that the list *)
(* of courses is as long as its total says.                                *)
(*                                                                         *)
(* The argument has two parts.  What SuppressDeltas does is a lemma about  *)
(* any sequence of batches.  That it did so against the batches that are   *)
(* still the latest when the batch is published is the invariant: a run    *)
(* that may publish has seen every publication (Current), because a later  *)
(* StartBatch would have failed its batch.                                 *)
(***************************************************************************)
EXTENDS StatsPrivacy, FiniteSetTheorems, WellFoundedInduction, TLAPS

-----------------------------------------------------------------------------
(* Least and greatest members.                                             *)

LEMMA LeastNatural ==
    ASSUME NEW S \in SUBSET Nat, S # {}
    PROVE  \E x \in S : \A y \in S : x <= y
<1> DEFINE T == {0..x : x \in S}
           R == StrictSubsetOrdering(Nat)
<1>1. T \subseteq FiniteSubsetsOf(Nat) /\ T # {}
  <2>1. \A x \in S : x \in Int /\ IsFiniteSet(0..x)
    BY FS_Interval
  <2>2. \A x \in S : 0..x \in SUBSET Nat
    OBVIOUS
  <2> QED BY <2>1, <2>2 DEF FiniteSubsetsOf
<1>2. \E t \in T : \A u \in T : <<u, t>> \notin R
  <2>1. IsWellFoundedOn(R, FiniteSubsetsOf(Nat))
    BY FS_StrictSubsetOrderingWellFounded
  <2> HIDE DEF T, R
  <2> QED BY <1>1, <2>1, WFMin
<1>3. PICK x \in S : \A y \in S : <<0..y, 0..x>> \notin R
  BY <1>2
<1>4. \A y \in S : ~(y < x)
  <2> SUFFICES ASSUME NEW y \in S, y < x PROVE FALSE
    OBVIOUS
  <2>1. 0..y \subseteq 0..x /\ x \in 0..x /\ x \notin 0..y
    OBVIOUS
  <2>2. <<0..y, 0..x>> \in R
    BY <2>1 DEF StrictSubsetOrdering
  <2> QED BY <1>3, <2>2
<1> QED BY <1>4

LEMMA MinIsLeast ==
    ASSUME NEW S \in SUBSET Nat, S # {}
    PROVE  Min(S) \in S /\ \A y \in S : Min(S) <= y
BY LeastNatural DEF Min

LEMMA MaxIsGreatest ==
    ASSUME NEW n \in Nat, NEW S \in SUBSET (1..n), S # {}
    PROVE  Max(S) \in S /\ \A y \in S : y <= Max(S)
<1> DEFINE T == {n - x : x \in S}
<1>1. T \in SUBSET Nat /\ T # {}
  <2>1. \A x \in S : n - x \in Nat
    OBVIOUS
  <2> QED BY <2>1
<1>2. PICK t \in T : \A y \in T : t <= y
  BY <1>1, LeastNatural
<1>3. PICK x \in S : t = n - x
  BY <1>2
<1>4. \A y \in S : y <= x
  <2> SUFFICES ASSUME NEW y \in S PROVE y <= x
    OBVIOUS
  <2>1. n - x <= n - y
    BY <1>2, <1>3
  <2>2. x \in Int /\ y \in Int
    OBVIOUS
  <2> HIDE DEF T
  <2> QED BY <2>1, <2>2
<1>5. \A y \in S : x >= y
  BY <1>4
<1> QED BY <1>4, <1>5 DEF Max

-----------------------------------------------------------------------------
(* What the invariant says of the content c of a run or a batch, alone and *)
(* against the batches b published before it.                              *)

Honest(c) == \A part \in Part : \A k \in DOMAIN c[part] : c.cutoff <= c[part][k].at
UpTo(c, t) == \A part \in Part : \A k \in DOMAIN c[part] : c[part][k].at <= t
ReadAt(c, t) == \A part \in Part : \A k \in DOMAIN c[part] : c[part][k].at = t
Covered(c) == \A k \in DOMAIN c.instructors : k[1] \in DOMAIN c.courses

Forward(b, c) ==
    \A m \in DOMAIN b, part \in Part :
        \A k \in DOMAIN b[m][part] \cap DOMAIN c[part] : b[m][part][k].at <= c[part][k].at
Withheld(b, c, min) ==
    \A part \in Part : \A k \in DOMAIN c[part] :
        ComparedWith(b, part, k, min) => ~UnsafeDelta(Baseline(b, part, k), c[part][k], min)
Held(b, c, min) ==
    \A k \in DOMAIN c.instructors :
        c.instructors[k].at < c.at /\ ComparedWith(b, "courses", k[1], min)
        => c.courses[k[1]] = Baseline(b, "courses", k[1])

IsHistory(b) ==
    \E N \in Nat :
        /\ DOMAIN b = 1..N
        /\ \A n \in 1..N : IsContent(b[n]) /\ Honest(b[n])
        /\ \A m, n \in 1..N, part \in Part : m < n =>
              \A k \in DOMAIN b[m][part] \cap DOMAIN b[n][part] :
                  b[m][part][k].at <= b[n][part][k].at

LEMMA ContentRows ==
    ASSUME NEW c, IsContent(c), NEW part \in Part, NEW k \in DOMAIN c[part]
    PROVE  c[part][k] \in Row
BY DEF IsContent, Rows, Part

LEMMA RowTypes ==
    ASSUME NEW row \in Row
    PROVE  /\ row.valid \in Nat /\ row.pass \in Nat /\ row.numeric \in Nat
           /\ row.sum \in Nat /\ row.at \in Nat
BY DEF Row

LEMMA NoDeltaToItself ==
    ASSUME NEW row \in Row, NEW min \in Nat
    PROVE  ~UnsafeDelta(row, row, min)
<1>1. \A v \in Int : ~Small(Delta(v, v), min)
  BY DEF Small, Delta
<1>2. \A i \in 1..5 : Counts(row)[i] \in Int
  BY RowTypes DEF Counts
<1> QED BY <1>1, <1>2 DEF UnsafeDelta

(* The latest published row of a partition.                                *)
LEMMA BaselineIsLatest ==
    ASSUME NEW b, IsHistory(b), NEW part \in Part, NEW k, HasBaseline(b, part, k)
    PROVE  /\ BaselineBatch(b, part, k) \in DOMAIN b
           /\ k \in DOMAIN b[BaselineBatch(b, part, k)][part]
           /\ \A n \in Holding(b, part, k) : n <= BaselineBatch(b, part, k)
<1>1. PICK N \in Nat : DOMAIN b = 1..N
  BY DEF IsHistory
<1>2. Holding(b, part, k) \in SUBSET (1..N) /\ Holding(b, part, k) # {}
  BY <1>1 DEF Holding, HasBaseline
<1>3. /\ BaselineBatch(b, part, k) \in Holding(b, part, k)
      /\ \A n \in Holding(b, part, k) : n <= BaselineBatch(b, part, k)
  BY <1>2, MaxIsGreatest DEF BaselineBatch
<1> QED BY <1>3 DEF Holding

LEMMA BaselineRow ==
    ASSUME NEW b, IsHistory(b), NEW part \in Part, NEW k, HasBaseline(b, part, k)
    PROVE  /\ Baseline(b, part, k) \in Row
           /\ b[BaselineBatch(b, part, k)].cutoff \in Nat
           /\ b[BaselineBatch(b, part, k)].cutoff <= Baseline(b, part, k).at
           /\ \A m \in Holding(b, part, k) : b[m][part][k].at <= Baseline(b, part, k).at
<1> DEFINE B == BaselineBatch(b, part, k)
<1>1. /\ B \in DOMAIN b /\ k \in DOMAIN b[B][part]
      /\ \A n \in Holding(b, part, k) : n <= B
  BY BaselineIsLatest
<1>2. Baseline(b, part, k) = b[B][part][k]
  BY DEF Baseline
<1> HIDE DEF B
<1>3. IsContent(b[B]) /\ Honest(b[B])
  BY <1>1 DEF IsHistory
<1>4. b[B][part][k] \in Row
  BY <1>1, <1>3, ContentRows
<1>5. b[B].cutoff \in Nat /\ b[B].cutoff <= b[B][part][k].at
  BY <1>1, <1>3 DEF IsContent, Honest
<1>6. ASSUME NEW m \in Holding(b, part, k)
      PROVE  b[m][part][k].at <= b[B][part][k].at
  <2>1. m \in DOMAIN b /\ k \in DOMAIN b[m][part] /\ m <= B
    BY <1>1 DEF Holding
  <2>2. CASE m = B
    BY <2>2, <1>4, RowTypes
  <2>3. CASE m # B
    BY <2>1, <2>3, <1>1 DEF IsHistory
  <2> QED BY <2>2, <2>3
<1> QED BY <1>2, <1>4, <1>5, <1>6 DEF B

-----------------------------------------------------------------------------
(* What SuppressDeltas does to a run's content.                            *)

LEMMA ReplacedRows ==
    ASSUME NEW b, IsHistory(b), NEW part \in Part, NEW K, NEW rows, Rows(rows, K, Row),
           NEW H, \A k \in H : k \in DOMAIN rows /\ HasBaseline(b, part, k)
    PROVE  /\ Rows(Replaced(b, part, rows, H), K, Row)
           /\ DOMAIN Replaced(b, part, rows, H) = DOMAIN rows
           /\ \A k \in H : Replaced(b, part, rows, H)[k] = Baseline(b, part, k)
           /\ \A k \in DOMAIN rows \ H : Replaced(b, part, rows, H)[k] = rows[k]
<1>1. \A k \in DOMAIN rows : rows[k] \in Row
  BY DEF Rows
<1>2. \A k \in H : Baseline(b, part, k) \in Row
  BY BaselineRow
<1> QED BY <1>1, <1>2 DEF Replaced, Copied, Rows

LEMMA SuppressedParts ==
    ASSUME NEW b, IsHistory(b), NEW c, IsContent(c), NEW min
    PROVE  LET I == SuppressedInstructors(b, c.instructors, min)
               C == SuppressedCourses(b, c.courses, min, I)
               d == Suppressed(c, b, min)
           IN  /\ d.phase = "publishing" /\ d.at = c.at
               /\ d.cutoff = EffectiveCutoff(b, c.cutoff, C, I)
               /\ d.courses = Replaced(b, "courses", c.courses, C)
               /\ d.instructors = Replaced(b, "instructors", c.instructors, I)
               /\ d.listed = Cardinality(ListedCourses(d.courses, min))
               /\ \A k \in I : k \in DOMAIN c.instructors /\ HasBaseline(b, "instructors", k)
               /\ \A k \in C : k \in DOMAIN c.courses /\ HasBaseline(b, "courses", k)
<1>1. \A k \in SuppressedInstructors(b, c.instructors, min) :
        k \in DOMAIN c.instructors /\ HasBaseline(b, "instructors", k)
  BY DEF SuppressedInstructors, ComparedWith
<1>2. \A I : \A k \in SuppressedCourses(b, c.courses, min, I) :
        k \in DOMAIN c.courses /\ HasBaseline(b, "courses", k)
  BY DEF SuppressedCourses, ComparedWith
<1> QED BY <1>1, <1>2 DEF Suppressed

LEMMA EarliestCutoff ==
    ASSUME NEW b, IsHistory(b), NEW cutoff \in Nat, NEW C, NEW I,
           \A k \in C : HasBaseline(b, "courses", k),
           \A k \in I : HasBaseline(b, "instructors", k)
    PROVE  /\ EffectiveCutoff(b, cutoff, C, I) \in Nat
           /\ EffectiveCutoff(b, cutoff, C, I) <= cutoff
           /\ \A k \in C : EffectiveCutoff(b, cutoff, C, I) <= Baseline(b, "courses", k).at
           /\ \A k \in I : EffectiveCutoff(b, cutoff, C, I) <= Baseline(b, "instructors", k).at
<1> DEFINE SC == {b[BaselineBatch(b, "courses", k)].cutoff : k \in C}
           SI == {b[BaselineBatch(b, "instructors", k)].cutoff : k \in I}
           S == {cutoff} \cup SC \cup SI
           E == EffectiveCutoff(b, cutoff, C, I)
<1>1. /\ \A k \in C : /\ b[BaselineBatch(b, "courses", k)].cutoff \in Nat
                      /\ Baseline(b, "courses", k).at \in Nat
                      /\ b[BaselineBatch(b, "courses", k)].cutoff <= Baseline(b, "courses", k).at
      /\ \A k \in I : /\ b[BaselineBatch(b, "instructors", k)].cutoff \in Nat
                      /\ Baseline(b, "instructors", k).at \in Nat
                      /\ b[BaselineBatch(b, "instructors", k)].cutoff
                            <= Baseline(b, "instructors", k).at
  BY BaselineRow, RowTypes DEF Part
<1>2. S \in SUBSET Nat /\ S # {}
  BY <1>1
<1>3. E = Min(S)
  BY DEF EffectiveCutoff
<1>4. E \in Nat /\ \A y \in S : E <= y
  <2> HIDE DEF S, E
  <2> QED BY <1>2, <1>3, MinIsLeast
<1>5. /\ \A k \in C : b[BaselineBatch(b, "courses", k)].cutoff \in S
      /\ \A k \in I : b[BaselineBatch(b, "instructors", k)].cutoff \in S
      /\ cutoff \in S
  OBVIOUS
<1> HIDE DEF S, E
<1>6. E <= cutoff
  BY <1>4, <1>5
<1>7. ASSUME NEW k \in C PROVE E <= Baseline(b, "courses", k).at
  <2>1. E <= b[BaselineBatch(b, "courses", k)].cutoff
    BY <1>4, <1>5
  <2> QED BY <2>1, <1>1, <1>4
<1>8. ASSUME NEW k \in I PROVE E <= Baseline(b, "instructors", k).at
  <2>1. E <= b[BaselineBatch(b, "instructors", k)].cutoff
    BY <1>4, <1>5
  <2> QED BY <2>1, <1>1, <1>4
<1> QED BY <1>4, <1>6, <1>7, <1>8 DEF E

(* Part by part: a row of the result is a baseline or the run's own row.   *)
LEMMA SuppressedRow ==
    ASSUME NEW b, IsHistory(b), NEW c, IsContent(c), NEW min, NEW part \in Part
    PROVE  LET d == Suppressed(c, b, min)
           IN  /\ DOMAIN d[part] = DOMAIN c[part]
               /\ \A k \in DOMAIN c[part] :
                     \/ /\ HasBaseline(b, part, k) /\ d[part][k] = Baseline(b, part, k)
                        /\ d.cutoff <= Baseline(b, part, k).at
                     \/ d[part][k] = c[part][k]
<1> DEFINE I == SuppressedInstructors(b, c.instructors, min)
           C == SuppressedCourses(b, c.courses, min, I)
           d == Suppressed(c, b, min)
<1>1. /\ d.cutoff = EffectiveCutoff(b, c.cutoff, C, I)
      /\ d.courses = Replaced(b, "courses", c.courses, C)
      /\ d.instructors = Replaced(b, "instructors", c.instructors, I)
      /\ \A k \in I : k \in DOMAIN c.instructors /\ HasBaseline(b, "instructors", k)
      /\ \A k \in C : k \in DOMAIN c.courses /\ HasBaseline(b, "courses", k)
  BY SuppressedParts
<1> HIDE DEF I, C, d
<1>2. /\ \A k \in C : d.cutoff <= Baseline(b, "courses", k).at
      /\ \A k \in I : d.cutoff <= Baseline(b, "instructors", k).at
  BY <1>1, EarliestCutoff DEF IsContent
<1>3. Rows(c.courses, Cohort, Row) /\ Rows(c.instructors, Taught, Row)
  BY DEF IsContent
<1>4. CASE part = "courses"
  <2>1. /\ DOMAIN d.courses = DOMAIN c.courses
        /\ \A k \in C : d.courses[k] = Baseline(b, "courses", k)
        /\ \A k \in DOMAIN c.courses \ C : d.courses[k] = c.courses[k]
    BY <1>1, <1>3, ReplacedRows DEF Part
  <2> QED BY <2>1, <1>1, <1>2, <1>4 DEF d
<1>5. CASE part = "instructors"
  <2>1. /\ DOMAIN d.instructors = DOMAIN c.instructors
        /\ \A k \in I : d.instructors[k] = Baseline(b, "instructors", k)
        /\ \A k \in DOMAIN c.instructors \ I : d.instructors[k] = c.instructors[k]
    BY <1>1, <1>3, ReplacedRows DEF Part
  <2> QED BY <2>1, <1>1, <1>2, <1>5 DEF d
<1> QED BY <1>4, <1>5 DEF Part

LEMMA SuppressedContent ==
    ASSUME NEW b, IsHistory(b), NEW c, IsContent(c), Honest(c), Covered(c), NEW min
    PROVE  LET d == Suppressed(c, b, min)
           IN  IsContent(d) /\ Honest(d) /\ Covered(d)
<1> DEFINE I == SuppressedInstructors(b, c.instructors, min)
           C == SuppressedCourses(b, c.courses, min, I)
           d == Suppressed(c, b, min)
<1>1. /\ d.at = c.at
      /\ d.cutoff = EffectiveCutoff(b, c.cutoff, C, I)
      /\ d.courses = Replaced(b, "courses", c.courses, C)
      /\ d.instructors = Replaced(b, "instructors", c.instructors, I)
      /\ d.listed = Cardinality(ListedCourses(d.courses, min))
      /\ \A k \in I : k \in DOMAIN c.instructors /\ HasBaseline(b, "instructors", k)
      /\ \A k \in C : k \in DOMAIN c.courses /\ HasBaseline(b, "courses", k)
  BY SuppressedParts
<1>2. \A part \in Part :
        /\ DOMAIN d[part] = DOMAIN c[part]
        /\ \A k \in DOMAIN c[part] :
              \/ d.cutoff <= Baseline(b, part, k).at /\ d[part][k] = Baseline(b, part, k)
              \/ d[part][k] = c[part][k]
  BY SuppressedRow
<1> HIDE DEF I, C, d
<1>3. c.cutoff \in Nat /\ c.at \in Nat
  BY DEF IsContent
<1>4. d.cutoff \in Nat /\ d.cutoff <= c.cutoff
  BY <1>1, <1>3, EarliestCutoff
<1>5. Rows(d.courses, Cohort, Row) /\ Rows(d.instructors, Taught, Row)
  BY <1>1, ReplacedRows DEF Part, IsContent
<1>6. d.listed \in Nat
  <2>1. ListedCourses(d.courses, min) \in SUBSET Course /\ IsFiniteSet(Course)
    BY PrivacyAssumption DEF PrivacyAssumption, ListedCourses
  <2> QED BY <2>1, <1>1, FS_Subset, FS_CardinalityType
<1>7. IsContent(d)
  BY <1>1, <1>3, <1>4, <1>5, <1>6 DEF IsContent
<1>8. ASSUME NEW part \in Part, NEW k \in DOMAIN d[part] PROVE d.cutoff <= d[part][k].at
  <2>1. CASE d[part][k] = c[part][k]
    <3>1. k \in DOMAIN c[part] /\ c.cutoff <= c[part][k].at
      BY <1>2 DEF Honest
    <3>2. c[part][k].at \in Nat
      BY <3>1, ContentRows, RowTypes
    <3> QED BY <2>1, <3>1, <3>2, <1>3, <1>4
  <2> QED BY <2>1, <1>2
<1>9. Covered(d)
  <2>1. DOMAIN d.courses = DOMAIN c.courses /\ DOMAIN d.instructors = DOMAIN c.instructors
    BY <1>2 DEF Part
  <2> QED BY <2>1 DEF Covered
<1> QED BY <1>7, <1>8, <1>9 DEF Honest, d

LEMMA SuppressedUpTo ==
    ASSUME NEW b, IsHistory(b), NEW c, IsContent(c), NEW min, NEW t, UpTo(c, t),
           \A n \in DOMAIN b : UpTo(b[n], t)
    PROVE  UpTo(Suppressed(c, b, min), t)
<1> DEFINE d == Suppressed(c, b, min)
<1>1. SUFFICES ASSUME NEW part \in Part, NEW k \in DOMAIN d[part] PROVE d[part][k].at <= t
  BY DEF UpTo
<1>2. /\ k \in DOMAIN c[part]
      /\ \/ HasBaseline(b, part, k) /\ d[part][k] = Baseline(b, part, k)
         \/ d[part][k] = c[part][k]
  BY SuppressedRow
<1> HIDE DEF d
<1>3. ASSUME HasBaseline(b, part, k) PROVE Baseline(b, part, k).at <= t
  BY <1>3, BaselineIsLatest DEF Baseline, UpTo
<1> QED BY <1>2, <1>3 DEF UpTo

(* Against the batches it was compared with, when the grades were read     *)
(* after all of them.                                                      *)
LEMMA SuppressedForward ==
    ASSUME NEW b, IsHistory(b), NEW c, IsContent(c), NEW min, ReadAt(c, c.at),
           \A n \in DOMAIN b : UpTo(b[n], c.at)
    PROVE  Forward(b, Suppressed(c, b, min))
<1> DEFINE d == Suppressed(c, b, min)
<1>1. SUFFICES ASSUME NEW m \in DOMAIN b, NEW part \in Part,
                      NEW k \in DOMAIN b[m][part] \cap DOMAIN d[part]
               PROVE  b[m][part][k].at <= d[part][k].at
  BY DEF Forward
<1>2. /\ k \in DOMAIN c[part]
      /\ \/ HasBaseline(b, part, k) /\ d[part][k] = Baseline(b, part, k)
         \/ d[part][k] = c[part][k]
  BY SuppressedRow
<1> HIDE DEF d
<1>3. CASE HasBaseline(b, part, k) /\ d[part][k] = Baseline(b, part, k)
  BY <1>3, BaselineRow DEF Holding
<1>4. CASE d[part][k] = c[part][k]
  BY <1>2, <1>4 DEF UpTo, ReadAt
<1> QED BY <1>2, <1>3, <1>4

LEMMA SuppressedWithheld ==
    ASSUME NEW b, IsHistory(b), NEW c, IsContent(c), NEW min \in Nat
    PROVE  Withheld(b, Suppressed(c, b, min), min)
<1> DEFINE I == SuppressedInstructors(b, c.instructors, min)
           C == SuppressedCourses(b, c.courses, min, I)
           d == Suppressed(c, b, min)
<1>1. /\ d.courses = Replaced(b, "courses", c.courses, C)
      /\ d.instructors = Replaced(b, "instructors", c.instructors, I)
      /\ \A k \in I : k \in DOMAIN c.instructors /\ HasBaseline(b, "instructors", k)
      /\ \A k \in C : k \in DOMAIN c.courses /\ HasBaseline(b, "courses", k)
  BY SuppressedParts
<1>2. \A k \in DOMAIN c.courses \ C :
        ComparedWith(b, "courses", k, min)
        => ~UnsafeDelta(Baseline(b, "courses", k), c.courses[k], min)
  BY DEF SuppressedCourses
<1>3. \A k \in DOMAIN c.instructors \ I :
        ComparedWith(b, "instructors", k, min)
        => ~UnsafeDelta(Baseline(b, "instructors", k), c.instructors[k], min)
  BY DEF SuppressedInstructors
<1> HIDE DEF I, C, d
<1>4. Rows(c.courses, Cohort, Row) /\ Rows(c.instructors, Taught, Row)
  BY DEF IsContent
<1>5. /\ DOMAIN d.courses = DOMAIN c.courses
      /\ \A k \in C : d.courses[k] = Baseline(b, "courses", k)
      /\ \A k \in DOMAIN c.courses \ C : d.courses[k] = c.courses[k]
  BY <1>1, <1>4, ReplacedRows DEF Part
<1>6. /\ DOMAIN d.instructors = DOMAIN c.instructors
      /\ \A k \in I : d.instructors[k] = Baseline(b, "instructors", k)
      /\ \A k \in DOMAIN c.instructors \ I : d.instructors[k] = c.instructors[k]
  BY <1>1, <1>4, ReplacedRows DEF Part
<1>7. \A part \in Part : \A k :
        HasBaseline(b, part, k)
        => ~UnsafeDelta(Baseline(b, part, k), Baseline(b, part, k), min)
  BY BaselineRow, NoDeltaToItself
<1>8. \A k \in DOMAIN d.courses :
        ComparedWith(b, "courses", k, min)
        => ~UnsafeDelta(Baseline(b, "courses", k), d.courses[k], min)
  BY <1>2, <1>5, <1>7, <1>1 DEF Part
<1>9. \A k \in DOMAIN d.instructors :
        ComparedWith(b, "instructors", k, min)
        => ~UnsafeDelta(Baseline(b, "instructors", k), d.instructors[k], min)
  BY <1>3, <1>6, <1>7, <1>1 DEF Part
<1> QED BY <1>8, <1>9 DEF Withheld, Part, d

LEMMA SuppressedHeld ==
    ASSUME NEW b, IsHistory(b), NEW c, IsContent(c), Covered(c), ReadAt(c, c.at), NEW min
    PROVE  Held(b, Suppressed(c, b, min), min)
<1> DEFINE I == SuppressedInstructors(b, c.instructors, min)
           C == SuppressedCourses(b, c.courses, min, I)
           d == Suppressed(c, b, min)
<1>1. /\ d.at = c.at
      /\ d.courses = Replaced(b, "courses", c.courses, C)
      /\ d.instructors = Replaced(b, "instructors", c.instructors, I)
      /\ \A k \in I : k \in DOMAIN c.instructors /\ HasBaseline(b, "instructors", k)
      /\ \A k \in C : k \in DOMAIN c.courses /\ HasBaseline(b, "courses", k)
  BY SuppressedParts
<1>2. \A c1 \in DOMAIN c.courses :
        ComparedWith(b, "courses", c1, min) /\ (\E k \in I : k[1] = c1) => c1 \in C
  BY DEF SuppressedCourses
<1> HIDE DEF I, C, d
<1>3. Rows(c.courses, Cohort, Row) /\ Rows(c.instructors, Taught, Row) /\ c.at \in Nat
  BY DEF IsContent
<1>4. \A k \in C : d.courses[k] = Baseline(b, "courses", k)
  BY <1>1, <1>3, ReplacedRows DEF Part
<1>5. /\ DOMAIN d.instructors = DOMAIN c.instructors
      /\ \A k \in DOMAIN c.instructors \ I : d.instructors[k] = c.instructors[k]
  BY <1>1, <1>3, ReplacedRows DEF Part
<1>6. SUFFICES ASSUME NEW k \in DOMAIN d.instructors,
                      d.instructors[k].at < d.at, ComparedWith(b, "courses", k[1], min)
               PROVE  d.courses[k[1]] = Baseline(b, "courses", k[1])
  BY DEF Held, d
<1>7. k \in I
  BY <1>1, <1>3, <1>5, <1>6 DEF ReadAt, Part
<1>8. k[1] \in DOMAIN c.courses
  BY <1>5 DEF Covered
<1> QED BY <1>2, <1>4, <1>6, <1>7, <1>8

-----------------------------------------------------------------------------
(* The inductive invariant.                                                *)

(* What is published: a sequence of honest contents, each put against the  *)
(* ones before it.                                                         *)
Sequenced == published \in Seq({published[n] : n \in DOMAIN published})
PublishedInv ==
    \A n \in DOMAIN published :
        /\ Honest(published[n]) /\ UpTo(published[n], now)
        /\ Forward(Before(n), published[n])
        /\ Withheld(Before(n), published[n], published[n].minimum)
        /\ Held(Before(n), published[n], published[n].minimum)

HasContent == {"aggregated", "publishing"}
RunInv ==
    \A r \in Run :
        /\ run[r].phase = "cutoff" => run[r].cutoff <= now
        /\ run[r].phase = "aggregated" => ReadAt(run[r], run[r].at)
        /\ run[r].phase \in HasContent =>
              /\ Honest(run[r]) /\ UpTo(run[r], now) /\ Covered(run[r]) /\ run[r].at <= now

(* A run whose batch is still running has read its grades, or has compared *)
(* them, after every publication there is.                                 *)
Current ==
    \A r \in Run :
        running = r =>
        /\ run[r].phase = "aggregated" =>
              \A n \in DOMAIN published : UpTo(published[n], run[r].at)
        /\ run[r].phase = "publishing" =>
              /\ Forward(published, run[r])
              /\ Withheld(published, run[r], minimum[r])
              /\ Held(published, run[r], minimum[r])

IInv == TypeOK /\ Sequenced /\ PublishedInv /\ RunInv /\ Current

LEMMA LaterUpTo ==
    ASSUME NEW c, IsContent(c), NEW s \in Nat, NEW t \in Nat, s <= t, UpTo(c, s)
    PROVE  UpTo(c, t)
BY ContentRows, RowTypes DEF UpTo

LEMMA PublishedIsHistory ==
    ASSUME TypeOK, Sequenced, PublishedInv
    PROVE  IsHistory(published) /\ Len(published) \in Nat
           /\ DOMAIN published = 1..Len(published)
<1>1. Len(published) \in Nat /\ DOMAIN published = 1..Len(published)
  BY DEF Sequenced
<1>2. ASSUME NEW n \in DOMAIN published PROVE IsContent(published[n]) /\ Honest(published[n])
  BY <1>2 DEF TypeOK, PublishedInv
<1>3. ASSUME NEW m \in DOMAIN published, NEW n \in DOMAIN published, NEW part \in Part, m < n,
             NEW k \in DOMAIN published[m][part] \cap DOMAIN published[n][part]
      PROVE  published[m][part][k].at <= published[n][part][k].at
  <2>1. m \in DOMAIN Before(n) /\ Before(n)[m] = published[m]
    BY <1>1, <1>3 DEF Before
  <2>2. Forward(Before(n), published[n])
    BY DEF PublishedInv
  <2> QED BY <2>1, <2>2, <1>3 DEF Forward
<1> QED BY <1>1, <1>2, <1>3 DEF IsHistory

LEMMA IdleContent == IsContent(IdleRun) /\ IdleRun.phase = "idle"
<1>1. Rows(<<>>, Cohort, Row) /\ Rows(<<>>, Taught, Row)
  BY DEF Rows
<1> QED BY <1>1 DEF IdleRun, IsContent

LEMMA InitInv == Init => IInv
<1> SUFFICES ASSUME Init PROVE IInv
  OBVIOUS
<1>1. TypeOK
  BY IdleContent DEF Init, TypeOK, Phase
<1>2. Sequenced /\ PublishedInv
  BY DEF Init, Sequenced, PublishedInv
<1>3. RunInv /\ Current
  BY IdleContent, PrivacyAssumption DEF Init, RunInv, Current, HasContent, PrivacyAssumption
<1> QED BY <1>1, <1>2, <1>3 DEF IInv

(* Steps that publish nothing keep what is published.                      *)
LEMMA PublishedKept ==
    ASSUME IInv, published' = published, now' \in Nat, now <= now'
    PROVE  /\ Sequenced' /\ PublishedInv'
           /\ \A n \in DOMAIN published' : /\ published'[n].minimum \in Minimum
                                          /\ IsContent(published'[n])
<1>1. Sequenced' /\ \A n \in DOMAIN published' : /\ published'[n].minimum \in Minimum
                                               /\ IsContent(published'[n])
  BY DEF IInv, TypeOK, Sequenced
<1>2. \A n : Before(n)' = Before(n)
  BY DEF Before
<1>3. \A n \in DOMAIN published : UpTo(published[n], now')
  BY LaterUpTo DEF IInv, TypeOK, PublishedInv
<1>4. PublishedInv'
  BY <1>2, <1>3 DEF IInv, PublishedInv
<1> QED BY <1>1, <1>4

(* Steps that change one run r to a state of its own.                      *)
LEMMA OtherRunsKept ==
    ASSUME IInv, NEW r \in Run, NEW new, run' = [run EXCEPT ![r] = new],
           IsContent(new), new.phase \in Phase, now' = now, published' = published,
           minimum' = minimum, running' \in Run \cup {Nobody},
           running' # r => running' = running \/ running' = Nobody,
           new.phase = "cutoff" => new.cutoff <= now,
           new.phase = "aggregated" => ReadAt(new, new.at),
           new.phase \in HasContent =>
               Honest(new) /\ UpTo(new, now) /\ Covered(new) /\ new.at <= now,
           running' = r =>
               /\ new.phase = "aggregated" => \A n \in DOMAIN published : UpTo(published[n], new.at)
               /\ new.phase = "publishing" => /\ Forward(published, new)
                                              /\ Withheld(published, new, minimum[r])
                                              /\ Held(published, new, minimum[r])
    PROVE  IInv'
<1>1. DOMAIN run = Run /\ now \in Nat /\ now <= now' /\ now' \in Nat
  BY DEF IInv, TypeOK
<1>2. DOMAIN run' = Run /\ run'[r] = new /\ \A q \in Run \ {r} : run'[q] = run[q]
  BY <1>1
<1>3. /\ Sequenced' /\ PublishedInv'
      /\ \A n \in DOMAIN published' : published'[n].minimum \in Minimum /\ IsContent(published'[n])
  BY <1>1, PublishedKept
<1>4. TypeOK'
  <2>1. \A q \in Run : run'[q].phase \in Phase /\ IsContent(run'[q])
    BY <1>2 DEF IInv, TypeOK
  <2>2. run' = [q \in Run |-> run'[q]]
    BY <1>1
  <2>3. now' \in Nat /\ minimum' \in [Run -> Minimum]
    BY DEF IInv, TypeOK
  <2> QED BY <1>3, <2>1, <2>2, <2>3 DEF TypeOK
<1>5. RunInv'
  <2> SUFFICES ASSUME NEW q \in Run
               PROVE  /\ run'[q].phase = "cutoff" => run'[q].cutoff <= now'
                      /\ run'[q].phase = "aggregated" => ReadAt(run'[q], run'[q].at)
                      /\ run'[q].phase \in HasContent =>
                            /\ Honest(run'[q]) /\ UpTo(run'[q], now') /\ Covered(run'[q])
                            /\ run'[q].at <= now'
    BY DEF RunInv, HasContent
  <2>1. CASE q = r
    BY <1>2, <2>1
  <2>2. CASE q # r
    <3>1. run'[q] = run[q]
      BY <1>2, <2>2
    <3> QED BY <3>1 DEF IInv, RunInv
  <2> QED BY <2>1, <2>2
<1>6. Current'
  <2> SUFFICES ASSUME NEW q \in Run, running' = q
               PROVE  /\ run'[q].phase = "aggregated" =>
                            \A n \in DOMAIN published : UpTo(published[n], run'[q].at)
                      /\ run'[q].phase = "publishing" =>
                            /\ Forward(published, run'[q])
                            /\ Withheld(published, run'[q], minimum[q])
                            /\ Held(published, run'[q], minimum[q])
    BY DEF Current
  <2>1. CASE q = r
    BY <1>2, <2>1
  <2>2. CASE q # r
    <3>1. run'[q] = run[q] /\ running = q
      BY <1>2, <2>2, PrivacyAssumption DEF PrivacyAssumption
    <3> QED BY <3>1 DEF IInv, Current
  <2> QED BY <2>1, <2>2
<1> QED BY <1>3, <1>4, <1>5, <1>6 DEF IInv

-----------------------------------------------------------------------------
(* One lemma per action.                                                   *)

LEMMA TickInv == IInv /\ Tick => IInv'
<1> SUFFICES ASSUME IInv, Tick PROVE IInv'
  OBVIOUS
<1>1. /\ now \in Nat /\ now' \in Nat /\ now <= now'
      /\ UNCHANGED <<minimum, run, running, published>>
  BY DEF IInv, TypeOK, Tick
<1>2. /\ Sequenced' /\ PublishedInv'
      /\ \A n \in DOMAIN published' : published'[n].minimum \in Minimum /\ IsContent(published'[n])
  BY <1>1, PublishedKept
<1>3. TypeOK'
  BY <1>1, <1>2 DEF IInv, TypeOK
<1>4. RunInv'
  <2> SUFFICES ASSUME NEW q \in Run
               PROVE  /\ run[q].phase = "cutoff" => run[q].cutoff <= now'
                      /\ run[q].phase = "aggregated" => ReadAt(run[q], run[q].at)
                      /\ run[q].phase \in HasContent =>
                            /\ Honest(run[q]) /\ UpTo(run[q], now') /\ Covered(run[q])
                            /\ run[q].at <= now'
    BY <1>1 DEF RunInv, HasContent
  <2>1. IsContent(run[q]) /\ run[q].cutoff \in Nat /\ run[q].at \in Nat
    BY DEF IInv, TypeOK, IsContent
  <2>2. UpTo(run[q], now) => UpTo(run[q], now')
    BY <1>1, <2>1, LaterUpTo
  <2> QED BY <1>1, <2>1, <2>2 DEF IInv, RunInv
<1>5. Current'
  BY <1>1 DEF IInv, Current
<1> QED BY <1>2, <1>3, <1>4, <1>5 DEF IInv

LEMMA ReconfigureInv ==
    ASSUME IInv, NEW r \in Run, Reconfigure(r) PROVE IInv'
<1>1. /\ minimum' \in [Run -> Minimum] /\ \A q \in Run \ {r} : minimum'[q] = minimum[q]
      /\ run[r].phase = "idle" /\ UNCHANGED <<now, run, running, published>>
  BY DEF IInv, TypeOK, Reconfigure
<1>2. /\ Sequenced' /\ PublishedInv'
      /\ \A n \in DOMAIN published' : published'[n].minimum \in Minimum /\ IsContent(published'[n])
  BY <1>1, PublishedKept DEF IInv, TypeOK
<1>3. TypeOK' /\ RunInv'
  BY <1>1, <1>2 DEF IInv, TypeOK, RunInv
<1>4. Current'
  <2> SUFFICES ASSUME NEW q \in Run, running = q
               PROVE  /\ run[q].phase = "aggregated" =>
                            \A n \in DOMAIN published : UpTo(published[n], run[q].at)
                      /\ run[q].phase = "publishing" =>
                            /\ Forward(published, run[q])
                            /\ Withheld(published, run[q], minimum'[q])
                            /\ Held(published, run[q], minimum'[q])
    BY <1>1 DEF Current
  <2>1. CASE q = r
    BY <1>1, <2>1
  <2>2. CASE q # r
    BY <1>1, <2>2 DEF IInv, Current
  <2> QED BY <2>1, <2>2
<1> QED BY <1>2, <1>3, <1>4 DEF IInv

(* A run in these phases has no content to speak of.                       *)
LEMMA EmptyHandedInv ==
    ASSUME IInv, NEW r \in Run, NEW new, run' = [run EXCEPT ![r] = new],
           IsContent(new), new.phase \in {"idle", "started"},
           now' = now, published' = published, minimum' = minimum,
           running' \in {r, running, Nobody}
    PROVE  IInv'
<1>1. /\ new.phase \in Phase /\ new.phase \notin HasContent
      /\ new.phase # "cutoff" /\ new.phase # "aggregated" /\ new.phase # "publishing"
      /\ running' \in Run \cup {Nobody}
  BY DEF Phase, HasContent, IInv, TypeOK
<1> QED BY <1>1, OtherRunsKept

LEMMA StartBatchInv ==
    ASSUME IInv, NEW r \in Run, StartBatch(r) PROVE IInv'
<1> DEFINE new == [IdleRun EXCEPT !.phase = "started"]
<1>1. run' = [run EXCEPT ![r] = new] /\ running' = r
      /\ UNCHANGED <<now, minimum, published>>
  BY DEF StartBatch
<1>2. IsContent(new) /\ new.phase = "started"
  BY IdleContent DEF IdleRun, IsContent
<1> HIDE DEF new
<1> QED BY <1>1, <1>2, EmptyHandedInv

LEMMA EndInv ==
    ASSUME IInv, NEW r \in Run, run' = [run EXCEPT ![r] = IdleRun],
           now' = now, published' = published, minimum' = minimum,
           running' \in {r, running, Nobody}
    PROVE  IInv'
BY IdleContent, EmptyHandedInv

LEMMA ReadCutoffInv ==
    ASSUME IInv, NEW r \in Run, ReadCutoff(r) PROVE IInv'
<1> DEFINE new == [IdleRun EXCEPT !.phase = "cutoff", !.cutoff = now]
<1>1. run' = [run EXCEPT ![r] = new] /\ UNCHANGED <<now, minimum, running, published>>
  BY DEF ReadCutoff
<1>2. now \in Nat /\ running \in Run \cup {Nobody}
  BY DEF IInv, TypeOK
<1>3. IsContent(new) /\ new.phase = "cutoff" /\ new.cutoff = now
  BY <1>2, IdleContent DEF IdleRun, IsContent
<1> HIDE DEF new
<1>4. new.phase \in Phase /\ new.phase \notin HasContent /\ new.cutoff <= now
  BY <1>2, <1>3 DEF Phase, HasContent
<1> QED BY <1>1, <1>2, <1>3, <1>4, OtherRunsKept

LEMMA StampedRows ==
    ASSUME NEW rows, NEW K, Rows(rows, K, Aggregate), now \in Nat
    PROVE  /\ Rows(Stamped(rows), K, Row) /\ DOMAIN Stamped(rows) = DOMAIN rows
           /\ \A k \in DOMAIN Stamped(rows) : Stamped(rows)[k].at = now
<1>1. \A k \in DOMAIN rows : rows[k] \in Aggregate
  BY DEF Rows
<1>2. ASSUME NEW k \in DOMAIN rows
      PROVE  [valid |-> rows[k].valid, pass |-> rows[k].pass, numeric |-> rows[k].numeric,
              sum |-> rows[k].sum, at |-> now] \in Row
  BY <1>1 DEF Aggregate, Row, Consistent
<1> QED BY <1>2 DEF Stamped, Rows

LEMMA ReadGradesInv ==
    ASSUME IInv, NEW r \in Run, ReadGrades(r) PROVE IInv'
<1>1. PICK s \in Snapshots : run' = [run EXCEPT ![r] = Aggregated(r, s)]
  BY DEF ReadGrades
<1>2. UNCHANGED <<now, minimum, running, published>> /\ run[r].phase = "cutoff"
  BY DEF ReadGrades
<1> DEFINE new == Aggregated(r, s)
<1>3. /\ new.phase = "aggregated" /\ new.cutoff = run[r].cutoff /\ new.at = now
      /\ new.courses = Stamped(s.courses) /\ new.instructors = Stamped(s.instructors)
      /\ new.listed = 0
  BY DEF Aggregated
<1> HIDE DEF new
<1>4. now \in Nat /\ running \in Run \cup {Nobody} /\ run[r].cutoff \in Nat /\ run[r].cutoff <= now
  BY <1>2 DEF IInv, TypeOK, IsContent, RunInv
<1>5. /\ Rows(s.courses, Cohort, Aggregate) /\ Rows(s.instructors, Taught, Aggregate)
      /\ \A k \in DOMAIN s.instructors : k[1] \in DOMAIN s.courses
  BY PrivacyAssumption DEF PrivacyAssumption
<1>6. IsContent(new) /\ ReadAt(new, now) /\ Covered(new)
  BY <1>3, <1>4, <1>5, StampedRows DEF IsContent, ReadAt, Part, Covered
<1>7. Honest(new) /\ UpTo(new, now)
  BY <1>3, <1>4, <1>6 DEF Honest, UpTo, ReadAt
<1>8. \A n \in DOMAIN published : UpTo(published[n], now)
  BY DEF IInv, PublishedInv
<1>9. new.phase \in Phase /\ new.phase # "cutoff" /\ new.phase # "publishing" /\ new.at <= now
  BY <1>3, <1>4 DEF Phase
<1> QED BY <1>1, <1>2, <1>3, <1>4, <1>6, <1>7, <1>8, <1>9, OtherRunsKept DEF new

LEMMA SuppressDeltasInv ==
    ASSUME IInv, NEW r \in Run, SuppressDeltas(r) PROVE IInv'
<1> DEFINE c == run[r]
           new == Suppressed(c, published, minimum[r])
<1>1. /\ run' = [run EXCEPT ![r] = new] /\ UNCHANGED <<now, minimum, running, published>>
      /\ c.phase = "aggregated"
  BY DEF SuppressDeltas
<1>2. IsHistory(published)
  BY PublishedIsHistory DEF IInv
<1>3. /\ IsContent(c) /\ Honest(c) /\ UpTo(c, now) /\ Covered(c) /\ c.at <= now
      /\ ReadAt(c, c.at) /\ running \in Run \cup {Nobody} /\ minimum[r] \in Nat
  BY <1>1, PrivacyAssumption DEF IInv, TypeOK, RunInv, HasContent, PrivacyAssumption
<1>4. new.phase = "publishing" /\ new.at = c.at
  BY <1>2, <1>3, SuppressedParts
<1>5. IsContent(new) /\ Honest(new) /\ Covered(new)
  BY <1>2, <1>3, SuppressedContent
<1>6. UpTo(new, now)
  <2>1. \A n \in DOMAIN published : UpTo(published[n], now)
    BY DEF IInv, PublishedInv
  <2> QED BY <2>1, <1>2, <1>3, SuppressedUpTo
<1>7. Withheld(published, new, minimum[r]) /\ Held(published, new, minimum[r])
  BY <1>2, <1>3, SuppressedWithheld, SuppressedHeld
<1>8. running = r => Forward(published, new)
  <2>1. running = r => \A n \in DOMAIN published : UpTo(published[n], c.at)
    BY <1>1 DEF IInv, Current
  <2> QED BY <2>1, <1>2, <1>3, SuppressedForward
<1> HIDE DEF new, c
<1>9. new.phase \in Phase /\ new.phase # "cutoff" /\ new.phase # "aggregated" /\ new.at <= now
  BY <1>3, <1>4 DEF Phase
<1> QED BY <1>1, <1>3, <1>4, <1>5, <1>6, <1>7, <1>8, <1>9, OtherRunsKept

(* The step that publishes.                                                *)
LEMMA AppendedBatch ==
    ASSUME IInv, NEW r \in Run, published' = Append(published, Batch(r))
    PROVE  /\ Sequenced' /\ DOMAIN published' = 1..(Len(published) + 1)
           /\ published'[Len(published) + 1] = Batch(r)
           /\ \A n : n = Len(published) + 1 => Before(n)' = published
           /\ \A n \in DOMAIN published : /\ n # Len(published) + 1
                                          /\ published'[n] = published[n]
                                          /\ Before(n)' = Before(n)
<1> DEFINE L == Len(published)
           S == {published[n] : n \in DOMAIN published}
<1>1. published \in Seq(S) /\ L \in Nat /\ DOMAIN published = 1..L
  BY DEF IInv, Sequenced
<1>2. published \in Seq(S \cup {Batch(r)})
  BY <1>1
<1>3. /\ published' \in Seq(S \cup {Batch(r)}) /\ Len(published') = L + 1
      /\ DOMAIN published' = 1..(L + 1) /\ published'[L + 1] = Batch(r)
      /\ \A n \in 1..L : published'[n] = published[n]
  BY <1>1, <1>2
<1>4. {published'[n] : n \in DOMAIN published'} = S \cup {Batch(r)}
  BY <1>1, <1>3
<1>5. Sequenced'
  BY <1>3, <1>4 DEF Sequenced
<1>6. ASSUME NEW n \in 1..L PROVE Before(n)' = Before(n)
  BY <1>1, <1>3 DEF Before
<1>7. ASSUME NEW n, n = L + 1 PROVE Before(n)' = published
  <2>1. published = [m \in 1..L |-> published[m]] /\ n - 1 = L
    BY <1>1, <1>7
  <2>2. Before(n)' = [m \in 1..L |-> published'[m]]
    BY <2>1 DEF Before
  <2> QED BY <1>1, <1>3, <2>1, <2>2
<1> QED BY <1>1, <1>3, <1>5, <1>6, <1>7

LEMMA PublishedBatch ==
    ASSUME IInv, NEW r \in Run, run[r].phase = "publishing", running = r
    PROVE  /\ Batch(r).minimum = minimum[r] /\ Batch(r).minimum \in Minimum
           /\ IsContent(Batch(r)) /\ Honest(Batch(r)) /\ UpTo(Batch(r), now)
           /\ Forward(published, Batch(r)) /\ Withheld(published, Batch(r), minimum[r])
           /\ Held(published, Batch(r), minimum[r])
<1>1. /\ IsContent(run[r]) /\ Honest(run[r]) /\ UpTo(run[r], now)
      /\ Forward(published, run[r]) /\ Withheld(published, run[r], minimum[r])
      /\ Held(published, run[r], minimum[r]) /\ minimum[r] \in Minimum
  BY DEF IInv, TypeOK, RunInv, Current, HasContent
<1>2. /\ Batch(r).minimum = minimum[r] /\ Batch(r).cutoff = run[r].cutoff
      /\ Batch(r).at = run[r].at /\ Batch(r).courses = run[r].courses
      /\ Batch(r).instructors = run[r].instructors /\ Batch(r).listed = run[r].listed
  BY DEF Batch
<1>3. \A part \in Part : Batch(r)[part] = run[r][part]
  BY <1>2 DEF Part
<1>4. IsContent(Batch(r)) /\ Honest(Batch(r)) /\ UpTo(Batch(r), now)
  BY <1>1, <1>2, <1>3 DEF IsContent, Honest, UpTo
<1>5. Forward(published, Batch(r))
  BY <1>1, <1>3 DEF Forward
<1>6. Withheld(published, Batch(r), minimum[r])
  BY <1>1, <1>3 DEF Withheld
<1>7. Held(published, Batch(r), minimum[r])
  BY <1>1, <1>2 DEF Held
<1> QED BY <1>1, <1>2, <1>4, <1>5, <1>6, <1>7

LEMMA PublishInv ==
    ASSUME IInv, NEW r \in Run, Publish(r) PROVE IInv'
<1>1. /\ run[r].phase = "publishing" /\ run' = [run EXCEPT ![r] = IdleRun]
      /\ UNCHANGED <<now, minimum>>
  BY DEF Publish
<1>2. CASE running # r
  BY <1>1, <1>2, EndInv DEF Publish, StillRunning
<1>3. CASE running = r
  <2>1. published' = Append(published, Batch(r)) /\ running' = Nobody
    BY <1>3 DEF Publish, StillRunning
  <2>2. /\ Sequenced' /\ DOMAIN published' = 1..(Len(published) + 1)
        /\ published'[Len(published) + 1] = Batch(r)
        /\ \A n : n = Len(published) + 1 => Before(n)' = published
        /\ \A n \in DOMAIN published : published'[n] = published[n] /\ Before(n)' = Before(n)
    BY <2>1, AppendedBatch
  <2>3. DOMAIN published = 1..Len(published) /\ Len(published) \in Nat
    BY PublishedIsHistory DEF IInv
  <2>4. /\ Batch(r).minimum = minimum[r] /\ Batch(r).minimum \in Minimum
        /\ IsContent(Batch(r)) /\ Honest(Batch(r)) /\ UpTo(Batch(r), now)
        /\ Forward(published, Batch(r)) /\ Withheld(published, Batch(r), minimum[r])
        /\ Held(published, Batch(r), minimum[r])
    BY <1>1, <1>3, PublishedBatch
  <2>5. ASSUME NEW n \in DOMAIN published'
        PROVE  n \in DOMAIN published \/ n = Len(published) + 1
    BY <2>2, <2>3
  <2>6. PublishedInv'
    <3> SUFFICES ASSUME NEW n \in DOMAIN published'
                 PROVE  /\ Honest(published'[n]) /\ UpTo(published'[n], now)
                        /\ Forward(Before(n)', published'[n])
                        /\ Withheld(Before(n)', published'[n], published'[n].minimum)
                        /\ Held(Before(n)', published'[n], published'[n].minimum)
      BY <1>1 DEF PublishedInv
    <3>1. CASE n \in DOMAIN published
      BY <2>2, <3>1 DEF IInv, PublishedInv
    <3>2. CASE n = Len(published) + 1
      BY <2>2, <2>4, <3>2
    <3> QED BY <2>5, <3>1, <3>2
  <2>7. /\ DOMAIN run = Run /\ run'[r] = IdleRun /\ \A q \in Run \ {r} : run'[q] = run[q]
        /\ run' = [q \in Run |-> run'[q]]
    BY <1>1 DEF IInv, TypeOK
  <2>8. TypeOK'
    <3>1. \A n \in DOMAIN published' : published'[n].minimum \in Minimum /\ IsContent(published'[n])
      BY <2>2, <2>4, <2>5 DEF IInv, TypeOK
    <3>2. \A q \in Run : run'[q].phase \in Phase /\ IsContent(run'[q])
      BY <2>7, IdleContent DEF IInv, TypeOK, Phase
    <3>3. now' \in Nat /\ minimum' \in [Run -> Minimum] /\ running' \in Run \cup {Nobody}
      BY <1>1, <2>1 DEF IInv, TypeOK
    <3> QED BY <2>7, <3>1, <3>2, <3>3 DEF TypeOK
  <2>9. RunInv'
    <3> SUFFICES ASSUME NEW q \in Run
                 PROVE  /\ run'[q].phase = "cutoff" => run'[q].cutoff <= now
                        /\ run'[q].phase = "aggregated" => ReadAt(run'[q], run'[q].at)
                        /\ run'[q].phase \in HasContent =>
                              /\ Honest(run'[q]) /\ UpTo(run'[q], now) /\ Covered(run'[q])
                              /\ run'[q].at <= now
      BY <1>1 DEF RunInv, HasContent
    <3>1. CASE q = r
      BY <2>7, <3>1, IdleContent DEF HasContent
    <3>2. CASE q # r
      <4>1. run'[q] = run[q]
        BY <2>7, <3>2
      <4> QED BY <4>1 DEF IInv, RunInv
    <3> QED BY <3>1, <3>2
  <2>10. Current'
    BY <2>1, PrivacyAssumption DEF Current, PrivacyAssumption
  <2> QED BY <2>2, <2>6, <2>8, <2>9, <2>10 DEF IInv
<1> QED BY <1>2, <1>3

LEMMA NextInv == IInv /\ [Next]_vars => IInv'
<1> SUFFICES ASSUME IInv, [Next]_vars PROVE IInv'
  OBVIOUS
<1>1. CASE Tick
  BY <1>1, TickInv
<1>2. ASSUME NEW r \in Run, StartBatch(r) PROVE IInv'
  BY <1>2, StartBatchInv
<1>3. ASSUME NEW r \in Run, ReadCutoff(r) PROVE IInv'
  BY <1>3, ReadCutoffInv
<1>4. ASSUME NEW r \in Run, ReadGrades(r) PROVE IInv'
  BY <1>4, ReadGradesInv
<1>5. ASSUME NEW r \in Run, SuppressDeltas(r) PROVE IInv'
  BY <1>5, SuppressDeltasInv
<1>6. ASSUME NEW r \in Run, Publish(r) PROVE IInv'
  BY <1>6, PublishInv
<1>7. ASSUME NEW r \in Run, Fail(r) PROVE IInv'
  BY <1>7, EndInv DEF Fail
<1>8. ASSUME NEW r \in Run, Crash(r) PROVE IInv'
  BY <1>8, EndInv DEF Crash
<1>9. ASSUME NEW r \in Run, Reconfigure(r) PROVE IInv'
  BY <1>9, ReconfigureInv
<1>10. CASE UNCHANGED vars
  <2>1. \A n : Before(n)' = Before(n)
    BY <1>10 DEF vars, Before
  <2> QED BY <2>1, <1>10 DEF vars, IInv, TypeOK, Sequenced, PublishedInv, RunInv, Current
<1> QED BY <1>1, <1>2, <1>3, <1>4, <1>5, <1>6, <1>7, <1>8, <1>9, <1>10 DEF Next

-----------------------------------------------------------------------------
(* The theorems.                                                           *)

(* The invariant holds in every reachable state: what a run carries and    *)
(* what is published is honest and, while it counts, compared.             *)
THEOREM PrivacyInvariant == Spec => []IInv
BY InitInv, NextInv, PTL DEF Spec

(* Every run, row and batch keeps its type; no row has more passed or      *)
(* numeric grades than grades.                                             *)
THEOREM PrivacyTypes == Spec => []TypeOK
<1>1. IInv => TypeOK
  BY DEF IInv
<1> QED BY <1>1, PrivacyInvariant, PTL

(* No batch claims a source cutoff later than any of its rows, however     *)
(* often the rows were replaced (earliestPublishedCutoff).                 *)
THEOREM CutoffIsConservative == Spec => []CutoffConservative
<1>1. IInv => CutoffConservative
  BY DEF IInv, PublishedInv, Honest, CutoffConservative
<1> QED BY <1>1, PrivacyInvariant, PTL

(* No publication moves a public row by a small delta.                     *)
THEOREM SmallDeltasAreWithheld == Spec => []SmallDeltasWithheld
<1>1. IInv => SmallDeltasWithheld
  BY DEF IInv, PublishedInv, Withheld, SmallDeltasWithheld
<1> QED BY <1>1, PrivacyInvariant, PTL

(* A course row is held back together with its teachers' rows.             *)
THEOREM CoursesHeldWithInstructors == Spec => []CourseHeldWithInstructor
<1>1. IInv => CourseHeldWithInstructor
  BY DEF IInv, PublishedInv, Held, CourseHeldWithInstructor
<1> QED BY <1>1, PrivacyInvariant, PTL

(* No publication brings back older grades of a partition.                 *)
THEOREM RowsOnlyMoveForward == Spec => []RowsMoveForward
<1>1. ASSUME IInv PROVE RowsMoveForward
  <2> SUFFICES ASSUME NEW m \in DOMAIN published, NEW n \in DOMAIN published,
                      NEW part \in Part, m < n,
                      NEW k \in DOMAIN published[m][part] \cap DOMAIN published[n][part]
               PROVE  published[m][part][k].at <= published[n][part][k].at
    BY DEF RowsMoveForward
  <2>1. m \in DOMAIN Before(n) /\ Before(n)[m] = published[m]
    BY <1>1, PublishedIsHistory DEF IInv, Before
  <2>2. Forward(Before(n), published[n])
    BY <1>1 DEF IInv, PublishedInv
  <2> QED BY <2>1, <2>2 DEF Forward
<1> QED BY <1>1, PrivacyInvariant, PTL

-----------------------------------------------------------------------------
(* The cached length of the course list.                                   *)

(* The count stored with a content is that of its own courses under the    *)
(* minimum of the run that made it.                                        *)
Counted(c, min) == c.listed = Cardinality(ListedCourses(c.courses, min))
CountInv ==
    /\ \A n \in DOMAIN published : Counted(published[n], published[n].minimum)
    /\ \A r \in Run : run[r].phase = "publishing" => Counted(run[r], minimum[r])

(* Steps of one run r that do not make it publish.                         *)
LEMMA CountKept ==
    ASSUME IInv, CountInv, published' = published, NEW r \in Run,
           \A q \in Run \ {r} : run'[q] = run[q] /\ minimum'[q] = minimum[q],
           run'[r].phase # "publishing"
    PROVE  CountInv'
BY DEF CountInv, Counted

LEMMA CountStep == IInv /\ CountInv /\ [Next]_vars => CountInv'
<1> SUFFICES ASSUME IInv, CountInv, [Next]_vars PROVE CountInv'
  OBVIOUS
<1>1. DOMAIN run = Run /\ DOMAIN minimum = Run
  BY DEF IInv, TypeOK
<1>2. ASSUME NEW r \in Run, SuppressDeltas(r) PROVE CountInv'
  <2> DEFINE new == Suppressed(run[r], published, minimum[r])
  <2>1. Counted(new, minimum[r])
    BY DEF Suppressed, Counted
  <2>2. run' = [run EXCEPT ![r] = new] /\ UNCHANGED <<minimum, published>>
    BY <1>2 DEF SuppressDeltas
  <2> HIDE DEF new
  <2> QED BY <1>1, <2>1, <2>2 DEF CountInv, Counted
<1>3. ASSUME NEW r \in Run, Publish(r), running = r PROVE CountInv'
  <2>1. published' = Append(published, Batch(r)) /\ run' = [run EXCEPT ![r] = IdleRun]
        /\ minimum' = minimum /\ run[r].phase = "publishing"
    BY <1>3 DEF Publish, StillRunning
  <2>2. Counted(Batch(r), Batch(r).minimum)
    BY <2>1 DEF CountInv, Counted, Batch
  <2>3. /\ DOMAIN published' = 1..(Len(published) + 1)
        /\ published'[Len(published) + 1] = Batch(r)
        /\ \A n \in DOMAIN published : published'[n] = published[n]
        /\ DOMAIN published = 1..Len(published) /\ Len(published) \in Nat
    BY <2>1, AppendedBatch, PublishedIsHistory DEF IInv
  <2>4. ASSUME NEW n \in DOMAIN published' PROVE Counted(published'[n], published'[n].minimum)
    <3>1. CASE n \in DOMAIN published
      BY <2>3, <3>1 DEF CountInv
    <3>2. CASE n = Len(published) + 1
      BY <2>2, <2>3, <3>2
    <3> QED BY <2>3, <3>1, <3>2
  <2>5. ASSUME NEW q \in Run, run'[q].phase = "publishing" PROVE Counted(run'[q], minimum'[q])
    <3>1. q # r
      BY <1>1, <2>1, <2>5, IdleContent
    <3> QED BY <1>1, <2>1, <2>5, <3>1 DEF CountInv
  <2> QED BY <2>4, <2>5 DEF CountInv, Counted
<1>4. ASSUME NEW r \in Run, Publish(r), running # r PROVE CountInv'
  BY <1>1, <1>4, CountKept, IdleContent DEF Publish, StillRunning
<1>5. ASSUME NEW r \in Run, Fail(r) \/ Crash(r) PROVE CountInv'
  BY <1>1, <1>5, CountKept, IdleContent DEF Fail, Crash
<1>6. ASSUME NEW r \in Run, StartBatch(r) \/ ReadCutoff(r) PROVE CountInv'
  <2>1. run'[r].phase \in {"started", "cutoff"}
    BY <1>1, <1>6 DEF StartBatch, ReadCutoff, IdleRun
  <2>2. UNCHANGED <<minimum, published>> /\ \A q \in Run \ {r} : run'[q] = run[q]
    BY <1>1, <1>6 DEF StartBatch, ReadCutoff
  <2> QED BY <2>1, <2>2, CountKept
<1>7. ASSUME NEW r \in Run, ReadGrades(r) PROVE CountInv'
  <2>1. \A s : Aggregated(r, s).phase = "aggregated"
    BY DEF Aggregated
  <2>2. run'[r].phase = "aggregated"
    BY <1>1, <1>7, <2>1 DEF ReadGrades
  <2>3. UNCHANGED <<minimum, published>> /\ \A q \in Run \ {r} : run'[q] = run[q]
    BY <1>1, <1>7 DEF ReadGrades
  <2> QED BY <2>2, <2>3, CountKept
<1>8. ASSUME NEW r \in Run, Reconfigure(r) PROVE CountInv'
  <2>1. run'[r].phase = "idle" /\ \A q \in Run \ {r} : minimum'[q] = minimum[q]
    BY <1>1, <1>8 DEF Reconfigure
  <2> QED BY <1>8, <2>1, CountKept DEF Reconfigure
<1>9. CASE Tick \/ UNCHANGED vars
  BY <1>9 DEF CountInv, Counted, Tick, vars
<1> QED BY <1>2, <1>3, <1>4, <1>5, <1>6, <1>7, <1>8, <1>9 DEF Next

(* courseProjectionUsesCachedCount: whatever minimum the reading and the   *)
(* publishing process are configured with, now or before a restart, the    *)
(* total a reader is told is the length of the list a reader is shown.     *)
THEOREM ListTotalsAreExact == Spec => []ListTotalExact
<1>1. Init => CountInv
  BY IdleContent DEF Init, CountInv
<1>2. CountInv => ListTotalExact
  BY DEF CountInv, Counted, ListTotalExact, ListTotal, UsesCachedCount
<1> QED BY <1>1, <1>2, CountStep, PrivacyInvariant, PTL DEF Spec
=============================================================================
