--------------------------- MODULE TimetableProofs ---------------------------
(***************************************************************************)
(* Proofs about how a timetable is read: of whatever the school shows, the *)
(* courses read are the lessons shown, and no two could still be merged    *)
(* (WeekIsKept, HistoryIsKept, ItemsAreKept, SelectionIsKept).             *)
(*                                                                         *)
(* Every parser is a loop: a fold, which is known to be the sequence of    *)
(* its turns once such a sequence is found (FoldExists, TableFoldExists).  *)
(* A turn of merging changes no lesson and, of a graduate's courses, leaves *)
(* one less or none to merge, so that as many turns as there are courses   *)
(* are enough (CollapseKeeps).  An undergraduate's are taken one by one,   *)
(* in the order of their sections; there is one for each turn (EnoughLeft), *)
(* and it can touch only the course made last (SweepKeeps).                *)
(*                                                                         *)
(* Of a graduate's table, each row is read with spans that say how many    *)
(* more rows the block that is on in a column still covers.  The free      *)
(* columns of the row are then just those in which a cell starts           *)
(* (SpansTell), so each cell is placed in its own (RowIsPlaced), with      *)
(* the row's number for its section (SectionIs); and what has been read    *)
(* after so many rows is what the blocks that started in them hold.        *)
(***************************************************************************)
EXTENDS Timetable, FiniteSetTheorems, SequenceTheorems, WellFoundedInduction, TLAPS

-----------------------------------------------------------------------------
(* Natural numbers.                                                        *)

LEMMA LeastNatural ==
    ASSUME NEW S \in SUBSET Nat, S # {}
    PROVE  \E x \in S : \A y \in S : x <= y
<1> DEFINE T == {0..x : x \in S}
           R == StrictSubsetOrdering(Nat)
<1>1. T \subseteq FiniteSubsetsOf(Nat) /\ T # {}
  <2>1. \A x \in S : x \in Int /\ IsFiniteSet(0..x)
    BY FS_Interval
  <2>2. \A x \in S : 0..x \in SUBSET Nat
    OBVIOUS
  <2> QED BY <2>1, <2>2 DEF FiniteSubsetsOf
<1>2. \E t \in T : \A u \in T : <<u, t>> \notin R
  <2>1. IsWellFoundedOn(R, FiniteSubsetsOf(Nat))
    BY FS_StrictSubsetOrderingWellFounded
  <2> HIDE DEF T, R
  <2> QED BY <1>1, <2>1, WFMin
<1>3. PICK x \in S : \A y \in S : <<0..y, 0..x>> \notin R
  BY <1>2
<1>4. \A y \in S : ~(y < x)
  <2> SUFFICES ASSUME NEW y \in S, y < x PROVE FALSE
    OBVIOUS
  <2>1. 0..y \subseteq 0..x /\ x \in 0..x /\ x \notin 0..y
    OBVIOUS
  <2>2. <<0..y, 0..x>> \in R
    BY <2>1 DEF StrictSubsetOrdering
  <2> QED BY <1>3, <2>2
<1> QED BY <1>4

LEMMA BoundsWithin ==
    ASSUME NEW n \in Nat
    PROVE  /\ 0 \in 0..n /\ n \in 0..n
           /\ \A k \in 1..n : k \in 0..n /\ k - 1 \in 0..n
OBVIOUS

LEMMA Reaches ==
    ASSUME NEW n \in Nat, NEW S \in SUBSET (0..n), 0 \in S,
           \A k \in 0..(n - 1) : k \in S => k + 1 \in S
    PROVE  S = 0..n
<1> DEFINE short == {k \in 0..n : k \notin S}
<1> SUFFICES ASSUME short # {} PROVE FALSE
  OBVIOUS
<1>1. PICK k \in short : \A j \in short : k <= j
  <2>1. short \in SUBSET Nat
    OBVIOUS
  <2> HIDE DEF short
  <2> QED BY <2>1, LeastNatural
<1>2. k \in 0..n /\ k \notin S /\ k # 0
  OBVIOUS
<1>3. k - 1 \in 0..(n - 1) /\ k - 1 \in 0..n /\ ~(k <= k - 1)
  BY <1>2
<1>4. k - 1 \in S
  BY <1>1, <1>3
<1>5. (k - 1) + 1 = k
  BY <1>2
<1>6. (k - 1) + 1 \in S
  BY <1>3, <1>4
<1> QED BY <1>2, <1>5, <1>6

LEMMA MaxIsGreatest ==
    ASSUME NEW n \in Nat, NEW S \in SUBSET (0..n), S # {}
    PROVE  Max(S) \in S /\ \A y \in S : y <= Max(S)
<1> DEFINE T == {n - x : x \in S}
<1>1. T \in SUBSET Nat /\ T # {}
  <2>1. \A x \in S : n - x \in Nat
    OBVIOUS
  <2> QED BY <2>1
<1>2. PICK t \in T : \A y \in T : t <= y
  <2> HIDE DEF T
  <2> QED BY <1>1, LeastNatural
<1>3. PICK x \in S : t = n - x
  BY <1>2
<1>4. \A y \in S : x >= y
  <2>1. \A y \in S : t <= n - y
    BY <1>2
  <2> QED BY <2>1, <1>3
<1>5. \A y, z \in S : z >= y => y <= z
  OBVIOUS
<1> QED BY <1>4, <1>5 DEF Max

-----------------------------------------------------------------------------
(* Members of a sequence at some of its places: the n-th place has n       *)
(* places up to it, and the places follow each other in order.             *)

Below(places, i) == {j \in places : j <= i}

LEMMA Ranked ==
    ASSUME NEW places \in SUBSET Nat, IsFiniteSet(places)
    PROVE  /\ \A i \in places : Cardinality(Below(places, i)) \in 1 .. Cardinality(places)
           /\ \A i, j \in places :
                 i < j => Cardinality(Below(places, i)) < Cardinality(Below(places, j))
<1>1. ASSUME NEW i \in places
      PROVE  /\ IsFiniteSet(Below(places, i))
             /\ Cardinality(Below(places, i)) \in 1 .. Cardinality(places)
  <2>1. Below(places, i) \subseteq places /\ i \in Below(places, i)
    BY DEF Below
  <2>2. /\ IsFiniteSet(Below(places, i))
        /\ Cardinality(Below(places, i)) <= Cardinality(places)
    BY <2>1, FS_Subset
  <2>3. Cardinality(Below(places, i)) \in Nat /\ Cardinality(Below(places, i)) # 0
    BY <2>1, <2>2, FS_CardinalityType, FS_EmptySet
  <2>4. Cardinality(places) \in Nat
    BY FS_CardinalityType
  <2> QED BY <2>2, <2>3, <2>4
<1>2. ASSUME NEW i \in places, NEW j \in places, i < j
      PROVE  Cardinality(Below(places, i)) < Cardinality(Below(places, j))
  <2>1. Below(places, i) \subseteq Below(places, j)
    <3>1. \A k \in places : k \in Int
      OBVIOUS
    <3>2. \A k \in places : k <= i => k <= j
      BY <1>2, <3>1
    <3> QED BY <3>2 DEF Below
  <2>2. j \in Below(places, j) /\ j \notin Below(places, i)
    <3>1. i \in Int /\ j \in Int
      OBVIOUS
    <3> QED BY <1>2, <3>1 DEF Below
  <2>3. /\ Cardinality(Below(places, i)) <= Cardinality(Below(places, j))
        /\ Cardinality(Below(places, j)) = Cardinality(Below(places, i)) =>
               Below(places, j) = Below(places, i)
    BY <2>1, <1>1, FS_Subset
  <2>4. /\ Cardinality(Below(places, i)) \in Int /\ Cardinality(Below(places, j)) \in Int
        /\ Cardinality(Below(places, j)) # Cardinality(Below(places, i))
    BY <2>2, <2>3, <1>1, FS_CardinalityType
  <2> QED BY <2>3, <2>4
<1> QED BY <1>1, <1>2

LEMMA NthPlace ==
    ASSUME NEW places \in SUBSET Nat, IsFiniteSet(places)
    PROVE  /\ Cardinality(places) \in Nat
           /\ \A n \in 1 .. Cardinality(places) :
                 /\ Nth(places, n) \in places
                 /\ Cardinality(Below(places, Nth(places, n))) = n
           /\ \A i \in places :
                 /\ Cardinality(Below(places, i)) \in 1 .. Cardinality(places)
                 /\ Nth(places, Cardinality(Below(places, i))) = i
<1> DEFINE m == Cardinality(places)
           rank == [i \in places |-> Cardinality(Below(places, i))]
<1>1. m \in Nat /\ IsFiniteSet(1..m) /\ Cardinality(1..m) = m
  BY FS_CardinalityType, FS_Interval
<1>2. \A i, j \in places : rank[i] = rank[j] => i = j
  <2>1. \A i \in places : rank[i] \in Nat
    BY Ranked, <1>1
  <2>2. \A i, j \in places : i < j => rank[i] < rank[j]
    BY Ranked
  <2>3. \A i, j \in places : i \in Nat /\ j \in Nat
    OBVIOUS
  <2> HIDE DEF rank
  <2> QED BY <2>1, <2>2, <2>3
<1>3. rank \in Injection(places, 1..m)
  <2>1. rank \in [places -> 1..m]
    BY Ranked
  <2> HIDE DEF rank, m
  <2>2. IsInjective(rank)
    BY <2>1, <1>2 DEF IsInjective
  <2> QED BY <2>1, <2>2 DEF Injection
<1>4. rank \in Surjection(places, 1..m)
  <2> HIDE DEF rank
  <2> QED BY <1>1, <1>3, FS_Injection
<1>5. ASSUME NEW n \in 1..m PROVE \E i \in places : rank[i] = n
  <2> HIDE DEF rank, m
  <2> QED BY <1>4 DEF Surjection
<1>6. ASSUME NEW n \in 1..m
      PROVE  Nth(places, n) \in places /\ Cardinality(Below(places, Nth(places, n))) = n
  BY <1>5 DEF Nth, Below
<1>7. ASSUME NEW i \in places
      PROVE  /\ rank[i] \in 1..m
             /\ Nth(places, rank[i]) = i
  <2>1. rank[i] \in 1..m
    BY Ranked
  <2>2. Nth(places, rank[i]) \in places /\ rank[Nth(places, rank[i])] = rank[i]
    BY <2>1, <1>6
  <2> QED BY <2>1, <2>2, <1>2
<1> QED BY <1>1, <1>6, <1>7

LEMMA NthInOrder ==
    ASSUME NEW places \in SUBSET Nat, IsFiniteSet(places),
           NEW n \in 1 .. Cardinality(places), NEW k \in 1 .. Cardinality(places)
    PROVE  /\ n < k => Nth(places, n) < Nth(places, k)
           /\ n <= k => Nth(places, n) <= Nth(places, k)
<1>1. /\ Nth(places, n) \in places /\ Cardinality(Below(places, Nth(places, n))) = n
      /\ Nth(places, k) \in places /\ Cardinality(Below(places, Nth(places, k))) = k
  BY NthPlace
<1>2. Nth(places, k) < Nth(places, n) => k < n
  BY <1>1, Ranked
<1>3. Nth(places, k) = Nth(places, n) => k = n
  BY <1>1
<1>4. n \in Int /\ k \in Int /\ Nth(places, n) \in Int /\ Nth(places, k) \in Int
  <2>1. \A i \in places : i \in Int
    OBVIOUS
  <2>2. Cardinality(places) \in Nat
    BY FS_CardinalityType
  <2>3. n \in Int /\ k \in Int
    BY <2>2
  <2> QED BY <1>1, <2>1, <2>3
<1> QED BY <1>2, <1>3, <1>4

LEMMA KeptMembers ==
    ASSUME NEW places \in SUBSET Nat, IsFiniteSet(places), NEW s
    PROVE  /\ DOMAIN Kept(s, places) = 1..Cardinality(places)
           /\ Len(Kept(s, places)) = Cardinality(places)
           /\ \A n \in 1..Cardinality(places) :
                 /\ Nth(places, n) \in places
                 /\ Kept(s, places)[n] = s[Nth(places, n)]
           /\ ToSet(Kept(s, places)) = {s[i] : i \in places}
<1>1. /\ DOMAIN Kept(s, places) = 1..Cardinality(places)
      /\ \A n \in 1..Cardinality(places) : Kept(s, places)[n] = s[Nth(places, n)]
  BY DEF Kept
<1>2. Len(Kept(s, places)) = Cardinality(places)
  <2>1. Cardinality(places) \in Nat
    BY NthPlace
  <2> QED BY <2>1 DEF Kept
<1>3. ToSet(Kept(s, places)) = {s[i] : i \in places}
  <2>1. \A n \in 1..Cardinality(places) : Nth(places, n) \in places
    BY NthPlace
  <2>2. \A i \in places : \E n \in 1..Cardinality(places) : Nth(places, n) = i
    BY NthPlace
  <2>3. ToSet(Kept(s, places)) = {Kept(s, places)[n] : n \in 1..Cardinality(places)}
    BY <1>1 DEF ToSet
  <2>4. ToSet(Kept(s, places)) = {s[Nth(places, n)] : n \in 1..Cardinality(places)}
    BY <1>1, <2>3
  <2> QED BY <2>1, <2>2, <2>4
<1> QED BY <1>1, <1>2, <1>3, NthPlace

LEMMA KeptSequence ==
    ASSUME NEW places \in SUBSET Nat, IsFiniteSet(places), NEW S, NEW s,
           \A i \in places : s[i] \in S
    PROVE  Kept(s, places) \in Seq(S)
<1>1. Cardinality(places) \in Nat
  BY NthPlace
<1>2. Kept(s, places) \in [1..Cardinality(places) -> S]
  BY NthPlace DEF Kept
<1> QED BY <1>1, <1>2

-----------------------------------------------------------------------------
(* Folds.  A fold over the numbers 1..n takes a value n times through a    *)
(* function of the value and the number: there is such a function on the   *)
(* subsets of 1..n (MapThenFoldSet), and what any has at 1..k follows from *)
(* what it has at 1..(k - 1).                                              *)

FoldOn(it, n, base, step) ==
    it = [s \in SUBSET (1..n) |-> IF s = {} THEN base ELSE step[<<it[s \ {Max(s)}], Max(s)>>]]

LEMMA MaxOfSome ==
    ASSUME NEW n \in Nat, NEW s \in SUBSET (1..n), s # {}
    PROVE  /\ Max(s) \in 1..n /\ Max(s) \in s /\ s \ {Max(s)} \in SUBSET (1..n)
           /\ \A i \in s : i <= Max(s)
<1>1. s \in SUBSET (0..n)
  OBVIOUS
<1>2. Max(s) \in s /\ \A i \in s : i <= Max(s)
  BY <1>1, MaxIsGreatest
<1> QED BY <1>2

LEMMA MaxOfFirst ==
    ASSUME NEW k \in Nat, k # 0
    PROVE  1..k # {} /\ Max(1..k) = k /\ (1..k) \ {Max(1..k)} = 1..(k - 1)
<1>1. k \in 1..k
  OBVIOUS
<1>2. Max(1..k) \in 1..k /\ \A i \in 1..k : i <= Max(1..k)
  BY <1>1, MaxOfSome
<1>3. Max(1..k) = k
  BY <1>1, <1>2
<1> QED BY <1>1, <1>3

LEMMA FirstOf ==
    ASSUME NEW n \in Nat, NEW k \in 1..n
    PROVE  /\ 1..k # {} /\ Max(1..k) = k /\ (1..k) \ {Max(1..k)} = 1..(k - 1)
           /\ 1..k \in SUBSET (1..n)
<1>1. k \in Nat /\ k # 0 /\ 1..k \in SUBSET (1..n)
  OBVIOUS
<1> QED BY <1>1, MaxOfFirst

LEMMA FoldExists ==
    ASSUME NEW n \in Nat, NEW T, NEW base \in T, NEW step \in [T \X (1..n) -> T]
    PROVE  \E it \in [SUBSET (1..n) -> T] : FoldOn(it, n, base, step)
<1> DEFINE Nxt(it, s) == IF s = {} THEN base ELSE step[<<it[s \ {Max(s)}], Max(s)>>]
           Upto(k) == \E it \in [SUBSET (1..k) -> T] :
                         \A s \in SUBSET (1..k) : it[s] = Nxt(it, s)
<1>1. Upto(0)
  <2>1. [s \in SUBSET (1..0) |-> base] \in [SUBSET (1..0) -> T]
    OBVIOUS
  <2>2. \A s \in SUBSET (1..0) : s = {}
    OBVIOUS
  <2> QED BY <2>1, <2>2
<1>2. ASSUME NEW k \in 0..(n - 1), Upto(k) PROVE Upto(k + 1)
  <2>1. PICK it \in [SUBSET (1..k) -> T] : \A s \in SUBSET (1..k) : it[s] = Nxt(it, s)
    BY <1>2
  <2>2. k + 1 \in 1..n /\ k + 1 \in Nat /\ k \in Nat
    OBVIOUS
  <2> DEFINE next == [s \in SUBSET (1..(k + 1)) |->
                         IF k + 1 \in s THEN step[<<it[s \ {k + 1}], k + 1>>] ELSE it[s]]
  <2>3. ASSUME NEW s \in SUBSET (1..(k + 1))
        PROVE  /\ s \ {k + 1} \in SUBSET (1..k)
               /\ k + 1 \notin s => s \in SUBSET (1..k)
               /\ k + 1 \in s => Max(s) = k + 1
    <3>1. k + 1 \in s => Max(s) = k + 1
      <4>1. s # {} => /\ Max(s) \in 1..(k + 1) /\ \A i \in s : i <= Max(s)
        BY <2>2, MaxOfSome
      <4> QED BY <4>1, <2>2
    <3>2. \A i \in 1..(k + 1) : i # k + 1 => i \in 1..k
      OBVIOUS
    <3> QED BY <3>1, <3>2
  <2>4. next \in [SUBSET (1..(k + 1)) -> T]
    <3>1. ASSUME NEW s \in SUBSET (1..(k + 1))
          PROVE  (IF k + 1 \in s THEN step[<<it[s \ {k + 1}], k + 1>>] ELSE it[s]) \in T
      BY <2>2, <2>3
    <3> QED BY <3>1
  <2>5. ASSUME NEW s \in SUBSET (1..(k + 1)) PROVE next[s] = Nxt(next, s)
    <3>1. CASE k + 1 \in s
      <4>1. Max(s) = k + 1 /\ s # {} /\ s \ {k + 1} \in SUBSET (1..k)
            /\ s \ {k + 1} \in SUBSET (1..(k + 1))
        BY <3>1, <2>3
      <4>2. next[s \ {k + 1}] = it[s \ {k + 1}]
        BY <4>1
      <4>3. next[s] = step[<<it[s \ {k + 1}], k + 1>>]
        BY <3>1
      <4>4. next[s] = step[<<next[s \ {Max(s)}], Max(s)>>]
        BY <4>1, <4>2, <4>3
      <4> HIDE DEF next
      <4> QED BY <4>1, <4>4
    <3>2. CASE k + 1 \notin s
      <4>1. s \in SUBSET (1..k) /\ next[s] = it[s]
        BY <3>2, <2>3
      <4>2. CASE s = {}
        BY <4>1, <4>2, <2>1
      <4>3. CASE s # {}
        <5>1. s \ {Max(s)} \in SUBSET (1..k) /\ Max(s) \in 1..k
          BY <4>1, <4>3, <2>2, MaxOfSome
        <5>2. k + 1 \notin s \ {Max(s)} /\ s \ {Max(s)} \in SUBSET (1..(k + 1))
          BY <3>2
        <5>3. next[s \ {Max(s)}] = it[s \ {Max(s)}]
          BY <5>2
        <5>4. it[s] = step[<<it[s \ {Max(s)}], Max(s)>>]
          BY <2>1, <4>1, <4>3
        <5> HIDE DEF next
        <5> QED BY <4>1, <4>3, <5>3, <5>4
      <4> QED BY <4>2, <4>3
    <3> QED BY <3>1, <3>2
  <2> HIDE DEF next, Nxt
  <2> QED BY <2>4, <2>5
<1>3. Upto(n)
  <2> DEFINE reached == {k \in 0..n : Upto(k)}
  <2> HIDE DEF Upto
  <2>1. reached = 0..n
    <3>1. 0 \in reached /\ \A k \in 0..(n - 1) : k \in reached => k + 1 \in reached
      BY <1>1, <1>2
    <3>2. reached \in SUBSET (0..n)
      OBVIOUS
    <3> HIDE DEF reached
    <3> QED BY <3>1, <3>2, Reaches
  <2> QED BY <2>1
<1>4. PICK it \in [SUBSET (1..n) -> T] : \A s \in SUBSET (1..n) : it[s] = Nxt(it, s)
  BY <1>3
<1>5. it = [s \in SUBSET (1..n) |-> Nxt(it, s)]
  <2> HIDE DEF Nxt
  <2> QED BY <1>4
<1> QED BY <1>4, <1>5 DEF FoldOn

-----------------------------------------------------------------------------
(* Courses and their lessons.                                              *)

AnyCourse(N) ==
    {c \in [name : N, weekday : Int, start : Nat, end : Nat, weeks : SUBSET Int] :
        c.start <= c.end}
CourseSets(N) == {courses \in SUBSET AnyCourse(N) : IsFiniteSet(courses)}
LessonsIn(c) ==
    {<<c.name, c.weekday, section, week>> : section \in c.start .. c.end, week \in c.weeks}

LEMMA LessonsAdd ==
    ASSUME NEW C, NEW c
    PROVE  Lessons(C \cup {c}) = Lessons(C) \cup LessonsIn(c)
BY DEF Lessons, LessonsIn

LEMMA LessonsUnite ==
    ASSUME NEW C, NEW D
    PROVE  Lessons(C \cup D) = Lessons(C) \cup Lessons(D)
BY DEF Lessons

LEMMA NoLessons == Lessons({}) = {}
BY DEF Lessons

(* Two courses that touch are joined to one with the lessons of both.      *)
LEMMA JoinedLessons ==
    ASSUME NEW N, NEW c \in AnyCourse(N), NEW d \in AnyCourse(N),
           SameCourse(c, d), c.weeks = d.weeks, Touch(c, d)
    PROVE  /\ Joined(c, d) \in AnyCourse(N)
           /\ SameCourse(c, Joined(c, d)) /\ Joined(c, d).weeks = c.weeks
           /\ LessonsIn(Joined(c, d)) = LessonsIn(c) \cup LessonsIn(d)
<1> DEFINE j == Joined(c, d)
<1>1. /\ c.start \in Int /\ c.end \in Int /\ c.start <= c.end
      /\ d.start \in Int /\ d.end \in Int /\ d.start <= d.end
      /\ d.start <= c.end + 1 /\ d.end >= c.start - 1
      /\ c.name \in N /\ c.weekday \in Int /\ c.weeks \in SUBSET Int
  BY DEF AnyCourse, Touch
<1>2. /\ j.name = c.name /\ j.weekday = c.weekday /\ j.weeks = c.weeks
      /\ j.start = (IF d.start < c.start THEN d.start ELSE c.start)
      /\ j.end = (IF d.end > c.end THEN d.end ELSE c.end)
      /\ j \in [name : N, weekday : Int, start : Nat, end : Nat, weeks : SUBSET Int]
  BY <1>1 DEF Joined, AnyCourse
<1>3. j.start <= j.end /\ j.start .. j.end = (c.start .. c.end) \cup (d.start .. d.end)
  BY <1>1, <1>2
<1>4. d.name = c.name /\ d.weekday = c.weekday /\ d.weeks = c.weeks
  BY DEF SameCourse
<1> HIDE DEF j
<1>5. LessonsIn(j) = LessonsIn(c) \cup LessonsIn(d)
  BY <1>2, <1>3, <1>4 DEF LessonsIn
<1> QED BY <1>2, <1>3, <1>5 DEF AnyCourse, SameCourse, j

(* One round of collapsing joins two courses, if any two can be merged.    *)
LEMMA CollapseOneKeeps ==
    ASSUME NEW N, NEW C \in CourseSets(N)
    PROVE  /\ CollapseOne(C) \in CourseSets(N)
           /\ Lessons(CollapseOne(C)) = Lessons(C)
           /\ Merged(C) => CollapseOne(C) = C
           /\ ~Merged(C) => Cardinality(CollapseOne(C)) < Cardinality(C)
<1> DEFINE pairs == {p \in C \X C : Mergeable(p[1], p[2])}
           pair == CHOOSE p \in pairs : TRUE
<1>1. Merged(C) <=> pairs = {}
  <2>1. ASSUME NEW c \in C, NEW d \in C, Mergeable(c, d) PROVE <<c, d>> \in pairs
    BY <2>1
  <2>2. ASSUME NEW p \in pairs PROVE p[1] \in C /\ p[2] \in C /\ Mergeable(p[1], p[2])
    OBVIOUS
  <2> QED BY <2>1, <2>2 DEF Merged
<1>2. CASE pairs = {}
  BY <1>1, <1>2 DEF CollapseOne
<1>3. CASE pairs # {}
  <2> DEFINE c == pair[1]
             d == pair[2]
             rest == C \ {c, d}
  <2>1. c \in C /\ d \in C /\ Mergeable(c, d)
    <3>1. pair \in pairs
      BY <1>3
    <3> HIDE DEF pair
    <3> QED BY <3>1
  <2>2. CollapseOne(C) = rest \cup {Joined(c, d)}
    BY <1>3 DEF CollapseOne
  <2> HIDE DEF c, d
  <2>3. /\ c \in AnyCourse(N) /\ d \in AnyCourse(N) /\ c # d
        /\ C \in SUBSET AnyCourse(N) /\ IsFiniteSet(C)
    BY <2>1 DEF CourseSets, Mergeable
  <2>4. /\ Joined(c, d) \in AnyCourse(N)
        /\ LessonsIn(Joined(c, d)) = LessonsIn(c) \cup LessonsIn(d)
    BY <2>1, <2>3, JoinedLessons DEF Mergeable
  <2>5. /\ IsFiniteSet(C \ {c}) /\ Cardinality(C \ {c}) = Cardinality(C) - 1
        /\ IsFiniteSet(rest) /\ Cardinality(rest) = Cardinality(C) - 2
    <3>1. IsFiniteSet(C \ {c}) /\ Cardinality(C \ {c}) = Cardinality(C) - 1
      BY <2>1, <2>3, FS_RemoveElement
    <3>2. d \in C \ {c} /\ rest = (C \ {c}) \ {d}
      BY <2>1, <2>3
    <3>3. IsFiniteSet(rest) /\ Cardinality(rest) = Cardinality(C \ {c}) - 1
      BY <3>1, <3>2, FS_RemoveElement
    <3> QED BY <3>1, <3>3, <2>3, FS_CardinalityType
  <2>6. /\ IsFiniteSet(rest \cup {Joined(c, d)})
        /\ Cardinality(rest \cup {Joined(c, d)}) <= Cardinality(rest) + 1
    <3> DEFINE j == Joined(c, d)
    <3> HIDE DEF rest, j
    <3>1. Cardinality(rest) \in Nat
      BY <2>5, FS_CardinalityType
    <3>2. /\ IsFiniteSet(rest \cup {j})
          /\ Cardinality(rest \cup {j}) =
                 IF j \in rest THEN Cardinality(rest) ELSE Cardinality(rest) + 1
      BY <2>5, FS_AddElement, Zenon
    <3>3. IsFiniteSet(rest \cup {j}) /\ Cardinality(rest \cup {j}) <= Cardinality(rest) + 1
      BY <3>1, <3>2
    <3> QED BY <3>3 DEF j
  <2>7. Cardinality(C) \in Nat /\ Cardinality(rest \cup {Joined(c, d)}) \in Nat
    BY <2>3, <2>6, FS_CardinalityType
  <2>8. CollapseOne(C) \in CourseSets(N)
    BY <2>2, <2>3, <2>4, <2>6 DEF CourseSets
  <2>9. Lessons(CollapseOne(C)) = Lessons(C)
    <3>1. C = (rest \cup {c}) \cup {d}
      BY <2>1
    <3>2. Lessons(C) = (Lessons(rest) \cup LessonsIn(c)) \cup LessonsIn(d)
      <4>1. Lessons((rest \cup {c}) \cup {d}) = Lessons(rest \cup {c}) \cup LessonsIn(d)
        BY LessonsAdd, Zenon
      <4>2. Lessons(rest \cup {c}) = Lessons(rest) \cup LessonsIn(c)
        BY LessonsAdd, Zenon
      <4> QED BY <3>1, <4>1, <4>2, Zenon
    <3>3. Lessons(rest \cup {Joined(c, d)}) = Lessons(rest) \cup LessonsIn(Joined(c, d))
      BY LessonsAdd, Zenon
    <3> HIDE DEF rest
    <3> QED BY <2>2, <2>4, <3>2, <3>3
  <2>10. Cardinality(CollapseOne(C)) < Cardinality(C)
    <3> HIDE DEF rest
    <3> QED BY <2>2, <2>5, <2>6, <2>7
  <2> QED BY <1>1, <1>3, <2>8, <2>9, <2>10
<1> QED BY <1>2, <1>3

LEMMA CollapseFolds ==
    ASSUME NEW N, NEW C \in CourseSets(N), NEW n \in Nat, n = Cardinality(C)
    PROVE  \E g : /\ g[0] = C
                  /\ \A k \in 1..n : g[k] = CollapseOne(g[k - 1])
                  /\ Collapse(C) = g[n]
<1> DEFINE T == CourseSets(N)
           step == [p \in T \X (1..n) |-> CollapseOne(p[1])]
           Body(f) == f = [s \in SUBSET (1..n) |->
                              IF s = {} THEN C ELSE CollapseOne(f[s \ {Max(s)}])]
           h == CHOOSE f : Body(f)
<1>1. step \in [T \X (1..n) -> T]
  <2>1. \A p \in T \X (1..n) : CollapseOne(p[1]) \in T
    BY CollapseOneKeeps
  <2> HIDE DEF T
  <2> QED BY <2>1
<1>2. PICK it \in [SUBSET (1..n) -> T] : FoldOn(it, n, C, step)
  <2> HIDE DEF step
  <2> QED BY <1>1, FoldExists
<1>3. Body(it)
  <2>1. ASSUME NEW s \in SUBSET (1..n), s # {}
        PROVE  step[<<it[s \ {Max(s)}], Max(s)>>] = CollapseOne(it[s \ {Max(s)}])
    <3>1. it[s \ {Max(s)}] \in T /\ Max(s) \in 1..n
      BY <2>1, MaxOfSome
    <3> HIDE DEF T
    <3> QED BY <3>1
  <2> HIDE DEF step
  <2> QED BY <1>2, <2>1 DEF FoldOn
<1>4. Body(h)
  <2> HIDE DEF Body
  <2> QED BY <1>3
<1>5. Collapse(C) = h[1..n]
  <2>1. DOMAIN [i \in 1..n |-> i] = 1..n
    OBVIOUS
  <2>2. Collapse(C) = (CHOOSE f : f = [s \in SUBSET DOMAIN [i \in 1..n |-> i] |->
                            IF s = {} THEN C ELSE CollapseOne(f[s \ {Max(s)}])])
                       [DOMAIN [i \in 1..n |-> i]]
    BY Zenon DEF Collapse, FoldLeft, MapThenFoldSet
  <2> QED BY <2>1, <2>2, Zenon
<1> HIDE DEF h
<1>6. h[1..0] = C
  <2>1. 1..0 = {} /\ {} \in SUBSET (1..n)
    OBVIOUS
  <2> QED BY <1>4, <2>1
<1>7. ASSUME NEW k \in 1..n PROVE h[1..k] = CollapseOne(h[1..(k - 1)])
  <2>1. 1..k # {} /\ Max(1..k) = k /\ (1..k) \ {Max(1..k)} = 1..(k - 1) /\ 1..k \in SUBSET (1..n)
    BY FirstOf, Zenon
  <2>2. h[1..k] = IF 1..k = {} THEN C ELSE CollapseOne(h[(1..k) \ {Max(1..k)}])
    BY <1>4, <2>1, Zenon
  <2> QED BY <2>1, <2>2
<1> DEFINE g == [k \in 0..n |-> h[1..k]]
<1>8. g[0] = C /\ Collapse(C) = g[n] /\ \A k \in 1..n : g[k] = CollapseOne(g[k - 1])
  BY <1>5, <1>6, <1>7
<1> QED BY <1>8

(* mergeGraduateCourse's rounds: each leaves one course less, so that as   *)
(* many as there are courses leave none that could be merged.              *)
LEMMA CollapseKeeps ==
    ASSUME NEW N, NEW C \in CourseSets(N)
    PROVE  /\ Collapse(C) \in CourseSets(N)
           /\ Lessons(Collapse(C)) = Lessons(C)
           /\ Merged(Collapse(C))
<1> DEFINE n == Cardinality(C)
<1>1. n \in Nat
  BY FS_CardinalityType DEF CourseSets
<1>2. PICK g : /\ g[0] = C
               /\ \A k \in 1..n : g[k] = CollapseOne(g[k - 1])
               /\ Collapse(C) = g[n]
  BY <1>1, CollapseFolds
<1> HIDE DEF n
<1> DEFINE Good(k) == /\ g[k] \in CourseSets(N) /\ Lessons(g[k]) = Lessons(C)
                      /\ Merged(g[k]) \/ Cardinality(g[k]) <= n - k
           good == {k \in 0..n : Good(k)}
<1>3. Good(0)
  BY <1>1, <1>2 DEF n
<1>4. ASSUME NEW k \in 0..(n - 1), Good(k) PROVE Good(k + 1)
  <2>1. k + 1 \in 1..n /\ (k + 1) - 1 = k
    BY <1>1
  <2>2. g[k + 1] = CollapseOne(g[k])
    BY <1>2, <2>1
  <2>3. /\ g[k + 1] \in CourseSets(N) /\ Lessons(g[k + 1]) = Lessons(C)
        /\ Merged(g[k]) => g[k + 1] = g[k]
        /\ ~Merged(g[k]) => Cardinality(g[k + 1]) < Cardinality(g[k])
    BY <1>4, <2>2, CollapseOneKeeps
  <2>4. Cardinality(g[k]) \in Nat /\ Cardinality(g[k + 1]) \in Nat
    BY <1>4, <2>3, FS_CardinalityType DEF CourseSets
  <2> QED BY <1>1, <1>4, <2>1, <2>3, <2>4
<1>5. Good(n)
  <2> HIDE DEF Good
  <2>1. 0 \in good /\ \A k \in 0..(n - 1) : k \in good => k + 1 \in good
    BY <1>1, <1>3, <1>4
  <2>2. good \in SUBSET (0..n)
    OBVIOUS
  <2>3. good = 0..n
    <3> HIDE DEF good
    <3> QED BY <1>1, <2>1, <2>2, Reaches
  <2> QED BY <1>1, <2>3
<1>6. ASSUME Cardinality(g[n]) <= n - n PROVE Merged(g[n])
  <2>1. Cardinality(g[n]) \in Nat /\ IsFiniteSet(g[n])
    BY <1>5, FS_CardinalityType DEF CourseSets
  <2>2. g[n] = {}
    BY <1>1, <1>6, <2>1, FS_EmptySet
  <2> QED BY <2>2 DEF Merged
<1> QED BY <1>2, <1>5, <1>6

(* mergeGraduateCourse: all with the sections of a course give it their    *)
(* weeks, and it has their lessons and its own.                            *)
LEMMA WholeLessons ==
    ASSUME NEW N, NEW C \in SUBSET AnyCourse(N), NEW c \in AnyCourse(N), NEW whole,
           \A d \in C : SamePlacement(c, d),
           whole = [c EXCEPT !.weeks = @ \cup UNION {d.weeks : d \in C}]
    PROVE  whole \in AnyCourse(N) /\ LessonsIn(whole) = LessonsIn(c) \cup Lessons(C)
<1>1. /\ c \in [name : N, weekday : Int, start : Nat, end : Nat, weeks : SUBSET Int]
      /\ c.start <= c.end
      /\ \A d \in C : d.weeks \in SUBSET Int
  BY DEF AnyCourse
<1>2. /\ whole.name = c.name /\ whole.weekday = c.weekday
      /\ whole.start = c.start /\ whole.end = c.end
      /\ whole.weeks = c.weeks \cup UNION {d.weeks : d \in C}
      /\ whole \in [name : N, weekday : Int, start : Nat, end : Nat, weeks : SUBSET Int]
  BY <1>1
<1>3. ASSUME NEW d \in C
      PROVE  LessonsIn(d) = {<<c.name, c.weekday, section, week>> :
                                section \in c.start .. c.end, week \in d.weeks}
  BY DEF SamePlacement, SameCourse, LessonsIn
<1>4. Lessons(C) = UNION {LessonsIn(d) : d \in C}
  BY DEF Lessons, LessonsIn
<1>5. Lessons(C) = {<<c.name, c.weekday, section, week>> :
                       section \in c.start .. c.end, week \in UNION {d.weeks : d \in C}}
  BY <1>3, <1>4
<1>6. LessonsIn(whole) = LessonsIn(c) \cup Lessons(C)
  BY <1>2, <1>5 DEF LessonsIn
<1> QED BY <1>1, <1>2, <1>6 DEF AnyCourse

LEMMA MergeKeeps ==
    ASSUME NEW N, NEW C \in CourseSets(N), NEW c \in AnyCourse(N)
    PROVE  /\ MergeGraduateCourse(C, c) \in CourseSets(N)
           /\ Lessons(MergeGraduateCourse(C, c)) = Lessons(C) \cup LessonsIn(c)
           /\ Merged(MergeGraduateCourse(C, c))
<1> DEFINE same == {d \in C : SamePlacement(c, d)}
           whole == [c EXCEPT !.weeks = @ \cup UNION {d.weeks : d \in same}]
           all == (C \ same) \cup {whole}
<1>1. MergeGraduateCourse(C, c) = Collapse(all)
  BY DEF MergeGraduateCourse
<1>2. C \in SUBSET AnyCourse(N) /\ IsFiniteSet(C) /\ same \in SUBSET C
  BY DEF CourseSets
<1>3. whole \in AnyCourse(N) /\ LessonsIn(whole) = LessonsIn(c) \cup Lessons(same)
  <2>1. same \in SUBSET AnyCourse(N) /\ \A d \in same : SamePlacement(c, d)
    BY <1>2
  <2> HIDE DEF same
  <2> QED BY <2>1, WholeLessons
<1> HIDE DEF whole, same
<1>4. all \in CourseSets(N)
  <2>1. IsFiniteSet(C \ same)
    BY <1>2, FS_Subset
  <2>2. IsFiniteSet(all)
    BY <2>1, FS_AddElement
  <2> QED BY <1>2, <1>3, <2>2 DEF CourseSets
<1>5. Lessons(all) = Lessons(C) \cup LessonsIn(c)
  <2>1. Lessons(all) = Lessons(C \ same) \cup LessonsIn(whole)
    BY LessonsAdd, Zenon
  <2>2. Lessons((C \ same) \cup same) = Lessons(C \ same) \cup Lessons(same)
    BY LessonsUnite, Zenon
  <2>3. C = (C \ same) \cup same
    BY <1>2
  <2>4. Lessons(C) = Lessons(C \ same) \cup Lessons(same)
    BY <2>2, <2>3, Zenon
  <2> QED BY <1>3, <2>1, <2>4
<1> HIDE DEF all
<1> QED BY <1>1, <1>4, <1>5, CollapseKeeps, Zenon

(* The courses so far, merged, with the lessons of those and of some more. *)
GoodCourses(N) == {courses \in CourseSets(N) : Merged(courses)}
LessonsOfAll(seq) == Lessons(ToSet(seq))

LEMMA MergeEachFolds ==
    ASSUME NEW N, NEW C \in CourseSets(N), NEW n \in Nat,
           NEW seq, DOMAIN seq = 1..n, \A k \in 1..n : seq[k] \in AnyCourse(N)
    PROVE  \E g : /\ g[0] = C
                  /\ \A k \in 1..n : g[k] = MergeGraduateCourse(g[k - 1], seq[k])
                  /\ MergeEach(C, seq) = g[n]
<1> DEFINE T == CourseSets(N)
           step == [p \in T \X (1..n) |-> MergeGraduateCourse(p[1], seq[p[2]])]
           Body(f) == f = [s \in SUBSET (1..n) |->
                              IF s = {} THEN C
                              ELSE MergeGraduateCourse(f[s \ {Max(s)}], seq[Max(s)])]
           h == CHOOSE f : Body(f)
<1>1. step \in [T \X (1..n) -> T]
  <2>1. \A p \in T \X (1..n) : MergeGraduateCourse(p[1], seq[p[2]]) \in T
    BY MergeKeeps
  <2> HIDE DEF T
  <2> QED BY <2>1
<1>2. PICK it \in [SUBSET (1..n) -> T] : FoldOn(it, n, C, step)
  <2> HIDE DEF step
  <2> QED BY <1>1, FoldExists
<1>3. Body(it)
  <2>1. ASSUME NEW s \in SUBSET (1..n), s # {}
        PROVE  step[<<it[s \ {Max(s)}], Max(s)>>] =
                   MergeGraduateCourse(it[s \ {Max(s)}], seq[Max(s)])
    <3>1. it[s \ {Max(s)}] \in T /\ Max(s) \in 1..n
      BY <2>1, MaxOfSome
    <3> HIDE DEF T
    <3> QED BY <3>1
  <2> HIDE DEF step
  <2> QED BY <1>2, <2>1 DEF FoldOn
<1>4. Body(h)
  <2> HIDE DEF Body
  <2> QED BY <1>3
<1>5. MergeEach(C, seq) = h[1..n]
  <2>1. MergeEach(C, seq) =
            (CHOOSE f : f = [s \in SUBSET DOMAIN seq |->
                IF s = {} THEN C ELSE MergeGraduateCourse(f[s \ {Max(s)}], seq[Max(s)])])
            [DOMAIN seq]
    BY Zenon DEF MergeEach, FoldLeft, MapThenFoldSet
  <2> QED BY <2>1, Zenon
<1> HIDE DEF h
<1>6. h[1..0] = C
  <2>1. 1..0 = {} /\ {} \in SUBSET (1..n)
    OBVIOUS
  <2> QED BY <1>4, <2>1
<1>7. ASSUME NEW k \in 1..n PROVE h[1..k] = MergeGraduateCourse(h[1..(k - 1)], seq[k])
  <2>1. 1..k # {} /\ Max(1..k) = k /\ (1..k) \ {Max(1..k)} = 1..(k - 1) /\ 1..k \in SUBSET (1..n)
    BY FirstOf, Zenon
  <2>2. h[1..k] = IF 1..k = {} THEN C
                  ELSE MergeGraduateCourse(h[(1..k) \ {Max(1..k)}], seq[Max(1..k)])
    BY <1>4, <2>1, Zenon
  <2> QED BY <2>1, <2>2
<1> DEFINE g == [k \in 0..n |-> h[1..k]]
<1>8. g[0] = C /\ MergeEach(C, seq) = g[n]
      /\ \A k \in 1..n : g[k] = MergeGraduateCourse(g[k - 1], seq[k])
  BY <1>5, <1>6, <1>7
<1> QED BY <1>8

LEMMA MergeEachKeeps ==
    ASSUME NEW N, NEW C \in GoodCourses(N), NEW seq \in Seq(AnyCourse(N))
    PROVE  /\ MergeEach(C, seq) \in GoodCourses(N)
           /\ Lessons(MergeEach(C, seq)) = Lessons(C) \cup LessonsOfAll(seq)
<1> DEFINE n == Len(seq)
<1>1. n \in Nat /\ DOMAIN seq = 1..n /\ \A k \in 1..n : seq[k] \in AnyCourse(N)
  OBVIOUS
<1>2. C \in CourseSets(N) /\ Merged(C)
  BY DEF GoodCourses
<1> HIDE DEF n
<1>3. PICK g : /\ g[0] = C
               /\ \A k \in 1..n : g[k] = MergeGraduateCourse(g[k - 1], seq[k])
               /\ MergeEach(C, seq) = g[n]
  BY <1>1, <1>2, MergeEachFolds
<1> DEFINE upto(k) == {seq[i] : i \in 1..k}
           Good(k) == /\ g[k] \in GoodCourses(N)
                      /\ Lessons(g[k]) = Lessons(C) \cup Lessons(upto(k))
           good == {k \in 0..n : Good(k)}
<1>4. Good(0)
  <2>1. upto(0) = {}
    OBVIOUS
  <2> HIDE DEF upto
  <2> QED BY <1>3, <2>1, NoLessons
<1>5. ASSUME NEW k \in 0..(n - 1), Good(k) PROVE Good(k + 1)
  <2>1. k + 1 \in 1..n /\ (k + 1) - 1 = k
    BY <1>1
  <2>2. g[k + 1] = MergeGraduateCourse(g[k], seq[k + 1]) /\ seq[k + 1] \in AnyCourse(N)
    BY <1>1, <1>3, <2>1
  <2>3. /\ g[k + 1] \in GoodCourses(N)
        /\ Lessons(g[k + 1]) = Lessons(g[k]) \cup LessonsIn(seq[k + 1])
    <3>1. g[k] \in CourseSets(N)
      BY <1>5 DEF GoodCourses
    <3>2. /\ MergeGraduateCourse(g[k], seq[k + 1]) \in CourseSets(N)
          /\ Lessons(MergeGraduateCourse(g[k], seq[k + 1])) =
                 Lessons(g[k]) \cup LessonsIn(seq[k + 1])
          /\ Merged(MergeGraduateCourse(g[k], seq[k + 1]))
      BY <2>2, <3>1, MergeKeeps, Zenon
    <3> QED BY <2>2, <3>2, Zenon DEF GoodCourses
  <2>4. upto(k + 1) = upto(k) \cup {seq[k + 1]}
    <3>1. 1..(k + 1) = (1..k) \cup {k + 1}
      BY <1>1
    <3> QED BY <3>1
  <2> HIDE DEF upto
  <2>5. Lessons(upto(k + 1)) = Lessons(upto(k)) \cup LessonsIn(seq[k + 1])
    BY <2>4, LessonsAdd, Zenon
  <2> QED BY <1>5, <2>3, <2>5
<1>6. Good(n)
  <2> HIDE DEF Good
  <2>1. 0 \in good /\ \A k \in 0..(n - 1) : k \in good => k + 1 \in good
    BY <1>1, <1>4, <1>5
  <2>2. good \in SUBSET (0..n)
    OBVIOUS
  <2>3. good = 0..n
    <3> HIDE DEF good
    <3> QED BY <1>1, <2>1, <2>2, Reaches
  <2> QED BY <1>1, <2>3
<1>7. upto(n) = ToSet(seq)
  BY <1>1 DEF ToSet
<1> QED BY <1>3, <1>6, <1>7 DEF LessonsOfAll

(* The turns of a merge of lists.                                          *)
ListSteps(C, lists, n, g) ==
    /\ g[0] = C
    /\ \A k \in 1..n : g[k] = MergeEach(g[k - 1], lists[k])
    /\ MergeLists(C, lists) = g[n]

LEMMA MergeListsFolds ==
    ASSUME NEW N, NEW C \in GoodCourses(N), NEW n \in Nat,
           NEW lists, DOMAIN lists = 1..n, \A k \in 1..n : lists[k] \in Seq(AnyCourse(N))
    PROVE  \E g : ListSteps(C, lists, n, g)
<1> DEFINE T == GoodCourses(N)
           step == [p \in T \X (1..n) |-> MergeEach(p[1], lists[p[2]])]
           Body(f) == f = [s \in SUBSET (1..n) |->
                              IF s = {} THEN C
                              ELSE MergeEach(f[s \ {Max(s)}], lists[Max(s)])]
           h == CHOOSE f : Body(f)
<1>1. step \in [T \X (1..n) -> T]
  <2>1. \A p \in T \X (1..n) : MergeEach(p[1], lists[p[2]]) \in T
    BY MergeEachKeeps
  <2> HIDE DEF T
  <2> QED BY <2>1
<1>2. PICK it \in [SUBSET (1..n) -> T] : FoldOn(it, n, C, step)
  <2> HIDE DEF step
  <2> QED BY <1>1, FoldExists
<1>3. Body(it)
  <2>1. ASSUME NEW s \in SUBSET (1..n), s # {}
        PROVE  step[<<it[s \ {Max(s)}], Max(s)>>] =
                   MergeEach(it[s \ {Max(s)}], lists[Max(s)])
    <3>1. it[s \ {Max(s)}] \in T /\ Max(s) \in 1..n
      BY <2>1, MaxOfSome
    <3> HIDE DEF T
    <3> QED BY <3>1
  <2> HIDE DEF step
  <2> QED BY <1>2, <2>1 DEF FoldOn
<1>4. Body(h)
  <2> HIDE DEF Body
  <2> QED BY <1>3
<1>5. MergeLists(C, lists) = h[1..n]
  <2>1. MergeLists(C, lists) =
            (CHOOSE f : f = [s \in SUBSET DOMAIN lists |->
                IF s = {} THEN C ELSE MergeEach(f[s \ {Max(s)}], lists[Max(s)])])
            [DOMAIN lists]
    BY Zenon DEF MergeLists, FoldLeft, MapThenFoldSet
  <2> QED BY <2>1, Zenon
<1> HIDE DEF h
<1>6. h[1..0] = C
  <2>1. 1..0 = {} /\ {} \in SUBSET (1..n)
    OBVIOUS
  <2> QED BY <1>4, <2>1
<1>7. ASSUME NEW k \in 1..n PROVE h[1..k] = MergeEach(h[1..(k - 1)], lists[k])
  <2>1. 1..k # {} /\ Max(1..k) = k /\ (1..k) \ {Max(1..k)} = 1..(k - 1) /\ 1..k \in SUBSET (1..n)
    BY FirstOf, Zenon
  <2>2. h[1..k] = IF 1..k = {} THEN C
                  ELSE MergeEach(h[(1..k) \ {Max(1..k)}], lists[Max(1..k)])
    BY <1>4, <2>1, Zenon
  <2> QED BY <2>1, <2>2
<1> DEFINE g == [k \in 0..n |-> h[1..k]]
<1>8. g[0] = C /\ MergeLists(C, lists) = g[n]
      /\ \A k \in 1..n : g[k] = MergeEach(g[k - 1], lists[k])
  BY <1>5, <1>6, <1>7
<1>9. ListSteps(C, lists, n, g)
  BY <1>8, Zenon DEF ListSteps
<1> HIDE DEF g
<1> QED BY <1>9, Zenon

LessonsListed(lists, n) == UNION {LessonsOfAll(lists[k]) : k \in 1..n}

LEMMA MergeListsKeeps ==
    ASSUME NEW N, NEW C \in GoodCourses(N), NEW n \in Nat,
           NEW lists, DOMAIN lists = 1..n, \A k \in 1..n : lists[k] \in Seq(AnyCourse(N))
    PROVE  /\ MergeLists(C, lists) \in GoodCourses(N)
           /\ Lessons(MergeLists(C, lists)) = Lessons(C) \cup LessonsListed(lists, n)
<1>1. PICK g : /\ g[0] = C
               /\ \A k \in 1..n : g[k] = MergeEach(g[k - 1], lists[k])
               /\ MergeLists(C, lists) = g[n]
  <2>1. \E g : ListSteps(C, lists, n, g)
    BY MergeListsFolds
  <2> QED BY <2>1, Zenon DEF ListSteps
<1> DEFINE upto(k) == UNION {LessonsOfAll(lists[i]) : i \in 1..k}
           Good(k) == g[k] \in GoodCourses(N) /\ Lessons(g[k]) = Lessons(C) \cup upto(k)
           good == {k \in 0..n : Good(k)}
<1>2. Good(0)
  BY <1>1
<1>3. ASSUME NEW k \in 0..(n - 1), Good(k) PROVE Good(k + 1)
  <2>1. k + 1 \in 1..n /\ (k + 1) - 1 = k
    OBVIOUS
  <2>2. g[k + 1] = MergeEach(g[k], lists[k + 1]) /\ lists[k + 1] \in Seq(AnyCourse(N))
    BY <1>1, <2>1
  <2>3. /\ g[k + 1] \in GoodCourses(N)
        /\ Lessons(g[k + 1]) = Lessons(g[k]) \cup LessonsOfAll(lists[k + 1])
    BY <1>3, <2>2, MergeEachKeeps
  <2>4. upto(k + 1) = upto(k) \cup LessonsOfAll(lists[k + 1])
    <3>1. 1..(k + 1) = (1..k) \cup {k + 1}
      OBVIOUS
    <3> QED BY <3>1
  <2> HIDE DEF upto
  <2> QED BY <1>3, <2>3, <2>4
<1>4. Good(n)
  <2> HIDE DEF Good
  <2>1. 0 \in good /\ \A k \in 0..(n - 1) : k \in good => k + 1 \in good
    BY <1>2, <1>3
  <2>2. good \in SUBSET (0..n)
    OBVIOUS
  <2>3. good = 0..n
    <3> HIDE DEF good
    <3> QED BY <2>1, <2>2, Reaches
  <2> QED BY <2>3
<1>5. upto(n) = LessonsListed(lists, n)
  BY Zenon DEF LessonsListed
<1> HIDE DEF upto
<1> QED BY <1>1, <1>4, <1>5, Zenon

-----------------------------------------------------------------------------
(* The history of a graduate's courses.                                    *)

LEMMA WeeksAreNumbers ==
    ASSUME NEW tokens
    PROVE  GraduateWeeksOf(tokens) \in SUBSET Int /\ WeeksIn([tokens |-> tokens]) \in SUBSET Int
BY WeeksAssumption DEF GraduateWeeksOf, WeeksIn, WeeksOf

(* A meeting is a course if its sections are in order, and no lesson else. *)
LEMMA MeetingIsCourse ==
    ASSUME NEW N, NEW name \in N, NEW e, NEW weeks \in SUBSET Int,
           e.weekday \in 1..7, e.from \in Nat \ {0}, e.to \in Nat
    PROVE  /\ LastSection(e) \in Nat
           /\ LastSection(e) >= e.from =>
                  LET c == Course(name, e.weekday, e.from, LastSection(e), weeks)
                  IN  c \in AnyCourse(N) /\ LessonsIn(c) = MeetingLessons(name, e, weeks)
           /\ ~(LastSection(e) >= e.from) => MeetingLessons(name, e, weeks) = {}
<1>1. LastSection(e) \in Nat
  BY DEF LastSection
<1>2. ASSUME LastSection(e) >= e.from
      PROVE  LET c == Course(name, e.weekday, e.from, LastSection(e), weeks)
             IN  c \in AnyCourse(N) /\ LessonsIn(c) = MeetingLessons(name, e, weeks)
  <2> DEFINE c == Course(name, e.weekday, e.from, LastSection(e), weeks)
  <2>1. /\ c \in [name : N, weekday : Int, start : Nat, end : Nat, weeks : SUBSET Int]
        /\ c.name = name /\ c.weekday = e.weekday /\ c.start = e.from
        /\ c.end = LastSection(e) /\ c.weeks = weeks
    BY <1>1 DEF Course
  <2> HIDE DEF c
  <2>2. c \in AnyCourse(N)
    BY <1>1, <1>2, <2>1 DEF AnyCourse
  <2>3. LessonsIn(c) = MeetingLessons(name, e, weeks)
    BY <2>1 DEF LessonsIn, MeetingLessons
  <2> QED BY <2>2, <2>3 DEF c
<1>3. ASSUME ~(LastSection(e) >= e.from) PROVE MeetingLessons(name, e, weeks) = {}
  <2>1. e.from .. LastSection(e) = {}
    BY <1>1, <1>3
  <2> QED BY <2>1 DEF MeetingLessons
<1> QED BY <1>1, <1>2, <1>3

RowLessons(row, period) ==
    IF row.name # "" /\ period \in {"", row.period}
    THEN UNION {MeetingLessons(<<row.name, e.location>>, e, GraduateWeeksOf(e.tokens)) :
                   e \in ToSet(row.entries)}
    ELSE {}

LEMMA HistoryRow ==
    ASSUME NEW row \in AnyHistoryRow, NEW period
    PROVE  /\ HistoryCourses(row, period) \in Seq(AnyCourse(STRING \X STRING))
           /\ LessonsOfAll(HistoryCourses(row, period)) = RowLessons(row, period)
<1> DEFINE N == STRING \X STRING
           n == Len(row.entries)
           weeks(e) == GraduateWeeksOf(e.tokens)
           course(e) == Course(<<row.name, e.location>>, e.weekday, e.from, LastSection(e), weeks(e))
           courses == [i \in DOMAIN row.entries |-> course(row.entries[i])]
           valid == {i \in DOMAIN row.entries :
                        /\ row.entries[i].from >= 1
                        /\ LastSection(row.entries[i]) >= row.entries[i].from}
           lessons(e) == MeetingLessons(<<row.name, e.location>>, e, weeks(e))
<1>1. CASE ~(row.name # "" /\ period \in {"", row.period})
  <2>1. HistoryCourses(row, period) = <<>>
    BY <1>1 DEF HistoryCourses
  <2>2. ToSet(<<>>) = {}
    BY DEF ToSet
  <2>3. RowLessons(row, period) = {}
    BY <1>1 DEF RowLessons
  <2>4. <<>> \in Seq(AnyCourse(N))
    OBVIOUS
  <2> QED BY <2>1, <2>2, <2>3, <2>4, NoLessons DEF LessonsOfAll
<1>2. CASE row.name # "" /\ period \in {"", row.period}
  <2>1. HistoryCourses(row, period) = Kept(courses, valid)
    BY <1>2 DEF HistoryCourses
  <2>2. /\ n \in Nat /\ DOMAIN row.entries = 1..n
        /\ \A i \in 1..n : row.entries[i] \in AnyEntry
    BY DEF AnyHistoryRow
  <2>3. ASSUME NEW i \in 1..n
        PROVE  LET e == row.entries[i]
               IN  /\ i \in valid <=> LastSection(e) >= e.from
                   /\ i \in valid => course(e) \in AnyCourse(N) /\ LessonsIn(course(e)) = lessons(e)
                   /\ i \notin valid => lessons(e) = {}
    <3> DEFINE e == row.entries[i]
    <3>1. /\ e.weekday \in 1..7 /\ e.from \in Nat \ {0} /\ e.to \in Nat /\ e.location \in STRING
          /\ row.name \in STRING
      BY <2>2 DEF AnyEntry, AnyHistoryRow
    <3>2. weeks(e) \in SUBSET Int
      BY WeeksAreNumbers
    <3>3. i \in valid <=> LastSection(e) >= e.from
      BY <2>2, <3>1
    <3>4. <<row.name, e.location>> \in N
      BY <3>1
    <3> HIDE DEF e, valid, weeks, N
    <3>5. /\ LastSection(e) >= e.from => course(e) \in AnyCourse(N) /\ LessonsIn(course(e)) = lessons(e)
          /\ ~(LastSection(e) >= e.from) => lessons(e) = {}
      BY <3>1, <3>2, <3>4, MeetingIsCourse
    <3> QED BY <3>3, <3>5 DEF e
  <2>4. valid \in SUBSET (1..n) /\ IsFiniteSet(valid) /\ valid \in SUBSET Nat
    <3>1. valid \in SUBSET (1..n)
      BY <2>2
    <3>2. IsFiniteSet(1..n) /\ 1..n \in SUBSET Nat
      BY <2>2, FS_Interval
    <3> HIDE DEF valid, n
    <3>3. IsFiniteSet(valid)
      BY <3>1, <3>2, FS_Subset, Zenon
    <3> QED BY <3>1, <3>2, <3>3
  <2>5. \A i \in valid : courses[i] = course(row.entries[i]) /\ courses[i] \in AnyCourse(N)
    BY <2>2, <2>3, <2>4
  <2> HIDE DEF courses, valid, course, lessons, weeks, N, n
  <2>6. Kept(courses, valid) \in Seq(AnyCourse(N))
    BY <2>4, <2>5, KeptSequence
  <2>7. ToSet(Kept(courses, valid)) = {courses[i] : i \in valid}
    BY <2>4, KeptMembers
  <2>8. Lessons({courses[i] : i \in valid}) = UNION {LessonsIn(courses[i]) : i \in valid}
    BY DEF Lessons, LessonsIn
  <2>9. \A i \in valid : LessonsIn(courses[i]) = lessons(row.entries[i])
    BY <2>3, <2>4, <2>5
  <2>10. UNION {LessonsIn(courses[i]) : i \in valid} = UNION {lessons(row.entries[i]) : i \in 1..n}
    BY <2>3, <2>4, <2>9
  <2>11. RowLessons(row, period) = UNION {lessons(row.entries[i]) : i \in 1..n}
    BY <1>2, <2>2 DEF RowLessons, ToSet, lessons, weeks
  <2> QED BY <2>1, <2>6, <2>7, <2>8, <2>10, <2>11 DEF LessonsOfAll, N
<1> QED BY <1>1, <1>2

LEMMA NothingYet ==
    ASSUME NEW N
    PROVE  {} \in GoodCourses(N)
BY FS_EmptySet DEF GoodCourses, CourseSets, Merged

(* parseGraduateCourseHistory: the courses have the lessons of the rows of *)
(* the period asked for, and none can still be merged.                     *)
LEMMA HistoryIsKept ==
    ASSUME NEW rows \in Seq(AnyHistoryRow), NEW period
    PROVE  /\ Lessons(ParseGraduateHistory(rows, period)) = HistoryLessons(rows, period)
           /\ Merged(ParseGraduateHistory(rows, period))
<1> DEFINE N == STRING \X STRING
           n == Len(rows)
           lists == [i \in DOMAIN rows |-> HistoryCourses(rows[i], period)]
<1>1. n \in Nat /\ DOMAIN rows = 1..n /\ \A i \in 1..n : rows[i] \in AnyHistoryRow
  OBVIOUS
<1>2. /\ DOMAIN lists = 1..n
      /\ \A k \in 1..n : /\ lists[k] \in Seq(AnyCourse(N))
                         /\ LessonsOfAll(lists[k]) = RowLessons(rows[k], period)
  BY <1>1, HistoryRow
<1>3. ParseGraduateHistory(rows, period) = MergeLists({}, lists)
  BY DEF ParseGraduateHistory
<1> HIDE DEF lists, N, n
<1>4. /\ MergeLists({}, lists) \in GoodCourses(N)
      /\ Lessons(MergeLists({}, lists)) =
             Lessons({}) \cup UNION {LessonsOfAll(lists[k]) : k \in 1..n}
  <2> DEFINE none == {}
  <2>1. none \in GoodCourses(N)
    BY NothingYet
  <2>2. \A k \in 1..n : lists[k] \in Seq(AnyCourse(N))
    BY <1>2
  <2>3. n \in Nat /\ DOMAIN lists = 1..n
    BY <1>1, <1>2
  <2> HIDE DEF none
  <2>4. /\ MergeLists(none, lists) \in GoodCourses(N)
        /\ Lessons(MergeLists(none, lists)) = Lessons(none) \cup LessonsListed(lists, n)
    BY <2>1, <2>2, <2>3, MergeListsKeeps
  <2> QED BY <2>4, Zenon DEF none, LessonsListed
<1>5. Lessons(MergeLists({}, lists)) = UNION {RowLessons(rows[k], period) : k \in 1..n}
  BY <1>2, <1>4, NoLessons
<1>6. HistoryLessons(rows, period) = UNION {RowLessons(rows[k], period) : k \in 1..n}
  <2>1. ToSet(rows) = {rows[k] : k \in 1..n}
    BY <1>1 DEF ToSet
  <2> HIDE DEF ToSet
  <2>2. HistoryLessons(rows, period) = UNION {RowLessons(r, period) : r \in ToSet(rows)}
    <3> DEFINE all(r) ==
                   UNION {MeetingLessons(<<r.name, e.location>>, e, GraduateWeeksOf(e.tokens)) :
                             e \in ToSet(r.entries)}
    <3>1. HistoryLessons(rows, period) =
              UNION {all(r) : r \in {r \in ToSet(rows) : r.name # "" /\ period \in {"", r.period}}}
      BY Zenon DEF HistoryLessons
    <3>2. \A r : RowLessons(r, period) =
                     IF r.name # "" /\ period \in {"", r.period} THEN all(r) ELSE {}
      BY Zenon DEF RowLessons
    <3> HIDE DEF all
    <3> QED BY <3>1, <3>2
  <2> QED BY <2>1, <2>2
<1> QED BY <1>3, <1>4, <1>5, <1>6 DEF GoodCourses

-----------------------------------------------------------------------------
(* The courses of an undergraduate, swept in the order of their sections.  *)

OneCourse(group) == \A c, d \in group : SameCourse(c, d) /\ c.weeks = d.weeks

LEMMA EarliestIs ==
    ASSUME NEW N, NEW G \in SUBSET AnyCourse(N), G # {}, OneCourse(G)
    PROVE  /\ Earliest(G) \in G
           /\ \A d \in G \ {Earliest(G)} : Before(Earliest(G), d)
<1> DEFINE starts == {c.start : c \in G}
<1>1. /\ \A c \in G : c.start \in Nat /\ c.end \in Nat
      /\ \A c \in G : c \in [name : N, weekday : Int, start : Nat, end : Nat, weeks : SUBSET Int]
  BY DEF AnyCourse
<1>2. PICK a \in starts : \A b \in starts : a <= b
  <2>1. starts \in SUBSET Nat /\ starts # {}
    BY <1>1
  <2> HIDE DEF starts
  <2> QED BY <2>1, LeastNatural
<1> DEFINE ends == {c.end : c \in {c \in G : c.start = a}}
<1>3. PICK e \in ends : \A b \in ends : e <= b
  <2>1. ends \in SUBSET Nat /\ ends # {}
    BY <1>1, <1>2
  <2> HIDE DEF ends
  <2> QED BY <2>1, LeastNatural
<1>4. PICK c \in G : c.start = a /\ c.end = e
  BY <1>3
<1>5. ASSUME NEW d \in G \ {c} PROVE Before(c, d)
  <2>1. a <= d.start /\ (d.start = a => e <= d.end)
    BY <1>2, <1>3
  <2>2. ~(d.start = a /\ d.end = e)
    <3>1. c.name = d.name /\ c.weekday = d.weekday /\ c.weeks = d.weeks
      BY DEF OneCourse, SameCourse
    <3>2. c # d
      OBVIOUS
    <3> QED BY <1>1, <1>4, <3>1, <3>2
  <2>3. c.start \in Nat /\ c.end \in Nat /\ d.start \in Nat /\ d.end \in Nat
    BY <1>1
  <2> QED BY <1>4, <2>1, <2>2, <2>3 DEF Before
<1> QED BY <1>5 DEF Earliest

(* What has been swept: the lessons of all but those left, in intervals    *)
(* apart from each other, of which the current one is the last.            *)
Swept(N, G) ==
    {s \in [left : SUBSET G, done : SUBSET AnyCourse(N), current : AnyCourse(N)] :
        /\ \A c \in s.done \cup {s.current}, d \in G : SameCourse(c, d) /\ c.weeks = d.weeks
        /\ Lessons(s.done \cup {s.current}) = Lessons(G \ s.left)
        /\ \A c \in s.done : c.end + 1 < s.current.start
        /\ \A c, d \in s.done : c # d => ~Touch(c, d)
        /\ \A d \in s.left : s.current.start <= d.start}

LEMMA SweepOneKeeps ==
    ASSUME NEW N, NEW G \in SUBSET AnyCourse(N), IsFiniteSet(G), OneCourse(G),
           NEW s \in Swept(N, G), s.left # {}
    PROVE  /\ SweepOne(s) \in Swept(N, G)
           /\ SweepOne(s).left \in SUBSET s.left
           /\ Cardinality(SweepOne(s).left) = Cardinality(s.left) - 1
<1> DEFINE x == Earliest(s.left)
           j == Joined(s.current, x)
           t == SweepOne(s)
<1>1. /\ s.left \in SUBSET G /\ s.done \in SUBSET AnyCourse(N) /\ s.current \in AnyCourse(N)
      /\ \A c \in s.done \cup {s.current}, d \in G : SameCourse(c, d) /\ c.weeks = d.weeks
      /\ Lessons(s.done \cup {s.current}) = Lessons(G \ s.left)
      /\ \A c \in s.done : c.end + 1 < s.current.start
      /\ \A c, d \in s.done : c # d => ~Touch(c, d)
      /\ \A d \in s.left : s.current.start <= d.start
      /\ s = [left |-> s.left, done |-> s.done, current |-> s.current]
  BY DEF Swept
<1>2. x \in s.left /\ \A d \in s.left \ {x} : Before(x, d)
  <2>1. OneCourse(s.left) /\ s.left \in SUBSET AnyCourse(N)
    BY <1>1 DEF OneCourse
  <2> QED BY <2>1, EarliestIs
<1> HIDE DEF x
<1>3. \A d \in AnyCourse(N) : /\ d.start \in Nat /\ d.end \in Nat /\ d.start <= d.end
  BY DEF AnyCourse
<1>4. x \in G /\ x \in AnyCourse(N) /\ SameCourse(s.current, x) /\ s.current.weeks = x.weeks
      /\ s.current.start <= x.start
  BY <1>1, <1>2
<1>5. \A d \in s.left \ {x} : x.start <= d.start
  <2> TAKE d \in s.left \ {x}
  <2>1. Before(x, d) /\ d \in AnyCourse(N)
    BY <1>1, <1>2
  <2> QED BY <1>3, <1>4, <2>1 DEF Before
<1>6. t = IF Touch(s.current, x)
          THEN [left |-> s.left \ {x}, done |-> s.done, current |-> j]
          ELSE [left |-> s.left \ {x}, done |-> s.done \cup {s.current}, current |-> x]
  BY DEF SweepOne, x
<1>7. t.left = s.left \ {x} /\ t.left \in SUBSET s.left
  BY <1>6
<1>8. Cardinality(t.left) = Cardinality(s.left) - 1
  <2>1. IsFiniteSet(s.left)
    BY <1>1, FS_Subset
  <2>2. Cardinality(s.left \ {x}) = Cardinality(s.left) - 1
    BY <1>2, <2>1, FS_RemoveElement
  <2> HIDE DEF t
  <2> QED BY <1>7, <2>2
<1>9. Lessons(G \ t.left) = Lessons(s.done \cup {s.current}) \cup LessonsIn(x)
  <2>1. G \ t.left = (G \ s.left) \cup {x}
    BY <1>1, <1>2, <1>4, <1>7
  <2>2. Lessons((G \ s.left) \cup {x}) = Lessons(G \ s.left) \cup LessonsIn(x)
    BY LessonsAdd, Zenon
  <2> QED BY <1>1, <2>1, <2>2
<1>10. CASE Touch(s.current, x)
  <2>1. t = [left |-> s.left \ {x}, done |-> s.done, current |-> j]
    BY <1>6, <1>10
  <2>2. /\ j \in AnyCourse(N) /\ SameCourse(s.current, j) /\ j.weeks = s.current.weeks
        /\ LessonsIn(j) = LessonsIn(s.current) \cup LessonsIn(x)
    BY <1>1, <1>4, <1>10, JoinedLessons
  <2>3. j.start = s.current.start
    <3>1. j.start = IF x.start < s.current.start THEN x.start ELSE s.current.start
      BY <1>1 DEF AnyCourse, Joined
    <3> QED BY <1>1, <1>3, <1>4, <3>1
  <2> HIDE DEF j, t
  <2>4. t.left \in SUBSET G /\ t.done = s.done /\ t.current = j
        /\ t \in [left : SUBSET G, done : SUBSET AnyCourse(N), current : AnyCourse(N)]
    BY <1>1, <2>1, <2>2
  <2>5. \A c \in t.done \cup {t.current}, d \in G : SameCourse(c, d) /\ c.weeks = d.weeks
    BY <1>1, <2>2, <2>4 DEF SameCourse
  <2>6. Lessons(t.done \cup {t.current}) = Lessons(G \ t.left)
    <3>1. /\ Lessons(s.done \cup {j}) = Lessons(s.done) \cup LessonsIn(j)
          /\ Lessons(s.done \cup {s.current}) = Lessons(s.done) \cup LessonsIn(s.current)
      BY LessonsAdd, Zenon
    <3> QED BY <1>9, <2>2, <2>4, <3>1
  <2>7. /\ \A c \in t.done : c.end + 1 < t.current.start
        /\ \A c, d \in t.done : c # d => ~Touch(c, d)
        /\ \A d \in t.left : t.current.start <= d.start
    BY <1>1, <1>7, <2>3, <2>4
  <2> QED BY <1>7, <1>8, <2>4, <2>5, <2>6, <2>7 DEF Swept, t
<1>11. CASE ~Touch(s.current, x)
  <2>1. t = [left |-> s.left \ {x}, done |-> s.done \cup {s.current}, current |-> x]
    BY <1>6, <1>11
  <2>2. s.current.end + 1 < x.start
    <3>1. ~(x.start <= s.current.end + 1 /\ x.end >= s.current.start - 1)
      BY <1>11 DEF Touch
    <3> QED BY <1>1, <1>3, <1>4, <3>1
  <2> HIDE DEF t
  <2>3. t.left \in SUBSET G /\ t.done = s.done \cup {s.current} /\ t.current = x
        /\ t \in [left : SUBSET G, done : SUBSET AnyCourse(N), current : AnyCourse(N)]
    BY <1>1, <1>4, <2>1
  <2>4. \A c \in t.done \cup {t.current}, d \in G : SameCourse(c, d) /\ c.weeks = d.weeks
    BY <1>1, <1>4, <2>3 DEF OneCourse
  <2>5. Lessons(t.done \cup {t.current}) = Lessons(G \ t.left)
    <3>1. Lessons((s.done \cup {s.current}) \cup {x}) =
              Lessons(s.done \cup {s.current}) \cup LessonsIn(x)
      BY LessonsAdd, Zenon
    <3> QED BY <1>9, <2>3, <3>1
  <2>6. \A c \in t.done : c.end + 1 < t.current.start
    <3> SUFFICES ASSUME NEW c \in s.done PROVE c.end + 1 < x.start
      BY <2>2, <2>3
    <3>1. c.end + 1 < s.current.start /\ c \in AnyCourse(N)
      BY <1>1
    <3> QED BY <1>1, <1>3, <1>4, <3>1
  <2>7. \A c, d \in t.done : c # d => ~Touch(c, d)
    <3>1. ASSUME NEW c \in s.done PROVE ~Touch(c, s.current) /\ ~Touch(s.current, c)
      <4>1. c.end + 1 < s.current.start /\ c \in AnyCourse(N)
        BY <1>1
      <4> QED BY <1>1, <1>3, <4>1 DEF Touch
    <3> QED BY <1>1, <2>3, <3>1
  <2>8. \A d \in t.left : t.current.start <= d.start
    BY <1>5, <1>7, <2>3
  <2> QED BY <1>7, <1>8, <2>3, <2>4, <2>5, <2>6, <2>7, <2>8 DEF Swept, t
<1> QED BY <1>10, <1>11

LEMMA BeforeLast ==
    ASSUME NEW n \in Nat, NEW s \in SUBSET (1..n), s # {}
    PROVE  /\ Max(s) \in 1..n
           /\ s \ {Max(s)} \in SUBSET (1..(Max(s) - 1))
<1>1. Max(s) \in 1..n /\ \A i \in s : i <= Max(s)
  BY MaxOfSome
<1>2. \A i \in s : i \in 1..n /\ (i # Max(s) => i \in 1..(Max(s) - 1))
  BY <1>1
<1> QED BY <1>1, <1>2

(* A size that starts at n and loses at most one a step is not used up     *)
(* before the last of n steps.                                             *)
LEMMA EnoughLeft ==
    ASSUME NEW n \in Nat, NEW size \in [SUBSET (1..n) -> Nat], size[{}] = n,
           \A s \in SUBSET (1..n) : s # {} => size[s] >= size[s \ {Max(s)}] - 1
    PROVE  \A s \in SUBSET (1..n) : s # {} => size[s \ {Max(s)}] # 0
<1> DEFINE Left(k) == \A s \in SUBSET (1..k) : size[s] >= n - k
           lasting == {k \in 0..n : Left(k)}
<1>1. Left(0)
  <2> SUFFICES ASSUME NEW s \in SUBSET (1..0) PROVE size[s] >= n - 0
    OBVIOUS
  <2>1. s = {}
    OBVIOUS
  <2>2. size[s] = n
    BY <2>1
  <2> QED BY <2>2
<1>2. ASSUME NEW k \in 0..(n - 1), Left(k) PROVE Left(k + 1)
  <2> SUFFICES ASSUME NEW s \in SUBSET (1..(k + 1)) PROVE size[s] >= n - (k + 1)
    OBVIOUS
  <2>1. k \in Nat /\ k + 1 \in Nat /\ k + 1 \in 1..n /\ s \in SUBSET (1..n) /\ size[s] \in Nat
    OBVIOUS
  <2>2. CASE s = {}
    <3>1. s \in SUBSET (1..k)
      BY <2>2
    <3>2. size[s] >= n - k
      BY <1>2, <3>1
    <3> QED BY <3>2, <2>1
  <2>3. CASE s # {}
    <3>1. Max(s) \in 1..(k + 1) /\ s \ {Max(s)} \in SUBSET (1..(Max(s) - 1))
      BY <2>1, <2>3, BeforeLast
    <3>2. 1..(Max(s) - 1) \in SUBSET (1..k) /\ 1..(Max(s) - 1) \in SUBSET (1..n)
      BY <2>1, <3>1
    <3> DEFINE r == s \ {Max(s)}
    <3>3. r \in SUBSET (1..k) /\ r \in SUBSET (1..n)
      BY <3>1, <3>2
    <3>4. size[s] >= size[r] - 1
      BY <2>1, <2>3
    <3> HIDE DEF r
    <3>5. size[r] \in Nat /\ size[r] >= n - k
      BY <1>2, <3>3
    <3> QED BY <2>1, <3>4, <3>5
  <2> QED BY <2>2, <2>3
<1>3. \A k \in 0..n : Left(k)
  <2> HIDE DEF Left
  <2>1. 0 \in lasting /\ \A k \in 0..(n - 1) : k \in lasting => k + 1 \in lasting
    BY <1>1, <1>2
  <2>2. lasting \in SUBSET (0..n)
    OBVIOUS
  <2>3. lasting = 0..n
    <3> HIDE DEF lasting
    <3> QED BY <2>1, <2>2, Reaches
  <2> QED BY <2>3
<1> SUFFICES ASSUME NEW s \in SUBSET (1..n), s # {} PROVE size[s \ {Max(s)}] # 0
  OBVIOUS
<1>4. Max(s) \in 1..n /\ s \ {Max(s)} \in SUBSET (1..(Max(s) - 1))
  BY BeforeLast
<1>5. Max(s) - 1 \in 0..n /\ n - (Max(s) - 1) >= 1
  BY <1>4
<1>6. size[s \ {Max(s)}] >= n - (Max(s) - 1)
  BY <1>3, <1>4, <1>5
<1> HIDE DEF Left
<1>7. size[s \ {Max(s)}] \in Nat
  <2>1. s \ {Max(s)} \in SUBSET (1..n)
    OBVIOUS
  <2> QED BY <2>1
<1> QED BY <1>4, <1>5, <1>6, <1>7

SweepStart(group) ==
    [left |-> group \ {Earliest(group)}, done |-> {}, current |-> Earliest(group)]

LEMMA SweepStarts ==
    ASSUME NEW N, NEW G \in SUBSET AnyCourse(N), G # {}, OneCourse(G)
    PROVE  SweepStart(G) \in Swept(N, G)
<1> DEFINE x == Earliest(G)
           s == SweepStart(G)
<1>1. x \in G /\ \A d \in G \ {x} : Before(x, d)
  BY EarliestIs
<1>2. s.left = G \ {x} /\ s.done = {} /\ s.current = x
  BY DEF SweepStart
<1> HIDE DEF x
<1>3. s \in [left : SUBSET G, done : SUBSET AnyCourse(N), current : AnyCourse(N)]
  <2>1. s = [left |-> G \ {x}, done |-> {}, current |-> x]
    BY DEF SweepStart, x
  <2> QED BY <1>1, <2>1
<1> HIDE DEF s
<1>4. Lessons(s.done \cup {s.current}) = Lessons(G \ s.left)
  <2>1. G \ s.left = {x} /\ s.done \cup {s.current} = {x}
    BY <1>1, <1>2
  <2> QED BY <2>1
<1>5. \A d \in s.left : s.current.start <= d.start
  <2> SUFFICES ASSUME NEW d \in G \ {x} PROVE x.start <= d.start
    BY <1>2
  <2>1. x.start \in Nat /\ d.start \in Nat /\ Before(x, d)
    BY <1>1 DEF AnyCourse
  <2> QED BY <2>1 DEF Before
<1>6. \A c \in s.done \cup {s.current}, d \in G : SameCourse(c, d) /\ c.weeks = d.weeks
  BY <1>1, <1>2 DEF OneCourse
<1>7. /\ \A c \in s.done : c.end + 1 < s.current.start
      /\ \A c, d \in s.done : c # d => ~Touch(c, d)
  BY <1>2
<1> QED BY <1>3, <1>4, <1>5, <1>6, <1>7 DEF Swept, s

(* The turns of a sweep.                                                   *)
SweepSteps(G, n, g) ==
    /\ g[0] = SweepStart(G)
    /\ \A k \in 1..n : g[k] = SweepOne(g[k - 1])
    /\ Sweep(G) = g[n].done \cup {g[n].current}

LEMMA SweepFolds ==
    ASSUME NEW N, NEW G \in SUBSET AnyCourse(N), IsFiniteSet(G), G # {}, OneCourse(G),
           NEW n \in Nat, n = Cardinality(G \ {Earliest(G)})
    PROVE  \E g : SweepSteps(G, n, g)
<1> DEFINE T == Swept(N, G)
           start == SweepStart(G)
           step == [p \in T \X (1..n) |-> IF p[1].left # {} THEN SweepOne(p[1]) ELSE p[1]]
           Body(f) == f = [s \in SUBSET (1..n) |->
                              IF s = {} THEN start ELSE SweepOne(f[s \ {Max(s)}])]
           h == CHOOSE f : Body(f)
<1>1. step \in [T \X (1..n) -> T]
  <2>1. \A p \in T \X (1..n) : (IF p[1].left # {} THEN SweepOne(p[1]) ELSE p[1]) \in T
    BY SweepOneKeeps
  <2> HIDE DEF T
  <2> QED BY <2>1
<1>2. start \in T /\ Cardinality(start.left) = n
  <2>1. start.left = G \ {Earliest(G)}
    BY DEF SweepStart
  <2> QED BY <2>1, SweepStarts
<1>3. \A t \in T : IsFiniteSet(t.left) /\ Cardinality(t.left) \in Nat
  <2> SUFFICES ASSUME NEW t \in T PROVE IsFiniteSet(t.left) /\ Cardinality(t.left) \in Nat
    OBVIOUS
  <2>1. t.left \in SUBSET G
    BY DEF Swept
  <2> HIDE DEF T
  <2> QED BY <2>1, FS_Subset, FS_CardinalityType
<1>4. \A t \in T : t.left # {} => Cardinality(SweepOne(t).left) >= Cardinality(t.left) - 1
  <2> SUFFICES ASSUME NEW t \in T, t.left # {}
               PROVE  Cardinality(SweepOne(t).left) >= Cardinality(t.left) - 1
    OBVIOUS
  <2>1. Cardinality(SweepOne(t).left) = Cardinality(t.left) - 1
    BY SweepOneKeeps
  <2> QED BY <1>3, <2>1
<1> HIDE DEF start, T
<1>5. PICK it \in [SUBSET (1..n) -> T] : FoldOn(it, n, start, step)
  <2> HIDE DEF step
  <2> QED BY <1>1, <1>2, FoldExists
<1>6. it[{}] = start
  <2> HIDE DEF step
  <2>1. {} \in SUBSET (1..n)
    OBVIOUS
  <2> QED BY <1>5, <2>1, Zenon DEF FoldOn
<1>7. ASSUME NEW s \in SUBSET (1..n), s # {}
      PROVE  LET t == it[s \ {Max(s)}]
             IN  t \in T /\ it[s] = IF t.left # {} THEN SweepOne(t) ELSE t
  <2>1. s \ {Max(s)} \in SUBSET (1..n) /\ Max(s) \in 1..n
    BY <1>7, MaxOfSome
  <2>2. it[s] = step[<<it[s \ {Max(s)}], Max(s)>>]
    <3> HIDE DEF step
    <3> QED BY <1>5, <1>7, Zenon DEF FoldOn
  <2>3. it[s \ {Max(s)}] \in T
    BY <2>1
  <2> QED BY <2>1, <2>2, <2>3
<1> HIDE DEF step
<1> DEFINE size == [s \in SUBSET (1..n) |-> Cardinality(it[s].left)]
<1>8. size \in [SUBSET (1..n) -> Nat] /\ size[{}] = n
  <2>1. \A s \in SUBSET (1..n) : Cardinality(it[s].left) \in Nat
    BY <1>3
  <2>2. size[{}] = n
    BY <1>2, <1>6
  <2>3. size \in [SUBSET (1..n) -> Nat]
    BY <2>1, Zenon
  <2> QED BY <2>2, <2>3
<1>9. \A s \in SUBSET (1..n) : s # {} => size[s] >= size[s \ {Max(s)}] - 1
  <2> SUFFICES ASSUME NEW s \in SUBSET (1..n), s # {} PROVE size[s] >= size[s \ {Max(s)}] - 1
    OBVIOUS
  <2> DEFINE t == it[s \ {Max(s)}]
  <2>1. t \in T /\ it[s] = IF t.left # {} THEN SweepOne(t) ELSE t
    BY <1>7
  <2>2. size[s] = Cardinality(it[s].left) /\ size[s \ {Max(s)}] = Cardinality(t.left)
    OBVIOUS
  <2> HIDE DEF t, size
  <2>3. Cardinality(t.left) \in Nat
    BY <1>3, <2>1
  <2>4. Cardinality(it[s].left) >= Cardinality(t.left) - 1
    BY <1>4, <2>1, <2>3
  <2> QED BY <2>2, <2>4
<1>10. \A s \in SUBSET (1..n) : s # {} => size[s \ {Max(s)}] # 0
  <2> HIDE DEF size
  <2> QED BY <1>8, <1>9, EnoughLeft
<1>11. ASSUME NEW s \in SUBSET (1..n), s # {}
       PROVE  it[s] = SweepOne(it[s \ {Max(s)}])
  <2> DEFINE t == it[s \ {Max(s)}]
  <2>1. t \in T /\ it[s] = IF t.left # {} THEN SweepOne(t) ELSE t
    BY <1>7, <1>11
  <2>2. size[s \ {Max(s)}] = Cardinality(t.left)
    OBVIOUS
  <2>3. Cardinality(t.left) # 0
    BY <1>10, <1>11, <2>2
  <2> HIDE DEF t
  <2>4. t.left # {}
    BY <2>3, FS_EmptySet
  <2> QED BY <2>1, <2>4 DEF t
<1>12. Body(it)
  <2>1. it = [s \in SUBSET (1..n) |-> it[s]]
    OBVIOUS
  <2>2. \A s \in SUBSET (1..n) :
            it[s] = IF s = {} THEN start ELSE SweepOne(it[s \ {Max(s)}])
    BY <1>6, <1>11, Zenon
  <2> QED BY <2>1, <2>2, Zenon
<1>13. Body(h)
  <2> HIDE DEF Body
  <2> QED BY <1>12
<1>14. Sweep(G) = h[1..n].done \cup {h[1..n].current}
  <2>1. DOMAIN [i \in 1..n |-> i] = 1..n
    OBVIOUS
  <2> DEFINE swept == (CHOOSE f : f = [s \in SUBSET DOMAIN [i \in 1..n |-> i] |->
                            IF s = {} THEN [left |-> G \ {Earliest(G)}, done |-> {},
                                            current |-> Earliest(G)]
                            ELSE SweepOne(f[s \ {Max(s)}])])
                       [DOMAIN [i \in 1..n |-> i]]
  <2>2. Sweep(G) = swept.done \cup {swept.current}
    BY Zenon DEF Sweep, FoldLeft, MapThenFoldSet
  <2>3. swept = h[1..n]
    BY <2>1, Zenon DEF start, SweepStart
  <2> QED BY <2>2, <2>3, Zenon
<1> HIDE DEF h
<1>15. h[1..0] = start
  <2>1. 1..0 = {} /\ {} \in SUBSET (1..n)
    OBVIOUS
  <2> QED BY <1>13, <2>1, Zenon
<1>16. ASSUME NEW k \in 1..n PROVE h[1..k] = SweepOne(h[1..(k - 1)])
  <2>1. 1..k # {} /\ Max(1..k) = k /\ (1..k) \ {Max(1..k)} = 1..(k - 1) /\ 1..k \in SUBSET (1..n)
    BY FirstOf, Zenon
  <2>2. h[1..k] = IF 1..k = {} THEN start ELSE SweepOne(h[(1..k) \ {Max(1..k)}])
    BY <1>13, <2>1, Zenon
  <2> QED BY <2>1, <2>2, Zenon
<1> DEFINE g == [k \in 0..n |-> h[1..k]]
<1>17. /\ g[0] = start /\ Sweep(G) = g[n].done \cup {g[n].current}
       /\ \A k \in 1..n : g[k] = SweepOne(g[k - 1])
  <2>1. /\ 0 \in 0..n /\ n \in 0..n
        /\ \A k \in 1..n : k \in 0..n /\ k - 1 \in 0..n
    BY BoundsWithin
  <2>2. g[0] = h[1..0] /\ g[n] = h[1..n]
        /\ \A k \in 1..n : g[k] = h[1..k] /\ g[k - 1] = h[1..(k - 1)]
    BY <2>1, Zenon
  <2> QED BY <1>14, <1>15, <1>16, <2>2, Zenon
<1>18. SweepSteps(G, n, g)
  BY <1>17, Zenon DEF SweepSteps, start
<1> HIDE DEF g
<1> QED BY <1>18, Zenon

(* mergeAdjacentUndergraduateCourses, of one course and set of weeks.      *)
LEMMA SweepKeeps ==
    ASSUME NEW N, NEW G \in SUBSET AnyCourse(N), IsFiniteSet(G), G # {}, OneCourse(G)
    PROVE  /\ Sweep(G) \in SUBSET AnyCourse(N)
           /\ Lessons(Sweep(G)) = Lessons(G)
           /\ Merged(Sweep(G))
           /\ \A c \in Sweep(G), d \in G : SameCourse(c, d) /\ c.weeks = d.weeks
<1> DEFINE rest == G \ {Earliest(G)}
           n == Cardinality(rest)
<1>1. n \in Nat /\ IsFiniteSet(rest)
  <2>1. IsFiniteSet(rest)
    BY FS_Subset
  <2> HIDE DEF rest
  <2> QED BY <2>1, FS_CardinalityType
<1>2. PICK g : /\ g[0] = SweepStart(G)
               /\ \A k \in 1..n : g[k] = SweepOne(g[k - 1])
               /\ Sweep(G) = g[n].done \cup {g[n].current}
  <2>1. n = Cardinality(G \ {Earliest(G)})
    OBVIOUS
  <2> HIDE DEF n
  <2>2. \E g : SweepSteps(G, n, g)
    BY <1>1, <2>1, SweepFolds
  <2> QED BY <2>2, Zenon DEF SweepSteps
<1> DEFINE Good(k) == g[k] \in Swept(N, G) /\ Cardinality(g[k].left) = n - k
           good == {k \in 0..n : Good(k)}
<1>3. Good(0)
  <2>1. SweepStart(G).left = rest /\ SweepStart(G) \in Swept(N, G)
    BY SweepStarts DEF SweepStart
  <2> HIDE DEF rest
  <2> QED BY <1>1, <1>2, <2>1
<1> HIDE DEF rest, n
<1>4. ASSUME NEW k \in 0..(n - 1), Good(k) PROVE Good(k + 1)
  <2>1. k + 1 \in 1..n /\ (k + 1) - 1 = k
    BY <1>1
  <2>2. g[k + 1] = SweepOne(g[k])
    BY <1>2, <2>1
  <2>3. Cardinality(g[k].left) = n - k /\ n - k # 0
    BY <1>1, <1>4, <2>1
  <2>4. g[k].left # {}
    BY <2>3, FS_EmptySet, Zenon
  <2>5. /\ SweepOne(g[k]) \in Swept(N, G)
        /\ Cardinality(SweepOne(g[k]).left) = Cardinality(g[k].left) - 1
    BY <1>4, <2>4, SweepOneKeeps
  <2> QED BY <1>1, <2>1, <2>2, <2>3, <2>5
<1>5. Good(n)
  <2> HIDE DEF Good
  <2>1. 0 \in good /\ \A k \in 0..(n - 1) : k \in good => k + 1 \in good
    BY <1>1, <1>3, <1>4
  <2>2. good \in SUBSET (0..n)
    OBVIOUS
  <2>3. good = 0..n
    <3> HIDE DEF good
    <3> QED BY <1>1, <2>1, <2>2, Reaches
  <2> QED BY <1>1, <2>3
<1> DEFINE s == g[n]
<1>6. /\ s.left \in SUBSET G /\ s.done \in SUBSET AnyCourse(N) /\ s.current \in AnyCourse(N)
      /\ \A c \in s.done \cup {s.current}, d \in G : SameCourse(c, d) /\ c.weeks = d.weeks
      /\ Lessons(s.done \cup {s.current}) = Lessons(G \ s.left)
      /\ \A c \in s.done : c.end + 1 < s.current.start
      /\ \A c, d \in s.done : c # d => ~Touch(c, d)
  BY <1>5 DEF Swept
<1>7. s.left = {}
  <2>1. Cardinality(s.left) = 0
    BY <1>1, <1>5
  <2>2. IsFiniteSet(s.left)
    BY <1>6, FS_Subset
  <2> QED BY <2>1, <2>2, FS_EmptySet
<1> HIDE DEF s
<1>8. Sweep(G) = s.done \cup {s.current}
  BY <1>2 DEF s
<1>9. \A c \in s.done : ~Touch(c, s.current) /\ ~Touch(s.current, c)
  <2> TAKE c \in s.done
  <2>1. /\ c.start \in Nat /\ c.end \in Nat /\ c.start <= c.end
        /\ s.current.start \in Nat /\ s.current.end \in Nat /\ s.current.start <= s.current.end
        /\ c.end + 1 < s.current.start
    BY <1>6 DEF AnyCourse
  <2> QED BY <2>1 DEF Touch
<1>10. Merged(Sweep(G))
  BY <1>6, <1>8, <1>9 DEF Merged, Mergeable
<1>11. G \ s.left = G
  BY <1>7
<1> QED BY <1>6, <1>8, <1>10, <1>11

(* mergeUndergraduateCourses: all with the placement of a course give it   *)
(* their weeks; each group of one course and one set of weeks is swept.    *)
Whole(items, c) ==
    [c EXCEPT !.weeks = UNION {d.weeks : d \in {d \in items : SamePlacement(c, d)}}]

LEMMA WholesKeep ==
    ASSUME NEW N, NEW C \in CourseSets(N)
    PROVE  /\ {Whole(C, c) : c \in C} \in CourseSets(N)
           /\ Lessons({Whole(C, c) : c \in C}) = Lessons(C)
<1> DEFINE same(c) == {d \in C : SamePlacement(c, d)}
           W == {Whole(C, c) : c \in C}
<1>1. C \in SUBSET AnyCourse(N) /\ IsFiniteSet(C)
  BY DEF CourseSets
<1>2. ASSUME NEW c \in C
      PROVE  Whole(C, c) \in AnyCourse(N) /\ LessonsIn(Whole(C, c)) = Lessons(same(c))
  <2>1. same(c) \in SUBSET AnyCourse(N) /\ c \in same(c) /\ \A d \in same(c) : SamePlacement(c, d)
    BY <1>1, <1>2 DEF SamePlacement, SameCourse
  <2>2. c \in [name : N, weekday : Int, start : Nat, end : Nat, weeks : SUBSET Int]
    BY <1>1 DEF AnyCourse
  <2>3. UNION {d.weeks : d \in same(c)} = c.weeks \cup UNION {d.weeks : d \in same(c)}
    BY <2>1
  <2>4. Whole(C, c) = [c EXCEPT !.weeks = UNION {d.weeks : d \in same(c)}]
    BY DEF Whole
  <2> HIDE DEF same
  <2>5. Whole(C, c) = [c EXCEPT !.weeks = @ \cup UNION {d.weeks : d \in same(c)}]
    BY <2>2, <2>3, <2>4
  <2>6. Whole(C, c) \in AnyCourse(N)
        /\ LessonsIn(Whole(C, c)) = LessonsIn(c) \cup Lessons(same(c))
    BY <1>1, <2>1, <2>5, WholeLessons
  <2>7. LessonsIn(c) \subseteq Lessons(same(c))
    <3>1. same(c) \cup {c} = same(c)
      BY <2>1
    <3>2. Lessons(same(c) \cup {c}) = Lessons(same(c)) \cup LessonsIn(c)
      BY LessonsAdd, Zenon
    <3> QED BY <3>1, <3>2
  <2> QED BY <2>6, <2>7
<1>3. W \in CourseSets(N)
  <2>1. IsFiniteSet(W)
    <3> DEFINE f == [c \in C |-> Whole(C, c)]
    <3>1. W = {f[c] : c \in C}
      OBVIOUS
    <3>2. f \in [C -> AnyCourse(N)]
      BY <1>2
    <3>3. f \in Surjection(C, W)
      BY <3>1 DEF Surjection
    <3> HIDE DEF W, f
    <3> QED BY <1>1, <3>3, FS_Surjection
  <2> QED BY <1>2, <2>1 DEF CourseSets
<1>4. Lessons(W) = UNION {Lessons(same(c)) : c \in C}
  <2>1. Lessons(W) = UNION {LessonsIn(Whole(C, c)) : c \in C}
    BY DEF Lessons, LessonsIn
  <2> HIDE DEF W, same
  <2> QED BY <1>2, <2>1
<1>5. \A c \in C : c \in same(c) /\ same(c) \subseteq C
  BY DEF SamePlacement, SameCourse
<1>6. Lessons(C) = UNION {Lessons(same(c)) : c \in C}
  <2>1. Lessons(C) = UNION {LessonsIn(c) : c \in C}
        /\ \A c \in C : Lessons(same(c)) = UNION {LessonsIn(d) : d \in same(c)}
    BY DEF Lessons, LessonsIn
  <2> HIDE DEF same
  <2> QED BY <1>5, <2>1
<1> QED BY <1>3, <1>4, <1>6

LEMMA MergeUndergraduateKeeps ==
    ASSUME NEW N, NEW C \in CourseSets(N)
    PROVE  /\ Lessons(MergeUndergraduateCourses(C)) = Lessons(C)
           /\ Merged(MergeUndergraduateCourses(C))
<1> DEFINE W == {Whole(C, c) : c \in C}
           group(c) == {d \in W : SameCourse(c, d) /\ c.weeks = d.weeks}
           R == UNION {Sweep(group(c)) : c \in W}
<1>1. MergeUndergraduateCourses(C) = R
  BY Zenon DEF MergeUndergraduateCourses, Whole
<1>2. W \in CourseSets(N) /\ Lessons(W) = Lessons(C)
  BY WholesKeep
<1> HIDE DEF W
<1>3. W \in SUBSET AnyCourse(N) /\ IsFiniteSet(W)
  BY <1>2 DEF CourseSets
<1>4. ASSUME NEW c \in W
      PROVE  /\ c \in group(c)
             /\ group(c) \in SUBSET AnyCourse(N) /\ IsFiniteSet(group(c))
             /\ OneCourse(group(c))
  <2>1. c \in group(c) /\ group(c) \subseteq W
    BY DEF SameCourse
  <2>2. OneCourse(group(c))
    BY DEF OneCourse, SameCourse
  <2>3. IsFiniteSet(group(c))
    <3> HIDE DEF group
    <3> QED BY <1>3, <2>1, FS_Subset
  <2> QED BY <1>3, <2>1, <2>2, <2>3
<1>5. ASSUME NEW c \in W
      PROVE  /\ Lessons(Sweep(group(c))) = Lessons(group(c))
             /\ Merged(Sweep(group(c)))
             /\ \A x \in Sweep(group(c)) : SameCourse(x, c) /\ x.weeks = c.weeks
  <2> HIDE DEF group
  <2>1. group(c) # {}
    BY <1>4
  <2> QED BY <1>4, <2>1, SweepKeeps
<1>6. \A c, d \in W : SameCourse(c, d) /\ c.weeks = d.weeks => group(c) = group(d)
  BY DEF SameCourse
<1>7. ASSUME NEW x \in R, NEW y \in R PROVE ~Mergeable(x, y)
  <2> SUFFICES ASSUME Mergeable(x, y) PROVE FALSE
    OBVIOUS
  <2>1. PICK c \in W : x \in Sweep(group(c))
    OBVIOUS
  <2>2. PICK d \in W : y \in Sweep(group(d))
    OBVIOUS
  <2> HIDE DEF group
  <2>3. SameCourse(x, c) /\ x.weeks = c.weeks /\ SameCourse(y, d) /\ y.weeks = d.weeks
    BY <1>5, <2>1, <2>2
  <2>4. SameCourse(c, d) /\ c.weeks = d.weeks
    BY <2>3 DEF SameCourse, Mergeable
  <2>5. group(c) = group(d)
    BY <1>6, <2>4
  <2> QED BY <1>5, <2>1, <2>2, <2>5 DEF Merged
<1>8. Lessons(R) = UNION {Lessons(Sweep(group(c))) : c \in W}
  <2> HIDE DEF group
  <2> QED BY DEF Lessons
<1>9. Lessons(W) = UNION {Lessons(group(c)) : c \in W}
  <2>1. \A c \in W : c \in group(c) /\ group(c) \subseteq W
    BY <1>4
  <2> HIDE DEF group
  <2> QED BY <2>1 DEF Lessons
<1>10. Lessons(R) = Lessons(W)
  <2> HIDE DEF group, R
  <2> QED BY <1>5, <1>8, <1>9
<1> HIDE DEF R, group
<1> QED BY <1>1, <1>2, <1>7, <1>10 DEF Merged

(* A meeting as a course, and the weekday that an item's column tells.     *)
MeetingCourse(name, meeting) ==
    Course(name, meeting.weekday, SectionsIn(meeting)[1], SectionsIn(meeting)[2],
           WeeksIn(meeting))

LEMMA PlacedMeeting ==
    ASSUME NEW N, NEW name \in N, NEW m, m.weekday \in 1..7, m.from \in Nat \ {0}, m.to \in Nat
    PROVE  /\ Placed(MeetingCourse(name, m)) =>
                  /\ MeetingCourse(name, m) \in AnyCourse(N)
                  /\ LessonsIn(MeetingCourse(name, m)) = MeetingLessons(name, m, WeeksIn(m))
           /\ ~Placed(MeetingCourse(name, m)) => MeetingLessons(name, m, WeeksIn(m)) = {}
<1> DEFINE c == MeetingCourse(name, m)
<1>1. /\ c.weeks = WeeksIn(m) /\ c.weekday = m.weekday
      /\ c.start = SectionsIn(m)[1] /\ c.end = SectionsIn(m)[2]
  BY DEF MeetingCourse, Course
<1>2. WeeksIn(m) \in SUBSET Int
  BY WeeksAssumption DEF WeeksIn, WeeksOf
<1>3. CASE LastSection(m) >= m.from
  <2>1. SectionsIn(m) = <<m.from, LastSection(m)>>
    BY <1>3 DEF SectionsIn
  <2>2. c = Course(name, m.weekday, m.from, LastSection(m), WeeksIn(m))
    BY <2>1 DEF MeetingCourse
  <2>3. c \in AnyCourse(N) /\ LessonsIn(c) = MeetingLessons(name, m, WeeksIn(m))
    BY <1>2, <1>3, <2>2, MeetingIsCourse
  <2>4. ~Placed(c) => WeeksIn(m) = {}
    <3>1. c.start > 0 /\ c.weekday # 0
      BY <1>1, <2>1
    <3> QED BY <1>1, <3>1 DEF Placed
  <2>5. WeeksIn(m) = {} => MeetingLessons(name, m, WeeksIn(m)) = {}
    BY DEF MeetingLessons
  <2> QED BY <2>3, <2>4, <2>5
<1>4. CASE ~(LastSection(m) >= m.from)
  <2>1. SectionsIn(m) = <<0, 0>>
    BY <1>4 DEF SectionsIn
  <2>2. ~Placed(c)
    BY <1>1, <2>1 DEF Placed
  <2>3. MeetingLessons(name, m, WeeksIn(m)) = {}
    BY <1>2, <1>4, MeetingIsCourse
  <2> QED BY <2>2, <2>3
<1> QED BY <1>3, <1>4

LEMMA WeekdayAsFold ==
    ASSUME NEW cell
    PROVE  WeekdayInTable(cell) =
               IF cell.labelled
               THEN (CHOOSE f : f = [s \in SUBSET DOMAIN cell.before |->
                        IF s = {} THEN 1 ELSE f[s \ {Max(s)}] + cell.before[Max(s)]])
                    [DOMAIN cell.before]
               ELSE 0
BY Zenon DEF WeekdayInTable, FoldLeft, MapThenFoldSet

LEMMA WeekdayFolds ==
    ASSUME NEW n \in Nat, NEW cell,
           cell.labelled = TRUE, DOMAIN cell.before = 1..n, \A k \in 1..n : cell.before[k] = 1
    PROVE  \E g : /\ g[0] = 1
                  /\ \A k \in 1..n : g[k] = g[k - 1] + 1
                  /\ WeekdayInTable(cell) = g[n]
<1> DEFINE step == [p \in Int \X (1..n) |-> p[1] + 1]
           ones == cell.before
           Body(f) == f = [s \in SUBSET (1..n) |->
                              IF s = {} THEN 1 ELSE f[s \ {Max(s)}] + ones[Max(s)]]
           h == CHOOSE f : Body(f)
<1>1. step \in [Int \X (1..n) -> Int]
  OBVIOUS
<1>2. PICK it \in [SUBSET (1..n) -> Int] : FoldOn(it, n, 1, step)
  <2>1. 1 \in Int
    OBVIOUS
  <2> HIDE DEF step
  <2> QED BY <1>1, <2>1, FoldExists
<1>3. Body(it)
  <2>1. ASSUME NEW s \in SUBSET (1..n), s # {}
        PROVE  step[<<it[s \ {Max(s)}], Max(s)>>] = it[s \ {Max(s)}] + ones[Max(s)]
    <3>1. it[s \ {Max(s)}] \in Int /\ Max(s) \in 1..n
      BY <2>1, MaxOfSome
    <3> QED BY <3>1
  <2> HIDE DEF step, ones
  <2> QED BY <1>2, <2>1 DEF FoldOn
<1>4. Body(h)
  <2> HIDE DEF Body
  <2> QED BY <1>3
<1>5. WeekdayInTable(cell) = h[1..n]
  <2>1. DOMAIN ones = 1..n
    OBVIOUS
  <2>2. WeekdayInTable(cell) =
            (CHOOSE f : f = [s \in SUBSET DOMAIN ones |->
                IF s = {} THEN 1 ELSE f[s \ {Max(s)}] + ones[Max(s)]])
            [DOMAIN ones]
    BY WeekdayAsFold, Zenon
  <2> QED BY <2>1, <2>2, Zenon
<1> HIDE DEF h
<1>6. h[1..0] = 1
  <2>1. 1..0 = {} /\ {} \in SUBSET (1..n)
    OBVIOUS
  <2> QED BY <1>4, <2>1
<1>7. ASSUME NEW k \in 1..n PROVE h[1..k] = h[1..(k - 1)] + 1
  <2>1. 1..k # {} /\ Max(1..k) = k /\ (1..k) \ {Max(1..k)} = 1..(k - 1) /\ 1..k \in SUBSET (1..n)
    BY FirstOf
  <2>2. h[1..k] = IF 1..k = {} THEN 1 ELSE h[(1..k) \ {Max(1..k)}] + ones[Max(1..k)]
    BY <1>4, <2>1, Zenon
  <2>3. ones[k] = 1
    OBVIOUS
  <2> QED BY <2>1, <2>2, <2>3, Zenon
<1> DEFINE g == [k \in 0..n |-> h[1..k]]
<1>8. g[0] = 1 /\ WeekdayInTable(cell) = g[n] /\ \A k \in 1..n : g[k] = g[k - 1] + 1
  BY <1>5, <1>6, <1>7
<1> QED BY <1>8

LEMMA WeekdayIs ==
    ASSUME NEW n \in Nat, NEW cell,
           cell.labelled = TRUE, DOMAIN cell.before = 1..n, \A k \in 1..n : cell.before[k] = 1
    PROVE  WeekdayInTable(cell) = n + 1
<1>1. PICK g : /\ g[0] = 1
               /\ \A k \in 1..n : g[k] = g[k - 1] + 1
               /\ WeekdayInTable(cell) = g[n]
  BY WeekdayFolds
<1> DEFINE good == {k \in 0..n : g[k] = k + 1}
<1>2. 0 \in good
  BY <1>1
<1>3. ASSUME NEW k \in 0..(n - 1), k \in good PROVE k + 1 \in good
  <2>1. k + 1 \in 1..n /\ k + 1 \in 0..n /\ (k + 1) - 1 = k
    OBVIOUS
  <2>2. g[k + 1] = g[k] + 1
    BY <1>1, <2>1
  <2> QED BY <1>3, <2>1, <2>2
<1>4. good = 0..n
  <2>1. good \in SUBSET (0..n)
    OBVIOUS
  <2> HIDE DEF good
  <2> QED BY <1>2, <1>3, <2>1, Reaches
<1>5. n \in 0..n
  OBVIOUS
<1> QED BY <1>1, <1>4, <1>5

(* Meetings, each with a name, as the courses that an undergraduate's page *)
(* is read as: what has no lessons is left out, and the rest merged.       *)
LEMMA MeetingsKeep ==
    ASSUME NEW M, IsFiniteSet(M),
           \A p \in M : /\ p[2].weekday \in 1..7
                        /\ p[2].from \in Nat \ {0} /\ p[2].to \in Nat,
           NEW C, C = {c \in {MeetingCourse(p[1], p[2]) : p \in M} : Placed(c)}
    PROVE  /\ Lessons(MergeUndergraduateCourses(C)) =
                  UNION {MeetingLessons(p[1], p[2], WeeksIn(p[2])) : p \in M}
           /\ Merged(MergeUndergraduateCourses(C))
<1> DEFINE N == {p[1] : p \in M}
           all == {MeetingCourse(p[1], p[2]) : p \in M}
           lessons(p) == MeetingLessons(p[1], p[2], WeeksIn(p[2]))
<1>1. ASSUME NEW p \in M
      PROVE  LET c == MeetingCourse(p[1], p[2])
             IN  /\ Placed(c) => c \in AnyCourse(N) /\ LessonsIn(c) = lessons(p)
                 /\ ~Placed(c) => lessons(p) = {}
  <2>1. p[1] \in N
    OBVIOUS
  <2> HIDE DEF N
  <2> QED BY <2>1, PlacedMeeting
<1>2. IsFiniteSet(all)
  <2> DEFINE f == [p \in M |-> MeetingCourse(p[1], p[2])]
  <2>1. f \in Surjection(M, all)
    BY DEF Surjection
  <2> HIDE DEF f, all
  <2> QED BY <2>1, FS_Surjection
<1>3. C \in CourseSets(N)
  <2>1. IsFiniteSet(C)
    <3>1. C \in SUBSET all
      OBVIOUS
    <3> HIDE DEF all
    <3> QED BY <1>2, <3>1, FS_Subset
  <2>2. C \in SUBSET AnyCourse(N)
    <3> HIDE DEF N
    <3> QED BY <1>1
  <2> QED BY <2>1, <2>2 DEF CourseSets
<1>4. Lessons(C) = UNION {lessons(p) : p \in M}
  <2>1. Lessons(C) = UNION {LessonsIn(c) : c \in C}
    BY DEF Lessons, LessonsIn
  <2> HIDE DEF lessons, N
  <2>2. UNION {LessonsIn(c) : c \in C} \subseteq UNION {lessons(p) : p \in M}
    BY <1>1
  <2>3. ASSUME NEW p \in M, NEW x \in lessons(p) PROVE x \in UNION {LessonsIn(c) : c \in C}
    <3>1. /\ Placed(MeetingCourse(p[1], p[2]))
          /\ LessonsIn(MeetingCourse(p[1], p[2])) = lessons(p)
      BY <1>1, <2>3
    <3>2. MeetingCourse(p[1], p[2]) \in C
      BY <3>1
    <3> QED BY <2>3, <3>1, <3>2
  <2> QED BY <2>1, <2>2, <2>3
<1> HIDE DEF N
<1> QED BY <1>3, <1>4, MergeUndergraduateKeeps

(* parseUndergraduateScheduleFields and weekdayFromTable, of an item that  *)
(* says its meeting in some form: the course is the meeting's.             *)
LEMMA TextSays ==
    ASSUME NEW text, NEW m
    PROVE  /\ text.tokens = m.tokens => WeeksIn(text) = WeeksIn(m)
           /\ text.tokens = {} => WeeksIn(text) = {}
           /\ text.from = m.from /\ text.to = m.to => SectionsIn(text) = SectionsIn(m)
           /\ text.from = 0 => SectionsIn(text) = <<0, 0>>
BY DEF WeeksIn, WeeksOf, SectionsIn, LastSection

ItemCourse(item) ==
    LET fields == ScheduleFields(item)
    IN  Course(item.name, WeekdayOf(item), fields.sections[1], fields.sections[2], fields.weeks)

LEMMA ItemSays ==
    ASSUME NEW i \in AnyItem
    PROVE  ItemCourse(ItemOf(i.name, i.meeting, i.form)) = MeetingCourse(i.name, i.meeting)
<1> DEFINE m == i.meeting
           item == ItemOf(i.name, m, i.form)
<1>1. /\ m.weekday \in 1..7 /\ m.from \in Nat \ {0} /\ m.to \in Nat
      /\ i.form \in {"current", "listed", "mixed", "legacy"}
  BY DEF AnyItem, AnyMeeting
<1>2. item.name = i.name
  BY <1>1 DEF ItemOf
<1>3. \/ item.weeks.tokens = m.tokens /\ item.legacy.tokens = {}
      \/ item.weeks.tokens = {} /\ item.legacy.tokens = m.tokens
  BY <1>1 DEF ItemOf, Text, NoText
<1>4. \/ item.sections.from = m.from /\ item.sections.to = m.to /\ item.legacy.from = 0
      \/ item.sections.from = 0 /\ item.legacy.from = m.from /\ item.legacy.to = m.to
  BY <1>1 DEF ItemOf, Text, NoText
<1>5. \/ item.weeks.weekday = m.weekday
      \/ item.weeks.weekday = 0 /\ item.legacy.weekday = m.weekday
      \/ /\ item.weeks.weekday = 0 /\ item.legacy.weekday = 0
         /\ item.cell.labelled = TRUE
         /\ item.cell.before = [d \in 1 .. (m.weekday - 1) |-> 1]
  BY <1>1 DEF ItemOf, Text, NoText
<1> HIDE DEF item, m
<1>6. ScheduleFields(item).weeks = WeeksIn(m)
  BY <1>3, TextSays DEF ScheduleFields
<1>7. ScheduleFields(item).sections = SectionsIn(m)
  BY <1>4, TextSays DEF ScheduleFields
<1>8. WeekdayOf(item) = m.weekday
  <2>1. CASE /\ item.weeks.weekday = 0 /\ item.legacy.weekday = 0
             /\ item.cell.labelled = TRUE
             /\ item.cell.before = [d \in 1 .. (m.weekday - 1) |-> 1]
    <3>1. m.weekday - 1 \in Nat /\ (m.weekday - 1) + 1 = m.weekday
      BY <1>1
    <3>2. /\ DOMAIN item.cell.before = 1 .. (m.weekday - 1)
          /\ \A k \in 1 .. (m.weekday - 1) : item.cell.before[k] = 1
      BY <2>1
    <3>3. WeekdayInTable(item.cell) = (m.weekday - 1) + 1
      BY <2>1, <3>1, <3>2, WeekdayIs
    <3> QED BY <2>1, <3>1, <3>3 DEF WeekdayOf
  <2>2. m.weekday # 0
    BY <1>1
  <2>3. CASE item.weeks.weekday = m.weekday
    BY <2>2, <2>3, Zenon DEF WeekdayOf
  <2>4. CASE item.weeks.weekday = 0 /\ item.legacy.weekday = m.weekday
    BY <2>2, <2>4, Zenon DEF WeekdayOf
  <2> QED BY <1>5, <2>1, <2>3, <2>4, Zenon
<1> QED BY <1>2, <1>6, <1>7, <1>8 DEF ItemCourse, MeetingCourse, item, m

(* parseUndergraduateCourses: the courses have the lessons of the items,   *)
(* whatever form each is in, and none can still be merged.                 *)
LEMMA ItemsAreKept ==
    ASSUME NEW shown \in SUBSET AnyItem, IsFiniteSet(shown)
    PROVE  LET items == {ItemOf(i.name, i.meeting, i.form) : i \in shown}
           IN  /\ Lessons(ParseUndergraduateCourses(items)) = ItemLessons(shown)
               /\ Merged(ParseUndergraduateCourses(items))
<1> DEFINE items == {ItemOf(i.name, i.meeting, i.form) : i \in shown}
           M == {<<i.name, i.meeting>> : i \in shown}
           C == {c \in {MeetingCourse(p[1], p[2]) : p \in M} : Placed(c)}
<1>0. /\ \A p \in M : \E i \in shown : p[1] = i.name /\ p[2] = i.meeting
      /\ \A i \in shown : \E p \in M : p[1] = i.name /\ p[2] = i.meeting
  <2>1. ASSUME NEW i \in shown PROVE \E p \in M : p[1] = i.name /\ p[2] = i.meeting
    <3> WITNESS <<i.name, i.meeting>> \in M
    <3> QED OBVIOUS
  <2> QED BY <2>1
<1>1. ParseUndergraduateCourses(items) = MergeUndergraduateCourses(C)
  <2>1. ParseUndergraduateCourses(items) =
            MergeUndergraduateCourses({c \in {ItemCourse(x) : x \in items} : Placed(c)})
    BY Zenon DEF ParseUndergraduateCourses, ItemCourse
  <2>2. {ItemCourse(x) : x \in items} =
            {ItemCourse(ItemOf(i.name, i.meeting, i.form)) : i \in shown}
    OBVIOUS
  <2>3. \A i \in shown :
            ItemCourse(ItemOf(i.name, i.meeting, i.form)) = MeetingCourse(i.name, i.meeting)
    BY ItemSays
  <2>4. {MeetingCourse(p[1], p[2]) : p \in M} = {MeetingCourse(i.name, i.meeting) : i \in shown}
    <3> HIDE DEF M
    <3> QED BY <1>0
  <2>5. {ItemCourse(x) : x \in items} = {MeetingCourse(p[1], p[2]) : p \in M}
    BY <2>2, <2>3, <2>4
  <2> HIDE DEF M, items
  <2> QED BY <2>1, <2>5
<1>2. IsFiniteSet(M)
  <2> DEFINE f == [i \in shown |-> <<i.name, i.meeting>>]
  <2>1. f \in Surjection(shown, M)
    BY DEF Surjection
  <2> HIDE DEF f, M
  <2> QED BY <2>1, FS_Surjection
<1>3. \A p \in M : p[2].weekday \in 1..7 /\ p[2].from \in Nat \ {0} /\ p[2].to \in Nat
  BY DEF AnyItem, AnyMeeting
<1>4. UNION {MeetingLessons(p[1], p[2], WeeksIn(p[2])) : p \in M} = ItemLessons(shown)
  <2> HIDE DEF M
  <2> QED BY <1>0 DEF ItemLessons
<1> HIDE DEF M, items
<1>5. /\ Lessons(MergeUndergraduateCourses(C)) =
             UNION {MeetingLessons(p[1], p[2], WeeksIn(p[2])) : p \in M}
      /\ Merged(MergeUndergraduateCourses(C))
  BY <1>2, <1>3, MeetingsKeep
<1> HIDE DEF C
<1> QED BY <1>1, <1>4, <1>5 DEF items

(* parseUndergraduateCourseSelectionSchedule: the courses have the lessons *)
(* of the meetings of the named rows, each at its location.                *)
SelectedMeetings(row) ==
    IF row.name = "" THEN {}
    ELSE {<<<<row.name, LocationOf(SplitCell(row.locations), i)>>, row.meetings[i]>> :
             i \in DOMAIN row.meetings}

LEMMA SelectedRow ==
    ASSUME NEW row \in AnySelectedRow
    PROVE  /\ IsFiniteSet(SelectedMeetings(row))
           /\ \A p \in SelectedMeetings(row) :
                 p[2].weekday \in 1..7 /\ p[2].from \in Nat \ {0} /\ p[2].to \in Nat
<1> DEFINE n == Len(row.meetings)
           pair(i) == <<<<row.name, LocationOf(SplitCell(row.locations), i)>>, row.meetings[i]>>
           all == {pair(i) : i \in 1..n}
           f == [i \in 1..n |-> pair(i)]
<1>1. /\ n \in Nat /\ DOMAIN row.meetings = 1..n
      /\ \A i \in 1..n : row.meetings[i] \in AnyMeeting
  BY DEF AnySelectedRow
<1>2. IsFiniteSet(all)
  <2>1. f \in Surjection(1..n, all)
    BY DEF Surjection
  <2>2. IsFiniteSet(1..n)
    BY <1>1, FS_Interval
  <2> HIDE DEF f, all, n
  <2> QED BY <2>1, <2>2, FS_Surjection
<1>3. SelectedMeetings(row) = IF row.name = "" THEN {} ELSE all
  BY <1>1, Zenon DEF SelectedMeetings
<1>4. \A p \in all : p[2].weekday \in 1..7 /\ p[2].from \in Nat \ {0} /\ p[2].to \in Nat
  <2> SUFFICES ASSUME NEW i \in 1..n
               PROVE  LET p == pair(i)
                      IN  p[2].weekday \in 1..7 /\ p[2].from \in Nat \ {0} /\ p[2].to \in Nat
    OBVIOUS
  <2>1. pair(i)[2] = row.meetings[i]
    OBVIOUS
  <2> HIDE DEF pair
  <2> QED BY <1>1, <2>1 DEF AnyMeeting
<1> HIDE DEF all
<1>5. SelectedMeetings(row) = {} \/ SelectedMeetings(row) = all
  BY <1>3
<1> QED BY <1>2, <1>4, <1>5, FS_EmptySet

LEMMA SelectionIsKept ==
    ASSUME NEW rows \in Seq(AnySelectedRow)
    PROVE  /\ Lessons(ParseSelectionSchedule(rows)) = SelectionLessons(rows)
           /\ Merged(ParseSelectionSchedule(rows))
<1> DEFINE R == ToSet(rows)
           M == UNION {SelectedMeetings(r) : r \in R}
           C == {c \in {MeetingCourse(p[1], p[2]) : p \in M} : Placed(c)}
           name(r, i) == <<r.name, LocationOf(SplitCell(r.locations), i)>>
           courses(r) == IF r.name = "" THEN {}
                         ELSE {MeetingCourse(name(r, i), r.meetings[i]) : i \in DOMAIN r.meetings}
           lessons(r) == UNION {MeetingLessons(name(r, i), r.meetings[i], WeeksIn(r.meetings[i])) :
                                   i \in DOMAIN r.meetings}
<1>1. R \in SUBSET AnySelectedRow /\ IsFiniteSet(R)
  <2>1. /\ Len(rows) \in Nat /\ DOMAIN rows = 1..Len(rows)
        /\ \A i \in 1..Len(rows) : rows[i] \in AnySelectedRow
    OBVIOUS
  <2>2. IsFiniteSet(DOMAIN rows)
    BY <2>1, FS_Interval
  <2>3. rows \in Surjection(DOMAIN rows, R)
    BY DEF ToSet, Surjection
  <2>4. IsFiniteSet(R)
    <3> HIDE DEF R
    <3> QED BY <2>2, <2>3, FS_Surjection
  <2> QED BY <2>1, <2>4 DEF ToSet
<1> HIDE DEF R
<1>2. IsFiniteSet(M)
  <2> DEFINE U == {SelectedMeetings(r) : r \in R}
             f == [r \in R |-> SelectedMeetings(r)]
  <2>1. f \in Surjection(R, U)
    BY DEF Surjection
  <2>2. IsFiniteSet(U)
    <3> HIDE DEF f, U
    <3> QED BY <1>1, <2>1, FS_Surjection
  <2>3. \A T \in U : IsFiniteSet(T)
    BY <1>1, SelectedRow
  <2>4. M = UNION U
    OBVIOUS
  <2> HIDE DEF U, M
  <2>5. IsFiniteSet(UNION U)
    BY <2>2, <2>3, FS_UNION
  <2> QED BY <2>4, <2>5
<1>3. \A p \in M : p[2].weekday \in 1..7 /\ p[2].from \in Nat \ {0} /\ p[2].to \in Nat
  BY <1>1, SelectedRow
<1>4. ParseSelectionSchedule(rows) = MergeUndergraduateCourses(C)
  <2>1. ParseSelectionSchedule(rows) =
            MergeUndergraduateCourses({c \in UNION {courses(r) : r \in R} : Placed(c)})
    BY Zenon DEF ParseSelectionSchedule, MeetingCourse, R
  <2>2. ASSUME NEW r
        PROVE  courses(r) = {MeetingCourse(p[1], p[2]) : p \in SelectedMeetings(r)}
    <3>1. CASE r.name = ""
      BY <3>1 DEF SelectedMeetings
    <3>2. CASE r.name # ""
      <4>1. SelectedMeetings(r) = {<<name(r, i), r.meetings[i]>> : i \in DOMAIN r.meetings}
        BY <3>2, Zenon DEF SelectedMeetings
      <4>2. courses(r) = {MeetingCourse(name(r, i), r.meetings[i]) : i \in DOMAIN r.meetings}
        BY <3>2
      <4> HIDE DEF name, courses
      <4> DEFINE pair(i) == <<name(r, i), r.meetings[i]>>
      <4>3. \A i \in DOMAIN r.meetings :
               pair(i)[1] = name(r, i) /\ pair(i)[2] = r.meetings[i]
        OBVIOUS
      <4>4. SelectedMeetings(r) = {pair(i) : i \in DOMAIN r.meetings}
        BY <4>1
      <4> HIDE DEF pair
      <4> QED BY <4>2, <4>3, <4>4
    <3> QED BY <3>1, <3>2
  <2> HIDE DEF courses, name
  <2>3. UNION {courses(r) : r \in R} = {MeetingCourse(p[1], p[2]) : p \in M}
    BY <2>2
  <2> HIDE DEF M
  <2> QED BY <2>1, <2>3
<1>5. UNION {MeetingLessons(p[1], p[2], WeeksIn(p[2])) : p \in M} = SelectionLessons(rows)
  <2> DEFINE taught(p) == MeetingLessons(p[1], p[2], WeeksIn(p[2]))
  <2>1. SelectionLessons(rows) = UNION {lessons(r) : r \in {q \in R : q.name # ""}}
    BY Zenon DEF SelectionLessons, R
  <2>2. ASSUME NEW r
        PROVE  UNION {taught(p) : p \in SelectedMeetings(r)} =
                   IF r.name # "" THEN lessons(r) ELSE {}
    <3>1. CASE r.name = ""
      BY <3>1 DEF SelectedMeetings
    <3>2. CASE r.name # ""
      <4> DEFINE pair(i) == <<name(r, i), r.meetings[i]>>
      <4>1. SelectedMeetings(r) = {pair(i) : i \in DOMAIN r.meetings}
        BY <3>2, Zenon DEF SelectedMeetings
      <4>2. ASSUME NEW i \in DOMAIN r.meetings
            PROVE  taught(pair(i)) =
                       MeetingLessons(name(r, i), r.meetings[i], WeeksIn(r.meetings[i]))
        <5>1. pair(i)[1] = name(r, i) /\ pair(i)[2] = r.meetings[i]
          OBVIOUS
        <5> HIDE DEF pair, name
        <5> QED BY <5>1
      <4> DEFINE met(i) == MeetingLessons(name(r, i), r.meetings[i], WeeksIn(r.meetings[i]))
      <4>3. lessons(r) = UNION {met(i) : i \in DOMAIN r.meetings}
        OBVIOUS
      <4> HIDE DEF pair, name, taught, met, lessons
      <4>4. UNION {taught(p) : p \in {pair(i) : i \in DOMAIN r.meetings}} =
                UNION {met(i) : i \in DOMAIN r.meetings}
        BY <4>2 DEF met
      <4> QED BY <3>2, <4>1, <4>3, <4>4
    <3> QED BY <3>1, <3>2
  <2> HIDE DEF taught, lessons
  <2>3. UNION {taught(p) : p \in M} = UNION {UNION {taught(p) : p \in SelectedMeetings(r)} : r \in R}
    OBVIOUS
  <2>4. UNION {taught(p) : p \in M} = UNION {lessons(r) : r \in {q \in R : q.name # ""}}
    <3>1. UNION {taught(p) : p \in M} =
              UNION {IF r.name # "" THEN lessons(r) ELSE {} : r \in R}
      <4> DEFINE met(r) == UNION {taught(p) : p \in SelectedMeetings(r)}
                 kept(r) == IF r.name # "" THEN lessons(r) ELSE {}
      <4>1. \A r \in R : met(r) = kept(r)
        BY <2>2, Zenon
      <4>2. UNION {taught(p) : p \in M} = UNION {met(r) : r \in R}
        BY <2>3, Zenon
      <4> HIDE DEF M, R, met, kept
      <4>3. {met(r) : r \in R} = {kept(r) : r \in R}
        BY <4>1
      <4>4. UNION {taught(p) : p \in M} = UNION {kept(r) : r \in R}
        BY <4>2, <4>3, Zenon
      <4> QED BY <4>4, Zenon DEF kept
    <3>2. UNION {IF r.name # "" THEN lessons(r) ELSE {} : r \in R} =
              UNION {lessons(r) : r \in {q \in R : q.name # ""}}
      OBVIOUS
    <3> HIDE DEF M
    <3> QED BY <3>1, <3>2
  <2> HIDE DEF M
  <2> QED BY <2>1, <2>4 DEF taught
<1> HIDE DEF M
<1>6. /\ Lessons(MergeUndergraduateCourses(C)) =
             UNION {MeetingLessons(p[1], p[2], WeeksIn(p[2])) : p \in M}
      /\ Merged(MergeUndergraduateCourses(C))
  BY <1>2, <1>3, MeetingsKeep
<1> HIDE DEF C
<1> QED BY <1>4, <1>5, <1>6

-----------------------------------------------------------------------------
(* The table of a graduate's week.  Its two folds, over the cells of a row *)
(* and over the rows, take whatever they find: they go through any table.  *)

TableStep(fold, done, i) ==
    IF fold.of = "cells" THEN PlaceCell(done, fold.list[i], fold.spans)
    ELSE ReadRow(done, fold.list[i], i)
TableNext(fold, base, it, s) ==
    IF s = {} THEN base ELSE TableStep(fold, it[s \ {Max(s)}], Max(s))

TableFold(n, fold, base, h) ==
    \A s \in SUBSET (1..n) : h[s] = TableNext(fold, base, h, s)
TableSteps(n, fold, base, h, g) ==
    /\ g[0] = base
    /\ \A k \in 1..n : g[k] = TableStep(fold, g[k - 1], k)
    /\ h[1..n] = g[n]

LEMMA TableFoldExists ==
    ASSUME NEW n \in Nat, NEW fold, NEW base
    PROVE  \E it : it = [s \in SUBSET (1..n) |-> TableNext(fold, base, it, s)]
<1> DEFINE Nxt(it, s) == TableNext(fold, base, it, s)
           Upto(k) == \E it : it = [s \in SUBSET (1..k) |-> Nxt(it, s)]
<1>1. Upto(0)
  <2> DEFINE it == [s \in SUBSET (1..0) |-> base]
  <2>1. \A s \in SUBSET (1..0) : s = {}
    OBVIOUS
  <2>2. \A s \in SUBSET (1..0) : Nxt(it, s) = base
    BY <2>1, Zenon DEF TableNext
  <2> HIDE DEF Nxt
  <2>3. it = [s \in SUBSET (1..0) |-> Nxt(it, s)]
    BY <2>2
  <2> QED BY <2>3
<1>2. ASSUME NEW k \in 0..(n - 1), Upto(k) PROVE Upto(k + 1)
  <2>1. PICK it : it = [s \in SUBSET (1..k) |-> Nxt(it, s)]
    BY <1>2
  <2>2. k \in Nat /\ k + 1 \in Nat /\ k + 1 \in 1..(k + 1)
    OBVIOUS
  <2>3. \A s \in SUBSET (1..k) : it[s] = Nxt(it, s)
    <3> HIDE DEF Nxt
    <3> QED BY <2>1, Zenon
  <2> DEFINE next == [s \in SUBSET (1..(k + 1)) |->
                         IF k + 1 \in s THEN TableStep(fold, it[s \ {k + 1}], k + 1) ELSE it[s]]
  <2>4. ASSUME NEW s \in SUBSET (1..(k + 1))
        PROVE  /\ s \ {k + 1} \in SUBSET (1..k)
               /\ k + 1 \notin s => s \in SUBSET (1..k)
               /\ k + 1 \in s => Max(s) = k + 1
    <3>1. k + 1 \in s => Max(s) = k + 1
      <4>1. s # {} => /\ Max(s) \in 1..(k + 1) /\ \A i \in s : i <= Max(s)
        BY <2>2, MaxOfSome
      <4> QED BY <4>1, <2>2
    <3>2. \A i \in 1..(k + 1) : i # k + 1 => i \in 1..k
      BY <2>2
    <3> QED BY <3>1, <3>2
  <2>5. ASSUME NEW s \in SUBSET (1..(k + 1)) PROVE next[s] = Nxt(next, s)
    <3>1. CASE k + 1 \in s
      <4>1. Max(s) = k + 1 /\ s # {} /\ k + 1 \notin s \ {k + 1}
            /\ s \ {k + 1} \in SUBSET (1..(k + 1))
        BY <3>1, <2>4
      <4>2. next[s \ {k + 1}] = it[s \ {k + 1}]
        BY <4>1, Zenon
      <4>3. next[s] = TableStep(fold, it[s \ {k + 1}], k + 1)
        BY <3>1, Zenon
      <4> HIDE DEF next
      <4> QED BY <4>1, <4>2, <4>3, Zenon DEF TableNext
    <3>2. CASE k + 1 \notin s
      <4>1. s \in SUBSET (1..k) /\ next[s] = it[s]
        BY <3>2, <2>4, Zenon
      <4>2. CASE s = {}
        BY <4>1, <4>2, <2>3, Zenon DEF TableNext
      <4>3. CASE s # {}
        <5>1. k + 1 \notin s \ {Max(s)} /\ s \ {Max(s)} \in SUBSET (1..(k + 1))
          BY <3>2
        <5>2. next[s \ {Max(s)}] = it[s \ {Max(s)}]
          BY <5>1, Zenon
        <5>3. it[s] = TableStep(fold, it[s \ {Max(s)}], Max(s))
          BY <2>3, <4>1, <4>3, Zenon DEF TableNext
        <5> HIDE DEF next
        <5> QED BY <4>1, <4>3, <5>2, <5>3, Zenon DEF TableNext
      <4> QED BY <4>2, <4>3
    <3> QED BY <3>1, <3>2
  <2> HIDE DEF Nxt
  <2>6. next = [s \in SUBSET (1..(k + 1)) |-> next[s]]
    OBVIOUS
  <2> HIDE DEF next
  <2>7. [s \in SUBSET (1..(k + 1)) |-> next[s]] = [s \in SUBSET (1..(k + 1)) |-> Nxt(next, s)]
    BY <2>5
  <2>8. next = [s \in SUBSET (1..(k + 1)) |-> Nxt(next, s)]
    BY <2>6, <2>7, Zenon
  <2> QED BY <2>8, Zenon
<1> DEFINE reached == {k \in 0..n : Upto(k)}
<1> HIDE DEF Upto
<1>3. reached = 0..n
  <2>1. 0 \in reached /\ \A k \in 0..(n - 1) : k \in reached => k + 1 \in reached
    BY <1>1, <1>2
  <2>2. reached \in SUBSET (0..n)
    OBVIOUS
  <2> HIDE DEF reached
  <2> QED BY <2>1, <2>2, Reaches
<1>4. Upto(n)
  BY <1>3
<1> QED BY <1>4, Zenon DEF Upto

(* Its equation at each of 1..k, whatever function on the subsets it is.   *)
LEMMA TableFoldSteps ==
    ASSUME NEW n \in Nat, NEW fold, NEW base, NEW h, TableFold(n, fold, base, h)
    PROVE  \E g : TableSteps(n, fold, base, h, g)
<1> DEFINE g == [k \in 0..n |-> h[1..k]]
<1>1. h[1..0] = base
  <2>1. 1..0 = {} /\ {} \in SUBSET (1..n)
    OBVIOUS
  <2> QED BY <2>1, Zenon DEF TableNext, TableFold
<1>2. ASSUME NEW k \in 1..n PROVE h[1..k] = TableStep(fold, h[1..(k - 1)], k)
  <2>1. 1..k # {} /\ Max(1..k) = k /\ (1..k) \ {Max(1..k)} = 1..(k - 1) /\ 1..k \in SUBSET (1..n)
    BY FirstOf
  <2>2. h[1..k] = TableStep(fold, h[(1..k) \ {Max(1..k)}], Max(1..k))
    BY <2>1, Zenon DEF TableNext, TableFold
  <2> QED BY <2>1, <2>2, Zenon
<1>3. g[0] = h[1..0] /\ g[n] = h[1..n]
      /\ \A k \in 1..n : g[k] = h[1..k] /\ g[k - 1] = h[1..(k - 1)]
  BY BoundsWithin, Zenon
<1> HIDE DEF g
<1>4. TableSteps(n, fold, base, h, g)
  BY <1>1, <1>2, <1>3, Zenon DEF TableSteps
<1> QED BY <1>4, Zenon

RowSteps(n, row, spans, g) ==
    /\ g[0] = [placed |-> <<>>, column |-> 0, covers |-> NoSpans]
    /\ \A k \in 1..n : g[k] = PlaceCell(g[k - 1], row[k], spans)
    /\ RowPlacements(row, spans) = g[n]

LEMMA RowFolds ==
    ASSUME NEW n \in Nat, NEW row, DOMAIN row = 1..n, NEW spans
    PROVE  \E g : RowSteps(n, row, spans, g)
<1> DEFINE fold == [of |-> "cells", list |-> row, spans |-> spans]
           base == [placed |-> <<>>, column |-> 0, covers |-> NoSpans]
           Read(f, s) == IF s = {} THEN base
                         ELSE PlaceCell(f[s \ {Max(s)}], row[Max(s)], spans)
           Body(f) == f = [s \in SUBSET DOMAIN row |-> Read(f, s)]
           h == CHOOSE f : Body(f)
<1>1. \A done, i : TableStep(fold, done, i) = PlaceCell(done, row[i], spans)
  BY DEF TableStep
<1>2. RowPlacements(row, spans) = h[DOMAIN row]
  BY Zenon DEF RowPlacements, FoldLeft, MapThenFoldSet
<1> HIDE DEF base, fold
<1>3. \A f, s : Read(f, s) = TableNext(fold, base, f, s)
  BY <1>1, Zenon DEF TableNext
<1> HIDE DEF Read
<1>4. \E it : Body(it)
  <2>1. PICK it : it = [s \in SUBSET (1..n) |-> TableNext(fold, base, it, s)]
    BY TableFoldExists
  <2>2. [s \in SUBSET (1..n) |-> TableNext(fold, base, it, s)] =
            [s \in SUBSET DOMAIN row |-> Read(it, s)]
    BY <1>3
  <2>3. Body(it)
    BY <2>1, <2>2, Zenon
  <2> QED BY <2>3, Zenon
<1>5. Body(h)
  <2> HIDE DEF Body
  <2> QED BY <1>4
<1> HIDE DEF h
<1>6. TableFold(n, fold, base, h)
  <2>1. \A s \in SUBSET (1..n) : h[s] = Read(h, s)
    BY <1>5, Zenon
  <2> QED BY <1>3, <2>1, Zenon DEF TableFold
<1>7. PICK g : TableSteps(n, fold, base, h, g)
  BY <1>6, TableFoldSteps
<1>8. \A k \in 1..n : g[k] = PlaceCell(g[k - 1], row[k], spans)
  BY <1>1, <1>7, Zenon DEF TableSteps
<1> QED BY <1>2, <1>7, <1>8, Zenon DEF base, TableSteps, RowSteps

WeekSteps(n, table, g) ==
    /\ g[0] = [spans |-> NoSpans, courses |-> {}]
    /\ \A k \in 1..n : g[k] = ReadRow(g[k - 1], table[k], k)
    /\ ParseGraduateCourses(table) = g[n].courses

LEMMA WeekFolds ==
    ASSUME NEW n \in Nat, NEW table, DOMAIN table = 1..n
    PROVE  \E g : WeekSteps(n, table, g)
<1> DEFINE fold == [of |-> "rows", list |-> table]
           base == [spans |-> NoSpans, courses |-> {}]
           numbers == [number \in DOMAIN table |-> number]
           Read(f, s) == IF s = {} THEN base
                         ELSE ReadRow(f[s \ {Max(s)}], table[numbers[Max(s)]], numbers[Max(s)])
           Body(f) == f = [s \in SUBSET DOMAIN numbers |-> Read(f, s)]
           h == CHOOSE f : Body(f)
<1>1. \A done, i : TableStep(fold, done, i) = ReadRow(done, table[i], i)
  BY DEF TableStep
<1>2. ParseGraduateCourses(table) = h[DOMAIN numbers].courses
  BY Zenon DEF ParseGraduateCourses, FoldLeft, MapThenFoldSet
<1>3. DOMAIN numbers = 1..n /\ \A i \in 1..n : numbers[i] = i
  OBVIOUS
<1> HIDE DEF base, fold, numbers
<1>4. \A f : \A s \in SUBSET (1..n) : Read(f, s) = TableNext(fold, base, f, s)
  <2>1. \A s \in SUBSET (1..n) : s # {} => numbers[Max(s)] = Max(s)
    BY <1>3, MaxOfSome
  <2>2. ASSUME NEW f, NEW s \in SUBSET (1..n), s # {}
        PROVE  Read(f, s) = TableNext(fold, base, f, s)
    BY <1>1, <2>1, <2>2, Zenon DEF TableNext
  <2>3. ASSUME NEW f PROVE Read(f, {}) = TableNext(fold, base, f, {})
    BY Zenon DEF TableNext
  <2> HIDE DEF Read
  <2> QED BY <2>2, <2>3
<1> HIDE DEF Read
<1>5. \E it : Body(it)
  <2>1. PICK it : it = [s \in SUBSET (1..n) |-> TableNext(fold, base, it, s)]
    BY TableFoldExists
  <2>2. [s \in SUBSET (1..n) |-> TableNext(fold, base, it, s)] =
            [s \in SUBSET DOMAIN numbers |-> Read(it, s)]
    BY <1>3, <1>4
  <2>3. Body(it)
    BY <2>1, <2>2, Zenon
  <2> QED BY <2>3, Zenon
<1>6. Body(h)
  <2> HIDE DEF Body
  <2> QED BY <1>5
<1> HIDE DEF h
<1>7. TableFold(n, fold, base, h)
  <2>1. \A s \in SUBSET (1..n) : h[s] = Read(h, s)
    BY <1>3, <1>6, Zenon
  <2> QED BY <1>4, <2>1, Zenon DEF TableFold
<1>8. PICK g : TableSteps(n, fold, base, h, g)
  BY <1>7, TableFoldSteps
<1>9. \A k \in 1..n : g[k] = ReadRow(g[k - 1], table[k], k)
  BY <1>1, <1>8, Zenon DEF TableSteps
<1> QED BY <1>2, <1>3, <1>8, <1>9, Zenon DEF base, TableSteps, WeekSteps

(* The blocks of a column: every section has one, and it ends where the    *)
(* next begins.                                                            *)
BlockOver(column, section) == CHOOSE block \in column : InBlock(block, section)
LastOf(block) == block.first + block.rows - 1

LEMMA BlockOfSection ==
    ASSUME NEW S \in Nat, NEW column, Filled(column, S), NEW q \in 1..S
    PROVE  LET b == BlockOver(column, q)
           IN  /\ b \in column /\ b.first \in 1..S /\ b.rows \in 1..S
               /\ LastOf(b) \in q..S /\ b.first <= q /\ LastOf(b) = b.first + b.rows - 1
               /\ \A d \in column : d.first <= q /\ q <= LastOf(d) => d = b
<1> DEFINE b == BlockOver(column, q)
<1>1. b \in column /\ InBlock(b, q)
  <2>1. \E d \in column : InBlock(d, q)
    BY DEF Filled
  <2> QED BY <2>1 DEF BlockOver
<1>2. \A d \in column :
          d.first \in 1..S /\ d.rows \in 1..S /\ LastOf(d) <= S /\ LastOf(d) \in Int
  BY DEF Filled, LastOf
<1>3. \A d \in column : d.first <= q /\ q <= LastOf(d) => InBlock(d, q)
  BY <1>2 DEF InBlock, LastOf
<1>4. b.first <= q /\ q <= LastOf(b)
  BY <1>1, <1>2 DEF InBlock, LastOf
<1>5. \A d \in column : InBlock(d, q) => d = b
  BY <1>1 DEF Filled
<1> HIDE DEF b
<1>6. LastOf(b) = b.first + b.rows - 1
  BY DEF LastOf
<1>7. LastOf(b) \in q..S
  BY <1>1, <1>2, <1>4
<1> QED BY <1>1, <1>2, <1>3, <1>4, <1>5, <1>6, <1>7 DEF b

LEMMA BlockTurns ==
    ASSUME NEW S \in Nat, NEW column, Filled(column, S), NEW r \in 1..S
    PROVE  /\ (\E b \in column : b.first = r) <=> (r = 1 \/ LastOf(BlockOver(column, r - 1)) = r - 1)
           /\ \A b \in column : b.first = r => b = BlockAt(column, r) /\ b = BlockOver(column, r)
           /\ ~(\E b \in column : b.first = r) =>
                  r > 1 /\ BlockOver(column, r) = BlockOver(column, r - 1)
<1> DEFINE b == BlockOver(column, r)
           a == BlockOver(column, r - 1)
<1>1. /\ b \in column /\ b.first \in 1..S /\ b.rows \in 1..S /\ LastOf(b) \in r..S /\ b.first <= r
      /\ \A d \in column : d.first <= r /\ r <= LastOf(d) => d = b
  BY BlockOfSection
<1>2. r > 1 =>
          /\ a \in column /\ a.first \in 1..S /\ LastOf(a) \in (r - 1)..S /\ a.first <= r - 1
          /\ \A d \in column : d.first <= r - 1 /\ r - 1 <= LastOf(d) => d = a
  <2>1. r > 1 => r - 1 \in 1..S
    OBVIOUS
  <2> QED BY <2>1, BlockOfSection
<1> HIDE DEF a, b
<1>3. \A d \in column : d.first \in 1..S /\ LastOf(d) >= d.first
  BY DEF Filled, LastOf
<1>4. \A d \in column : d.first = r => d = b /\ d = BlockAt(column, r)
  <2>1. \A d \in column : d.first = r => d = b
    BY <1>1, <1>3
  <2> QED BY <2>1 DEF BlockAt
<1>5. CASE r = 1
  <2>1. b.first = 1
    BY <1>1, <1>5
  <2> QED BY <1>1, <1>4, <1>5, <2>1 DEF b
<1>6. CASE r > 1
  <2>1. CASE b.first = r
    <3>1. LastOf(a) = r - 1
      <4>1. LastOf(a) >= r => a = b
        BY <1>1, <1>2, <1>6
      <4>2. a # b
        BY <1>2, <1>6, <2>1
      <4> QED BY <1>2, <1>6, <4>1, <4>2
    <3> QED BY <1>1, <1>4, <2>1, <3>1, <1>6 DEF a, b
  <2>2. CASE b.first < r
    <3>1. b.first <= r - 1 /\ r - 1 <= LastOf(b)
      BY <1>1, <2>2
    <3>2. b = a
      BY <1>1, <1>2, <1>6, <3>1
    <3>3. ~(\E d \in column : d.first = r)
      <4> SUFFICES ASSUME NEW d \in column, d.first = r PROVE FALSE
        OBVIOUS
      <4>1. d = b
        BY <1>4
      <4> QED BY <1>1, <2>2, <4>1
    <3>4. LastOf(a) # r - 1
      BY <1>1, <3>2
    <3> QED BY <1>4, <1>6, <3>2, <3>3, <3>4 DEF a, b
  <2> QED BY <1>1, <2>1, <2>2
<1> QED BY <1>5, <1>6

(* Where the cell over each column ends, and so how many rows each column  *)
(* is still covered for before row r.                                      *)
CellEnd(timetable, S, q, c) ==
    CASE c = 0 -> S
      [] c = 1 -> q
      [] OTHER -> LastOf(BlockOver(timetable[c - 1], q))
SpansBefore(timetable, S, r) ==
    [c \in Columns |-> IF r = 1 \/ c > Len(timetable) + 1 THEN 0
                       ELSE CellEnd(timetable, S, r - 1, c) - (r - 1)]

LEMMA CellEnds ==
    ASSUME NEW S \in Nat, NEW timetable, SchoolTimetable(timetable, S),
           NEW q \in 1..S, NEW c \in 0 .. (Len(timetable) + 1)
    PROVE  CellEnd(timetable, S, q, c) \in q..S
<1>1. Len(timetable) \in Nat /\ DOMAIN timetable = 1..Len(timetable)
  BY DEF SchoolTimetable
<1>2. CASE c = 0
  BY <1>2 DEF CellEnd
<1>3. CASE c = 1
  BY <1>3 DEF CellEnd
<1>4. CASE c \notin {0, 1}
  <2>1. c - 1 \in 1..Len(timetable)
    BY <1>1, <1>4
  <2>2. Filled(timetable[c - 1], S)
    BY <1>1, <2>1 DEF SchoolTimetable
  <2>3. LastOf(BlockOver(timetable[c - 1], q)) \in q..S
    BY <2>2, BlockOfSection
  <2> QED BY <1>4, <2>3 DEF CellEnd
<1> QED BY <1>2, <1>3, <1>4

LEMMA CellsStart ==
    ASSUME NEW S \in Nat, NEW timetable, SchoolTimetable(timetable, S),
           NEW r \in 1..S, NEW c \in 0 .. (Len(timetable) + 1)
    PROVE  LET cell == CellAt(timetable, S, r, c)
           IN  /\ c \in Starting(timetable, r) <=>
                      (r = 1 \/ CellEnd(timetable, S, r - 1, c) = r - 1)
               /\ c \in Starting(timetable, r) =>
                      cell.colspan = 1 /\ cell.rowspan = CellEnd(timetable, S, r, c) - r + 1
               /\ c \notin Starting(timetable, r) =>
                      r > 1 /\ CellEnd(timetable, S, r, c) = CellEnd(timetable, S, r - 1, c)
<1>1. Len(timetable) \in Nat /\ DOMAIN timetable = 1..Len(timetable)
  BY DEF SchoolTimetable
<1>2. c \in Starting(timetable, r) <=>
          /\ c = 0 => r = 1
          /\ c > 1 => \E block \in timetable[c - 1] : block.first = r
  BY DEF Starting
<1>3. CASE c = 0
  BY <1>2, <1>3 DEF CellEnd, CellAt, Cell
<1>4. CASE c = 1
  BY <1>2, <1>4 DEF CellEnd, CellAt, Cell
<1>5. CASE c \notin {0, 1}
  <2> DEFINE column == timetable[c - 1]
  <2>1. c - 1 \in 1..Len(timetable) /\ c > 1
    BY <1>1, <1>5
  <2>2. Filled(column, S)
    BY <1>1, <2>1 DEF SchoolTimetable
  <2>3. /\ CellEnd(timetable, S, r, c) = LastOf(BlockOver(column, r))
        /\ CellEnd(timetable, S, r - 1, c) = LastOf(BlockOver(column, r - 1))
        /\ CellAt(timetable, S, r, c) =
               Cell(BlockAt(column, r).rows, 1, 0, BlockAt(column, r).fragments)
    BY <1>5 DEF CellEnd, CellAt
  <2> HIDE DEF column
  <2>4. c \in Starting(timetable, r) <=> \E block \in column : block.first = r
    BY <1>2, <2>1 DEF column
  <2>5. /\ (\E b \in column : b.first = r) <=> (r = 1 \/ LastOf(BlockOver(column, r - 1)) = r - 1)
        /\ \A b \in column : b.first = r => b = BlockAt(column, r) /\ b = BlockOver(column, r)
        /\ ~(\E b \in column : b.first = r) =>
               r > 1 /\ BlockOver(column, r) = BlockOver(column, r - 1)
    BY <2>2, BlockTurns
  <2>6. c \in Starting(timetable, r) =>
            LET cell == CellAt(timetable, S, r, c)
            IN  cell.colspan = 1 /\ cell.rowspan = CellEnd(timetable, S, r, c) - r + 1
    <3> SUFFICES ASSUME NEW b \in column, b.first = r
                 PROVE  LET cell == CellAt(timetable, S, r, c)
                        IN  cell.colspan = 1 /\ cell.rowspan = CellEnd(timetable, S, r, c) - r + 1
      BY <2>4
    <3>1. b = BlockAt(column, r) /\ b = BlockOver(column, r)
      BY <2>5
    <3>2. LET cell == CellAt(timetable, S, r, c) IN cell.colspan = 1 /\ cell.rowspan = b.rows
      BY <2>3, <3>1 DEF Cell
    <3>3. CellEnd(timetable, S, r, c) = r + b.rows - 1 /\ b.rows \in Int
      BY <2>2, <2>3, <3>1 DEF LastOf, Filled
    <3> QED BY <3>2, <3>3
  <2>7. c \in Starting(timetable, r) <=>
            (r = 1 \/ CellEnd(timetable, S, r - 1, c) = r - 1)
    BY <2>3, <2>4, <2>5
  <2>8. c \notin Starting(timetable, r) =>
            r > 1 /\ CellEnd(timetable, S, r, c) = CellEnd(timetable, S, r - 1, c)
    BY <2>3, <2>4, <2>5
  <2> QED BY <2>6, <2>7, <2>8
<1> QED BY <1>3, <1>4, <1>5

(* Before a row, the columns that nothing reaches into are those in which  *)
(* a cell starts.                                                          *)
LEMMA SpansTell ==
    ASSUME NEW S \in Nat, NEW timetable, SchoolTimetable(timetable, S), NEW r \in 1..S
    PROVE  /\ Starting(timetable, r) \in SUBSET (0 .. (Len(timetable) + 1))
           /\ 0 .. (Len(timetable) + 1) \in SUBSET (0..8)
           /\ SpansBefore(timetable, S, r) \in [Columns -> Nat]
           /\ \A c \in Starting(timetable, r) : SpansBefore(timetable, S, r)[c] = 0
           /\ \A c \in (0 .. (Len(timetable) + 1)) \ Starting(timetable, r) :
                 SpansBefore(timetable, S, r)[c] > 0
<1> DEFINE spans == SpansBefore(timetable, S, r)
           shown == 0 .. (Len(timetable) + 1)
<1>1. Len(timetable) \in Nat /\ Len(timetable) <= 7
  BY DEF SchoolTimetable
<1>2. Starting(timetable, r) \in SUBSET shown /\ shown \in SUBSET (0..8) /\ shown \in SUBSET Columns
  BY <1>1 DEF Starting, Columns
<1>3. \A c \in shown :
          /\ c <= Len(timetable) + 1
          /\ r > 1 => CellEnd(timetable, S, r - 1, c) \in (r - 1)..S
  <2>1. r > 1 => r - 1 \in 1..S
    OBVIOUS
  <2> QED BY <1>1, <2>1, CellEnds
<1>4. \A c \in Columns : c \notin shown => c > Len(timetable) + 1
  BY <1>1 DEF Columns
<1>5. \A c \in Columns :
          spans[c] = IF r = 1 \/ c > Len(timetable) + 1 THEN 0
                     ELSE CellEnd(timetable, S, r - 1, c) - (r - 1)
  BY DEF SpansBefore
<1>6. spans \in [Columns -> Nat]
  <2>1. \A c \in Columns : spans[c] \in Nat
    <3> SUFFICES ASSUME NEW c \in Columns PROVE spans[c] \in Nat
      OBVIOUS
    <3> HIDE DEF spans, shown
    <3>1. CASE r = 1 \/ c > Len(timetable) + 1
      BY <1>5, <3>1
    <3>2. CASE ~(r = 1 \/ c > Len(timetable) + 1)
      <4>1. c \in shown /\ r > 1
        BY <1>4, <3>2
      <4>2. CellEnd(timetable, S, r - 1, c) \in (r - 1)..S
        BY <1>3, <4>1
      <4>3. spans[c] = CellEnd(timetable, S, r - 1, c) - (r - 1)
        BY <1>5, <3>2
      <4> QED BY <4>2, <4>3
    <3> QED BY <3>1, <3>2
  <2>2. spans = [c \in Columns |-> spans[c]]
    BY DEF SpansBefore
  <2> HIDE DEF spans
  <2> QED BY <2>1, <2>2
<1>7. \A c \in shown :
          c \in Starting(timetable, r) <=> (r = 1 \/ CellEnd(timetable, S, r - 1, c) = r - 1)
  BY CellsStart
<1> HIDE DEF spans
<1>8. \A c \in shown : spans[c] = IF r = 1 THEN 0 ELSE CellEnd(timetable, S, r - 1, c) - (r - 1)
  <2>1. \A c \in shown : c \in Int /\ c <= Len(timetable) + 1
    BY <1>1
  <2> HIDE DEF shown
  <2> QED BY <1>1, <1>2, <1>5, <2>1
<1>9. \A c \in shown : c \in Starting(timetable, r) => spans[c] = 0
  <2> HIDE DEF shown
  <2> QED BY <1>3, <1>7, <1>8
<1>10. \A c \in shown : c \notin Starting(timetable, r) => spans[c] > 0
  <2> SUFFICES ASSUME NEW c \in shown, c \notin Starting(timetable, r) PROVE spans[c] > 0
    OBVIOUS
  <2>1. r > 1 /\ CellEnd(timetable, S, r - 1, c) # r - 1
        /\ CellEnd(timetable, S, r - 1, c) \in (r - 1)..S
    BY <1>3, <1>7
  <2>2. spans[c] = CellEnd(timetable, S, r - 1, c) - (r - 1)
    BY <1>8, <2>1
  <2> QED BY <2>1, <2>2
<1> QED BY <1>2, <1>6, <1>9, <1>10 DEF spans

(* graduateRowPlacements: the cells of a row go to the columns in which    *)
(* nothing reaches in, in their order.                                     *)
LEMMA FreeIs ==
    ASSUME NEW spans, NEW column \in Nat, NEW c \in Columns, column <= c, spans[c] = 0,
           \A d \in column .. (c - 1) : spans[d] > 0
    PROVE  Free(spans, column) = c
<1> DEFINE Is(x) == /\ x >= column /\ spans[x] = 0
                    /\ \A d \in column .. (x - 1) : spans[d] > 0
<1>1. c \in Columns /\ Is(c)
  BY DEF Columns
<1>2. \A x \in Columns : Is(x) => x = c
  <2> SUFFICES ASSUME NEW x \in Columns, Is(x), x # c PROVE FALSE
    OBVIOUS
  <2>1. x \in Int /\ c \in Int
    BY DEF Columns
  <2>2. CASE x < c
    <3>1. x \in column .. (c - 1)
      BY <2>1, <2>2
    <3>2. spans[x] > 0 /\ spans[x] = 0
      BY <3>1
    <3> QED BY <3>2
  <2>3. CASE x > c
    <3>1. c \in column .. (x - 1)
      BY <2>1, <2>3
    <3>2. spans[c] > 0 /\ spans[c] = 0
      BY <3>1
    <3> QED BY <3>2
  <2> QED BY <2>1, <2>2, <2>3
<1>3. Free(spans, column) = CHOOSE x \in Columns : Is(x)
  BY DEF Free
<1> HIDE DEF Is
<1> QED BY <1>1, <1>2, <1>3

LEMMA NextPlace ==
    ASSUME NEW F \in SUBSET Nat, IsFiniteSet(F), NEW k \in 0..(Cardinality(F) - 1)
    PROVE  LET from == IF k = 0 THEN 0 ELSE Nth(F, k) + 1
           IN  /\ from \in Nat /\ from <= Nth(F, k + 1) /\ Nth(F, k + 1) \in F
               /\ \A d \in F : from <= d => Nth(F, k + 1) <= d
<1>1. Cardinality(F) \in Nat
  BY NthPlace
<1>2. /\ k + 1 \in 1..Cardinality(F)
      /\ k # 0 => k \in 1..Cardinality(F) /\ k < k + 1
  BY <1>1
<1>3. Nth(F, k + 1) \in Nat /\ Nth(F, k + 1) \in F
  BY <1>2, NthPlace
<1>4. k # 0 => Nth(F, k) \in Nat /\ Nth(F, k) < Nth(F, k + 1)
  <2> SUFFICES ASSUME k # 0 PROVE Nth(F, k) \in Nat /\ Nth(F, k) < Nth(F, k + 1)
    OBVIOUS
  <2>1. Nth(F, k) \in F
    BY <1>2, NthPlace
  <2> QED BY <1>2, <2>1, NthInOrder
<1>5. ASSUME NEW d \in F, (IF k = 0 THEN 0 ELSE Nth(F, k) + 1) <= d
      PROVE  Nth(F, k + 1) <= d
  <2> DEFINE i == Cardinality(Below(F, d))
  <2>1. i \in 1..Cardinality(F) /\ Nth(F, i) = d
    BY NthPlace
  <2> HIDE DEF i
  <2>2. ~(i <= k)
    <3> SUFFICES ASSUME i <= k PROVE FALSE
      OBVIOUS
    <3>1. k # 0 /\ k \in 1..Cardinality(F)
      BY <1>1, <2>1
    <3>2. Nth(F, i) <= Nth(F, k)
      BY <2>1, <3>1, NthInOrder
    <3>3. d \in Nat /\ Nth(F, k) \in Nat /\ Nth(F, k) + 1 <= d
      BY <1>4, <1>5, <3>1
    <3> QED BY <2>1, <3>2, <3>3
  <2>3. k + 1 <= i
    BY <1>1, <2>1, <2>2
  <2> QED BY <1>2, <2>1, <2>3, NthInOrder
<1> QED BY <1>3, <1>4, <1>5

LEMMA FewColumns ==
    ASSUME NEW top \in 0..10, NEW F \in SUBSET (0..top)
    PROVE  F \in SUBSET Nat /\ IsFiniteSet(F) /\ F \in SUBSET Columns
<1>1. F \in SUBSET Columns /\ F \in SUBSET Nat /\ F \in SUBSET (0..10)
  BY DEF Columns
<1>2. 0 \in Int /\ 10 \in Int
  OBVIOUS
<1>3. IsFiniteSet(0..10)
  BY <1>2, FS_Interval, Zenon
<1> QED BY <1>1, <1>3, FS_Subset

FreeColumns(top, F, spans) ==
    /\ top \in 0..10 /\ F \in SUBSET (0..top)
    /\ \A c \in F : spans[c] = 0
    /\ \A c \in (0..top) \ F : spans[c] > 0
PlainRow(n, row) ==
    /\ DOMAIN row = 1..n
    /\ \A k \in 1..n : row[k].colspan = 1 /\ row[k].rowspan \in Nat \ {0}
PlacedAs(placed, F, n, row) ==
    /\ DOMAIN placed = 1..n
    /\ \A k \in 1..n : placed[k].cell = row[k] /\ placed[k].column = Nth(F, k)
CoveredBy(covers, F, row) ==
    \A c \in Columns :
        covers[c] = IF c \in F THEN row[Cardinality(Below(F, c))].rowspan - 1 ELSE 0

LEMMA RowIsPlaced ==
    ASSUME NEW top, NEW F, NEW spans, FreeColumns(top, F, spans),
           NEW n \in Nat, n = Cardinality(F), NEW row, PlainRow(n, row)
    PROVE  /\ PlacedAs(RowPlacements(row, spans).placed, F, n, row)
           /\ CoveredBy(RowPlacements(row, spans).covers, F, row)
<1> DEFINE rank(c) == Cardinality(Below(F, c))
           A == [cell : {row[k] : k \in 1..n}, column : F]
<1>0. /\ top \in 0..10 /\ F \in SUBSET (0..top)
      /\ \A c \in F : spans[c] = 0
      /\ \A c \in (0..top) \ F : spans[c] > 0
      /\ DOMAIN row = 1..n
      /\ \A k \in 1..n : row[k].colspan = 1 /\ row[k].rowspan \in Nat \ {0}
  BY DEF FreeColumns, PlainRow
<1>1. F \in SUBSET Nat /\ IsFiniteSet(F) /\ F \in SUBSET Columns
  BY <1>0, FewColumns
<1>2. /\ \A k \in 1..n : Nth(F, k) \in F /\ rank(Nth(F, k)) = k
      /\ \A c \in F : rank(c) \in 1..n /\ Nth(F, rank(c)) = c
  BY <1>1, NthPlace
<1>3. \E g : RowSteps(n, row, spans, g)
  BY <1>0, RowFolds
<1>9. PICK g : /\ g[0] = [placed |-> <<>>, column |-> 0, covers |-> NoSpans]
               /\ \A k \in 1..n : g[k] = PlaceCell(g[k - 1], row[k], spans)
               /\ RowPlacements(row, spans) = g[n]
  BY <1>3, Zenon DEF RowSteps
<1> HIDE DEF rank, A
<1> DEFINE Placing(k) ==
               /\ g[k].placed \in Seq(A) /\ Len(g[k].placed) = k
               /\ \A j \in 1..k : g[k].placed[j].cell = row[j] /\ g[k].placed[j].column = Nth(F, j)
           Covering(k) ==
               \A c \in Columns : g[k].covers[c] = IF c \in F /\ rank(c) <= k
                                                   THEN row[rank(c)].rowspan - 1 ELSE 0
           Good(k) == /\ Placing(k) /\ Covering(k)
                      /\ g[k].column = IF k = 0 THEN 0 ELSE Nth(F, k) + 1
           good == {k \in 0..n : Good(k)}
<1>4. Good(0)
  <2>1. g[0].placed = <<>> /\ g[0].column = 0 /\ g[0].covers = NoSpans
    BY <1>9
  <2>2. Placing(0)
    BY <2>1
  <2>3. Covering(0)
    <3>1. \A c \in F : ~(rank(c) <= 0)
      BY <1>2
    <3>2. \A c \in Columns : NoSpans[c] = 0
      BY DEF NoSpans
    <3> QED BY <2>1, <3>1, <3>2
  <2> QED BY <2>1, <2>2, <2>3
<1>5. ASSUME NEW k \in 0..(n - 1), Good(k) PROVE Good(k + 1)
  <2> DEFINE c0 == Nth(F, k + 1)
             from == IF k = 0 THEN 0 ELSE Nth(F, k) + 1
  <2>1. k + 1 \in 1..n /\ (k + 1) - 1 = k /\ k + 1 # 0 /\ k \in Nat
    OBVIOUS
  <2>2. from \in Nat /\ from <= c0 /\ c0 \in F /\ \A d \in F : from <= d => c0 <= d
    BY <1>1, NextPlace
  <2> HIDE DEF c0, from
  <2>3. Free(spans, from) = c0
    <3>1. ASSUME NEW d \in from .. (c0 - 1) PROVE spans[d] > 0
      <4>1. c0 \in 0..top /\ top \in 0..10
        BY <1>0, <2>2
      <4>2. d \in 0..top /\ from <= d /\ ~(c0 <= d)
        BY <2>2, <4>1
      <4> QED BY <1>0, <2>2, <4>2
    <3>2. c0 \in Columns /\ spans[c0] = 0
      BY <1>0, <1>1, <2>2
    <3> QED BY <2>2, <3>1, <3>2, FreeIs
  <2>4. g[k + 1] = PlaceCell(g[k], row[k + 1], spans) /\ g[k].column = from
    BY <1>5, <1>9, <2>1 DEF from
  <2>5. /\ g[k + 1].placed = Append(g[k].placed, [cell |-> row[k + 1], column |-> c0])
        /\ g[k + 1].column = c0 + 1
    BY <1>0, <2>1, <2>3, <2>4 DEF PlaceCell
  <2>6. ASSUME NEW c \in Columns
        PROVE  g[k + 1].covers[c] =
                   IF c = c0 /\ row[k + 1].rowspan > 1 THEN row[k + 1].rowspan - 1
                   ELSE g[k].covers[c]
    <3>1. g[k + 1].covers[c] =
              IF c \in c0 .. (c0 + row[k + 1].colspan - 1) /\ row[k + 1].rowspan > 1
              THEN row[k + 1].rowspan - 1 ELSE g[k].covers[c]
      BY <2>3, <2>4 DEF PlaceCell
    <3>2. c \in c0 .. (c0 + row[k + 1].colspan - 1) <=> c = c0
      <4>1. row[k + 1].colspan = 1 /\ c0 \in Nat /\ c \in Int
        <5>1. c \in Int
          BY DEF Columns
        <5>2. c0 \in Nat
          BY <1>1, <2>2
        <5> QED BY <1>0, <2>1, <5>1, <5>2
      <4> QED BY <4>1
    <3> QED BY <3>1, <3>2
  <2>7. Placing(k + 1)
    <3> DEFINE x == [cell |-> row[k + 1], column |-> c0]
               s == g[k].placed
    <3>1. x \in A /\ s \in Seq(A) /\ Len(s) = k
      BY <1>5, <2>1, <2>2 DEF A
    <3>2. x.cell = row[k + 1] /\ x.column = c0
      OBVIOUS
    <3> HIDE DEF x, s
    <3>3. /\ Append(s, x) \in Seq(A) /\ Len(Append(s, x)) = k + 1
          /\ Append(s, x)[k + 1] = x
          /\ \A j \in 1..k : Append(s, x)[j] = s[j]
      BY <3>1
    <3>4. g[k + 1].placed = Append(s, x)
      BY <2>5 DEF s, x
    <3>5. \A j \in 1..(k + 1) : j = k + 1 \/ j \in 1..k
      BY <2>1
    <3>6. \A j \in 1..k : s[j].cell = row[j] /\ s[j].column = Nth(F, j)
      BY <1>5 DEF s
    <3> QED BY <3>2, <3>3, <3>4, <3>5, <3>6 DEF c0
  <2>8. Covering(k + 1)
    <3> SUFFICES ASSUME NEW c \in Columns
                 PROVE  g[k + 1].covers[c] = IF c \in F /\ rank(c) <= k + 1
                                             THEN row[rank(c)].rowspan - 1 ELSE 0
      OBVIOUS
    <3>1. g[k].covers[c] = IF c \in F /\ rank(c) <= k THEN row[rank(c)].rowspan - 1 ELSE 0
      BY <1>5
    <3>2. CASE c = c0
      <4>1. c \in F /\ rank(c) = k + 1
        BY <1>2, <2>1, <3>2 DEF c0
      <4>2. row[k + 1].rowspan \in Nat \ {0}
        BY <1>0, <2>1
      <4>3. g[k].covers[c] = 0
        BY <2>1, <3>1, <4>1
      <4>4. CASE row[k + 1].rowspan > 1
        BY <2>1, <2>6, <3>2, <4>1, <4>4
      <4>5. CASE ~(row[k + 1].rowspan > 1)
        <5>1. row[k + 1].rowspan - 1 = 0
          BY <4>2, <4>5
        <5> QED BY <2>1, <2>6, <3>2, <4>1, <4>3, <4>5, <5>1
      <4> QED BY <4>4, <4>5
    <3>3. CASE c # c0
      <4>1. g[k + 1].covers[c] = g[k].covers[c]
        BY <2>6, <3>3
      <4>2. c \in F => rank(c) # k + 1 /\ rank(c) \in Int
        BY <1>2, <3>3 DEF c0
      <4>3. c \in F => (rank(c) <= k <=> rank(c) <= k + 1)
        BY <2>1, <4>2
      <4> QED BY <3>1, <4>1, <4>3
    <3> QED BY <3>2, <3>3
  <2>9. g[k + 1].column = IF k + 1 = 0 THEN 0 ELSE Nth(F, k + 1) + 1
    BY <2>1, <2>5 DEF c0
  <2> QED BY <2>7, <2>8, <2>9
<1>6. Good(n)
  <2> HIDE DEF Good
  <2>1. 0 \in good /\ \A k \in 0..(n - 1) : k \in good => k + 1 \in good
    BY <1>4, <1>5
  <2>2. good \in SUBSET (0..n)
    OBVIOUS
  <2>3. good = 0..n
    <3> HIDE DEF good
    <3> QED BY <2>1, <2>2, Reaches
  <2> QED BY <2>3
<1>7. DOMAIN g[n].placed = 1..n
  BY <1>6
<1>8. \A c \in F : rank(c) <= n
  BY <1>2
<1> QED BY <1>6, <1>7, <1>8, <1>9 DEF rank, PlacedAs, CoveredBy

LEMMA StartingIs ==
    ASSUME NEW S \in Nat, NEW timetable, SchoolTimetable(timetable, S), NEW r \in 1..S,
           NEW F, F = Starting(timetable, r)
    PROVE  /\ Len(timetable) + 1 \in 0..10 /\ Len(timetable) \in Nat /\ Len(timetable) <= 7
           /\ F \in SUBSET (0 .. (Len(timetable) + 1)) /\ F \in SUBSET Nat
           /\ 0 .. (Len(timetable) + 1) \in SUBSET Columns
           /\ F \in SUBSET Columns /\ IsFiniteSet(F)
<1>1. /\ Len(timetable) \in Nat /\ Len(timetable) <= 7 /\ Len(timetable) + 1 \in 0..10
      /\ 0 .. (Len(timetable) + 1) \in SUBSET Columns
  BY DEF SchoolTimetable, Columns
<1> DEFINE top == Len(timetable) + 1
<1>2. top \in 0..10 /\ F \in SUBSET (0..top)
  BY <1>1 DEF Starting
<1> HIDE DEF top
<1>3. ASSUME NEW t \in 0..10, F \in SUBSET (0..t)
      PROVE  F \in SUBSET Nat /\ IsFiniteSet(F) /\ F \in SUBSET Columns
  BY <1>3, FewColumns
<1>4. F \in SUBSET Nat /\ IsFiniteSet(F) /\ F \in SUBSET Columns
  BY <1>2, <1>3, Zenon
<1> QED BY <1>1, <1>2, <1>4, Zenon DEF top

(* A row of the page: its cells, and where they are placed.                *)
RowOfPage(timetable, S, r, F, n, row) ==
    /\ n \in Nat /\ DOMAIN row = 1..n
    /\ \A k \in 1..n :
          /\ Nth(F, k) \in F
          /\ row[k] = CellAt(timetable, S, r, Nth(F, k))
          /\ row[k].colspan = 1 /\ row[k].rowspan \in Nat \ {0}
          /\ row[k].rowspan = CellEnd(timetable, S, r, Nth(F, k)) - r + 1
    /\ \A c \in F : /\ Cardinality(Below(F, c)) \in 1..n
                    /\ Nth(F, Cardinality(Below(F, c))) = c

LEMMA PageRow ==
    ASSUME NEW S \in Nat, NEW timetable, SchoolTimetable(timetable, S), NEW r \in 1..S,
           NEW F, F = Starting(timetable, r), NEW n, n = Cardinality(F),
           NEW row, row = TablePage(timetable, S)[r]
    PROVE  RowOfPage(timetable, S, r, F, n, row)
<1> DEFINE top == Len(timetable) + 1
           cells == [c \in F |-> CellAt(timetable, S, r, c)]
<1>1. F \in SUBSET (0..top)
  BY StartingIs
<1>2. F \in SUBSET Nat /\ IsFiniteSet(F)
  BY StartingIs
<1>3. row = Kept(cells, F)
  BY DEF TablePage
<1> HIDE DEF top
<1>4. /\ n \in Nat
      /\ \A k \in 1..n : Nth(F, k) \in F
      /\ \A c \in F : Cardinality(Below(F, c)) \in 1..n /\ Nth(F, Cardinality(Below(F, c))) = c
  BY <1>2, NthPlace
<1>5. DOMAIN row = 1..n /\ \A k \in 1..n : row[k] = cells[Nth(F, k)]
  <2> HIDE DEF cells
  <2> QED BY <1>2, <1>3, KeptMembers
<1>6. \A k \in 1..n : row[k] = CellAt(timetable, S, r, Nth(F, k))
  BY <1>4, <1>5
<1>7. \A c \in F : /\ CellAt(timetable, S, r, c).colspan = 1
                   /\ CellAt(timetable, S, r, c).rowspan = CellEnd(timetable, S, r, c) - r + 1
                   /\ CellEnd(timetable, S, r, c) \in r..S
  <2> SUFFICES ASSUME NEW c \in F
               PROVE  /\ CellAt(timetable, S, r, c).colspan = 1
                      /\ CellAt(timetable, S, r, c).rowspan = CellEnd(timetable, S, r, c) - r + 1
                      /\ CellEnd(timetable, S, r, c) \in r..S
    OBVIOUS
  <2>1. c \in 0 .. (Len(timetable) + 1)
    BY <1>1 DEF top
  <2> QED BY <2>1, CellsStart, CellEnds
<1>8. \A e \in r..S : e - r + 1 \in Nat \ {0}
  OBVIOUS
<1> HIDE DEF cells
<1>9. \A k \in 1..n : row[k].colspan = 1 /\ row[k].rowspan \in Nat \ {0}
                      /\ row[k].rowspan = CellEnd(timetable, S, r, Nth(F, k)) - r + 1
  BY <1>4, <1>6, <1>7, <1>8
<1> QED BY <1>4, <1>5, <1>6, <1>9, Zenon DEF RowOfPage

LEMMA PagePlaced ==
    ASSUME NEW S \in Nat, NEW timetable, SchoolTimetable(timetable, S), NEW r \in 1..S,
           NEW F, F = Starting(timetable, r), NEW n, n = Cardinality(F),
           NEW row, row = TablePage(timetable, S)[r],
           NEW spans, spans = SpansBefore(timetable, S, r)
    PROVE  /\ PlacedAs(RowPlacements(row, spans).placed, F, n, row)
           /\ SpansAfter(spans, RowPlacements(row, spans).covers) =
                  SpansBefore(timetable, S, r + 1)
<1> DEFINE top == Len(timetable) + 1
           covers == RowPlacements(row, spans).covers
           end(c) == CellEnd(timetable, S, r, c)
<1>1. /\ top \in 0..10 /\ F \in SUBSET (0..top) /\ 0..top \in SUBSET Columns
      /\ spans \in [Columns -> Nat]
      /\ \A c \in F : spans[c] = 0
      /\ \A c \in (0..top) \ F : spans[c] > 0
  <2>1. top \in 0..10 /\ F \in SUBSET (0..top) /\ 0..top \in SUBSET Columns
    BY StartingIs
  <2> QED BY <2>1, SpansTell
<1>2. /\ n \in Nat /\ DOMAIN row = 1..n
      /\ \A k \in 1..n : row[k].colspan = 1 /\ row[k].rowspan \in Nat \ {0}
      /\ \A k \in 1..n : row[k].rowspan = end(Nth(F, k)) - r + 1
      /\ \A c \in F : /\ Cardinality(Below(F, c)) \in 1..n
                      /\ Nth(F, Cardinality(Below(F, c))) = c
  <2>1. RowOfPage(timetable, S, r, F, n, row)
    BY PageRow
  <2> QED BY <2>1, Zenon DEF RowOfPage
<1> HIDE DEF top
<1>3. /\ PlacedAs(RowPlacements(row, spans).placed, F, n, row)
      /\ \A c \in Columns :
            covers[c] = IF c \in F THEN row[Cardinality(Below(F, c))].rowspan - 1 ELSE 0
  <2>1. FreeColumns(top, F, spans) /\ PlainRow(n, row)
    BY <1>1, <1>2 DEF FreeColumns, PlainRow
  <2>2. CoveredBy(covers, F, row) /\ PlacedAs(RowPlacements(row, spans).placed, F, n, row)
    BY <1>2, <2>1, RowIsPlaced
  <2> QED BY <2>2 DEF CoveredBy
<1>4. \A c \in F : row[Cardinality(Below(F, c))].rowspan - 1 = (end(c) - r + 1) - 1
  BY <1>2
<1> HIDE DEF covers
<1>5. \A c \in 0..top :
          /\ end(c) \in r..S
          /\ c \notin F => r > 1 /\ end(c) = CellEnd(timetable, S, r - 1, c)
  BY CellsStart, CellEnds DEF top
<1> HIDE DEF end
<1>6. ASSUME NEW c \in Columns
      PROVE  (IF covers[c] > 0 THEN covers[c] ELSE IF spans[c] > 0 THEN spans[c] - 1 ELSE 0) =
                 IF c > top THEN 0 ELSE end(c) - r
  <2>1. spans[c] \in Nat /\ c \in Int /\ top \in Int /\ c >= 0
    BY <1>1 DEF Columns
  <2>2. CASE c \in F
    <3>1. c \in 0..top /\ end(c) \in r..S
      BY <1>1, <1>5, <2>2
    <3>2. covers[c] = (end(c) - r + 1) - 1 /\ spans[c] = 0
      BY <1>1, <1>3, <1>4, <2>2
    <3>3. covers[c] = end(c) - r /\ covers[c] >= 0 /\ ~(c > top)
      BY <2>1, <3>1, <3>2
    <3> HIDE DEF top
    <3> QED BY <3>1, <3>2, <3>3
  <2>3. CASE c \in (0..top) \ F
    <3>1. /\ covers[c] = 0 /\ spans[c] > 0 /\ ~(c > top)
          /\ r > 1 /\ end(c) = CellEnd(timetable, S, r - 1, c) /\ end(c) \in r..S
      BY <1>1, <1>3, <1>5, <2>1, <2>3
    <3>2. spans[c] = end(c) - (r - 1)
      <4>1. spans[c] = IF r = 1 \/ c > Len(timetable) + 1 THEN 0
                       ELSE CellEnd(timetable, S, r - 1, c) - (r - 1)
        BY DEF SpansBefore
      <4> QED BY <3>1, <4>1 DEF top
    <3> QED BY <3>1, <3>2
  <2>4. CASE c \notin 0..top
    <3>1. c > top
      BY <2>1, <2>4
    <3>2. covers[c] = 0
      BY <1>1, <1>3, <2>4
    <3>3. spans[c] = 0
      BY <3>1 DEF SpansBefore, top
    <3> QED BY <3>1, <3>2, <3>3
  <2> QED BY <2>2, <2>3, <2>4
<1>7. SpansAfter(spans, covers) = [c \in Columns |-> IF c > top THEN 0 ELSE end(c) - r]
  BY <1>6, Zenon DEF SpansAfter
<1>8. SpansBefore(timetable, S, r + 1) = [c \in Columns |-> IF c > top THEN 0 ELSE end(c) - r]
  <2>1. r + 1 # 1 /\ (r + 1) - 1 = r
    OBVIOUS
  <2> QED BY <2>1 DEF SpansBefore, end, top
<1> QED BY <1>3, <1>7, <1>8 DEF covers

(* graduateSection: the row's label gives its number.                      *)
LEMMA SectionIs ==
    ASSUME NEW S \in Nat, NEW timetable, SchoolTimetable(timetable, S), NEW r \in 1..S,
           NEW F, F = Starting(timetable, r), NEW n, n = Cardinality(F),
           NEW row, row = TablePage(timetable, S)[r],
           NEW placed, PlacedAs(placed, F, n, row)
    PROVE  Section(placed, r) = r
<1> DEFINE labels == {k \in DOMAIN placed :
                         placed[k].column <= 1 /\ placed[k].cell.label \in 1 .. 30}
           one == Cardinality(Below(F, 1))
<1>1. /\ DOMAIN placed = 1..n
      /\ \A k \in 1..n : /\ Nth(F, k) \in F /\ placed[k].column = Nth(F, k)
                         /\ placed[k].cell = CellAt(timetable, S, r, Nth(F, k))
      /\ \A c \in F : Cardinality(Below(F, c)) \in 1..n /\ Nth(F, Cardinality(Below(F, c))) = c
      /\ n \in Nat
  <2>1. RowOfPage(timetable, S, r, F, n, row)
    BY PageRow
  <2> QED BY <2>1, Zenon DEF RowOfPage, PlacedAs
<1>2. F \in SUBSET Nat /\ 1 \in F
  BY DEF Starting, SchoolTimetable
<1>3. one \in 1..n /\ Nth(F, one) = 1 /\ one <= one
  <2>1. one \in 1..n /\ Nth(F, one) = 1
    BY <1>1, <1>2
  <2> HIDE DEF one
  <2> QED BY <1>1, <2>1
<1> HIDE DEF one
<1>4. CellAt(timetable, S, r, 0).label = 0 /\ CellAt(timetable, S, r, 1).label = r
  BY DEF CellAt, Cell
<1>5. ASSUME NEW k \in labels PROVE k = one
  <2>1. /\ k \in 1..n /\ Nth(F, k) <= 1 /\ Nth(F, k) \in Nat
        /\ CellAt(timetable, S, r, Nth(F, k)).label \in 1..30
    BY <1>1, <1>2
  <2>2. Nth(F, k) # 0
    BY <1>4, <2>1
  <2>3. Nth(F, k) = 1
    BY <2>1, <2>2
  <2>4. Cardinality(Below(F, Nth(F, k))) = k
    <3>1. IsFiniteSet(F)
      BY StartingIs
    <3> QED BY <1>2, <2>1, <3>1, NthPlace
  <2> QED BY <2>3, <2>4 DEF one
<1>6. placed[one].cell.label = r
  BY <1>1, <1>3, <1>4
<1>7. CASE labels = {}
  BY <1>7, Zenon DEF Section
<1>8. CASE labels # {}
  <2>1. labels = {one}
    BY <1>5, <1>8
  <2>2. Min({one}) = one
    BY <1>3 DEF Min
  <2>3. Section(placed, r) = placed[Min(labels)].cell.label
    BY <1>8, Zenon DEF Section
  <2> HIDE DEF labels
  <2> QED BY <1>6, <2>1, <2>2, <2>3
<1> QED BY <1>7, <1>8

(* The courses of a cell have the lessons of its block.                    *)
LEMMA CellCourses ==
    ASSUME NEW b \in AnyBlock, b.rows # 0, NEW w \in 1..7,
           NEW p, p.column = w + 1, p.cell.fragments = b.fragments, p.cell.rowspan = b.rows
    PROVE  /\ CoursesOfCell(p, b.first) \in Seq(AnyCourse(STRING))
           /\ LessonsOfAll(CoursesOfCell(p, b.first)) = BlockLessons(w, b)
<1> DEFINE n == Len(b.fragments)
           last == b.first + b.rows - 1
           course(f) == Course(f.name, w, b.first, last, GraduateWeeksOf(f.tokens))
           courses == [i \in 1..n |-> course(b.fragments[i])]
           taught(f) == {<<f.name, w, section, week>> :
                            section \in b.first .. last, week \in GraduateWeeksOf(f.tokens)}
<1>1. /\ n \in Nat /\ DOMAIN b.fragments = 1..n
      /\ \A i \in 1..n : b.fragments[i].name \in STRING
      /\ b.first \in Nat /\ b.rows \in Nat \ {0}
  <2>1. b.fragments \in Seq([name : STRING, tokens : SUBSET Token])
        /\ b.first \in Nat /\ b.rows \in Nat \ {0}
    BY DEF AnyBlock
  <2> DEFINE s == b.fragments
             Fragment == [name : STRING, tokens : SUBSET Token]
  <2>2. \A f \in Fragment : f.name \in STRING
    OBVIOUS
  <2> HIDE DEF s, Fragment
  <2>3. s \in Seq(Fragment)
    BY <2>1 DEF s, Fragment
  <2>4. Len(s) \in Nat /\ DOMAIN s = 1..Len(s) /\ \A i \in 1..Len(s) : s[i] \in Fragment
    BY <2>3
  <2> QED BY <2>1, <2>2, <2>4 DEF s
<1>2. last \in Nat /\ b.first <= last
  BY <1>1
<1>3. p.column - 1 = w /\ p.column \in 2..8
  OBVIOUS
<1>4. CoursesOfCell(p, b.first) = courses
  <2>1. CoursesOfCell(p, b.first) =
            [i \in DOMAIN b.fragments |->
                Course(b.fragments[i].name, p.column - 1, b.first, b.first + p.cell.rowspan - 1,
                       GraduateWeeksOf(b.fragments[i].tokens))]
    BY <1>3 DEF CoursesOfCell
  <2> QED BY <1>1, <1>3, <2>1
<1>5. ASSUME NEW i \in 1..n
      PROVE  /\ course(b.fragments[i]) \in AnyCourse(STRING)
             /\ LessonsIn(course(b.fragments[i])) = taught(b.fragments[i])
  <2> DEFINE c == course(b.fragments[i])
  <2>1. GraduateWeeksOf(b.fragments[i].tokens) \in SUBSET Int
    BY WeeksAreNumbers
  <2> HIDE DEF last
  <2>2. /\ c \in [name : STRING, weekday : Int, start : Nat, end : Nat, weeks : SUBSET Int]
        /\ c.name = b.fragments[i].name /\ c.weekday = w /\ c.start = b.first /\ c.end = last
        /\ c.weeks = GraduateWeeksOf(b.fragments[i].tokens)
    BY <1>1, <1>2, <2>1 DEF Course
  <2> HIDE DEF c
  <2>3. c \in AnyCourse(STRING)
    BY <1>2, <2>2 DEF AnyCourse
  <2>4. LessonsIn(c) = taught(b.fragments[i])
    BY <2>2 DEF LessonsIn
  <2> QED BY <2>3, <2>4 DEF c
<1>6. courses \in Seq(AnyCourse(STRING))
  <2>1. courses \in [1..n -> AnyCourse(STRING)]
    <3> HIDE DEF course, n
    <3> QED BY <1>5
  <2> HIDE DEF courses, n
  <2> QED BY <1>1, <2>1
<1>7. LessonsOfAll(courses) = UNION {taught(b.fragments[i]) : i \in 1..n}
  <2>1. ToSet(courses) = {course(b.fragments[i]) : i \in 1..n}
    BY DEF ToSet
  <2>2. Lessons({course(b.fragments[i]) : i \in 1..n}) =
            UNION {LessonsIn(course(b.fragments[i])) : i \in 1..n}
    <3> HIDE DEF course, n
    <3> QED BY DEF Lessons, LessonsIn
  <2> HIDE DEF courses, course, taught, n
  <2> QED BY <1>5, <2>1, <2>2 DEF LessonsOfAll
<1>8. BlockLessons(w, b) = UNION {taught(b.fragments[i]) : i \in 1..n}
  <2>1. BlockLessons(w, b) = UNION {taught(f) : f \in ToSet(b.fragments)}
    BY DEF BlockLessons
  <2>2. ToSet(b.fragments) = {b.fragments[i] : i \in 1..n}
    BY <1>1 DEF ToSet
  <2> HIDE DEF taught, n
  <2> QED BY <2>1, <2>2
<1> HIDE DEF courses, taught, n
<1> QED BY <1>4, <1>6, <1>7, <1>8, Zenon

(* What the blocks that start in a row teach.                              *)
StartingLessons(timetable, r) ==
    UNION {UNION {BlockLessons(weekday, b) : b \in {b \in timetable[weekday] : b.first = r}} :
              weekday \in DOMAIN timetable}

LEMMA ListsOfRow ==
    ASSUME NEW S \in Nat, NEW timetable, SchoolTimetable(timetable, S), NEW r \in 1..S,
           NEW F, F = Starting(timetable, r), NEW n, n = Cardinality(F),
           NEW row, row = TablePage(timetable, S)[r],
           NEW placed, PlacedAs(placed, F, n, row),
           NEW lists, lists = [k \in DOMAIN placed |-> CoursesOfCell(placed[k], r)]
    PROVE  /\ DOMAIN lists = 1..n
           /\ \A k \in 1..n : lists[k] \in Seq(AnyCourse(STRING))
           /\ UNION {LessonsOfAll(lists[k]) : k \in 1..n} = StartingLessons(timetable, r)
<1>1. /\ DOMAIN placed = 1..n
      /\ \A k \in 1..n : /\ Nth(F, k) \in F /\ placed[k].column = Nth(F, k)
                         /\ placed[k].cell = CellAt(timetable, S, r, Nth(F, k))
      /\ \A c \in F : Cardinality(Below(F, c)) \in 1..n /\ Nth(F, Cardinality(Below(F, c))) = c
  <2>1. RowOfPage(timetable, S, r, F, n, row)
    BY PageRow
  <2> QED BY <2>1, Zenon DEF RowOfPage, PlacedAs
<1>2. /\ Len(timetable) \in Nat /\ Len(timetable) <= 7 /\ DOMAIN timetable = 1..Len(timetable)
      /\ \A w \in 1..Len(timetable) : /\ timetable[w] \in SUBSET AnyBlock
                                      /\ Filled(timetable[w], S)
      /\ F \in SUBSET (0 .. (Len(timetable) + 1))
  <2>1. /\ Len(timetable) \in Nat /\ Len(timetable) <= 7
        /\ F \in SUBSET (0 .. (Len(timetable) + 1))
    BY StartingIs
  <2>2. timetable \in Seq(SUBSET AnyBlock) /\ \A w \in DOMAIN timetable : Filled(timetable[w], S)
    BY DEF SchoolTimetable
  <2>3. /\ DOMAIN timetable = 1..Len(timetable)
        /\ \A w \in 1..Len(timetable) : timetable[w] \in SUBSET AnyBlock
    BY <2>2
  <2> QED BY <2>1, <2>2, <2>3, Zenon
<1>3. ASSUME NEW c \in F, c > 1
      PROVE  /\ c - 1 \in 1..Len(timetable)
             /\ \E b \in timetable[c - 1] : b.first = r
  <2>1. c - 1 \in 1..Len(timetable)
    BY <1>2, <1>3
  <2> QED BY <1>3, <2>1 DEF Starting
<1>4. ASSUME NEW w \in 1..Len(timetable), NEW b \in timetable[w], b.first = r
      PROVE  /\ w + 1 \in F /\ w \in 1..7
             /\ b \in AnyBlock /\ b.rows # 0 /\ b = BlockAt(timetable[w], r)
             /\ \A d \in timetable[w] : d.first = r => d = b
             /\ CellAt(timetable, S, r, w + 1) = Cell(b.rows, 1, 0, b.fragments)
  <2>1. b \in AnyBlock /\ b.rows # 0 /\ w \in 1..7 /\ w \in Nat
    BY <1>2 DEF Filled
  <2>2. Filled(timetable[w], S)
    BY <1>2
  <2>3. \A d \in timetable[w] : d.first = r => d = BlockAt(timetable[w], r)
    BY <2>2, BlockTurns
  <2>4. b = BlockAt(timetable[w], r)
    BY <1>4, <2>3
  <2>5. /\ w + 1 \in 0 .. (Len(timetable) + 1) /\ (w + 1) - 1 = w /\ w + 1 # 0 /\ w + 1 # 1
    BY <1>2
  <2>6. w + 1 \in F
    BY <1>4, <2>5 DEF Starting
  <2>7. CellAt(timetable, S, r, w + 1) =
            Cell(BlockAt(timetable[w], r).rows, 1, 0, BlockAt(timetable[w], r).fragments)
    BY <2>5 DEF CellAt
  <2>8. CellAt(timetable, S, r, w + 1) = Cell(b.rows, 1, 0, b.fragments)
    BY <2>4, <2>7, Zenon
  <2>9. \A d \in timetable[w] : d.first = r => d = b
    BY <2>3, <2>4, Zenon
  <2> QED BY <2>1, <2>4, <2>6, <2>8, <2>9, Zenon
<1>5. ASSUME NEW k \in 1..n, NEW w \in 1..Len(timetable), NEW b \in timetable[w], b.first = r,
             Nth(F, k) = w + 1
      PROVE  /\ lists[k] \in Seq(AnyCourse(STRING))
             /\ LessonsOfAll(lists[k]) = BlockLessons(w, b)
  <2>1. lists[k] = CoursesOfCell(placed[k], b.first)
    BY <1>1, <1>5
  <2>2. /\ b \in AnyBlock /\ b.rows # 0 /\ w \in 1..7
        /\ placed[k].column = w + 1 /\ placed[k].cell = Cell(b.rows, 1, 0, b.fragments)
    BY <1>1, <1>4, <1>5
  <2>3. placed[k].cell.fragments = b.fragments /\ placed[k].cell.rowspan = b.rows
    BY <2>2 DEF Cell
  <2> QED BY <2>1, <2>2, <2>3, CellCourses
<1>6. ASSUME NEW k \in 1..n, ~(Nth(F, k) > 1)
      PROVE  lists[k] = <<>> /\ <<>> \in Seq(AnyCourse(STRING)) /\ LessonsOfAll(<<>>) = {}
  <2>1. Nth(F, k) \in 0 .. (Len(timetable) + 1)
    BY <1>1, <1>2
  <2>2. placed[k].column \notin 2..8
    BY <1>1, <1>2, <1>6, <2>1
  <2>3. lists[k] = <<>>
    BY <1>1, <2>2 DEF CoursesOfCell
  <2>4. ToSet(<<>>) = {}
    BY DEF ToSet
  <2> QED BY <2>3, <2>4, NoLessons DEF LessonsOfAll
<1>7. \A k \in 1..n : Nth(F, k) > 1 =>
          \E w \in 1..Len(timetable) : \E b \in timetable[w] : b.first = r /\ Nth(F, k) = w + 1
  <2> SUFFICES ASSUME NEW k \in 1..n, Nth(F, k) > 1
               PROVE  \E w \in 1..Len(timetable) : \E b \in timetable[w] :
                          b.first = r /\ Nth(F, k) = w + 1
    OBVIOUS
  <2>1. Nth(F, k) \in F
    BY <1>1
  <2>2. Nth(F, k) = (Nth(F, k) - 1) + 1
    BY <1>2, <2>1
  <2> QED BY <1>3, <2>1, <2>2
<1>8. \A k \in 1..n : lists[k] \in Seq(AnyCourse(STRING))
  <2> SUFFICES ASSUME NEW k \in 1..n PROVE lists[k] \in Seq(AnyCourse(STRING))
    OBVIOUS
  <2>1. CASE Nth(F, k) > 1
    BY <1>5, <1>7, <2>1
  <2>2. CASE ~(Nth(F, k) > 1)
    BY <1>6, <2>2
  <2> QED BY <2>1, <2>2
<1>9. ASSUME NEW k \in 1..n, NEW x \in LessonsOfAll(lists[k])
      PROVE  x \in StartingLessons(timetable, r)
  <2>1. Nth(F, k) > 1
    BY <1>6, <1>9
  <2>2. PICK w \in 1..Len(timetable) : \E b \in timetable[w] : b.first = r /\ Nth(F, k) = w + 1
    BY <1>7, <2>1
  <2>3. PICK b \in timetable[w] : b.first = r /\ Nth(F, k) = w + 1
    BY <2>2
  <2>4. x \in BlockLessons(w, b)
    BY <1>5, <1>9, <2>3
  <2> QED BY <1>2, <2>3, <2>4 DEF StartingLessons
<1>10. ASSUME NEW x \in StartingLessons(timetable, r)
       PROVE  \E k \in 1..n : x \in LessonsOfAll(lists[k])
  <2>1. PICK w \in 1..Len(timetable) : \E b \in timetable[w] :
                b.first = r /\ x \in BlockLessons(w, b)
    BY <1>2, <1>10 DEF StartingLessons
  <2>2. PICK b \in timetable[w] : b.first = r /\ x \in BlockLessons(w, b)
    BY <2>1
  <2>3. w + 1 \in F
    BY <1>4, <2>2
  <2>4. PICK k \in 1..n : Nth(F, k) = w + 1
    BY <1>1, <2>3
  <2> QED BY <1>5, <2>2, <2>4
<1>11. DOMAIN lists = 1..n
  BY <1>1
<1>12. UNION {LessonsOfAll(lists[k]) : k \in 1..n} = StartingLessons(timetable, r)
  BY <1>9, <1>10
<1> QED BY <1>8, <1>11, <1>12

(* A row read after those before it.                                       *)
LEMMA RowIsRead ==
    ASSUME NEW S \in Nat, NEW timetable, SchoolTimetable(timetable, S), NEW r \in 1..S,
           NEW done, done.spans = SpansBefore(timetable, S, r),
           done.courses \in GoodCourses(STRING),
           NEW next, next = ReadRow(done, TablePage(timetable, S)[r], r)
    PROVE  /\ next.spans = SpansBefore(timetable, S, r + 1)
           /\ next.courses \in GoodCourses(STRING)
           /\ Lessons(next.courses) = Lessons(done.courses) \cup StartingLessons(timetable, r)
<1> DEFINE F == Starting(timetable, r)
           n == Cardinality(F)
           row == TablePage(timetable, S)[r]
           placements == RowPlacements(row, done.spans)
           lists == [k \in DOMAIN placements.placed |-> CoursesOfCell(placements.placed[k], r)]
<1>1. /\ PlacedAs(placements.placed, F, n, row)
      /\ SpansAfter(done.spans, placements.covers) = SpansBefore(timetable, S, r + 1)
  <2> HIDE DEF F, n, row
  <2>1. F = Starting(timetable, r) /\ n = Cardinality(F) /\ row = TablePage(timetable, S)[r]
    BY DEF F, n, row
  <2> QED BY <2>1, PagePlaced
<1>2. n \in Nat
  <2>1. IsFiniteSet(F)
    BY StartingIs
  <2> HIDE DEF F
  <2> QED BY <2>1, FS_CardinalityType
<1> HIDE DEF placements
<1>3. Section(placements.placed, r) = r
  <2> HIDE DEF F, n, row
  <2>1. F = Starting(timetable, r) /\ n = Cardinality(F) /\ row = TablePage(timetable, S)[r]
    BY DEF F, n, row
  <2> QED BY <1>1, <2>1, SectionIs
<1>4. /\ DOMAIN lists = 1..n
      /\ \A k \in 1..n : lists[k] \in Seq(AnyCourse(STRING))
      /\ UNION {LessonsOfAll(lists[k]) : k \in 1..n} = StartingLessons(timetable, r)
  <2>1. lists = [k \in DOMAIN placements.placed |-> CoursesOfCell(placements.placed[k], r)]
    OBVIOUS
  <2>2. F = Starting(timetable, r) /\ n = Cardinality(F) /\ row = TablePage(timetable, S)[r]
    OBVIOUS
  <2> HIDE DEF F, n, row, lists
  <2> QED BY <1>1, <2>1, <2>2, ListsOfRow
<1>5. /\ next.spans = SpansAfter(done.spans, placements.covers)
      /\ next.courses = MergeLists(done.courses, lists)
  <2>1. next = [spans |-> SpansAfter(done.spans, placements.covers),
                courses |-> MergeLists(done.courses,
                    [k \in DOMAIN placements.placed |->
                        CoursesOfCell(placements.placed[k], Section(placements.placed, r))])]
    BY Zenon DEF ReadRow, placements, row
  <2>2. next = [spans |-> SpansAfter(done.spans, placements.covers),
                courses |-> MergeLists(done.courses, lists)]
    BY <1>3, <2>1, Zenon
  <2> HIDE DEF lists
  <2> QED BY <2>2
<1> HIDE DEF F, n, row, lists
<1>6. /\ MergeLists(done.courses, lists) \in GoodCourses(STRING)
      /\ Lessons(MergeLists(done.courses, lists)) =
             Lessons(done.courses) \cup UNION {LessonsOfAll(lists[k]) : k \in 1..n}
  BY <1>2, <1>4, MergeListsKeeps DEF LessonsListed
<1> QED BY <1>1, <1>4, <1>5, <1>6

(* parseGraduateCourses: the courses have the lessons of the timetable     *)
(* shown, each block's at its weekday and sections, and none can still be  *)
(* merged.                                                                 *)
LEMMA WeekIsKept ==
    ASSUME NEW S \in Nat, NEW timetable, SchoolTimetable(timetable, S)
    PROVE  /\ Lessons(ParseGraduateCourses(TablePage(timetable, S))) = LessonsOf(timetable)
           /\ Merged(ParseGraduateCourses(TablePage(timetable, S)))
<1> DEFINE table == TablePage(timetable, S)
           upto(k) == UNION {StartingLessons(timetable, r) : r \in 1..k}
<1>1. DOMAIN table = 1..S
  BY DEF TablePage
<1> HIDE DEF table
<1>2. \E g : WeekSteps(S, table, g)
  BY <1>1, WeekFolds
<1>3. PICK g : /\ g[0] = [spans |-> NoSpans, courses |-> {}]
               /\ \A k \in 1..S : g[k] = ReadRow(g[k - 1], table[k], k)
               /\ ParseGraduateCourses(table) = g[S].courses
  BY <1>2, Zenon DEF WeekSteps
<1> DEFINE Good(k) == /\ g[k].spans = SpansBefore(timetable, S, k + 1)
                      /\ g[k].courses \in GoodCourses(STRING)
                      /\ Lessons(g[k].courses) = upto(k)
           good == {k \in 0..S : Good(k)}
<1>4. Good(0)
  <2>1. g[0].spans = NoSpans /\ g[0].courses = {}
    BY <1>3
  <2>2. NoSpans = SpansBefore(timetable, S, 0 + 1)
    BY DEF NoSpans, SpansBefore
  <2>3. upto(0) = {}
    OBVIOUS
  <2>4. {} \in GoodCourses(STRING) /\ Lessons({}) = {}
    BY NothingYet, NoLessons
  <2> HIDE DEF upto
  <2> QED BY <2>1, <2>2, <2>3, <2>4
<1>5. ASSUME NEW k \in 0..(S - 1), Good(k) PROVE Good(k + 1)
  <2>1. k + 1 \in 1..S /\ (k + 1) - 1 = k
    OBVIOUS
  <2>2. g[k + 1] = ReadRow(g[k], TablePage(timetable, S)[k + 1], k + 1)
    BY <1>3, <2>1 DEF table
  <2>3. /\ g[k + 1].spans = SpansBefore(timetable, S, (k + 1) + 1)
        /\ g[k + 1].courses \in GoodCourses(STRING)
        /\ Lessons(g[k + 1].courses) =
               Lessons(g[k].courses) \cup StartingLessons(timetable, k + 1)
    <3>1. g[k].spans = SpansBefore(timetable, S, k + 1) /\ g[k].courses \in GoodCourses(STRING)
      BY <1>5
    <3>2. \A done, next :
            /\ done.spans = SpansBefore(timetable, S, k + 1)
            /\ done.courses \in GoodCourses(STRING)
            /\ next = ReadRow(done, TablePage(timetable, S)[k + 1], k + 1)
            => /\ next.spans = SpansBefore(timetable, S, (k + 1) + 1)
               /\ next.courses \in GoodCourses(STRING)
               /\ Lessons(next.courses) =
                      Lessons(done.courses) \cup StartingLessons(timetable, k + 1)
      BY <2>1, RowIsRead
    <3> HIDE DEF Good, good, upto
    <3> QED BY <2>2, <3>1, <3>2, Zenon
  <2>4. upto(k + 1) = upto(k) \cup StartingLessons(timetable, k + 1)
    <3>1. 1..(k + 1) = (1..k) \cup {k + 1}
      OBVIOUS
    <3> QED BY <3>1
  <2> HIDE DEF upto
  <2> QED BY <1>5, <2>3, <2>4
<1>6. Good(S)
  <2> HIDE DEF Good
  <2>1. 0 \in good /\ \A k \in 0..(S - 1) : k \in good => k + 1 \in good
    BY <1>4, <1>5
  <2>2. good \in SUBSET (0..S)
    OBVIOUS
  <2>3. good = 0..S
    <3> HIDE DEF good
    <3> QED BY <2>1, <2>2, Reaches
  <2> QED BY <2>3
<1>7. upto(S) = LessonsOf(timetable)
  <2>1. \A weekday \in DOMAIN timetable : \A b \in timetable[weekday] : b.first \in 1..S
    BY DEF SchoolTimetable, Filled
  <2>2. ASSUME NEW x PROVE x \in upto(S) <=> x \in LessonsOf(timetable)
    <3>1. x \in upto(S) <=>
              \E r \in 1..S : \E weekday \in DOMAIN timetable : \E b \in timetable[weekday] :
                  b.first = r /\ x \in BlockLessons(weekday, b)
      BY DEF StartingLessons
    <3>2. x \in LessonsOf(timetable) <=>
              \E weekday \in DOMAIN timetable : \E b \in timetable[weekday] :
                  x \in BlockLessons(weekday, b)
      BY DEF LessonsOf
    <3> HIDE DEF upto
    <3> QED BY <2>1, <3>1, <3>2
  <2> HIDE DEF upto
  <2> QED BY <2>2
<1> HIDE DEF upto
<1> QED BY <1>3, <1>6, <1>7 DEF table, GoodCourses
=============================================================================
