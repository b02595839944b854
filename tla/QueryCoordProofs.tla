------------------------- MODULE QueryCoordProofs -------------------------
(***************************************************************************)
(* What QueryCoord promises for every number of calls, revocations,        *)
(* instances, queries and students, and for every timeout.                 *)
(*                                                                         *)
(* The student lease is a lock with a TTL, so mutual exclusion rests on    *)
(* time: a leader takes the lease before its deadline, the deadline is     *)
(* less than a lease TTL away (Deadlines), and an upstream call ends by    *)
(* its deadline (InTime).  LeaseCovers is the strengthening that makes     *)
(* StudentSerialized inductive: the lease outlives the deadline of whoever *)
(* works under it.  The rest of the invariant says why nobody else can     *)
(* free it: a release left to bookkeeping belongs to an owner that is past *)
(* its work (TasksLast), and an owner works once (Started).  That nobody   *)
(* frees the lease of another is an action property of its own.            *)
(***************************************************************************)
EXTENDS QueryCoord, FiniteSetTheorems, TLAPS

-----------------------------------------------------------------------------
(* The inductive invariant.                                                *)

Deadlines == \A c \in Call : ~At(c, "none") => load[c].deadline < now + LeaseTTL

Started == \A c \in Call : ~At(c, "none") => caller[c] # "idle"

TasksLast ==
    \A t \in tasks : t.kind = "student" =>
        /\ \A c \in Call : t.owner = c =>
              load[c].phase \in {"freeQuery", "none"} /\ caller[c] # "idle"
        /\ \A r \in Revoker : t.owner = r => RevokerAt(r, "done")

Erases(r) == revoker[r].phase \in {"list", "delete"}

InTime ==
    /\ \A c \in Call : At(c, "upstream") => now <= load[c].deadline
    /\ \A r \in Revoker : Erases(r) => now <= revoker[r].deadline

Works(c) == load[c].phase \in {"permit", "upstream", "save"} /\ now <= load[c].deadline
LeaseOf(c) == studentLease[OwnStudent(c)]
RevokerLease(r) == studentLease[revoker[r].student]

LeaseCovers ==
    /\ \A c \in Call : Works(c) =>
          LeaseOf(c).holder = c /\ LeaseOf(c).expireAt > load[c].deadline
    /\ \A r \in Revoker : Erases(r) =>
          RevokerLease(r).holder = r /\ RevokerLease(r).expireAt > revoker[r].deadline

LeaseInv == Deadlines /\ Started /\ TasksLast /\ InTime /\ LeaseCovers

(* What the listed keys and the remembered deletion count are worth.       *)
Listed ==
    \A r \in Revoker : RevokerAt(r, "delete") =>
        \A q \in Query :
            StudentOf[q] = revoker[r].student /\ cache[q].staleUntil > now
            => q \in revoker[r].keys

BornNow ==
    \A c \in Call : Works(c) /\ ~At(c, "permit") => load[c].born = deletions[OwnStudent(c)]

CacheInv == IndexCovers /\ Listed /\ BornNow /\ ErasedStaysErased

CoordInv == TypeOK /\ LeaseInv /\ CacheInv /\ UpstreamBounded

-----------------------------------------------------------------------------
(* Types.                                                                  *)

USE DEF At, OwnStudent

(* A call inside the upstream section has a permit to give back.           *)
LEMMA PermitTaken ==
    ASSUME TypeOK, UpstreamBounded, NEW c \in Call,
           load[c].phase \in {"upstream", "save"}
    PROVE  permits[InstanceOf[c]] \in Nat \ {0}
<1>. DEFINE i == InstanceOf[c]
<1>1. i \in Instance /\ c \in Inside(i)
  BY CoordAssumption DEF CoordAssumption, Inside
<1>2. IsFiniteSet(Inside(i))
  BY CoordAssumption, FS_Subset DEF CoordAssumption, Inside
<1>3. Cardinality(Inside(i)) \in Nat /\ Cardinality(Inside(i)) # 0
  BY <1>1, <1>2, FS_CardinalityType, FS_EmptySet
<1>. QED
  BY <1>1, <1>3 DEF UpstreamBounded

LEMMA ConstantTypes ==
    ASSUME NEW c \in Call
    PROVE  /\ InstanceOf[c] \in Instance /\ QueryOf[c] \in Query
           /\ OwnStudent(c) \in Student
           /\ LeaseTTL \in Nat /\ RetryAfter \in Nat
  BY CoordAssumption DEF CoordAssumption

(* The small steps actions are made of keep their variable's type.         *)
LEMMA LoadTypes ==
    ASSUME TypeOK, NEW c \in Call
    PROVE  /\ \A p \in LoadPhase : GoTo(c, p) => load' \in [Call -> Load]
           /\ Answer(c) => /\ load' \in [Call -> Load]
                          /\ caller' \in [Call -> {"idle", "waiting", "done"}]
<1>1. ASSUME NEW p \in LoadPhase, GoTo(c, p) PROVE load' \in [Call -> Load]
  <2>1. [load[c] EXCEPT !.phase = p] \in Load
    BY DEF TypeOK, Load
  <2>. QED
    BY <1>1, <2>1 DEF TypeOK, GoTo
<1>2. NoLoad \in Load
  BY DEF NoLoad, Load, LoadPhase
<1>. QED
  BY <1>1, <1>2 DEF TypeOK, Answer

LEMMA LeaseTypes ==
    ASSUME TypeOK, NEW o \in Owner
    PROVE  /\ Taken(o) \in Lease
           /\ \A l \in Lease : Released(l, o) \in Lease
  BY CoordAssumption DEF CoordAssumption, TypeOK, Lease, Taken, Released, NoLease

LEMMA TaskTypes ==
    ASSUME TypeOK, NEW c \in Call, NEW k \in {"student", "query", "marker"}, Enqueue(c, k)
    PROVE  tasks' \in SUBSET Task
  BY ConstantTypes DEF TypeOK, Enqueue, Task, Owner

LEMMA RevokerTypes ==
    ASSUME TypeOK, NEW r \in Revoker,
           NEW p \in {"idle", "wait", "list", "delete", "free", "done"}, RevokerGoes(r, p)
    PROVE  revoker' \in [Revoker -> Revocation]
<1>1. [revoker[r] EXCEPT !.phase = p, !.keys = {}, !.deadline = 0] \in Revocation
  BY DEF TypeOK, Revocation
<1>. QED
  BY <1>1 DEF TypeOK, RevokerGoes

LEMMA PermitTypes ==
    ASSUME TypeOK, UpstreamBounded, NEW c \in Call,
           load[c].phase \in {"upstream", "save"}, ReturnPermit(c)
    PROVE  permits' \in [Instance -> Nat]
  BY PermitTaken, ConstantTypes DEF TypeOK, ReturnPermit

LEMMA MarkerTypes ==
    ASSUME TypeOK, NEW c \in Call, MarkFailure(c)
    PROVE  marker' \in [Query -> Nat]
  BY ConstantTypes DEF TypeOK, MarkFailure

(* A flight's deadline, less than a lease TTL away.                        *)
LEMMA StartDeadline ==
    ASSUME now \in Nat, NEW c \in Call, NEW timeout \in OperationTimeouts(c),
           NEW left \in 1..timeout
    PROVE  now + left \in Nat /\ now + left < now + LeaseTTL
<1>1. timeout \in Nat /\ timeout < LeaseTTL
  BY CoordAssumption DEF CoordAssumption, OperationTimeouts
<1>. QED
  BY <1>1, CoordAssumption DEF CoordAssumption

LEMMA TypeInit == Init => TypeOK
  BY CoordAssumption DEF CoordAssumption, Init, TypeOK, NoEntry, NoIndex, NoLease,
     NoLoad, Entry, Index, Lease, Load, Revocation, LoadPhase

LEMMA TypeStep == TypeOK /\ UpstreamBounded /\ [Next]_vars => TypeOK'
<1>. SUFFICES ASSUME TypeOK, UpstreamBounded, [Next]_vars PROVE TypeOK'
  OBVIOUS
<1>. USE DEF redis, LoadPhase, Owner
<1>1. ASSUME NEW c \in Call, Start(c) PROVE TypeOK'
  <2>. QueryOf[c] \in Query /\ now \in Nat
    BY ConstantTypes DEF TypeOK
  <2>1. ASSUME NEW d \in Nat PROVE Begun(d) \in Load
    BY <2>1 DEF Begun, NoLoad, Load
  <2>2. \/ UNCHANGED load
        \/ \E d \in Nat : load' = [load EXCEPT ![c] = Begun(d)]
    BY <1>1, StartDeadline DEF Start
  <2>3. load' \in [Call -> Load]
    BY <2>1, <2>2 DEF TypeOK
  <2>. QED
    BY <1>1, <2>3 DEF TypeOK, Start
<1>2. ASSUME NEW c \in Call, Cancel(c) PROVE TypeOK'
  BY <1>2 DEF TypeOK, Cancel
<1>3. ASSUME NEW c \in Call, Poll(c) PROVE TypeOK'
  BY <1>3, LoadTypes DEF TypeOK, Poll
<1>4. ASSUME NEW c \in Call, AcquireQueryLease(c) PROVE TypeOK'
  BY <1>4, LoadTypes, LeaseTypes DEF TypeOK, AcquireQueryLease
<1>5. ASSUME NEW c \in Call, AcquireStudentLease(c) PROVE TypeOK'
  BY <1>5, LoadTypes, LeaseTypes DEF TypeOK, AcquireStudentLease
<1>6. ASSUME NEW c \in Call, AcquirePermit(c) PROVE TypeOK'
  <2>1. [load[c] EXCEPT !.phase = "upstream", !.born = deletions[OwnStudent(c)]] \in Load
    BY ConstantTypes DEF TypeOK, Load
  <2>2. load' \in [Call -> Load]
    BY <1>6, <2>1, LoadTypes DEF TypeOK, AcquirePermit
  <2>3. marker' \in [Query -> Nat]
    BY <1>6, MarkerTypes DEF TypeOK, AcquirePermit
  <2>. QED
    BY <1>6, <2>2, <2>3, ConstantTypes DEF TypeOK, AcquirePermit
<1>7. ASSUME NEW c \in Call, UpstreamAnswers(c) PROVE TypeOK'
  BY <1>7, LoadTypes DEF TypeOK, UpstreamAnswers
<1>8. ASSUME NEW c \in Call, UpstreamFails(c) PROVE TypeOK'
  BY <1>8, LoadTypes, PermitTypes, TaskTypes, MarkerTypes DEF TypeOK, UpstreamFails
<1>9. ASSUME NEW c \in Call, SaveResult(c) PROVE TypeOK'
  <2>. DEFINE q == QueryOf[c]
              s == StudentOf[q]
  <2>1. load[c].born \in Nat /\ q \in Query /\ s \in Student /\ FreshTTL[q] \in Nat
           /\ StaleTTL[q] \in Nat
    BY CoordAssumption DEF CoordAssumption, TypeOK, Load
  <2>2. Indexed(s, q) \in Index
    BY <2>1 DEF TypeOK, Indexed, Later, Index
  <2>3. [freshUntil |-> now + FreshTTL[q], staleUntil |-> now + StaleTTL[q],
         born |-> load[c].born] \in Entry
    BY <2>1 DEF TypeOK, Entry
  <2>4. cache' \in [Query -> Entry] /\ index' \in [Student -> Index]
    BY <1>9, <2>1, <2>2, <2>3 DEF TypeOK, SaveResult, Save
  <2>. QED
    BY <1>9, <2>4, LoadTypes, PermitTypes DEF TypeOK, SaveResult
<1>10. ASSUME NEW c \in Call, FreeStudentLease(c) PROVE TypeOK'
  BY <1>10, LoadTypes, LeaseTypes, TaskTypes, ConstantTypes DEF TypeOK, FreeStudentLease
<1>11. ASSUME NEW c \in Call, FreeQueryLease(c) PROVE TypeOK'
  BY <1>11, LoadTypes, LeaseTypes, TaskTypes, ConstantTypes DEF TypeOK, FreeQueryLease
<1>12. ASSUME NEW r \in Revoker, StartRevocation(r) PROVE TypeOK'
  BY <1>12, RevokerTypes DEF TypeOK, StartRevocation
<1>13. ASSUME NEW r \in Revoker, RevokerAcquires(r) PROVE TypeOK'
  <2>1. [revoker[r] EXCEPT !.phase = "list", !.deadline = now + RevokeBudget] \in Revocation
    <3>1. now + RevokeBudget \in Nat
      BY CoordAssumption DEF CoordAssumption, TypeOK
    <3>. QED
      BY <3>1 DEF TypeOK, Revocation
  <2>2. revoker' \in [Revoker -> Revocation]
    BY <1>13, <2>1, RevokerTypes DEF TypeOK, RevokerAcquires
  <2>3. studentLease' \in [Student -> Lease]
    BY <1>13, LeaseTypes DEF TypeOK, RevokerAcquires
  <2>. QED
    BY <1>13, <2>2, <2>3 DEF TypeOK, RevokerAcquires
<1>14. ASSUME NEW r \in Revoker, RevokerLists(r) PROVE TypeOK'
  <2>1. [revoker[r] EXCEPT !.phase = "delete", !.keys = index[revoker[r].student].keys]
           \in Revocation
    BY DEF TypeOK, Revocation, Index
  <2>2. revoker' \in [Revoker -> Revocation]
    BY <1>14, <2>1, RevokerTypes DEF TypeOK, RevokerLists
  <2>. QED
    BY <1>14, <2>2 DEF TypeOK, RevokerLists
<1>15. ASSUME NEW r \in Revoker, RevokerDeletes(r) PROVE TypeOK'
  <2>1. NoEntry \in Entry /\ NoIndex \in Index
    BY DEF NoEntry, NoIndex, Entry, Index
  <2>2. revoker[r].student \in Student
    BY DEF TypeOK, Revocation
  <2>. QED
    BY <1>15, <2>1, <2>2, RevokerTypes DEF TypeOK, RevokerDeletes, Erase
<1>16. ASSUME NEW r \in Revoker, RevokerReleases(r) PROVE TypeOK'
  <2>1. revoker[r].student \in Student
    BY DEF TypeOK, Revocation
  <2>2. [kind |-> "student", owner |-> r, student |-> revoker[r].student, at |-> now] \in Task
    BY <2>1 DEF TypeOK, Task
  <2>. QED
    BY <1>16, <2>1, <2>2, RevokerTypes, LeaseTypes DEF TypeOK, RevokerReleases
<1>17. ASSUME NEW r \in Revoker, RevokerCrashes(r) PROVE TypeOK'
  BY <1>17, RevokerTypes DEF TypeOK, RevokerCrashes
<1>18. ASSUME NEW t \in tasks, RunTask(t) PROVE TypeOK'
  <2>1. t.owner \in Owner
    BY DEF TypeOK, Task
  <2>. QED
    BY <1>18, <2>1, LeaseTypes, CoordAssumption DEF TypeOK, RunTask, CoordAssumption
<1>19. ASSUME NEW t \in tasks, LoseTask(t) PROVE TypeOK'
  BY <1>19 DEF TypeOK, LoseTask
<1>20. ASSUME NEW i \in Instance, Crash(i) PROVE TypeOK'
  BY <1>20 DEF TypeOK, Crash, NoLoad, Load
<1>21. ASSUME Tick PROVE TypeOK'
  <2>1. NoEntry \in Entry /\ NoIndex \in Index /\ NoLease \in Lease
    BY DEF NoEntry, NoIndex, NoLease, Entry, Index, Lease
  <2>. QED
    BY <1>21, <2>1 DEF TypeOK, Tick, Unexpired
<1>22. CASE UNCHANGED vars
  BY <1>22 DEF TypeOK, vars
<1>. QED
  BY <1>1, <1>2, <1>3, <1>4, <1>5, <1>6, <1>7, <1>8, <1>9, <1>10, <1>11, <1>12, <1>13,
     <1>14, <1>15, <1>16, <1>17, <1>18, <1>19, <1>20, <1>21, <1>22
     DEF Next, FlightStep, RevokerStep

-----------------------------------------------------------------------------
(* The student lease.                                                      *)

(* What a step by the flight of c does to flights: it moves c's own.       *)
LoadMoves(c, phases) ==
    /\ load' \in [Call -> Load]
    /\ \A d \in Call : d # c => load'[d] = load[d]
    /\ load'[c].phase \in phases
    /\ load'[c].phase # "none" => load'[c].deadline = load[c].deadline

LEMMA LoadEffects ==
    ASSUME TypeOK, NEW c \in Call
    PROVE  /\ \A p \in LoadPhase : GoTo(c, p) => LoadMoves(c, {p}) /\ load'[c].born = load[c].born
           /\ Answer(c) => /\ LoadMoves(c, {"none"})
                          /\ \A d \in Call : caller[d] # "idle" => caller'[d] # "idle"
  BY LoadTypes DEF TypeOK, LoadMoves, GoTo, Answer, NoLoad, Load

(* A started call leads a flight from nothing, or joins one.               *)
LEMMA StartsIdle ==
    ASSUME TypeOK, NEW c \in Call, Start(c)
    PROVE  \A k \in Call : load'[k] = load[k] \/ (At(k, "none") /\ load'[k].phase = "poll")
<1>1. ASSUME NEW d, load' = [load EXCEPT ![c] = Begun(d)], ~InFlight(c)
      PROVE  \A k \in Call : load'[k] = load[k] \/ (At(k, "none") /\ load'[k].phase = "poll")
  <2>1. Begun(d).phase = "poll"
    BY DEF Begun, NoLoad
  <2>2. At(c, "none")
    BY <1>1 DEF InFlight, SameFlight
  <2>. QED
    BY <1>1, <2>1, <2>2 DEF TypeOK
<1>. QED
  BY <1>1 DEF Start

(* A step of c that leaves leases, revocations, tasks and the clock alone  *)
(* keeps LeaseInv unless it brings c under a lease it did not have.        *)
LEMMA LeaseFrame ==
    ASSUME TypeOK, LeaseInv, NEW c \in Call, NEW P, LoadMoves(c, P),
           UNCHANGED <<now, studentLease, revoker>>,
           \A d \in Call : caller[d] # "idle" => caller'[d] # "idle",
           ~At(c, "none"),
           \A t \in tasks' \ tasks :
               t.kind = "student" => t.owner = c /\ P = {"freeQuery"},
           At(c, "freeQuery") => P \subseteq {"freeQuery", "none"},
           \/ P \subseteq {"none", "poll", "lease", "student", "freeStudent", "freeQuery"}
           \/ At(c, "permit") /\ P = {"upstream"} /\ Alive(c)
           \/ At(c, "upstream") /\ P = {"save"}
    PROVE  LeaseInv'
<1>1. c \notin Revoker /\ now \in Nat
  BY CoordAssumption DEF CoordAssumption, TypeOK
<1>2. Deadlines' /\ Started'
  BY DEF LeaseInv, Deadlines, Started, LoadMoves
<1>3. InTime'
  <2>1. load[c].deadline \in Nat
    BY DEF TypeOK, Load
  <2>2. load'[c].phase = "upstream" => now < load'[c].deadline
    BY <2>1 DEF LoadMoves, Alive
  <2>. QED
    BY <1>1, <2>1, <2>2 DEF LeaseInv, InTime, LoadMoves, Erases
<1>4. LeaseCovers'
  BY <1>1 DEF LeaseInv, LeaseCovers, LoadMoves, Works, LeaseOf, RevokerLease, Erases, Alive, InTime
<1>5. TasksLast'
  <2>1. SUFFICES ASSUME NEW t \in tasks', t.kind = "student"
                 PROVE  /\ \A d \in Call : t.owner = d =>
                              load'[d].phase \in {"freeQuery", "none"} /\ caller'[d] # "idle"
                        /\ \A r \in Revoker : t.owner = r => revoker'[r].phase = "done"
    BY DEF TasksLast, RevokerAt
  <2>2. CASE t \in tasks
    BY <2>1, <2>2 DEF LeaseInv, TasksLast, LoadMoves, RevokerAt
  <2>3. CASE t \notin tasks
    BY <2>1, <2>3, <1>1 DEF LeaseInv, LoadMoves, Started
  <2>. QED
    BY <2>2, <2>3
<1>. QED
  BY <1>2, <1>3, <1>4, <1>5 DEF LeaseInv

LEMMA RevokerStudents ==
    ASSUME TypeOK, NEW r \in Revoker
    PROVE  revoker[r].student \in Student
  BY DEF TypeOK, Revocation

(* A revocation that leaves its critical section, or has not come to it.   *)
LEMMA RevokerFrame ==
    ASSUME TypeOK, LeaseInv, NEW r \in Revoker, ~RevokerAt(r, "done"),
           NEW p \in {"wait", "free", "done"}, RevokerGoes(r, p),
           UNCHANGED <<now, studentLease, load, caller, tasks>>
    PROVE  LeaseInv'
<1>1. /\ \A u \in Revoker : u # r => revoker'[u] = revoker[u]
      /\ revoker'[r].phase = p
  BY DEF RevokerGoes, TypeOK, Revocation
<1>. QED
  BY <1>1 DEF LeaseInv, Deadlines, Started, TasksLast, InTime, LeaseCovers,
     Works, LeaseOf, RevokerLease, Erases, RevokerAt

LEMMA LeaseInit == Init => LeaseInv
  BY DEF Init, LeaseInv, Deadlines, Started, TasksLast, InTime, LeaseCovers, Works, Erases,
     NoLoad, RevokerAt

LEMMA LeaseStep == TypeOK /\ LeaseInv /\ TypeOK' /\ [Next]_vars => LeaseInv'
<1>. SUFFICES ASSUME TypeOK, LeaseInv, TypeOK', [Next]_vars PROVE LeaseInv'
  OBVIOUS
<1>. USE DEF redis
<1>0. now \in Nat /\ Call \cap Revoker = {} /\ LeaseTTL \in Nat
  BY CoordAssumption DEF CoordAssumption, TypeOK
<1>. DEFINE Resting == {"none", "poll", "lease", "student", "freeStudent", "freeQuery"}
(* Flights. *)
<1>1. ASSUME NEW c \in Call, Start(c) PROVE LeaseInv'
  <2>1. CASE UNCHANGED load
    BY <1>1, <2>1 DEF Start, LeaseInv, Deadlines, Started, TasksLast, InTime, LeaseCovers,
       Works, LeaseOf, RevokerLease, Erases, RevokerAt, TypeOK
  <2>2. ASSUME NEW d \in Nat, d < now + LeaseTTL, load' = [load EXCEPT ![c] = Begun(d)]
        PROVE  LeaseInv'
    <3>1. /\ load'[c].phase = "poll" /\ load'[c].deadline = d
          /\ \A k \in Call : k # c => load'[k] = load[k]
      BY <2>2 DEF TypeOK, Begun, NoLoad
    <3>2. caller[c] = "idle" /\ \A k \in Call : caller[k] # "idle" => caller'[k] # "idle"
      BY <1>1 DEF Start, TypeOK
    <3>3. caller'[c] # "idle"
      BY <1>1, <2>2, <3>2 DEF Start, TypeOK
    <3>. QED
      BY <1>1, <2>2, <3>1, <3>2, <3>3 DEF Start, LeaseInv, Deadlines, Started, TasksLast,
         InTime, LeaseCovers, Works, LeaseOf, RevokerLease, Erases, RevokerAt
  <2>3. \/ UNCHANGED load
        \/ \E d \in Nat : d < now + LeaseTTL /\ load' = [load EXCEPT ![c] = Begun(d)]
    BY <1>0, <1>1, StartDeadline, ConstantTypes DEF Start
  <2>. QED
    BY <2>1, <2>2, <2>3
<1>2. ASSUME NEW c \in Call, Cancel(c) PROVE LeaseInv'
  BY <1>2 DEF Cancel, LeaseInv, Deadlines, Started, TasksLast, InTime, LeaseCovers,
     Works, LeaseOf, RevokerLease, Erases, RevokerAt, TypeOK
<1>3. ASSUME NEW c \in Call, Poll(c) PROVE LeaseInv'
  BY <1>3, LoadEffects, LeaseFrame DEF Poll, LoadPhase
<1>4. ASSUME NEW c \in Call, AcquireQueryLease(c) PROVE LeaseInv'
  BY <1>4, LoadEffects, LeaseFrame DEF AcquireQueryLease, LoadPhase
<1>5. ASSUME NEW c \in Call, AcquireStudentLease(c) PROVE LeaseInv'
  <2>. DEFINE s == OwnStudent(c)
  <2>1. CASE UNCHANGED studentLease /\ GoTo(c, "freeQuery")
    BY <1>5, <2>1, LoadEffects, LeaseFrame DEF AcquireStudentLease, LoadPhase
  <2>2. CASE Free(studentLease[s]) /\ Alive(c) /\ studentLease' = [studentLease EXCEPT ![s] = Taken(c)]
    <3>1. s \in Student /\ load[c].deadline \in Nat
      BY ConstantTypes DEF TypeOK, Load
    <3>2. /\ studentLease'[s].holder = c
          /\ studentLease'[s].expireAt > load[c].deadline
          /\ \A u \in Student : u # s => studentLease'[u] = studentLease[u]
      BY <1>0, <1>5, <2>2, <3>1 DEF Taken, TypeOK, LeaseInv, Deadlines, AcquireStudentLease
    <3>3. \E p \in {"permit", "freeQuery"} : LoadMoves(c, {p})
      BY <1>5, LoadEffects DEF AcquireStudentLease, LoadPhase
    <3>4. \A d \in Call : OwnStudent(d) = s => ~Works(d)
      BY <1>0, <2>2 DEF LeaseInv, LeaseCovers, Free, Works, LeaseOf, TypeOK, Load, Lease
    <3>5. \A r \in Revoker : revoker[r].student = s => ~Erases(r)
      BY <1>0, <2>2 DEF LeaseInv, LeaseCovers, InTime, Free, RevokerLease, TypeOK, Revocation, Lease
    <3>6. \A d \in Call : OwnStudent(d) \in Student
      BY ConstantTypes
    <3>7. \A r \in Revoker : revoker[r].student \in Student
      BY DEF TypeOK, Revocation
    <3>8. UNCHANGED <<now, caller, revoker, tasks>>
      BY <1>5 DEF AcquireStudentLease
    <3>9. LeaseCovers'
      BY <3>2, <3>3, <3>4, <3>5, <3>6, <3>7, <3>8
         DEF LeaseInv, LeaseCovers, LoadMoves, Works, LeaseOf, RevokerLease, Erases
    <3>10. At(c, "student") /\ ~At(c, "none")
      BY <1>5 DEF AcquireStudentLease
    <3>11. Deadlines' /\ Started' /\ InTime'
      BY <3>3, <3>8, <3>10 DEF LeaseInv, Deadlines, Started, InTime, LoadMoves, Erases
    <3>12. TasksLast'
      BY <3>3, <3>8, <3>10 DEF LeaseInv, TasksLast, LoadMoves, RevokerAt
    <3>. QED
      BY <3>9, <3>11, <3>12 DEF LeaseInv
  <2>. QED
    BY <1>5, <2>1, <2>2 DEF AcquireStudentLease
<1>6. ASSUME NEW c \in Call, AcquirePermit(c) PROVE LeaseInv'
  <2>1. CASE GoTo(c, "freeStudent")
    BY <1>6, <2>1, LoadEffects, LeaseFrame DEF AcquirePermit, LoadPhase
  <2>2. CASE /\ Alive(c)
             /\ load' = [load EXCEPT ![c].phase = "upstream",
                                     ![c].born = deletions[OwnStudent(c)]]
    <3>1. LoadMoves(c, {"upstream"})
      BY <2>2 DEF LoadMoves, TypeOK, Load
    <3>. QED
      BY <1>6, <2>2, <3>1, LeaseFrame DEF AcquirePermit
  <2>. QED
    BY <1>6, <2>1, <2>2 DEF AcquirePermit
<1>7. ASSUME NEW c \in Call, UpstreamAnswers(c) PROVE LeaseInv'
  BY <1>7, LoadEffects, LeaseFrame DEF UpstreamAnswers, LoadPhase
<1>8. ASSUME NEW c \in Call, UpstreamFails(c) PROVE LeaseInv'
  <2>1. LoadMoves(c, {"freeStudent"})
    BY <1>8, LoadEffects DEF UpstreamFails, LoadPhase
  <2>2. \A t \in tasks' \ tasks : t.kind # "student"
    BY <1>8 DEF UpstreamFails, Enqueue
  <2>. QED
    BY <1>8, <2>1, <2>2, LeaseFrame DEF UpstreamFails
<1>9. ASSUME NEW c \in Call, SaveResult(c) PROVE LeaseInv'
  BY <1>9, LoadEffects, LeaseFrame DEF SaveResult, LoadPhase
<1>10. ASSUME NEW c \in Call, FreeStudentLease(c) PROVE LeaseInv'
  <2>. DEFINE s == OwnStudent(c)
  <2>1. /\ At(c, "freeStudent") /\ LoadMoves(c, {"freeQuery"})
        /\ UNCHANGED <<now, caller, revoker>>
    BY <1>10, LoadEffects DEF FreeStudentLease, LoadPhase
  <2>2. \A t \in tasks' \ tasks : t.kind = "student" => t.owner = c
    BY <1>10 DEF FreeStudentLease, Enqueue
  <2>3. CASE UNCHANGED studentLease
    BY <2>1, <2>2, <2>3, LeaseFrame
  <2>4. CASE studentLease' = [studentLease EXCEPT ![s] = Released(@, c)]
    <3>1. \A u \in Student : studentLease[u].holder # c => studentLease'[u] = studentLease[u]
      BY <2>4 DEF TypeOK, Released
    <3>2. LeaseCovers'
      BY <1>0, <2>1, <3>1, ConstantTypes, RevokerStudents
         DEF LeaseInv, LeaseCovers, LoadMoves, Works, LeaseOf, RevokerLease, Erases
    <3>3. TasksLast'
      BY <1>0, <2>1, <2>2 DEF LeaseInv, TasksLast, LoadMoves, RevokerAt, Started
    <3>. QED
      BY <2>1, <3>2, <3>3 DEF LeaseInv, Deadlines, Started, InTime, LoadMoves, Erases
  <2>. QED
    BY <1>10, <2>3, <2>4 DEF FreeStudentLease
<1>11. ASSUME NEW c \in Call, FreeQueryLease(c) PROVE LeaseInv'
  <2>1. LoadMoves(c, {"none"}) /\ \A d \in Call : caller[d] # "idle" => caller'[d] # "idle"
    BY <1>11, LoadEffects DEF FreeQueryLease
  <2>2. \A t \in tasks' \ tasks : t.kind # "student"
    BY <1>11 DEF FreeQueryLease, Enqueue
  <2>. QED
    BY <1>11, <2>1, <2>2, LeaseFrame DEF FreeQueryLease
(* Revocations. *)
<1>12. ASSUME NEW r \in Revoker, StartRevocation(r) PROVE LeaseInv'
  BY <1>12, RevokerFrame DEF StartRevocation, RevokerAt
<1>13. ASSUME NEW r \in Revoker, RevokerAcquires(r) PROVE LeaseInv'
  <2>. DEFINE s == revoker[r].student
  <2>1. CASE UNCHANGED studentLease /\ RevokerGoes(r, "done")
    BY <1>13, <2>1, RevokerFrame DEF RevokerAcquires, RevokerAt
  <2>2. CASE Free(studentLease[s]) /\ studentLease' = [studentLease EXCEPT ![s] = Taken(r)]
    <3>1. s \in Student
      BY RevokerStudents
    <3>2. /\ studentLease'[s].holder = r
          /\ studentLease'[s].expireAt = now + LeaseTTL
          /\ \A u \in Student : u # s => studentLease'[u] = studentLease[u]
      BY <2>2, <3>1 DEF Taken, TypeOK
    <3>3. /\ \A u \in Revoker : u # r => revoker'[u] = revoker[u]
          /\ revoker'[r].student = s
          /\ \/ revoker'[r].phase = "list" /\ revoker'[r].deadline = now + RevokeBudget
             \/ revoker'[r].phase = "done"
      <4>1. CASE RevokerGoes(r, "done")
        BY <4>1 DEF RevokerGoes, TypeOK, Revocation
      <4>2. CASE revoker' = [revoker EXCEPT ![r].phase = "list",
                                            ![r].deadline = now + RevokeBudget]
        BY <4>2 DEF TypeOK, Revocation
      <4>. QED
        BY <1>13, <4>1, <4>2 DEF RevokerAcquires
    <3>4. now + RevokeBudget < now + LeaseTTL /\ now <= now + RevokeBudget
      BY <1>0, CoordAssumption DEF CoordAssumption
    <3>5. \A d \in Call : OwnStudent(d) = s => ~Works(d)
      BY <1>0, <2>2 DEF LeaseInv, LeaseCovers, Free, Works, LeaseOf, TypeOK, Load, Lease
    <3>6. \A u \in Revoker : revoker[u].student = s => ~Erases(u)
      BY <1>0, <2>2 DEF LeaseInv, LeaseCovers, InTime, Free, RevokerLease, TypeOK, Revocation, Lease
    <3>7. RevokerAt(r, "wait") /\ UNCHANGED <<now, caller, load, tasks>>
      BY <1>13 DEF RevokerAcquires
    <3>8. LeaseCovers'
      BY <3>2, <3>3, <3>4, <3>5, <3>6, <3>7, ConstantTypes, RevokerStudents
         DEF LeaseInv, LeaseCovers, Works, LeaseOf, RevokerLease, Erases
    <3>9. TasksLast'
      BY <3>3, <3>7 DEF LeaseInv, TasksLast, RevokerAt
    <3>10. InTime'
      BY <3>3, <3>4, <3>7 DEF LeaseInv, InTime, Erases
    <3>. QED
      BY <3>7, <3>8, <3>9, <3>10 DEF LeaseInv, Deadlines, Started
  <2>. QED
    BY <1>13, <2>1, <2>2 DEF RevokerAcquires
<1>14. ASSUME NEW r \in Revoker, RevokerLists(r) PROVE LeaseInv'
  <2>1. CASE RevokerGoes(r, "free")
    BY <1>14, <2>1, RevokerFrame DEF RevokerLists, RevokerAt
  <2>2. CASE revoker' = [revoker EXCEPT ![r].phase = "delete",
                                        ![r].keys = index[revoker[r].student].keys]
    <3>1. /\ \A u \in Revoker : u # r => revoker'[u] = revoker[u]
          /\ revoker'[r].student = revoker[r].student
          /\ revoker'[r].phase = "delete" /\ revoker'[r].deadline = revoker[r].deadline
      BY <2>2 DEF TypeOK, Revocation
    <3>2. RevokerAt(r, "list") /\ UNCHANGED <<now, studentLease, caller, load, tasks>>
      BY <1>14 DEF RevokerLists
    <3>. QED
      BY <3>1, <3>2 DEF LeaseInv, LeaseCovers, InTime, TasksLast, Deadlines, Started,
         Works, LeaseOf, RevokerLease, Erases, RevokerAt
  <2>. QED
    BY <1>14, <2>1, <2>2 DEF RevokerLists
<1>15. ASSUME NEW r \in Revoker, RevokerDeletes(r) PROVE LeaseInv'
  BY <1>15, RevokerFrame DEF RevokerDeletes, RevokerAt
<1>16. ASSUME NEW r \in Revoker, RevokerReleases(r) PROVE LeaseInv'
  <2>. DEFINE s == revoker[r].student
  <2>1. /\ \A u \in Revoker : u # r => revoker'[u] = revoker[u]
        /\ revoker'[r].phase = "done" /\ RevokerAt(r, "free")
        /\ UNCHANGED <<now, caller, load>>
    BY <1>16 DEF RevokerReleases, RevokerGoes, TypeOK, Revocation
  <2>2. \A u \in Student : studentLease[u].holder # r => studentLease'[u] = studentLease[u]
    BY <1>16 DEF RevokerReleases, Released, TypeOK
  <2>3. \A t \in tasks' \ tasks : t.owner = r
    BY <1>16 DEF RevokerReleases
  <2>4. LeaseCovers'
    BY <1>0, <2>1, <2>2, ConstantTypes, RevokerStudents
       DEF LeaseInv, LeaseCovers, Works, LeaseOf, RevokerLease, Erases
  <2>5. TasksLast'
    BY <1>0, <2>1, <2>3 DEF LeaseInv, TasksLast, RevokerAt
  <2>. QED
    BY <2>1, <2>4, <2>5 DEF LeaseInv, Deadlines, Started, InTime, Erases
<1>17. ASSUME NEW r \in Revoker, RevokerCrashes(r) PROVE LeaseInv'
  BY <1>17, RevokerFrame DEF RevokerCrashes, RevokerAt
(* Bookkeeping, crashes and time. *)
<1>18. ASSUME NEW t \in tasks, RunTask(t) PROVE LeaseInv'
  <2>1. UNCHANGED <<now, caller, load, revoker>> /\ tasks' \subseteq tasks
    BY <1>18 DEF RunTask
  <2>2. \A u \in Student :
           studentLease'[u] = studentLease[u] \/ (t.kind = "student" /\ studentLease[u].holder = t.owner)
    BY <1>18 DEF RunTask, Released, TypeOK
  <2>3. LeaseCovers'
    BY <2>1, <2>2, ConstantTypes, RevokerStudents
       DEF LeaseInv, LeaseCovers, TasksLast, Works, LeaseOf, RevokerLease, Erases, RevokerAt
  <2>. QED
    BY <2>1, <2>3 DEF LeaseInv, Deadlines, Started, TasksLast, InTime, Erases, RevokerAt
<1>19. ASSUME NEW t \in tasks, LoseTask(t) PROVE LeaseInv'
  BY <1>19 DEF LoseTask, LeaseInv, Deadlines, Started, TasksLast, InTime, LeaseCovers,
     Works, LeaseOf, RevokerLease, Erases, RevokerAt
<1>20. ASSUME NEW i \in Instance, Crash(i) PROVE LeaseInv'
  <2>1. \A c \in Call : load'[c] = load[c] \/ load'[c].phase = "none"
    BY <1>20 DEF Crash, NoLoad, TypeOK
  <2>2. \A c \in Call : caller[c] # "idle" => caller'[c] # "idle"
    BY <1>20 DEF Crash, TypeOK
  <2>3. UNCHANGED <<now, studentLease, revoker>> /\ tasks' \subseteq tasks
    BY <1>20 DEF Crash
  <2>. QED
    BY <2>1, <2>2, <2>3 DEF LeaseInv, Deadlines, Started, TasksLast, InTime, LeaseCovers,
       Works, LeaseOf, RevokerLease, Erases, RevokerAt
<1>21. ASSUME Tick PROVE LeaseInv'
  <2>1. now' = now + 1 /\ UNCHANGED <<caller, load, revoker, tasks>>
    BY <1>21 DEF Tick
  <2>2. Deadlines' /\ Started' /\ TasksLast'
    BY <1>0, <2>1 DEF LeaseInv, Deadlines, Started, TasksLast, RevokerAt, TypeOK, Load
  <2>3. InTime'
    BY <1>0, <1>21, <2>1 DEF Tick, InTime, Erases, TypeOK, Load, Revocation
  <2>4. \A s \in Student : studentLease[s].expireAt > now' => studentLease'[s] = studentLease[s]
    BY <1>21 DEF Tick, Unexpired
  <2>5. \A c \in Call : Works(c)' => Works(c) /\ now' <= load[c].deadline
    BY <1>0, <2>1 DEF Works, TypeOK, Load
  <2>6. \A r \in Revoker : Erases(r)' => Erases(r) /\ now' <= revoker[r].deadline
    BY <2>1, <2>3 DEF Erases, InTime
  <2>7. LeaseCovers'
    <3>1. ASSUME NEW c \in Call, Works(c)'
          PROVE  LeaseOf(c)'.holder = c /\ LeaseOf(c)'.expireAt > load'[c].deadline
      <4>1. LeaseOf(c).holder = c /\ LeaseOf(c).expireAt > load[c].deadline
        BY <2>5, <3>1 DEF LeaseInv, LeaseCovers
      <4>2. LeaseOf(c).expireAt \in Nat /\ load[c].deadline \in Nat /\ now' \in Nat
        BY ConstantTypes DEF TypeOK, LeaseOf, Lease, Load
      <4>3. LeaseOf(c)' = LeaseOf(c)
        BY <2>4, <2>5, <3>1, <4>1, <4>2, ConstantTypes DEF LeaseOf
      <4>. QED
        BY <2>1, <4>1, <4>3
    <3>2. ASSUME NEW r \in Revoker, Erases(r)'
          PROVE  RevokerLease(r)'.holder = r /\ RevokerLease(r)'.expireAt > revoker'[r].deadline
      <4>1. RevokerLease(r).holder = r /\ RevokerLease(r).expireAt > revoker[r].deadline
        BY <2>6, <3>2 DEF LeaseInv, LeaseCovers
      <4>2. /\ RevokerLease(r).expireAt \in Nat /\ revoker[r].deadline \in Nat
            /\ now' \in Nat
        BY RevokerStudents DEF TypeOK, RevokerLease, Lease, Revocation
      <4>3. RevokerLease(r)' = RevokerLease(r)
        BY <2>1, <2>4, <2>6, <3>2, <4>1, <4>2, RevokerStudents DEF RevokerLease
      <4>. QED
        BY <2>1, <4>1, <4>3
    <3>. QED
      BY <3>1, <3>2 DEF LeaseCovers
  <2>. QED
    BY <2>2, <2>3, <2>7 DEF LeaseInv
<1>22. CASE UNCHANGED vars
  BY <1>22 DEF vars, LeaseInv, Deadlines, Started, TasksLast, InTime, LeaseCovers,
     Works, LeaseOf, RevokerLease, Erases, RevokerAt
<1>. QED
  BY <1>1, <1>2, <1>3, <1>4, <1>5, <1>6, <1>7, <1>8, <1>9, <1>10, <1>11, <1>12, <1>13,
     <1>14, <1>15, <1>16, <1>17, <1>18, <1>19, <1>20, <1>21, <1>22
     DEF Next, FlightStep, RevokerStep

(* One student's upstream queries and revocations exclude each other.      *)
LEMMA LeaseExcludes == TypeOK /\ LeaseInv => StudentSerialized
<1>. SUFFICES ASSUME TypeOK, LeaseInv, NEW s \in Student PROVE
        /\ \A c, d \in Call : Uses(c, s) /\ Uses(d, s) => c = d
        /\ \A c \in Call, r \in Revoker : ~(Uses(c, s) /\ Erasing(r, s))
        /\ \A r, u \in Revoker : Erasing(r, s) /\ Erasing(u, s) => r = u
  BY DEF StudentSerialized
<1>1. \A c \in Call : Uses(c, s) => studentLease[s].holder = c
  BY DEF Uses, LeaseInv, InTime, LeaseCovers, Works, LeaseOf
<1>2. \A r \in Revoker : Erasing(r, s) => studentLease[s].holder = r
  BY DEF Erasing, Erases, LeaseInv, LeaseCovers, RevokerLease
<1>. QED
  BY <1>1, <1>2, CoordAssumption DEF CoordAssumption

-----------------------------------------------------------------------------
(* The cache and its index.                                                *)

LEMMA CacheInit == Init => CacheInv
  BY DEF Init, CacheInv, IndexCovers, Listed, BornNow, ErasedStaysErased, NoEntry, NoLoad,
     Works, RevokerAt

(* A step that leaves the cache and its index alone.                       *)
LEMMA CacheFrame ==
    ASSUME TypeOK, CacheInv, UNCHANGED <<now, cache, index, deletions>>,
           \A r \in Revoker : revoker'[r].phase = "delete" => revoker'[r] = revoker[r],
           \A c \in Call : load'[c].phase \in {"upstream", "save"} =>
               /\ load[c].phase \in {"upstream", "save"}
               /\ load'[c].deadline = load[c].deadline
               /\ load'[c].born = load[c].born
    PROVE  CacheInv'
<1>1. IndexCovers' /\ ErasedStaysErased'
  BY DEF CacheInv, IndexCovers, ErasedStaysErased
<1>2. Listed'
  BY DEF CacheInv, Listed, RevokerAt
<1>3. BornNow'
  BY DEF CacheInv, BornNow, Works
<1>. QED
  BY <1>1, <1>2, <1>3 DEF CacheInv

(* The same for a flight's move, and for a revocation's.                   *)
LEMMA CacheFlight ==
    ASSUME TypeOK, CacheInv, UNCHANGED <<now, cache, index, deletions, revoker>>,
           NEW c \in Call, NEW P, LoadMoves(c, P),
           \/ P \cap {"upstream", "save"} = {}
           \/ At(c, "upstream") /\ load'[c].born = load[c].born
    PROVE  CacheInv'
  BY CacheFrame DEF LoadMoves

LEMMA CacheRevoker ==
    ASSUME TypeOK, CacheInv, UNCHANGED <<now, cache, index, deletions, load>>,
           NEW r \in Revoker, NEW p \in {"wait", "free", "done"}, RevokerGoes(r, p)
    PROVE  CacheInv'
<1>1. /\ \A u \in Revoker : u # r => revoker'[u] = revoker[u]
      /\ revoker'[r].phase = p
  BY DEF RevokerGoes, TypeOK, Revocation
<1>. QED
  BY <1>1, CacheFrame

LEMMA CacheStep == TypeOK /\ LeaseInv /\ CacheInv /\ TypeOK' /\ [Next]_vars => CacheInv'
<1>. SUFFICES ASSUME TypeOK, LeaseInv, CacheInv, TypeOK', [Next]_vars PROVE CacheInv'
  OBVIOUS
<1>. USE DEF redis
<1>0. now \in Nat /\ Call \cap Revoker = {}
  BY CoordAssumption DEF CoordAssumption, TypeOK
<1>1. ASSUME NEW c \in Call, Start(c) PROVE CacheInv'
  <2>1. \A k \in Call : load'[k] = load[k] \/ load'[k].phase = "poll"
    BY <1>1, StartsIdle DEF Start
  <2>. QED
    BY <1>1, <2>1, CacheFrame DEF Start
<1>2. ASSUME NEW c \in Call, Cancel(c) PROVE CacheInv'
  BY <1>2, CacheFrame DEF Cancel
<1>3. ASSUME NEW c \in Call, Poll(c) PROVE CacheInv'
  BY <1>3, LoadEffects, CacheFlight DEF Poll, LoadPhase
<1>4. ASSUME NEW c \in Call, AcquireQueryLease(c) PROVE CacheInv'
  BY <1>4, LoadEffects, CacheFlight DEF AcquireQueryLease, LoadPhase
<1>5. ASSUME NEW c \in Call, AcquireStudentLease(c) PROVE CacheInv'
  BY <1>5, LoadEffects, CacheFlight DEF AcquireStudentLease, LoadPhase
<1>6. ASSUME NEW c \in Call, AcquirePermit(c) PROVE CacheInv'
  <2>1. CASE GoTo(c, "freeStudent")
    BY <1>6, <2>1, LoadEffects, CacheFlight DEF AcquirePermit, LoadPhase
  <2>2. CASE load' = [load EXCEPT ![c].phase = "upstream",
                                  ![c].born = deletions[OwnStudent(c)]]
    <3>1. /\ load'[c].born = deletions[OwnStudent(c)]
          /\ \A d \in Call : d # c => load'[d] = load[d]
      BY <2>2 DEF TypeOK, Load
    <3>2. UNCHANGED <<now, cache, index, deletions, revoker>>
      BY <1>6 DEF AcquirePermit
    <3>. QED
      BY <3>1, <3>2 DEF CacheInv, IndexCovers, ErasedStaysErased, Listed, RevokerAt, BornNow, Works
  <2>. QED
    BY <1>6, <2>1, <2>2 DEF AcquirePermit
<1>7. ASSUME NEW c \in Call, UpstreamAnswers(c) PROVE CacheInv'
  BY <1>7, LoadEffects, CacheFlight DEF UpstreamAnswers, LoadPhase
<1>8. ASSUME NEW c \in Call, UpstreamFails(c) PROVE CacheInv'
  BY <1>8, LoadEffects, CacheFlight DEF UpstreamFails, LoadPhase
<1>9. ASSUME NEW c \in Call, SaveResult(c) PROVE CacheInv'
  <2>. DEFINE q == QueryOf[c]
              s == OwnStudent(c)
  <2>1. LoadMoves(c, {"freeStudent"}) /\ UNCHANGED <<now, deletions, revoker>>
    BY <1>9, LoadEffects DEF SaveResult, LoadPhase
  <2>2. CASE UNCHANGED <<cache, index>>
    BY <2>1, <2>2, CacheFlight
  <2>3. CASE Alive(c) /\ Save(q, load[c].born)
    <3>1. q \in Query /\ s \in Student /\ FreshTTL[q] \in Nat /\ StaleTTL[q] \in Nat
      BY ConstantTypes, CoordAssumption DEF CoordAssumption
    <3>2. Works(c) /\ At(c, "save")
      BY <1>0, <1>9, <2>3 DEF SaveResult, Alive, Works, TypeOK, Load
    <3>3. load[c].born = deletions[s]
      BY <3>2 DEF CacheInv, BornNow
    <3>4. /\ cache'[q].born = load[c].born
          /\ cache'[q].staleUntil = now + StaleTTL[q]
          /\ \A k \in Query : k # q => cache'[k] = cache[k]
      BY <2>3, <3>1 DEF Save, TypeOK
    <3>5. /\ index'[s].keys = index[s].keys \cup {q}
          /\ index'[s].expireAt >= index[s].expireAt
          /\ index'[s].expireAt >= now + StaleTTL[q]
          /\ \A u \in Student : u # s => index'[u] = index[u]
      <4>1. Indexed(s, q).keys = index[s].keys \cup {q}
        BY DEF Indexed
      <4>2. /\ Indexed(s, q).expireAt >= index[s].expireAt
            /\ Indexed(s, q).expireAt >= now + StaleTTL[q]
        BY <1>0, <3>1 DEF Indexed, Later, TypeOK, Index
      <4>. QED
        BY <2>3, <3>1, <4>1, <4>2 DEF Save, TypeOK
    <3>6. IndexCovers'
      <4>. SUFFICES ASSUME NEW k \in Query, cache'[k].staleUntil > now'
                    PROVE  /\ k \in index'[StudentOf[k]].keys
                           /\ index'[StudentOf[k]].expireAt >= cache'[k].staleUntil
        BY DEF IndexCovers
      <4>1. CASE k = q
        BY <3>4, <3>5, <4>1
      <4>2. CASE k # q
        <5>1. /\ k \in index[StudentOf[k]].keys
              /\ index[StudentOf[k]].expireAt >= cache[k].staleUntil
              /\ cache'[k] = cache[k]
          BY <2>1, <3>4, <4>2 DEF CacheInv, IndexCovers
        <5>2. StudentOf[k] \in Student
          BY CoordAssumption DEF CoordAssumption
        <5>3. index[StudentOf[k]].expireAt \in Nat /\ index'[StudentOf[k]].expireAt \in Nat
                 /\ cache[k].staleUntil \in Nat
          BY <5>2 DEF TypeOK, Index, Entry
        <5>. QED
          BY <3>5, <5>1, <5>2, <5>3
      <4>. QED
        BY <4>1, <4>2
    <3>7. ErasedStaysErased'
      BY <2>1, <3>3, <3>4 DEF CacheInv, ErasedStaysErased
    <3>8. Listed'
      <4>1. \A r \in Revoker : RevokerAt(r, "delete") => revoker[r].student # s
        BY <1>0, <3>2 DEF LeaseInv, LeaseCovers, Erases, RevokerLease, LeaseOf, RevokerAt
      <4>. QED
        BY <2>1, <3>4, <4>1 DEF CacheInv, Listed, RevokerAt
    <3>9. BornNow'
      BY <2>1 DEF CacheInv, BornNow, Works, LoadMoves
    <3>. QED
      BY <3>6, <3>7, <3>8, <3>9 DEF CacheInv
  <2>. QED
    BY <1>9, <2>2, <2>3 DEF SaveResult
<1>10. ASSUME NEW c \in Call, FreeStudentLease(c) PROVE CacheInv'
  BY <1>10, LoadEffects, CacheFlight DEF FreeStudentLease, LoadPhase
<1>11. ASSUME NEW c \in Call, FreeQueryLease(c) PROVE CacheInv'
  BY <1>11, LoadEffects, CacheFlight DEF FreeQueryLease
<1>12. ASSUME NEW r \in Revoker, StartRevocation(r) PROVE CacheInv'
  BY <1>12, CacheRevoker DEF StartRevocation
<1>13. ASSUME NEW r \in Revoker, RevokerAcquires(r) PROVE CacheInv'
  <2>1. CASE RevokerGoes(r, "done")
    BY <1>13, <2>1, CacheRevoker DEF RevokerAcquires
  <2>2. CASE revoker' = [revoker EXCEPT ![r].phase = "list", ![r].deadline = now + RevokeBudget]
    <3>1. \A u \in Revoker : u = r \/ revoker'[u] = revoker[u]
      BY <2>2 DEF TypeOK
    <3>2. revoker'[r].phase = "list"
      BY <2>2 DEF TypeOK, Revocation
    <3>. QED
      BY <1>13, <3>1, <3>2, CacheFrame DEF RevokerAcquires
  <2>. QED
    BY <1>13, <2>1, <2>2 DEF RevokerAcquires
<1>14. ASSUME NEW r \in Revoker, RevokerLists(r) PROVE CacheInv'
  <2>1. CASE RevokerGoes(r, "free")
    BY <1>14, <2>1, CacheRevoker DEF RevokerLists
  <2>2. CASE revoker' = [revoker EXCEPT ![r].phase = "delete",
                                        ![r].keys = index[revoker[r].student].keys]
    <3>1. /\ \A u \in Revoker : u # r => revoker'[u] = revoker[u]
          /\ revoker'[r].student = revoker[r].student
          /\ revoker'[r].keys = index[revoker[r].student].keys
      BY <2>2 DEF TypeOK, Revocation
    <3>2. UNCHANGED <<now, cache, index, deletions, load>>
      BY <1>14 DEF RevokerLists
    <3>3. Listed'
      BY <3>1, <3>2 DEF CacheInv, Listed, IndexCovers, RevokerAt
    <3>. QED
      BY <3>2, <3>3 DEF CacheInv, IndexCovers, ErasedStaysErased, BornNow, Works
  <2>. QED
    BY <1>14, <2>1, <2>2 DEF RevokerLists
<1>15. ASSUME NEW r \in Revoker, RevokerDeletes(r) PROVE CacheInv'
  <2>. DEFINE s == revoker[r].student
  <2>1. UNCHANGED <<now, load>> /\ RevokerAt(r, "delete") /\ RevokerGoes(r, "free")
    BY <1>15 DEF RevokerDeletes
  <2>2. CASE UNCHANGED <<cache, index, deletions>>
    BY <2>1, <2>2, CacheRevoker
  <2>3. CASE Erase(s, revoker[r].keys)
    <3>1. s \in Student
      BY RevokerStudents
    <3>2. /\ \A u \in Revoker : u # r => revoker'[u] = revoker[u]
          /\ revoker'[r].phase = "free"
      BY <2>1 DEF RevokerGoes, TypeOK, Revocation
    <3>3. /\ \A u \in Student : u # s => index'[u] = index[u] /\ deletions'[u] = deletions[u]
          /\ \A k \in Query : cache'[k] = IF k \in revoker[r].keys THEN NoEntry ELSE cache[k]
      BY <2>3, <3>1 DEF Erase, TypeOK
    <3>4. \A k \in Query : cache'[k].staleUntil > now' =>
             cache'[k] = cache[k] /\ cache[k].staleUntil > now /\ StudentOf[k] # s
      BY <1>0, <2>1, <3>3 DEF CacheInv, Listed, NoEntry
    <3>5. \A k \in Query : StudentOf[k] \in Student
      BY CoordAssumption DEF CoordAssumption
    <3>6. IndexCovers' /\ ErasedStaysErased'
      BY <3>3, <3>4, <3>5 DEF CacheInv, IndexCovers, ErasedStaysErased
    <3>7. Listed'
      BY <3>2, <3>4 DEF CacheInv, Listed, RevokerAt
    <3>8. \A c \in Call : Works(c) => OwnStudent(c) # s
      BY <1>0, <2>1 DEF LeaseInv, LeaseCovers, LeaseOf, RevokerLease, Erases, RevokerAt
    <3>9. BornNow'
      BY <2>1, <3>3, <3>8, ConstantTypes DEF CacheInv, BornNow, Works
    <3>. QED
      BY <3>6, <3>7, <3>9 DEF CacheInv
  <2>. QED
    BY <1>15, <2>2, <2>3 DEF RevokerDeletes
<1>16. ASSUME NEW r \in Revoker, RevokerReleases(r) PROVE CacheInv'
  BY <1>16, CacheRevoker DEF RevokerReleases
<1>17. ASSUME NEW r \in Revoker, RevokerCrashes(r) PROVE CacheInv'
  BY <1>17, CacheRevoker DEF RevokerCrashes
<1>18. ASSUME NEW t \in tasks, RunTask(t) PROVE CacheInv'
  BY <1>18, CacheFrame DEF RunTask
<1>19. ASSUME NEW t \in tasks, LoseTask(t) PROVE CacheInv'
  BY <1>19, CacheFrame DEF LoseTask
<1>20. ASSUME NEW i \in Instance, Crash(i) PROVE CacheInv'
  <2>1. \A c \in Call : load'[c] = load[c] \/ load'[c].phase = "none"
    BY <1>20 DEF Crash, NoLoad, TypeOK
  <2>. QED
    BY <1>20, <2>1, CacheFrame DEF Crash
<1>21. ASSUME Tick PROVE CacheInv'
  <2>1. now' = now + 1 /\ UNCHANGED <<deletions, load, revoker>>
    BY <1>21 DEF Tick
  <2>2. \A k \in Query : cache'[k].staleUntil > now' =>
           cache'[k] = cache[k] /\ cache[k].staleUntil > now
    BY <1>0, <1>21, <2>1 DEF Tick, NoEntry, TypeOK, Entry
  <2>3. \A s \in Student : index[s].expireAt > now' => index'[s] = index[s]
    BY <1>21 DEF Tick
  <2>4. IndexCovers'
    <3>. SUFFICES ASSUME NEW k \in Query, cache'[k].staleUntil > now'
                  PROVE  /\ k \in index'[StudentOf[k]].keys
                         /\ index'[StudentOf[k]].expireAt >= cache'[k].staleUntil
      BY DEF IndexCovers
    <3>1. /\ k \in index[StudentOf[k]].keys
          /\ index[StudentOf[k]].expireAt >= cache[k].staleUntil
          /\ cache'[k] = cache[k]
      BY <2>2 DEF CacheInv, IndexCovers
    <3>2. StudentOf[k] \in Student
      BY CoordAssumption DEF CoordAssumption
    <3>3. index[StudentOf[k]].expireAt \in Nat /\ cache[k].staleUntil \in Nat /\ now' \in Nat
      BY <3>2 DEF TypeOK, Index, Entry
    <3>. QED
      BY <2>3, <3>1, <3>2, <3>3
  <2>5. ErasedStaysErased' /\ Listed'
    BY <2>1, <2>2 DEF CacheInv, ErasedStaysErased, Listed, RevokerAt
  <2>6. BornNow'
    BY <1>0, <2>1 DEF CacheInv, BornNow, Works, TypeOK, Load
  <2>. QED
    BY <2>4, <2>5, <2>6 DEF CacheInv
<1>22. CASE UNCHANGED vars
  BY <1>22, CacheFrame DEF vars
<1>. QED
  BY <1>1, <1>2, <1>3, <1>4, <1>5, <1>6, <1>7, <1>8, <1>9, <1>10, <1>11, <1>12, <1>13,
     <1>14, <1>15, <1>16, <1>17, <1>18, <1>19, <1>20, <1>21, <1>22
     DEF Next, FlightStep, RevokerStep

-----------------------------------------------------------------------------
(* Permits.                                                                *)

LEMMA PermitInit == Init => UpstreamBounded
<1>. SUFFICES ASSUME Init, NEW i \in Instance
              PROVE permits[i] = Cardinality(Inside(i)) /\ permits[i] <= MaxConcurrent
  BY DEF UpstreamBounded
<1>1. Inside(i) = {}
  BY DEF Init, Inside, NoLoad
<1>. QED
  BY <1>1, FS_EmptySet, CoordAssumption DEF Init, CoordAssumption

LEMMA InsideFinite ==
    ASSUME NEW i \in Instance
    PROVE  IsFiniteSet(Inside(i)) /\ Cardinality(Inside(i)) \in Nat
  BY CoordAssumption, FS_Subset, FS_CardinalityType DEF CoordAssumption, Inside

(* Nobody enters or leaves the upstream section.                           *)
LEMMA PermitFrame ==
    ASSUME UpstreamBounded, UNCHANGED permits,
           \A c \in Call : load'[c].phase \in {"upstream", "save"}
                              <=> load[c].phase \in {"upstream", "save"}
    PROVE  UpstreamBounded'
<1>1. \A i \in Instance : Inside(i)' = Inside(i)
  BY DEF Inside
<1>. QED
  BY <1>1 DEF UpstreamBounded

LEMMA PermitFlight ==
    ASSUME UpstreamBounded, UNCHANGED permits, NEW c \in Call, NEW P, LoadMoves(c, P),
           load[c].phase \notin {"upstream", "save"}, P \cap {"upstream", "save"} = {}
    PROVE  UpstreamBounded'
  BY PermitFrame DEF LoadMoves

(* One leaves and gives its permit back.                                   *)
LEMMA PermitReturned ==
    ASSUME TypeOK, UpstreamBounded, NEW c \in Call, LoadMoves(c, {"freeStudent"}),
           load[c].phase \in {"upstream", "save"}, ReturnPermit(c)
    PROVE  UpstreamBounded'
<1>. SUFFICES ASSUME NEW i \in Instance
              PROVE permits'[i] = Cardinality(Inside(i)') /\ permits'[i] <= MaxConcurrent
  BY DEF UpstreamBounded
<1>1. permits[i] = Cardinality(Inside(i)) /\ permits[i] <= MaxConcurrent /\ permits[i] \in Nat
  BY DEF UpstreamBounded, TypeOK
<1>2. CASE i = InstanceOf[c]
  <2>1. Inside(i)' = Inside(i) \ {c} /\ c \in Inside(i)
    BY <1>2 DEF Inside, LoadMoves
  <2>2. Cardinality(Inside(i) \ {c}) = Cardinality(Inside(i)) - 1
    BY <2>1, InsideFinite, FS_RemoveElement
  <2>3. permits'[i] = permits[i] - 1
    BY <1>2 DEF ReturnPermit, TypeOK
  <2>. QED
    BY <1>1, <2>1, <2>2, <2>3, CoordAssumption DEF CoordAssumption
<1>3. CASE i # InstanceOf[c]
  <2>1. Inside(i)' = Inside(i)
    BY <1>3 DEF Inside, LoadMoves
  <2>2. permits'[i] = permits[i]
    BY <1>3 DEF ReturnPermit, TypeOK
  <2>. QED
    BY <1>1, <2>1, <2>2
<1>. QED
  BY <1>2, <1>3

LEMMA PermitStep == TypeOK /\ UpstreamBounded /\ [Next]_vars => UpstreamBounded'
<1>. SUFFICES ASSUME TypeOK, UpstreamBounded, [Next]_vars PROVE UpstreamBounded'
  OBVIOUS
<1>1. ASSUME NEW c \in Call, Start(c) PROVE UpstreamBounded'
  <2>1. \A k \in Call : load'[k] = load[k] \/ (At(k, "none") /\ load'[k].phase = "poll")
    BY <1>1, StartsIdle DEF Start
  <2>. QED
    BY <1>1, <2>1, PermitFrame DEF Start
<1>2. ASSUME NEW c \in Call, Cancel(c) PROVE UpstreamBounded'
  BY <1>2, PermitFrame DEF Cancel
<1>3. ASSUME NEW c \in Call, Poll(c) PROVE UpstreamBounded'
  BY <1>3, LoadEffects, PermitFlight DEF Poll, LoadPhase
<1>4. ASSUME NEW c \in Call, AcquireQueryLease(c) PROVE UpstreamBounded'
  BY <1>4, LoadEffects, PermitFlight DEF AcquireQueryLease, LoadPhase
<1>5. ASSUME NEW c \in Call, AcquireStudentLease(c) PROVE UpstreamBounded'
  BY <1>5, LoadEffects, PermitFlight DEF AcquireStudentLease, LoadPhase
<1>6. ASSUME NEW c \in Call, AcquirePermit(c) PROVE UpstreamBounded'
  <2>. DEFINE j == InstanceOf[c]
  <2>1. CASE GoTo(c, "freeStudent") /\ UNCHANGED permits
    BY <1>6, <2>1, LoadEffects, PermitFlight DEF AcquirePermit, LoadPhase
  <2>2. CASE /\ permits[j] < MaxConcurrent
             /\ load' = [load EXCEPT ![c].phase = "upstream",
                                     ![c].born = deletions[OwnStudent(c)]]
             /\ permits' = [permits EXCEPT ![j] = @ + 1]
    <3>1. /\ load'[c].phase = "upstream"
          /\ \A d \in Call : d # c => load'[d] = load[d]
      BY <2>2 DEF TypeOK, Load
    <3>2. SUFFICES ASSUME NEW i \in Instance
                   PROVE permits'[i] = Cardinality(Inside(i)') /\ permits'[i] <= MaxConcurrent
      BY DEF UpstreamBounded
    <3>3. permits[i] = Cardinality(Inside(i)) /\ permits[i] <= MaxConcurrent /\ permits[i] \in Nat
      BY DEF UpstreamBounded, TypeOK
    <3>4. CASE i = j
      <4>1. Inside(i)' = Inside(i) \cup {c} /\ c \notin Inside(i)
        BY <1>6, <3>1, <3>4 DEF Inside, AcquirePermit
      <4>2. Cardinality(Inside(i) \cup {c}) = Cardinality(Inside(i)) + 1
        BY <4>1, InsideFinite, FS_AddElement
      <4>3. permits'[i] = permits[i] + 1
        BY <2>2, <3>4 DEF TypeOK
      <4>. QED
        BY <2>2, <3>3, <3>4, <4>1, <4>2, <4>3, CoordAssumption DEF CoordAssumption
    <3>5. CASE i # j
      <4>1. Inside(i)' = Inside(i)
        BY <3>1, <3>5 DEF Inside
      <4>2. permits'[i] = permits[i]
        BY <2>2, <3>5 DEF TypeOK
      <4>. QED
        BY <3>3, <4>1, <4>2
    <3>. QED
      BY <3>4, <3>5
  <2>. QED
    BY <1>6, <2>1, <2>2 DEF AcquirePermit
<1>7. ASSUME NEW c \in Call, UpstreamAnswers(c) PROVE UpstreamBounded'
  BY <1>7, LoadEffects, PermitFrame DEF UpstreamAnswers, LoadPhase, LoadMoves
<1>8. ASSUME NEW c \in Call, UpstreamFails(c) PROVE UpstreamBounded'
  BY <1>8, LoadEffects, PermitReturned DEF UpstreamFails, LoadPhase
<1>9. ASSUME NEW c \in Call, SaveResult(c) PROVE UpstreamBounded'
  BY <1>9, LoadEffects, PermitReturned DEF SaveResult, LoadPhase
<1>10. ASSUME NEW c \in Call, FreeStudentLease(c) PROVE UpstreamBounded'
  BY <1>10, LoadEffects, PermitFlight DEF FreeStudentLease, LoadPhase
<1>11. ASSUME NEW c \in Call, FreeQueryLease(c) PROVE UpstreamBounded'
  BY <1>11, LoadEffects, PermitFlight DEF FreeQueryLease
<1>12. ASSUME NEW r \in Revoker, StartRevocation(r) \/ RevokerStep(r) \/ RevokerCrashes(r)
       PROVE UpstreamBounded'
  BY <1>12, PermitFrame DEF StartRevocation, RevokerStep, RevokerAcquires, RevokerLists,
     RevokerDeletes, RevokerReleases, RevokerCrashes
<1>13. ASSUME NEW t \in tasks, RunTask(t) \/ LoseTask(t) PROVE UpstreamBounded'
  BY <1>13, PermitFrame DEF RunTask, LoseTask
<1>14. ASSUME NEW i \in Instance, Crash(i) PROVE UpstreamBounded'
  <2>. SUFFICES ASSUME NEW j \in Instance
                PROVE permits'[j] = Cardinality(Inside(j)') /\ permits'[j] <= MaxConcurrent
    BY DEF UpstreamBounded
  <2>1. permits[j] = Cardinality(Inside(j)) /\ permits[j] <= MaxConcurrent
    BY DEF UpstreamBounded
  <2>2. CASE j = i
    <3>1. Inside(j)' = {}
      BY <1>14, <2>2 DEF Crash, Inside, NoLoad, TypeOK
    <3>2. permits'[j] = 0
      BY <1>14, <2>2 DEF Crash, TypeOK
    <3>. QED
      BY <3>1, <3>2, FS_EmptySet, CoordAssumption DEF CoordAssumption
  <2>3. CASE j # i
    <3>1. Inside(j)' = Inside(j)
      BY <1>14, <2>3 DEF Crash, Inside, TypeOK
    <3>2. permits'[j] = permits[j]
      BY <1>14, <2>3 DEF Crash, TypeOK
    <3>. QED
      BY <2>1, <3>1, <3>2
  <2>. QED
    BY <2>2, <2>3
<1>15. ASSUME Tick \/ UNCHANGED vars PROVE UpstreamBounded'
  BY <1>15, PermitFrame DEF Tick, vars
<1>. QED
  BY <1>1, <1>2, <1>3, <1>4, <1>5, <1>6, <1>7, <1>8, <1>9, <1>10, <1>11, <1>12, <1>13,
     <1>14, <1>15 DEF Next, FlightStep

-----------------------------------------------------------------------------
(* The theorems.                                                           *)

(* CoordInv is inductive: leases cover the work done under them, the index *)
(* covers the cache, and permits are accounted for.                        *)
THEOREM CoordInvariant == Spec => []CoordInv
<1>1. Init => CoordInv
  BY TypeInit, LeaseInit, CacheInit, PermitInit DEF CoordInv
<1>2. CoordInv /\ [Next]_vars => CoordInv'
  BY TypeStep, LeaseStep, CacheStep, PermitStep DEF CoordInv
<1>. QED
  BY <1>1, <1>2, PTL DEF Spec

(* Every variable keeps its type; in particular no path of the coordinator *)
(* gives back a permit it does not have.                                   *)
THEOREM CoordTypes == Spec => []TypeOK
<1>1. CoordInv => TypeOK
  BY DEF CoordInv
<1>. QED
  BY <1>1, CoordInvariant, PTL

(* One student's upstream queries and revocations never overlap, whatever  *)
(* crashes, is lost or comes late: waitForStudentLease and the lease TTL.  *)
THEOREM StudentsSerialized == Spec => []StudentSerialized
<1>1. CoordInv => StudentSerialized
  BY LeaseExcludes DEF CoordInv
<1>. QED
  BY <1>1, CoordInvariant, PTL

(* Whatever the operations' cache policies, a readable result is in its    *)
(* student's index for as long as it can be read: saveCacheScript.         *)
THEOREM IndexIsComplete == Spec => []IndexCovers
<1>1. CoordInv => IndexCovers
  BY DEF CoordInv, CacheInv
<1>. QED
  BY <1>1, CoordInvariant, PTL

(* No query in flight restores what DeleteStudent erased.                  *)
THEOREM ErasureIsFinal == Spec => []ErasedStaysErased
<1>1. CoordInv => ErasedStaysErased
  BY DEF CoordInv, CacheInv
<1>. QED
  BY <1>1, CoordInvariant, PTL

(* acquirePermit: the instance's upstream calls stay within MaxConcurrent  *)
(* and no canceled, failed or late call leaks its permit.                  *)
THEOREM PermitsAccounted == Spec => []UpstreamBounded
<1>1. CoordInv => UpstreamBounded
  BY DEF CoordInv
<1>. QED
  BY <1>1, CoordInvariant, PTL

(* A lease that is still running is given up by its holder only - the      *)
(* flight at its release, the revocation at its own, or the bookkeeping    *)
(* task either of them left: releaseLeaseScript frees no successor's lease. *)
THEOREM LeasesAreTheirHolders == Spec => LeaseHeldUntilReleased
<1>1. ASSUME TypeOK, [Next]_vars, NEW s \in Student,
             studentLease[s].expireAt > now', studentLease'[s] # studentLease[s]
      PROVE  LET lease == studentLease[s]
             IN  \/ lease.holder \in Call /\ load[lease.holder].phase = "freeStudent"
                 \/ lease.holder \in Revoker /\ RevokerAt(lease.holder, "free")
                 \/ \E t \in tasks \ tasks' : t.kind = "student" /\ t.owner = lease.holder
  <2>. DEFINE lease == studentLease[s]
  <2>1. now \in Nat /\ lease.expireAt \in Nat /\ DOMAIN studentLease = Student
    BY <1>1 DEF TypeOK, Lease
  <2>2. ASSUME NEW u, NEW v, studentLease' = [studentLease EXCEPT ![u] = v],
               Free(studentLease[u]), now' = now
        PROVE  FALSE
    BY <1>1, <2>1, <2>2 DEF Free
  <2>3. ASSUME NEW u, NEW o, studentLease' = [studentLease EXCEPT ![u] = Released(@, o)]
        PROVE  lease.holder = o
    BY <1>1, <2>1, <2>3 DEF Released
  <2>4. ASSUME NEW c \in Call, AcquireStudentLease(c) PROVE FALSE
    BY <1>1, <2>2, <2>4 DEF AcquireStudentLease
  <2>5. ASSUME NEW c \in Call, FreeStudentLease(c)
        PROVE  lease.holder \in Call /\ load[lease.holder].phase = "freeStudent"
    BY <1>1, <2>3, <2>5 DEF FreeStudentLease
  <2>6. ASSUME NEW r \in Revoker, RevokerAcquires(r) PROVE FALSE
    BY <1>1, <2>2, <2>6 DEF RevokerAcquires
  <2>7. ASSUME NEW r \in Revoker, RevokerReleases(r)
        PROVE  lease.holder \in Revoker /\ RevokerAt(lease.holder, "free")
    BY <1>1, <2>3, <2>7 DEF RevokerReleases
  <2>8. ASSUME NEW t \in tasks, RunTask(t)
        PROVE  \E k \in tasks \ tasks' : k.kind = "student" /\ k.owner = lease.holder
    <3>1. t.kind = "student" /\ lease.holder = t.owner /\ t \in tasks \ tasks'
      BY <1>1, <2>3, <2>8 DEF RunTask
    <3>. QED
      BY <3>1
  <2>9. ~Tick
    BY <1>1, <2>1 DEF Tick, Unexpired
  <2>10. ASSUME NEW c \in Call,
                \/ Start(c) \/ Cancel(c) \/ Poll(c) \/ AcquireQueryLease(c) \/ AcquirePermit(c)
                \/ UpstreamAnswers(c) \/ UpstreamFails(c) \/ SaveResult(c) \/ FreeQueryLease(c)
         PROVE  FALSE
    BY <1>1, <2>10 DEF Start, Cancel, Poll, AcquireQueryLease, AcquirePermit, UpstreamAnswers,
       UpstreamFails, SaveResult, FreeQueryLease, redis
  <2>11. ASSUME NEW r \in Revoker,
                \/ StartRevocation(r) \/ RevokerLists(r) \/ RevokerDeletes(r)
                \/ RevokerCrashes(r)
         PROVE  FALSE
    BY <1>1, <2>11 DEF StartRevocation, RevokerLists, RevokerDeletes, RevokerCrashes, redis
  <2>12. /\ ~\E t \in tasks : LoseTask(t)
         /\ ~\E i \in Instance : Crash(i)
         /\ ~UNCHANGED vars
    BY <1>1 DEF LoseTask, Crash, vars, redis
  <2>. QED
    BY <1>1, <2>4, <2>5, <2>6, <2>7, <2>8, <2>9, <2>10, <2>11, <2>12
       DEF Next, FlightStep, RevokerStep
<1>2. TypeOK /\ [Next]_vars =>
        [\A s \in Student :
            LET lease == studentLease[s]
            IN  lease.expireAt > now' /\ studentLease'[s] # lease =>
                  \/ lease.holder \in Call /\ load[lease.holder].phase = "freeStudent"
                  \/ lease.holder \in Revoker /\ RevokerAt(lease.holder, "free")
                  \/ \E t \in tasks \ tasks' : t.kind = "student" /\ t.owner = lease.holder]_vars
  BY <1>1
<1>. QED
  BY <1>2, CoordTypes, PTL DEF Spec, LeaseHeldUntilReleased
=============================================================================
