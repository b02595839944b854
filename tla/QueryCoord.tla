----------------------------- MODULE QueryCoord -----------------------------
(***************************************************************************)
(* The query coordinator (querycoord/coordinator.go, querycoord/store.go): *)
(* what happens between ListX and the upstream.  Callers of one instance   *)
(* are coalesced by singleflight; the leader of a flight polls the shared  *)
(* result cache and takes the query lease, then the student lease, then a  *)
(* local permit, calls the upstream, saves the result and releases in      *)
(* reverse order.  DeleteStudent takes the same student lease and erases   *)
(* every indexed result of the student.                                    *)
(*                                                                         *)
(* Leases, cache, index and failure markers live in Redis; one action      *)
(* writes by one Redis command or script, so that every interleaving of    *)
(* instances is explored.  The circuit breaker (module QueryCircuit) and the token      *)
(* bucket answer nondeterministically here.  A Redis command may fail      *)
(* without effect, or take effect and lose its reply; it has no effect     *)
(* once the context it was issued under is over.  That a caller is         *)
(* answered is kept, what it is answered is not.                           *)
(***************************************************************************)
EXTENDS Integers, FiniteSets

CONSTANTS
    Call, Revoker,       \* calls of execute and of DeleteStudent, each run once
    Instance, Query, Student,
    InstanceOf,          \* [Call -> Instance]
    QueryOf,             \* [Call -> Query]: the result digest
    StudentOf,           \* [Query -> Student]
    Nobody,
    CacheMode,           \* [Instance -> mode]: a change of mode is rolled out
    FreshTTL, StaleTTL,  \* [Query -> Nat]: the operation's cache policy
    Timeout, StaleRefreshTimeout, LeaseTTL, RetryAfter,
    RevokeBudget,        \* time DeleteStudent's two commands take under its lease
    TaskTimeout,         \* a bookkeeping goroutine's own time limit
    MaxConcurrent, BookkeepingSlots,
    LastStart, MaxTime   \* bounds: last start of a call, end of the clock

ASSUME CoordAssumption ==
    /\ IsFiniteSet(Call)
    /\ InstanceOf \in [Call -> Instance]
    /\ QueryOf \in [Call -> Query]
    /\ StudentOf \in [Query -> Student]
    /\ Nobody \notin Call \cup Revoker
    /\ Call \cap Revoker = {}
    /\ CacheMode \in [Instance -> {"normal", "no_stale", "force_upstream"}]
    /\ Timeout \in Nat \ {0}
    /\ StaleRefreshTimeout \in Nat \ {0}
    /\ LeaseTTL \in Nat /\ LeaseTTL > Timeout /\ LeaseTTL > StaleRefreshTimeout
    /\ FreshTTL \in [Query -> Nat \ {0}]
    /\ StaleTTL \in [Query -> Nat] /\ \A q \in Query : StaleTTL[q] > FreshTTL[q]
    /\ RetryAfter \in Nat \ {0}
    /\ RevokeBudget \in Nat /\ RevokeBudget < LeaseTTL
    /\ TaskTimeout \in Nat \ {0}
    /\ MaxConcurrent \in Nat \ {0}
    /\ BookkeepingSlots \in Nat
    /\ LastStart \in Nat /\ MaxTime \in Nat

VARIABLES
    now,
    cache,       \* result keys
    index,       \* per-student set of result keys, with its TTL
    queryLease, studentLease,
    marker,      \* failure markers: the instant each expires
    caller,      \* the caller's side of execute
    load,        \* the flight a caller leads
    permits,     \* permits taken on each instance
    revoker,     \* DeleteStudent calls
    tasks,       \* detached bookkeeping
    deletions    \* how often a student's results were erased (history)

redis == <<cache, index, queryLease, studentLease, marker, deletions>>
vars == <<now, cache, index, queryLease, studentLease, marker, caller, load,
          permits, revoker, tasks, deletions>>

Owner == Call \cup Revoker
Normal(c) == CacheMode[InstanceOf[c]] = "normal"
Forced(c) == CacheMode[InstanceOf[c]] = "force_upstream"
OwnStudent(c) == StudentOf[QueryOf[c]]

LoadPhase == {"none", "poll", "lease", "student", "permit", "upstream", "save",
              "freeStudent", "freeQuery"}

NoEntry == [freshUntil |-> 0, staleUntil |-> 0, born |-> 0]
NoIndex == [keys |-> {}, expireAt |-> 0]
NoLease == [holder |-> Nobody, expireAt |-> 0]
NoLoad == [phase |-> "none", deadline |-> 0, born |-> 0]

Entry == [freshUntil : Nat, staleUntil : Nat, born : Nat]
Index == [keys : SUBSET Query, expireAt : Nat]
Lease == [holder : Owner \cup {Nobody}, expireAt : Nat]
Load == [phase : LoadPhase, deadline : Nat, born : Nat]
Revocation == [phase : {"idle", "wait", "list", "delete", "free", "done"},
               student : Student, keys : SUBSET Query, deadline : Nat]
Task == [kind : {"student", "query", "marker"}, owner : Owner,
         student : Student, at : Nat]

TypeOK ==
    /\ now \in Nat
    /\ cache \in [Query -> Entry]
    /\ index \in [Student -> Index]
    /\ queryLease \in [Query -> Lease]
    /\ studentLease \in [Student -> Lease]
    /\ marker \in [Query -> Nat]
    /\ caller \in [Call -> {"idle", "waiting", "done"}]
    /\ load \in [Call -> Load]
    /\ permits \in [Instance -> Nat]
    /\ revoker \in [Revoker -> Revocation]
    /\ tasks \in SUBSET Task
    /\ deletions \in [Student -> Nat]

Init ==
    /\ now = 1
    /\ cache = [q \in Query |-> NoEntry]
    /\ index = [s \in Student |-> NoIndex]
    /\ queryLease = [q \in Query |-> NoLease]
    /\ studentLease = [s \in Student |-> NoLease]
    /\ marker = [q \in Query |-> 0]
    /\ caller = [c \in Call |-> "idle"]
    /\ load = [c \in Call |-> NoLoad]
    /\ permits = [i \in Instance |-> 0]
    /\ revoker \in [Revoker -> [phase : {"idle"}, student : Student,
                                keys : {{}}, deadline : {0}]]
    /\ tasks = {}
    /\ deletions = [s \in Student |-> 0]

-----------------------------------------------------------------------------
(* Redis values.                                                           *)

Fresh(q) == cache[q].freshUntil > now
Stale(q) == cache[q].staleUntil > now /\ ~Fresh(q)
Free(lease) == lease.expireAt <= now
TakenBriefly(owner) == [holder |-> owner, expireAt |-> now + TaskTimeout]
TakenForever(owner) == [holder |-> owner, expireAt |-> MaxTime + LeaseTTL]
Taken(owner) == [holder |-> owner, expireAt |-> now + LeaseTTL]

(* releaseLeaseScript: a key is deleted only by the token it holds.        *)
ReleasedByAnyone(lease, owner) == NoLease
Released(lease, owner) == IF lease.holder = owner THEN NoLease ELSE lease

Later(a, b) == IF a > b THEN a ELSE b

(* saveCacheScript: SET PX, SADD, and the index's TTL only ever extended.  *)
LastWriterTTL(s, q) == [keys |-> index[s].keys \cup {q}, expireAt |-> now + StaleTTL[q]]
Indexed(s, q) ==
    [keys |-> index[s].keys \cup {q}, expireAt |-> Later(index[s].expireAt, now + StaleTTL[q])]
Save(q, born) ==
    /\ cache' = [cache EXCEPT ![q] = [freshUntil |-> now + FreshTTL[q],
                                      staleUntil |-> now + StaleTTL[q],
                                      born |-> born]]
    /\ index' = [index EXCEPT ![StudentOf[q]] = Indexed(StudentOf[q], q)]

(* deleteStudent's transaction: the listed keys and the index.             *)
EraseFreshOnly(s, keys) ==
    LET gone == {q \in keys : Fresh(q)}
    IN  /\ cache' = [q \in Query |-> IF q \in gone THEN NoEntry ELSE cache[q]]
        /\ index' = [index EXCEPT ![s].keys = @ \ gone]
        /\ deletions' = [deletions EXCEPT ![s] = @ + 1]
Erase(s, keys) ==
    /\ cache' = [q \in Query |-> IF q \in keys THEN NoEntry ELSE cache[q]]
    /\ index' = [index EXCEPT ![s] = NoIndex]
    /\ deletions' = [deletions EXCEPT ![s] = @ + 1]

(* enqueueBookkeeping: dropped when every slot is taken.                   *)
InstanceTasks(i) == {t \in tasks : t.owner \in Call /\ InstanceOf[t.owner] = i}
Enqueue(c, kind) ==
    tasks' = IF Cardinality(InstanceTasks(InstanceOf[c])) < BookkeepingSlots
             THEN tasks \cup {[kind |-> kind, owner |-> c, student |-> OwnStudent(c),
                               at |-> now]}
             ELSE tasks

-----------------------------------------------------------------------------
(* The caller's side of execute.                                           *)

At(c, phase) == load[c].phase = phase

(* Callers of one query on one instance share a flight; forcing the        *)
(* upstream gives each its own.                                            *)
SameFlight(c, k) ==
    c = k \/ (~Forced(c) /\ InstanceOf[c] = InstanceOf[k] /\ QueryOf[c] = QueryOf[k])
InFlight(c) == \E k \in Call : SameFlight(c, k) /\ ~At(k, "none")

(* The operation's timeout, or the shorter one of a refresh when a stale    *)
(* entry was read.                                                         *)
OperationTimeouts(c) ==
    {Timeout} \cup (IF Stale(QueryOf[c]) /\ Normal(c) THEN {StaleRefreshTimeout} ELSE {})

Begun(deadline) == [NoLoad EXCEPT !.phase = "poll", !.deadline = deadline]

(* The first cache read, a miss when it fails: a fresh result is returned. *)
(* Otherwise DoChan joins the flight or leads one, whose context has what  *)
(* is left of the caller's deadline or of the operation's timeout.         *)
Start(c) ==
    /\ caller[c] = "idle"
    /\ now <= LastStart
    /\ \/ /\ Fresh(QueryOf[c]) /\ ~Forced(c)
          /\ caller' = [caller EXCEPT ![c] = "done"]
          /\ UNCHANGED load
       \/ /\ caller' = [caller EXCEPT ![c] = "waiting"]
          /\ \/ InFlight(c) /\ UNCHANGED load
             \/ /\ ~InFlight(c)
                /\ \E timeout \in OperationTimeouts(c) : \E left \in 1..timeout :
                      load' = [load EXCEPT ![c] = Begun(now + left)]
    /\ UNCHANGED <<now, redis, permits, revoker, tasks>>

(* The caller's own context ends first; the flight goes on without it.     *)
Cancel(c) ==
    /\ caller[c] = "waiting"
    /\ caller' = [caller EXCEPT ![c] = "done"]
    /\ UNCHANGED <<now, redis, load, permits, revoker, tasks>>

(* The flight returns: every caller still waiting for it is answered.      *)
AnswerLeaderOnly(c) ==
    /\ caller' = [caller EXCEPT ![c] = "done"]
    /\ load' = [load EXCEPT ![c] = NoLoad]
Answer(c) ==
    /\ caller' = [k \in Call |-> IF caller[k] = "waiting" /\ SameFlight(c, k)
                                THEN "done" ELSE caller[k]]
    /\ load' = [load EXCEPT ![c] = NoLoad]

-----------------------------------------------------------------------------
(* The flight: loadDistributed, then loadAsLeader.                         *)

Alive(c) == now < load[c].deadline
GoTo(c, phase) == load' = [load EXCEPT ![c].phase = phase]
ReturnPermitTwice(c) == permits' = [permits EXCEPT ![InstanceOf[c]] = @ - 2]
KeepPermit(c) == UNCHANGED permits
ReturnPermit(c) == permits' = [permits EXCEPT ![InstanceOf[c]] = @ - 1]

(* One turn of loadDistributed's reads.  A fresh result, an open circuit, a *)
(* live failure marker, and a circuit or marker that cannot be read, end   *)
(* the flight; an unreadable cache is a miss.                              *)
Poll(c) ==
    /\ At(c, "poll")
    /\ \/ Answer(c)
       \/ /\ Alive(c)
          /\ Forced(c) \/ marker[QueryOf[c]] <= now
          /\ GoTo(c, "lease")
          /\ UNCHANGED caller
    /\ UNCHANGED <<now, redis, permits, revoker, tasks>>

AcquireQueryLease(c) ==
    LET q == QueryOf[c]
    IN  /\ At(c, "lease")
        /\ \/ /\ Alive(c) /\ Free(queryLease[q])
              /\ queryLease' = [queryLease EXCEPT ![q] = Taken(c)]
              /\ \/ GoTo(c, "student") /\ UNCHANGED caller
                 \/ Answer(c)    \* the reply was lost
           \/ /\ ~Free(queryLease[q])         \* wait for the next tick
              /\ GoTo(c, "poll")
              /\ UNCHANGED <<queryLease, caller>>
           \/ Answer(c) /\ UNCHANGED queryLease
        /\ UNCHANGED <<now, cache, index, studentLease, marker, deletions,
                       permits, revoker, tasks>>

(* waitForStudentLease; a held lease is tried again until the context ends. *)
AcquireStudentLease(c) ==
    LET s == OwnStudent(c)
    IN  /\ At(c, "student")
        /\ \/ /\ Alive(c) /\ Free(studentLease[s])
              /\ studentLease' = [studentLease EXCEPT ![s] = Taken(c)]
              /\ \/ GoTo(c, "permit")
                 \/ GoTo(c, "freeQuery")
           \/ /\ GoTo(c, "freeQuery")
              /\ UNCHANGED studentLease
        /\ UNCHANGED <<now, cache, index, queryLease, marker, deletions,
                       caller, permits, revoker, tasks>>

(* The second cache read and the circuit check with the leader's token end *)
(* the flight or lead to the permit and the token bucket.  A rejection     *)
(* there leaves a failure marker.                                          *)
MarkFailure(c) ==
    \/ Alive(c) /\ marker' = [marker EXCEPT ![QueryOf[c]] = now + RetryAfter]
    \/ UNCHANGED marker
AcquirePermit(c) ==
    LET i == InstanceOf[c]
    IN  /\ At(c, "permit")
        /\ \/ /\ GoTo(c, "freeStudent")
              /\ UNCHANGED <<permits, marker>>
           \/ /\ Alive(c) /\ permits[i] < MaxConcurrent
              /\ Forced(c) \/ cache[QueryOf[c]].freshUntil <= now
              /\ \/ /\ load' = [load EXCEPT ![c].phase = "upstream",
                                            ![c].born = deletions[OwnStudent(c)]]
                    /\ permits' = [permits EXCEPT ![i] = @ + 1]
                    /\ UNCHANGED marker
                 \/ /\ GoTo(c, "freeStudent")
                    /\ MarkFailure(c)
                    /\ UNCHANGED permits
        /\ UNCHANGED <<now, cache, index, queryLease, studentLease, deletions,
                       caller, revoker, tasks>>

(* The upstream call ends: an answer, an error worth a failure marker, a   *)
(* deadline (whose marker is left to bookkeeping), or any other error.     *)
UpstreamAnswers(c) ==
    /\ At(c, "upstream")
    /\ GoTo(c, "save")
    /\ UNCHANGED <<now, redis, caller, permits, revoker, tasks>>
UpstreamFails(c) ==
    /\ At(c, "upstream")
    /\ \/ MarkFailure(c) /\ UNCHANGED tasks
       \/ Enqueue(c, "marker") /\ UNCHANGED marker
    /\ GoTo(c, "freeStudent")
    /\ ReturnPermit(c)
    /\ UNCHANGED <<now, cache, index, queryLease, studentLease, deletions, caller, revoker>>

(* A failed cache write is only logged.                                    *)
SaveResult(c) ==
    /\ At(c, "save")
    /\ \/ Alive(c) /\ Save(QueryOf[c], load[c].born)
       \/ UNCHANGED <<cache, index>>
    /\ GoTo(c, "freeStudent")
    /\ ReturnPermit(c)
    /\ UNCHANGED <<now, queryLease, studentLease, marker, deletions, caller,
                   revoker, tasks>>

(* The deferred releases.  A release that failed for want of time goes to  *)
(* bookkeeping; one that failed otherwise leaves the lease to its TTL.     *)
FreeStudentLease(c) ==
    LET s == OwnStudent(c)
    IN  /\ At(c, "freeStudent")
        /\ \/ /\ Alive(c)
              /\ studentLease' = [studentLease EXCEPT ![s] = Released(@, c)]
              /\ Enqueue(c, "student") \/ UNCHANGED tasks
           \/ /\ UNCHANGED studentLease
              /\ Enqueue(c, "student") \/ (Alive(c) /\ UNCHANGED tasks)
        /\ GoTo(c, "freeQuery")
        /\ UNCHANGED <<now, cache, index, queryLease, marker, deletions,
                       caller, permits, revoker>>

FreeQueryLease(c) ==
    LET q == QueryOf[c]
    IN  /\ At(c, "freeQuery")
        /\ \/ /\ Alive(c)
              /\ queryLease' = [queryLease EXCEPT ![q] = Released(@, c)]
              /\ Enqueue(c, "query") \/ UNCHANGED tasks
           \/ /\ UNCHANGED queryLease
              /\ Enqueue(c, "query") \/ (Alive(c) /\ UNCHANGED tasks)
        /\ Answer(c)
        /\ UNCHANGED <<now, cache, index, studentLease, marker, deletions,
                       permits, revoker>>

-----------------------------------------------------------------------------
(* Detached bookkeeping.                                                   *)

RunTask(t) ==
    /\ tasks' = tasks \ {t}
    /\ \/ /\ t.kind = "student"
          /\ studentLease' = [studentLease EXCEPT ![t.student] = Released(@, t.owner)]
          /\ UNCHANGED <<queryLease, marker>>
       \/ /\ t.kind = "query"
          /\ queryLease' = [queryLease EXCEPT ![QueryOf[t.owner]] = Released(@, t.owner)]
          /\ UNCHANGED <<studentLease, marker>>
       \/ /\ t.kind = "marker"
          /\ marker' = [marker EXCEPT ![QueryOf[t.owner]] = now + RetryAfter]
          /\ UNCHANGED <<queryLease, studentLease>>
    /\ UNCHANGED <<now, cache, index, deletions, caller, load, permits, revoker>>

(* The task's Redis command fails or its second is over.                   *)
LoseTask(t) ==
    /\ tasks' = tasks \ {t}
    /\ UNCHANGED <<now, redis, caller, load, permits, revoker>>

-----------------------------------------------------------------------------
(* DeleteStudent.                                                          *)

RevokerAt(r, phase) == revoker[r].phase = phase
RevokerGoes(r, phase) ==
    revoker' = [revoker EXCEPT ![r] = [@ EXCEPT !.phase = phase, !.keys = {}, !.deadline = 0]]

StartRevocation(r) ==
    /\ RevokerAt(r, "idle")
    /\ now <= LastStart
    /\ RevokerGoes(r, "wait")
    /\ UNCHANGED <<now, redis, caller, load, permits, tasks>>

(* The lease is tried until it is free or the caller's context ends.       *)
RevokerAcquires(r) ==
    LET s == revoker[r].student
    IN  /\ RevokerAt(r, "wait")
        /\ \/ /\ Free(studentLease[s])
              /\ studentLease' = [studentLease EXCEPT ![s] = Taken(r)]
              /\ \/ revoker' = [revoker EXCEPT ![r].phase = "list",
                                               ![r].deadline = now + RevokeBudget]
                 \/ RevokerGoes(r, "done")
           \/ RevokerGoes(r, "done") /\ UNCHANGED studentLease
        /\ UNCHANGED <<now, cache, index, queryLease, marker, deletions,
                       caller, load, permits, tasks>>

(* SMEMBERS.                                                               *)
RevokerLists(r) ==
    /\ RevokerAt(r, "list")
    /\ \/ revoker' = [revoker EXCEPT ![r].phase = "delete",
                                     ![r].keys = index[revoker[r].student].keys]
       \/ RevokerGoes(r, "free")
    /\ UNCHANGED <<now, redis, caller, load, permits, tasks>>

(* MULTI, DEL keys, DEL index, EXEC.                                       *)
RevokerDeletes(r) ==
    /\ RevokerAt(r, "delete")
    /\ \/ Erase(revoker[r].student, revoker[r].keys)
       \/ UNCHANGED <<cache, index, deletions>>
    /\ RevokerGoes(r, "free")
    /\ UNCHANGED <<now, queryLease, studentLease, marker, caller, load,
                   permits, tasks>>

(* The deferred release: applied, lost, or left to bookkeeping.            *)
RevokerReleases(r) ==
    LET s == revoker[r].student
    IN  /\ RevokerAt(r, "free")
        /\ \/ studentLease' = [studentLease EXCEPT ![s] = Released(@, r)]
           \/ UNCHANGED studentLease
        /\ \/ UNCHANGED tasks
           \/ tasks' = tasks \cup {[kind |-> "student", owner |-> r, student |-> s, at |-> now]}
        /\ RevokerGoes(r, "done")
        /\ UNCHANGED <<now, cache, index, queryLease, marker, deletions,
                       caller, load, permits>>

-----------------------------------------------------------------------------
(* Crashes and time.                                                       *)

(* An instance restarts: its calls, flights and tasks are gone, its leases *)
(* stay in Redis until their TTL.                                          *)
Crash(i) ==
    /\ \E c \in Call : InstanceOf[c] = i /\ load[c].phase # "none"
    /\ caller' = [c \in Call |-> IF InstanceOf[c] = i /\ caller[c] = "waiting"
                                THEN "done" ELSE caller[c]]
    /\ load' = [c \in Call |-> IF InstanceOf[c] = i THEN NoLoad ELSE load[c]]
    /\ permits' = [permits EXCEPT ![i] = 0]
    /\ tasks' = tasks \ InstanceTasks(i)
    /\ UNCHANGED <<now, redis, revoker>>

RevokerCrashes(r) ==
    /\ revoker[r].phase \in {"list", "delete", "free"}
    /\ RevokerGoes(r, "done")
    /\ UNCHANGED <<now, redis, caller, load, permits, tasks>>

(* Time passes and Redis drops what has expired.  The upstream call ends   *)
(* by its context's deadline, DeleteStudent's commands within their        *)
(* budget, a task within its own limit.                                    *)
Unexpired(lease) == IF lease.expireAt > now' THEN lease ELSE NoLease
Tick ==
    /\ now < MaxTime
    /\ \A c \in Call : At(c, "upstream") => now < load[c].deadline
    /\ \A r \in Revoker : revoker[r].phase \in {"list", "delete"} => now < revoker[r].deadline
    /\ \A t \in tasks : now < t.at + TaskTimeout
    /\ now' = now + 1
    /\ cache' = [q \in Query |-> IF cache[q].staleUntil > now' THEN cache[q] ELSE NoEntry]
    /\ index' = [s \in Student |-> IF index[s].expireAt > now' THEN index[s] ELSE NoIndex]
    /\ queryLease' = [q \in Query |-> Unexpired(queryLease[q])]
    /\ studentLease' = [s \in Student |-> Unexpired(studentLease[s])]
    /\ marker' = [q \in Query |-> IF marker[q] > now' THEN marker[q] ELSE 0]
    /\ UNCHANGED <<deletions, caller, load, permits, revoker, tasks>>

FlightStep(c) ==
    \/ Poll(c) \/ AcquireQueryLease(c) \/ AcquireStudentLease(c) \/ AcquirePermit(c)
    \/ UpstreamAnswers(c) \/ UpstreamFails(c) \/ SaveResult(c)
    \/ FreeStudentLease(c) \/ FreeQueryLease(c)

RevokerStep(r) ==
    RevokerAcquires(r) \/ RevokerLists(r) \/ RevokerDeletes(r) \/ RevokerReleases(r)

Next ==
    \/ \E c \in Call : Start(c) \/ Cancel(c) \/ FlightStep(c)
    \/ \E r \in Revoker : StartRevocation(r) \/ RevokerStep(r) \/ RevokerCrashes(r)
    \/ \E t \in tasks : RunTask(t) \/ LoseTask(t)
    \/ \E i \in Instance : Crash(i)
    \/ Tick

Spec == Init /\ [][Next]_vars

(* The Go scheduler runs every flight and every revocation, a task runs or *)
(* dies with its second, and time passes.  Nothing is assumed of callers   *)
(* starting or leaving, or of crashes.                                     *)
Fairness ==
    /\ \A c \in Call : WF_vars(FlightStep(c))
    /\ WF_vars(\E t \in tasks : RunTask(t) \/ LoseTask(t))
    /\ \A r \in Revoker : WF_vars(RevokerStep(r))
    /\ WF_vars(Tick)

FairSpec == Spec /\ Fairness

-----------------------------------------------------------------------------
(* Properties.                                                             *)

Inside(i) == {c \in Call : InstanceOf[c] = i /\ load[c].phase \in {"upstream", "save"}}
Uses(c, s) == At(c, "upstream") /\ OwnStudent(c) = s
Erasing(r, s) == revoker[r].phase \in {"list", "delete"} /\ revoker[r].student = s

(* One student's upstream queries are serialized across operations,        *)
(* credentials and instances, and never overlap a revocation               *)
(* (TestDifferentOperationsForOneStudentAreSerialized,                     *)
(* TestDeleteStudentWaitsForInFlightQuery).                                *)
StudentSerialized ==
    \A s \in Student :
        /\ \A c, d \in Call : Uses(c, s) /\ Uses(d, s) => c = d
        /\ \A c \in Call, r \in Revoker : ~(Uses(c, s) /\ Erasing(r, s))
        /\ \A r, u \in Revoker : Erasing(r, s) /\ Erasing(u, s) => r = u

(* Every cached result that can still be read is in its student's index,   *)
(* and the index lives at least as long: DeleteStudent can find it         *)
(* (TestStudentIndexTTLNeverShortensBelowResultLifetime).                  *)
IndexCovers ==
    \A q \in Query :
        cache[q].staleUntil > now =>
            /\ q \in index[StudentOf[q]].keys
            /\ index[StudentOf[q]].expireAt >= cache[q].staleUntil

(* No cached result was fetched from the upstream before the last deletion *)
(* of its student: a query in flight cannot restore what was erased.       *)
ErasedStaysErased ==
    \A q \in Query :
        cache[q].staleUntil > now => cache[q].born = deletions[StudentOf[q]]

(* A lease that has not expired is given up by its own holder only, so a   *)
(* late release or a late bookkeeping task never frees a successor's lease. *)
LeaseHeldUntilReleased ==
    [][\A s \in Student :
          LET lease == studentLease[s]
          IN  lease.expireAt > now' /\ studentLease'[s] # lease =>
                \/ lease.holder \in Call /\ load[lease.holder].phase = "freeStudent"
                \/ lease.holder \in Revoker /\ RevokerAt(lease.holder, "free")
                \/ \E t \in tasks \ tasks' : t.kind = "student" /\ t.owner = lease.holder]_vars

(* Permits are held by exactly the calls inside an instance's upstream     *)
(* section, never more than MaxConcurrent: a canceled caller leaves its    *)
(* flight inside the bound and no path leaks a permit                      *)
(* (TestCanceledCallKeepsDetachedLeaderInsideConcurrencyBound).            *)
UpstreamBounded ==
    \A i \in Instance :
        /\ permits[i] = Cardinality(Inside(i))
        /\ permits[i] <= MaxConcurrent

(* Every call that waits for a flight is answered.                         *)
CallsAnswered == \A c \in Call : caller[c] = "waiting" ~> caller[c] = "done"

(* No student stays locked: a lease whose holder crashed, or whose release *)
(* or acquisition reply was lost, is given up all the same.                *)
NoLeaseStuck ==
    \A s \in Student, o \in Owner :
        studentLease[s].holder = o /\ now <= LastStart ~> studentLease[s].holder # o
=============================================================================
