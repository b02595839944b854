---------------------------- MODULE QueryCircuit ----------------------------
(***************************************************************************)
(* The distributed circuit breaker of the query coordinator                *)
(* (querycoord/store.go, querycoord/coordinator.go).  Every provider       *)
(* instance shares one Redis hash per (operation, education level) and two *)
(* sorted sets, of samples and of deadlines; five Lua scripts read and     *)
(* change them atomically.  A leader is one execution of loadAsLeader: it  *)
(* is admitted by circuitStateScript, calls the upstream, and reports      *)
(* success (resetCircuitScript), a deadline (recordDeadlineScript, always  *)
(* from a detached bookkeeping goroutine) or gives its half-open probe     *)
(* back (releaseCircuitProbeScript).                                       *)
(*                                                                         *)
(* Abstractions.  Redis time and the instances' clocks are one clock.      *)
(* latest_success_at is written and never read by a decision, so it is     *)
(* left out.  A sorted-set member is <<instant, n>>, n telling apart the   *)
(* members of one instant (sample_sequence in the code).  The TTLs of the  *)
(* two sorted sets are at least as long as the windows that prune them     *)
(* before each use and are therefore not observable.                       *)
(***************************************************************************)
EXTENDS Integers, FiniteSets

CONSTANTS
    Leader,          \* leader executions; a leader is its own query lease token
    NoToken,         \* the empty probe token
    Timeout,         \* longest operation timeout
    TaskTimeout,     \* the bookkeeping goroutine's own time limit
    OpenDuration, Window, HardWindow,
    MinSamples, MinDeadlines, RatioMilli, HardLimit,
    PreserveSamples, \* CircuitMinimumSamples > 0, in the configurations deployed
    MaxTime,         \* bound: the clock stops here
    MaxSamples       \* bound: no admission while this many samples are kept

ASSUME CircuitAssumption ==
    /\ NoToken \notin Leader
    /\ Timeout \in Nat \ {0} /\ TaskTimeout \in Nat \ {0}
    /\ OpenDuration \in Nat \ {0}
    /\ Window \in Nat \ {0} /\ HardWindow \in Nat \ {0}
    /\ MinSamples \in Nat /\ MinDeadlines \in Nat /\ RatioMilli \in Nat
    /\ HardLimit \in Nat
    /\ PreserveSamples \subseteq BOOLEAN
    /\ MaxTime \in Nat /\ MaxSamples \in Nat

VARIABLES
    now,          \* Redis TIME
    circuit,      \* the Redis hash; 0 stands for an absent field
    samples,      \* KEYS[2]
    deadlines,    \* KEYS[3]
    leader,       \* what each leader is doing
    bookkeeping   \* detached tasks that have not run yet

vars == <<now, circuit, samples, deadlines, leader, bookkeeping>>
redis == <<circuit, samples, deadlines>>

LongWindow == IF Window > HardWindow THEN Window ELSE HardWindow
EventTTL == LongWindow + OpenDuration
Later(a, b) == IF a > b THEN a ELSE b

Event == (Nat \ {0}) \X Nat
Task == [kind : {"deadline", "reset", "release"}, token : Leader, at : Nat, probe : BOOLEAN]
Phase == {"idle", "flight", "exit"}

NoCircuit == [openUntil |-> 0, probeToken |-> NoToken, probeUntil |-> 0,
              lastFailureAt |-> 0, expireAt |-> 0]

TypeOK ==
    /\ now \in Nat \ {0}
    /\ circuit \in [openUntil : Nat, probeToken : Leader \cup {NoToken},
                    probeUntil : Nat, lastFailureAt : Nat, expireAt : Nat]
    /\ samples \in SUBSET Event /\ IsFiniteSet(samples)
    /\ deadlines \in SUBSET Event /\ IsFiniteSet(deadlines)
    /\ leader \in [Leader -> [phase : Phase, probe : BOOLEAN,
                              admittedAt : Nat, deadline : Nat]]
    /\ bookkeeping \in SUBSET Task

Init ==
    /\ now = 1
    /\ circuit = NoCircuit
    /\ samples = {}
    /\ deadlines = {}
    /\ leader = [l \in Leader |-> [phase |-> "idle", probe |-> FALSE,
                                   admittedAt |-> 0, deadline |-> 0]]
    /\ bookkeeping = {}

-----------------------------------------------------------------------------
(* The hash and the sorted sets.                                           *)

OpenEndsEarly == circuit.openUntil > now + 1
Open == circuit.openUntil > now
ProbeLive == circuit.probeToken # NoToken /\ circuit.probeUntil > now
OwnsProbe(token) == token # NoToken /\ circuit.probeToken = token

WithoutProbe(c) == [c EXCEPT !.probeToken = NoToken, !.probeUntil = 0]
OpenedKeepingProbe(c, ttl) == [c EXCEPT !.openUntil = now + OpenDuration,
                                        !.expireAt = now + ttl]
Opened(c, ttl) == [WithoutProbe(c) EXCEPT !.openUntil = now + OpenDuration,
                                          !.expireAt = now + ttl]
ExtendTTL(c, ttl) == [c EXCEPT !.expireAt = Later(@, now + ttl)]

After(zset, instant) == {e \in zset : e[1] > instant}
NoOlder(zset, instant) == {e \in zset : e[1] >= instant}
Add(zset) == zset \cup {<<now, Cardinality(NoOlder(zset, now))>>}

Tripped(s, d) ==
    \/ Cardinality(NoOlder(d, now - HardWindow)) >= HardLimit
    \/ LET all == Cardinality(s)
           late == Cardinality(NoOlder(d, now - Window))
       IN  /\ all >= MinSamples
           /\ late >= MinDeadlines
           /\ late * 1000 >= all * RatioMilli

(* circuitStateScript for an empty token: only an expired probe goes. *)
Settled == IF Open \/ ProbeLive THEN circuit ELSE WithoutProbe(circuit)

(* circuitStateScript for a leader's token. *)
RejectsOnlyOpen(l) == Open
Rejects(l) == Open \/ (ProbeLive /\ ~OwnsProbe(l))
GrantsProbe(l) == ~Open /\ ~ProbeLive /\ circuit.openUntil # 0
GrantedForLeaseTTL(l, ttl) ==
    ExtendTTL([circuit EXCEPT !.probeToken = l, !.probeUntil = now + Timeout + 1], Timeout + 1)
GrantedRelative(l, ttl) ==
    ExtendTTL([circuit EXCEPT !.probeToken = l, !.probeUntil = ttl - now], ttl)
Granted(l, ttl) ==
    ExtendTTL([circuit EXCEPT !.probeToken = l, !.probeUntil = now + ttl], ttl)

RecordDeadline(token, completedAt) ==
    LET failed == [circuit EXCEPT !.lastFailureAt = Later(@, completedAt)]
        s == Add(After(samples, now - Window))
        d == Add(After(deadlines, now - LongWindow))
    IN  \/ /\ Open
           /\ circuit' = failed
           /\ UNCHANGED <<samples, deadlines>>
        \/ /\ ~Open
           /\ OwnsProbe(token)
           /\ circuit' = Opened(failed, OpenDuration + Window)
           /\ samples' = {}
           /\ deadlines' = {}
        \/ /\ ~Open
           /\ ~OwnsProbe(token)
           /\ Tripped(s, d)
           /\ circuit' = Opened(failed, EventTTL)
           /\ samples' = {}
           /\ deadlines' = {}
        \/ /\ ~Open
           /\ ~OwnsProbe(token)
           /\ ~Tripped(s, d)
           /\ circuit' = [failed EXCEPT !.openUntil = 0, !.expireAt = now + EventTTL]
           /\ samples' = s
           /\ deadlines' = d

(* record_success_sample: what a success leaves in the sorted sets. *)
SampleSuccess(preserve) ==
    IF preserve
    THEN /\ samples' = Add(After(samples, now - Window))
         /\ deadlines' = After(deadlines, now - LongWindow)
    ELSE UNCHANGED <<samples, deadlines>>

ForeignProbe(token) == circuit.probeToken # NoToken /\ ~OwnsProbe(token)
NeverOutOfOrder(completedAt) == FALSE
OutOfOrder(completedAt) == completedAt < circuit.lastFailureAt

ResetCircuit(token, completedAt, preserve) ==
    LET sampled == IF preserve THEN ExtendTTL(circuit, LongWindow) ELSE circuit
        closed == IF OwnsProbe(token)
                  THEN [WithoutProbe(sampled) EXCEPT !.openUntil = 0]
                  ELSE sampled
    IN  IF Open \/ ForeignProbe(token) \/ OutOfOrder(completedAt)
        THEN circuit' = sampled /\ SampleSuccess(preserve)
        ELSE IF preserve
        THEN circuit' = [closed EXCEPT !.lastFailureAt = 0] /\ SampleSuccess(preserve)
        ELSE /\ circuit' = [closed EXCEPT !.lastFailureAt = 0, !.expireAt = now + Window]
             /\ samples' = {}
             /\ deadlines' = {}

ReleaseProbe(token) ==
    /\ circuit' = IF OwnsProbe(token)
                  THEN [WithoutProbe(circuit) EXCEPT !.openUntil = 0]
                  ELSE circuit
    /\ UNCHANGED <<samples, deadlines>>

-----------------------------------------------------------------------------
(* Leaders.                                                                *)

ProbeToken(l) == IF leader[l].probe THEN l ELSE NoToken
ContextAlive(l) == now < leader[l].deadline
GoTo(l, phase) == leader' = [leader EXCEPT ![l].phase = phase]
Leave(l) == leader' = [leader EXCEPT ![l].phase = "idle", ![l].probe = FALSE,
                                     ![l].deadline = 0]

(* enqueueBookkeeping: the task is started, or dropped when the semaphore is full. *)
Enqueue(task) == bookkeeping' \in {bookkeeping, bookkeeping \cup {task}}

(* The poll of loadDistributed, which passes no token. *)
PollCircuit ==
    /\ Settled # circuit
    /\ circuit' = Settled
    /\ UNCHANGED <<now, samples, deadlines, leader, bookkeeping>>

(* loadAsLeader's own check.  What is left of the leader's context is any  *)
(* part of the timeout: the caller's deadline and the waits come first.    *)
Admit(l, left) ==
    /\ leader[l].phase = "idle"
    /\ circuit.probeToken # l              \* a lease token is never reused
    /\ \A t \in bookkeeping : t.token # l
    /\ ~Rejects(l)
    /\ now + left <= MaxTime
    /\ Cardinality(samples) < MaxSamples
    /\ circuit' = IF GrantsProbe(l) THEN Granted(l, left) ELSE Settled
    /\ leader' = [leader EXCEPT ![l] = [phase |-> "flight", probe |-> GrantsProbe(l),
                                        admittedAt |-> now, deadline |-> now + left]]
    /\ UNCHANGED <<now, samples, deadlines, bookkeeping>>

(* The deferred releaseCircuitProbe.  While the context lives the script   *)
(* may be applied; a failed call is only logged, and one that ran out of   *)
(* time, applied or not, is handed to the bookkeeping goroutine.           *)
LeaveProbe(l) ==
    \/ /\ ~leader[l].probe
       /\ UNCHANGED <<redis, bookkeeping>>
    \/ /\ leader[l].probe
       /\ \/ ContextAlive(l) /\ ReleaseProbe(l)
          \/ UNCHANGED redis
       /\ Enqueue([kind |-> "release", token |-> l, at |-> now, probe |-> TRUE])

(* No permit, no global token, or an upstream error that is not a deadline. *)
Abandon(l) ==
    /\ leader[l].phase = "flight"
    /\ LeaveProbe(l)
    /\ Leave(l)
    /\ UNCHANGED now

(* The upstream answered: resetCircuit, in place or in the background. *)
Succeed(l) ==
    /\ leader[l].phase = "flight"
    /\ \/ /\ ContextAlive(l)
          /\ \E preserve \in PreserveSamples : ResetCircuit(ProbeToken(l), now, preserve)
       \/ UNCHANGED redis
    /\ Enqueue([kind |-> "reset", token |-> l, at |-> now, probe |-> leader[l].probe])
    /\ GoTo(l, "exit")
    /\ UNCHANGED now

(* After the cache write the deferred release runs. *)
Exit(l) ==
    /\ leader[l].phase = "exit"
    /\ LeaveProbe(l)
    /\ Leave(l)
    /\ UNCHANGED now

(* The upstream call ended in context.DeadlineExceeded: the probe is kept  *)
(* for the bookkeeping goroutine, which reports the leader's token.        *)
TimeOut(l) ==
    /\ leader[l].phase = "flight"
    /\ Enqueue([kind |-> "deadline", token |-> l, at |-> now, probe |-> leader[l].probe])
    /\ Leave(l)
    /\ UNCHANGED <<now, redis>>

(* The instance dies: its leader and its tasks are gone. *)
Crash(l) ==
    /\ leader[l].phase # "idle"
    /\ Leave(l)
    /\ bookkeeping' = {t \in bookkeeping : t.token # l}
    /\ UNCHANGED <<now, redis>>

RunTask(t) ==
    /\ bookkeeping' = bookkeeping \ {t}
    /\ \/ t.kind = "deadline" /\ RecordDeadline(t.token, t.at)
       \/ /\ t.kind = "reset"
          /\ \E preserve \in PreserveSamples :
                ResetCircuit(IF t.probe THEN t.token ELSE NoToken, t.at, preserve)
       \/ t.kind = "release" /\ ReleaseProbe(t.token)
    /\ UNCHANGED <<now, leader>>

(* The task's Redis call fails or its second is over. *)
LoseTask(t) ==
    /\ bookkeeping' = bookkeeping \ {t}
    /\ UNCHANGED <<now, redis, leader>>

(* Time passes; Redis drops the hash when its TTL ends.  An upstream call  *)
(* ends by its context's deadline and a task within its own limit.         *)
Tick ==
    /\ now < MaxTime
    /\ \A l \in Leader : leader[l].phase # "idle" => now < leader[l].deadline
    /\ \A t \in bookkeeping : now < t.at + TaskTimeout
    /\ now' = now + 1
    /\ circuit' = IF circuit.expireAt <= now' THEN NoCircuit ELSE circuit
    /\ UNCHANGED <<samples, deadlines, leader, bookkeeping>>

Next ==
    \/ PollCircuit
    \/ \E l \in Leader :
          \/ \E left \in 1..Timeout : Admit(l, left)
          \/ Abandon(l)
          \/ Succeed(l)
          \/ Exit(l)
          \/ TimeOut(l)
          \/ Crash(l)
    \/ \E t \in bookkeeping : RunTask(t) \/ LoseTask(t)
    \/ Tick

Spec == Init /\ [][Next]_vars

-----------------------------------------------------------------------------
(* Properties.                                                             *)

(* A breaker that is rejecting has no probe: opening it takes the probe    *)
(* away from a leader still in flight, whose later success or release      *)
(* would otherwise close it (TestInFlightSuccessDoesNotCloseOpenCircuit).  *)
OpenHasNoProbe == Open => circuit.probeToken = NoToken

(* Once opened, the breaker rejects for the whole open duration: no        *)
(* straggler, success, release, crash or TTL of the hash ends it earlier.  *)
StaysOpen == [][circuit.openUntil > now' => circuit'.openUntil = circuit.openUntil]_vars

(* Whatever was lost - the probe's leader, its release, its report - the   *)
(* breaker rejects no longer than an open duration or a leader's timeout.  *)
RejectionBounded ==
    /\ circuit.openUntil <= now + OpenDuration
    /\ circuit.probeUntil <= now + Timeout

(* While a half-open probe is live no leader has been admitted after it    *)
(* (TestCoordinatorSerializesHalfOpenProbeAcrossDistinctQueries).          *)
ProbeExclusive ==
    \A l \in Leader :
        /\ ProbeLive
        /\ leader[l].phase # "idle"
        => leader[l].admittedAt <= leader[circuit.probeToken].admittedAt

(* A success that completed before the last recorded failure does not wipe *)
(* the failures of the window, however late its report is applied          *)
(* (TestDelayedDeadlineIsCountedAfterNewerSuccess).                        *)
LateSuccessKeepsFailures ==
    [][\A t \in bookkeeping \ bookkeeping' :
          t.kind = "reset" /\ t.at < circuit.lastFailureAt
          => After(deadlines, now - LongWindow) \subseteq deadlines']_vars

(* A half-open probe that ended in a deadline opens the breaker again when *)
(* its report is applied (coordinator_test.go, "failed half-open probe").  *)
FailedProbeReopens ==
    [][\A t \in bookkeeping \ bookkeeping' :
          t.kind = "deadline" /\ t.probe
             /\ circuit.lastFailureAt < t.at /\ circuit'.lastFailureAt = t.at
          => circuit'.openUntil > now]_vars
=============================================================================
