----------------------------- MODULE StatsBatch -----------------------------
(***************************************************************************)
(* Publication of the academic statistics (academic_statistics/application *)
(* /manager.go, infrastructure/store.go, run_publisher.go, worker/).       *)
(* Every analytics process runs a scheduler loop and handlers of the       *)
(* manual-run queue.  A run takes the MySQL named lock, makes sure it is   *)
(* needed (scheduled runs), records a running batch, aggregates the source *)
(* grades, publishes the batch and releases the lock.                      *)
(*                                                                         *)
(* A runner is one scheduler loop or one handler slot; a process is the    *)
(* runners that crash together, one after the other here.  Time counts     *)
(* half days: an even instant is a day's part before the schedule hour, an *)
(* odd one the part after it, and stands for the hour itself.  One         *)
(* database statement or transaction is one action.  A call to MySQL may   *)
(* fail without effect, or take effect and lose its reply.  MySQL frees a  *)
(* named lock when the connection that holds it ends, and may notice the   *)
(* end of a dead client's connection late.  What is aggregated is module   *)
(* StatsPrivacy's matter, not this one's.                                  *)
(***************************************************************************)
EXTENDS Integers, FiniteSets

CONSTANTS
    Scheduler, Handler,  \* worker.Run loops, Asynq handler slots
    ManualTask,          \* task IDs of manual runs
    NoTask, Nobody,
    Orphan,              \* a connection whose client is gone
    MaxRetry,            \* asynq.MaxRetry
    FailedRetention,     \* failedBatchRetention, in half days
    TaskRetention,       \* manualRunTaskRetention, in half days
    MaxBatches, MaxFaults, MaxTime   \* bounds

ASSUME BatchAssumption ==
    /\ NoTask \notin ManualTask
    /\ Scheduler \cap Handler = {}
    /\ {Nobody, Orphan} \cap (Scheduler \cup Handler) = {} /\ Nobody # Orphan
    /\ MaxRetry \in Nat
    /\ FailedRetention \in Nat \ {0} /\ TaskRetention \in Nat \ {0}
    /\ MaxBatches \in Nat /\ MaxFaults \in Nat /\ MaxTime \in Nat

VARIABLES
    now,
    batch,      \* rows of academic_statistics_batches by ID
    lock,       \* whose connection holds the named lock
    run,        \* what each runner is doing
    queue,      \* the manual-run tasks in Asynq
    faults,     \* failed calls, crashes and lost connections so far
    lockLost    \* a run has lost its lock (history)

vars == <<now, batch, lock, run, queue, faults, lockLost>>

Runner == Scheduler \cup Handler
BatchID == 1..MaxBatches
Phase == {"idle", "lock", "check", "start", "aggregate", "publish", "fail", "release"}

(* schedule, starter and publisher are history: the schedule a run was     *)
(* made for (0 for a manual run), who started it last, who published it.   *)
Row == [status : {"absent", "running", "failed", "published", "pruned"},
        task : ManualTask \cup {NoTask}, createdAt : Nat, publishedAt : Nat,
        schedule : Nat, starter : Runner \cup {Nobody}, publisher : Runner \cup {Nobody}]
Run == [phase : Phase, task : ManualTask \cup {NoTask}, schedule : Nat,
        batch : BatchID \cup {0}, finishedAt : Nat, wakeAt : Nat,
        outcome : {"none", "ok", "empty", "error"}]
QueuedTask == [state : {"absent", "pending", "active", "completed", "archived"},
               worker : Handler \cup {Nobody}, retried : 0..MaxRetry, doneAt : Nat]

NoRow == [status |-> "absent", task |-> NoTask, createdAt |-> 0, publishedAt |-> 0,
          schedule |-> 0, starter |-> Nobody, publisher |-> Nobody]
NoRun == [phase |-> "idle", task |-> NoTask, schedule |-> 0, batch |-> 0,
          finishedAt |-> 0, wakeAt |-> 0, outcome |-> "none"]
NotQueued == [state |-> "absent", worker |-> Nobody, retried |-> 0, doneAt |-> 0]

TypeOK ==
    /\ now \in Nat
    /\ batch \in [BatchID -> Row]
    /\ lock \in Runner \cup {Nobody, Orphan}
    /\ run \in [Runner -> Run]
    /\ queue \in [ManualTask -> QueuedTask]
    /\ faults \in 0..MaxFaults
    /\ lockLost \in BOOLEAN

Init ==
    /\ now = 1
    /\ batch = [b \in BatchID |-> NoRow]
    /\ lock = Nobody
    /\ run = [r \in Runner |-> NoRun]
    /\ queue = [t \in ManualTask |-> NotQueued]
    /\ faults = 0
    /\ lockLost = FALSE

-----------------------------------------------------------------------------
(* Small parts of the runs.                                                *)

Fault == faults < MaxFaults /\ faults' = faults + 1
NoFault == UNCHANGED faults

At(r, phase) == run[r].phase = phase
GoTo(r, phase) == run' = [run EXCEPT ![r].phase = phase]
EndWith(r, phase, outcome) ==
    run' = [run EXCEPT ![r].phase = phase, ![r].outcome = outcome]

(* untilNextSchedule.                                                      *)
AfterHour == now % 2 = 1
NextHour == IF AfterHour THEN now + 2 ELSE now + 1

(* delayAfterRun: after an error, the retry delay, shorter than any part   *)
(* of a day; after a publication, a skip or an empty snapshot, tomorrow.   *)
SleepAfterAnyError(r, outcome) ==
    [NoRun EXCEPT !.outcome = outcome, !.schedule = run[r].schedule, !.wakeAt = NextHour]
Asleep(r, outcome) ==
    [NoRun EXCEPT !.outcome = outcome, !.schedule = run[r].schedule,
                  !.wakeAt = IF outcome = "error" THEN now ELSE NextHour]

(* Asynq's handling of a failed or abandoned delivery.                     *)
RetriedUncounted(q) == [q EXCEPT !.state = "pending", !.worker = Nobody]
Retried(q) ==
    IF q.retried < MaxRetry
    THEN [q EXCEPT !.state = "pending", !.worker = Nobody, !.retried = @ + 1]
    ELSE [q EXCEPT !.state = "archived", !.worker = Nobody, !.doneAt = now]
Completed(q) == [q EXCEPT !.state = "completed", !.worker = Nobody, !.doneAt = now]
Settled(r, outcome) ==
    [t \in ManualTask |->
        IF run[r].task = t /\ queue[t].state = "active" /\ queue[t].worker = r
        THEN IF outcome = "ok" THEN Completed(queue[t]) ELSE Retried(queue[t])
        ELSE queue[t]]

(* The run is over and its error, if any, is returned.                     *)
Finish(r, outcome) ==
    /\ run' = [run EXCEPT ![r] = Asleep(r, outcome)]
    /\ queue' = Settled(r, outcome)

(* LatestPublished and publishedAfterSchedule: the latest publication is   *)
(* not before the schedule.                                                *)
CoveredStrictly(schedule) ==
    \E b \in BatchID : batch[b].status = "published" /\ batch[b].publishedAt > schedule
Covered(schedule) ==
    \E b \in BatchID : batch[b].status = "published" /\ batch[b].publishedAt >= schedule

-----------------------------------------------------------------------------
(* Rows.                                                                   *)

Failed(row) == [row EXCEPT !.status = "failed"]
KeepsRunning(row) == row
Recovered(row) == IF row.status = "running" THEN Failed(row) ELSE row
Pruned(row) ==
    IF row.status = "failed" /\ row.createdAt + FailedRetention < now
    THEN [NoRow EXCEPT !.status = "pruned"]
    ELSE row

(* StartBatch first fails every running batch, then deletes old failures.  *)
Cleaned == [b \in BatchID |-> Pruned(Recovered(batch[b]))]

OwnRows(rows, task) == {b \in BatchID : task # NoTask /\ rows[b].task = task}
Fresh(rows, b) ==
    rows[b].status = "absent" /\ \A a \in BatchID : a < b => rows[a].status # "absent"

(* The task's own batch, or a new one.                                     *)
Picks(r, b) ==
    \/ b \in OwnRows(Cleaned, run[r].task)
    \/ OwnRows(Cleaned, run[r].task) = {} /\ Fresh(Cleaned, b)

(* resetBatch keeps created_at.                                            *)
Running(r, row) ==
    [status |-> "running", task |-> run[r].task,
     createdAt |-> IF row.status = "absent" THEN now ELSE row.createdAt,
     publishedAt |-> 0, schedule |-> run[r].schedule, starter |-> r, publisher |-> Nobody]

Started(r, b) ==
    [Cleaned EXCEPT ![b] = IF @.status = "published" THEN @ ELSE Running(r, @)]

MayPublish(b) == batch[b].status = "running"
Published(r, row) ==
    [row EXCEPT !.status = "published", !.publishedAt = run[r].finishedAt, !.publisher = r]

-----------------------------------------------------------------------------
(* Runs.                                                                   *)

(* RunIfDue before the hour does nothing but wait for it.                  *)
Wake(s) ==
    /\ At(s, "idle") /\ run[s].wakeAt <= now
    /\ run' = [run EXCEPT ![s] =
                  IF AfterHour THEN [NoRun EXCEPT !.phase = "lock", !.schedule = now]
                               ELSE [NoRun EXCEPT !.wakeAt = NextHour]]
    /\ UNCHANGED <<now, batch, lock, queue, faults, lockLost>>

Deliver(h, t) ==
    /\ At(h, "idle")
    /\ queue[t].state = "pending"
    /\ queue' = [queue EXCEPT ![t].state = "active", ![t].worker = h]
    /\ run' = [run EXCEPT ![h] = [NoRun EXCEPT !.phase = "lock", !.task = t]]
    /\ UNCHANGED <<now, batch, lock, faults, lockLost>>

(* GET_LOCK with no wait.  A reply that is lost discards the connection.   *)
LockUnchecked == TRUE
LockGranted == lock = Nobody
TryLock(r) ==
    /\ At(r, "lock")
    /\ \/ /\ LockGranted
          /\ lock' = r
          /\ GoTo(r, IF r \in Scheduler THEN "check" ELSE "start")
          /\ NoFault /\ UNCHANGED queue
       \/ /\ ~LockGranted
          /\ Finish(r, "error")
          /\ NoFault /\ UNCHANGED lock
       \/ /\ Fault
          /\ lock' \in {lock, IF lock = Nobody THEN Orphan ELSE lock}
          /\ Finish(r, "error")
    /\ UNCHANGED <<now, batch, lockLost>>

CheckDue(r) ==
    /\ At(r, "check")
    /\ \/ Covered(run[r].schedule) /\ EndWith(r, "release", "ok") /\ NoFault
       \/ ~Covered(run[r].schedule) /\ GoTo(r, "start") /\ NoFault
       \/ EndWith(r, "release", "error") /\ Fault
    /\ UNCHANGED <<now, batch, lock, queue, lockLost>>

StartBatch(r) ==
    /\ At(r, "start")
    /\ \/ \E b \in BatchID :
             /\ Picks(r, b)
             /\ batch' = Started(r, b)
             /\ \/ NoFault
                   /\ IF Cleaned[b].status = "published"
                      THEN EndWith(r, "release", "ok")
                      ELSE run' = [run EXCEPT ![r].phase = "aggregate", ![r].batch = b]
                \/ Fault /\ EndWith(r, "release", "error")
       \/ Fault /\ EndWith(r, "release", "error") /\ UNCHANGED batch
    /\ UNCHANGED <<now, lock, queue, lockLost>>

(* The snapshot is complete and valid, empty or invalid, or not obtained.  *)
Aggregate(r) ==
    /\ At(r, "aggregate")
    /\ \/ run' = [run EXCEPT ![r].phase = "publish", ![r].finishedAt = now] /\ NoFault
       \/ EndWith(r, "fail", "empty") /\ NoFault
       \/ EndWith(r, "fail", "error") /\ Fault
    /\ UNCHANGED <<now, batch, lock, queue, lockLost>>

(* The rows and the status change commit together, or not at all.          *)
PublishBatch(r) ==
    LET b == run[r].batch
    IN  /\ At(r, "publish")
        /\ \/ /\ MayPublish(b)
              /\ batch' = [batch EXCEPT ![b] = Published(r, @)]
              /\ \/ EndWith(r, "release", "ok") /\ NoFault
                 \/ EndWith(r, "fail", "error") /\ Fault
           \/ ~MayPublish(b) /\ EndWith(r, "fail", "error") /\ NoFault /\ UNCHANGED batch
           \/ EndWith(r, "fail", "error") /\ Fault /\ UNCHANGED batch
        /\ UNCHANGED <<now, lock, queue, lockLost>>

FailsAnyBatch(b) == batch[b].status # "pruned"
FailsBatch(b) == batch[b].status = "running"
FailBatch(r) ==
    LET b == run[r].batch
    IN  /\ At(r, "fail")
        /\ \/ NoFault /\ batch' = IF FailsBatch(b) THEN [batch EXCEPT ![b] = Failed(@)] ELSE batch
           \/ Fault /\ UNCHANGED batch
        /\ GoTo(r, "release")
        /\ UNCHANGED <<now, lock, queue, lockLost>>

(* A release that fails turns success into an error; the connection is     *)
(* discarded, and with it the lock, as soon as MySQL notices.              *)
Joined(outcome) == IF outcome = "ok" THEN "error" ELSE outcome
Release(r) ==
    /\ At(r, "release")
    /\ \/ lock = r /\ lock' = Nobody /\ Finish(r, run[r].outcome) /\ NoFault
       \/ lock # r /\ UNCHANGED lock /\ Finish(r, Joined(run[r].outcome)) /\ NoFault
       \/ lock = r /\ lock' \in {Nobody, Orphan} /\ Finish(r, Joined(run[r].outcome)) /\ Fault
    /\ UNCHANGED <<now, batch, lockLost>>

-----------------------------------------------------------------------------
(* The queue of manual runs.                                               *)

(* TriggerManual; a task ID the queue still knows is accepted and ignored. *)
Enqueue(t) ==
    /\ queue[t].state = "absent"
    /\ queue' = [queue EXCEPT ![t].state = "pending"]
    /\ UNCHANGED <<now, batch, lock, run, faults, lockLost>>

(* Asynq takes a task back from a worker that died, or seems to have.      *)
WorksOn(h, t) == h \in Handler /\ ~At(h, "idle") /\ run[h].task = t
Reclaim(t) ==
    /\ queue[t].state = "active"
    /\ WorksOn(queue[t].worker, t) => Fault
    /\ ~WorksOn(queue[t].worker, t) => NoFault
    /\ queue' = [queue EXCEPT ![t] = Retried(@)]
    /\ UNCHANGED <<now, batch, lock, run, lockLost>>

Forget(t) ==
    /\ queue[t].state \in {"completed", "archived"}
    /\ queue[t].doneAt + TaskRetention <= now
    /\ queue' = [queue EXCEPT ![t] = NotQueued]
    /\ UNCHANGED <<now, batch, lock, run, faults, lockLost>>

-----------------------------------------------------------------------------
(* Faults and time.                                                        *)

(* The connection that holds the lock ends while its run goes on.          *)
LoseConnection(r) ==
    /\ lock = r
    /\ Fault
    /\ lock' = Nobody
    /\ lockLost' = TRUE
    /\ UNCHANGED <<now, batch, run, queue>>

DropOrphan ==
    /\ lock = Orphan
    /\ lock' = Nobody
    /\ UNCHANGED <<now, batch, run, queue, faults, lockLost>>

(* The process restarts; a scheduler loop checks at once.                  *)
Crash(r) ==
    /\ ~At(r, "idle")
    /\ Fault
    /\ run' = [run EXCEPT ![r] = [NoRun EXCEPT !.wakeAt = now]]
    /\ lock' \in IF lock = r THEN {Nobody, Orphan} ELSE {lock}
    /\ UNCHANGED <<now, batch, queue, lockLost>>

Tick ==
    /\ now < MaxTime
    /\ now' = now + 1
    /\ UNCHANGED <<batch, lock, run, queue, faults, lockLost>>

RunStep(r) ==
    \/ TryLock(r) \/ CheckDue(r) \/ StartBatch(r) \/ Aggregate(r)
    \/ PublishBatch(r) \/ FailBatch(r) \/ Release(r)

Next ==
    \/ \E r \in Runner : RunStep(r) \/ LoseConnection(r) \/ Crash(r)
    \/ \E s \in Scheduler : Wake(s)
    \/ \E t \in ManualTask : Enqueue(t) \/ Reclaim(t) \/ Forget(t)
    \/ \E h \in Handler, t \in ManualTask : Deliver(h, t)
    \/ DropOrphan
    \/ Tick

Spec == Init /\ [][Next]_vars

(* Runs go on, timers fire, Asynq delivers pending tasks and takes back    *)
(* abandoned ones, MySQL notices dead connections, and time passes.        *)
Fairness ==
    /\ \A r \in Runner : WF_vars(RunStep(r))
    /\ \A s \in Scheduler : WF_vars(Wake(s))
    /\ \A t \in ManualTask : WF_vars(\E h \in Handler : Deliver(h, t))
    /\ \A t \in ManualTask : WF_vars(~WorksOn(queue[t].worker, t) /\ Reclaim(t))
    /\ WF_vars(DropOrphan)
    /\ WF_vars(Tick)

FairSpec == Spec /\ Fairness

-----------------------------------------------------------------------------
(* Properties.                                                             *)

(* The batches implement module Publication: one attempt at a time, only   *)
(* the attempt in progress is published, a publication is final - also     *)
(* when runs overlap because a lock was lost, a publication's reply was    *)
(* lost, or a task was delivered twice.                                    *)
RunningRows == {b \in BatchID : batch[b].status = "running"}
Current == IF RunningRows = {} THEN 0 ELSE CHOOSE b \in RunningRows : TRUE
P == INSTANCE Publication WITH
        Attempt <- BatchID, None <- 0, current <- Current,
        published <- {b \in BatchID : batch[b].status = "published"}
Publications == P!Spec

(* The daily schedule is published once, whatever crashes, restarts or is  *)
(* retried by whichever process, as long as no run loses its lock          *)
(* (RunIfDue, "without publishing duplicate batches").                     *)
OncePerSchedule ==
    lockLost \/ \A a, b \in BatchID :
        /\ batch[a].status = "published" /\ batch[b].status = "published"
        /\ batch[a].schedule # 0 /\ batch[a].schedule = batch[b].schedule
        => a = b

(* The run that publishes a batch is the one that started it last: a row   *)
(* restarted for a redelivered task is not published by the older run.     *)
PublishedByStarter ==
    lockLost \/ \A b \in BatchID :
        batch[b].status = "published" => batch[b].publisher = batch[b].starter

(* A manual task reported done has published its batch, and a scheduler    *)
(* that sleeps until tomorrow after a run without error left a publication *)
(* not older than its schedule.                                            *)
DoneMeansPublished ==
    /\ \A t \in ManualTask :
          queue[t].state = "completed" =>
              \E b \in BatchID : batch[b].task = t /\ batch[b].status = "published"
    /\ \A s \in Scheduler :
          At(s, "idle") /\ run[s].outcome = "ok" => Covered(run[s].schedule)

(* A scheduler due today goes on until today is published or its source    *)
(* proved empty, whatever fails, crashes or holds the lock meanwhile.      *)
ScheduleCovered ==
    \A s \in Scheduler :
        now = MaxTime /\ AfterHour /\ At(s, "idle") /\ run[s].wakeAt <= now
            ~> Covered(MaxTime) \/ run[s].outcome = "empty"

(* A task once accepted is completed or archived.                          *)
TaskSettles ==
    \A t \in ManualTask :
        queue[t].state \in {"pending", "active"}
            ~> queue[t].state \in {"completed", "archived"}
=============================================================================
