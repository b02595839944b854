-------------------------- MODULE StatsBatchProofs --------------------------
(***************************************************************************)
(* Proofs about the publication of statistics, for any number of runners,  *)
(* tasks, batches and faults: the types, that the batches implement module *)
(* Publication, that without a lost lock a schedule is published once, by  *)
(* the run that started it last, and that a task is reported done only     *)
(* when its batch has been published.                                      *)
(*                                                                         *)
(* OneRunning and HasBatch make the refinement inductive.  Under the lock  *)
(* the argument is: a run inside holds the lock (LockHeld), so the row it  *)
(* started stays its own (Owns) and its schedule stays uncovered until it  *)
(* publishes (StillDue), and what it publishes covers its schedule         *)
(* (PublishedLate, which rests on Timely).  DoneInv needs no lock: a row   *)
(* stays its task's until it is deleted (KeepsRow), and a deleted row is   *)
(* never published.                                                        *)
(***************************************************************************)
EXTENDS StatsBatch, TLAPS

Inside == {"check", "start", "aggregate", "publish", "fail", "release"}
WithBatch == {"aggregate", "publish", "fail"}

OneRunning ==
    \A a, b \in BatchID : batch[a].status = "running" /\ batch[b].status = "running" => a = b

HasBatch == \A r \in Runner : run[r].phase \in WithBatch => run[r].batch \in BatchID

Timely ==
    \A r \in Runner :
        /\ run[r].schedule <= now
        /\ run[r].phase = "publish" => run[r].finishedAt >= run[r].schedule

BatchInv == TypeOK /\ HasBatch /\ OneRunning /\ Timely

USE BatchAssumption DEF BatchAssumption

-----------------------------------------------------------------------------
(* What the helpers do to rows and runs.                                   *)

LEMMA RunnerNames ==
    /\ Nobody \notin Runner /\ Orphan \notin Runner /\ Nobody # Orphan
    /\ \A b \in BatchID : b \in Nat /\ b # 0
BY DEF Runner, BatchID

LEMMA RowEffects ==
    ASSUME NEW row \in Row
    PROVE  /\ Failed(row) \in Row
           /\ Failed(row).status = "failed"
           /\ Recovered(row) \in Row
           /\ Recovered(row).status # "running"
           /\ row.status = "published" => Recovered(row) = row
           /\ Recovered(row).status = "published" => Recovered(row) = row
           /\ Pruned(row) \in Row
           /\ row.status # "running" => Pruned(row).status # "running"
           /\ row.status = "published" => Pruned(row) = row
           /\ Pruned(row).status = "published" => Pruned(row) = row
<1>1. /\ Failed(row) \in Row /\ Failed(row).status = "failed"
      /\ Recovered(row) \in Row
      /\ Recovered(row).status # "running"
      /\ row.status = "published" => Recovered(row) = row
      /\ Recovered(row).status = "published" => Recovered(row) = row
  BY DEF Row, Recovered, Failed
<1>2. [NoRow EXCEPT !.status = "pruned"] \in Row /\ [NoRow EXCEPT !.status = "pruned"].status = "pruned"
  BY DEF Row, NoRow
<1>3. Pruned(row) \in {row, [NoRow EXCEPT !.status = "pruned"]}
  BY DEF Pruned
<1>4. row.status = "published" => Pruned(row) = row
  BY DEF Pruned
<1>. QED
  BY <1>1, <1>2, <1>3, <1>4

LEMMA CleanedRows ==
    ASSUME TypeOK
    PROVE  /\ Cleaned \in [BatchID -> Row]
           /\ \A b \in BatchID :
                 /\ Cleaned[b] \in Row
                 /\ Cleaned[b].status # "running"
                 /\ batch[b].status = "published" => Cleaned[b] = batch[b]
                 /\ Cleaned[b].status = "published" => Cleaned[b] = batch[b]
<1>1. \A b \in BatchID : batch[b] \in Row /\ Recovered(batch[b]) \in Row
  BY RowEffects DEF TypeOK
<1>2. \A b \in BatchID : Cleaned[b] = Pruned(Recovered(batch[b]))
  BY DEF Cleaned
<1>3. \A b \in BatchID :
         /\ Cleaned[b] \in Row
         /\ Cleaned[b].status # "running"
         /\ batch[b].status = "published" => Cleaned[b] = batch[b]
         /\ Cleaned[b].status = "published" => Cleaned[b] = batch[b]
  BY <1>1, <1>2, RowEffects
<1>. QED
  BY <1>2, <1>3 DEF Cleaned

(* StartBatch leaves at most the chosen row running, with its starter, and *)
(* every publication as it was.                                            *)
LEMMA StartedRows ==
    ASSUME TypeOK, NEW r \in Runner, NEW b \in BatchID
    PROVE  /\ Started(r, b) \in [BatchID -> Row]
           /\ \A a \in BatchID :
                 /\ a # b => Started(r, b)[a] = Cleaned[a]
                 /\ batch[a].status = "published" => Started(r, b)[a] = batch[a]
                 /\ Started(r, b)[a].status = "published" => Started(r, b)[a] = batch[a]
           /\ Cleaned[b].status = "published" => Started(r, b)[b] = Cleaned[b]
           /\ Cleaned[b].status # "published" =>
                 /\ Started(r, b)[b].status = "running"
                 /\ Started(r, b)[b].starter = r
                 /\ Started(r, b)[b].schedule = run[r].schedule
<1>. DEFINE row == Running(r, Cleaned[b])
<1>1. /\ Cleaned \in [BatchID -> Row] /\ Cleaned[b] \in Row
      /\ \A a \in BatchID : /\ batch[a].status = "published" => Cleaned[a] = batch[a]
                            /\ Cleaned[a].status = "published" => Cleaned[a] = batch[a]
  BY CleanedRows
<1>2. row \in Row /\ row.status = "running" /\ row.starter = r /\ row.schedule = run[r].schedule
  <2>1. run[r].task \in ManualTask \cup {NoTask} /\ run[r].schedule \in Nat /\ now \in Nat
    BY DEF TypeOK, Run
  <2>2. Cleaned[b].createdAt \in Nat
    BY <1>1 DEF Row
  <2>. QED
    BY <2>1, <2>2 DEF Running, Row
<1>3. Started(r, b) = [Cleaned EXCEPT ![b] = IF Cleaned[b].status = "published"
                                             THEN Cleaned[b] ELSE row]
  BY <1>1 DEF Started
<1>. HIDE DEF row
<1>. QED
  BY <1>1, <1>2, <1>3

LEMMA PublishedRow ==
    ASSUME NEW r \in Runner, run[r] \in Run, NEW row \in Row
    PROVE  /\ Published(r, row) \in Row
           /\ Published(r, row).status = "published"
           /\ Published(r, row).publishedAt = run[r].finishedAt
           /\ Published(r, row).publisher = r
           /\ Published(r, row).starter = row.starter
           /\ Published(r, row).schedule = row.schedule
           /\ Published(r, row).task = row.task
BY DEF Published, Row, Run

LEMMA HourType == ASSUME now \in Nat PROVE NextHour \in Nat
<1>1. CASE AfterHour
  BY <1>1 DEF NextHour
<1>2. CASE ~AfterHour
  BY <1>2 DEF NextHour
<1>. QED
  BY <1>1, <1>2

LEMMA AsleepRun ==
    ASSUME now \in Nat, NEW r \in Runner, run[r] \in Run,
           NEW outcome \in {"none", "ok", "empty", "error"}
    PROVE  /\ Asleep(r, outcome) \in Run
           /\ Asleep(r, outcome).phase = "idle"
           /\ Asleep(r, outcome).schedule = run[r].schedule
<1>. DEFINE wake == IF outcome = "error" THEN now ELSE NextHour
<1>1. wake \in Nat
  BY HourType
<1>2. run[r].schedule \in Nat
  BY DEF Run
<1>3. Asleep(r, outcome) = [NoRun EXCEPT !.outcome = outcome, !.schedule = run[r].schedule,
                                        !.wakeAt = wake]
  BY DEF Asleep
<1>. HIDE DEF wake
<1>4. Asleep(r, outcome) =
         [phase |-> "idle", task |-> NoTask, schedule |-> run[r].schedule, batch |-> 0,
          finishedAt |-> 0, wakeAt |-> wake, outcome |-> outcome]
  BY <1>3 DEF NoRun
<1>. QED
  BY <1>1, <1>2, <1>4 DEF Run, Phase, BatchID

LEMMA QueueEffects ==
    ASSUME TypeOK, NEW t \in ManualTask
    PROVE  /\ Retried(queue[t]) \in QueuedTask
           /\ Completed(queue[t]) \in QueuedTask
<1>1. queue[t] \in QueuedTask /\ now \in Nat
  BY DEF TypeOK
<1>2. CASE queue[t].retried < MaxRetry
  <2>1. queue[t].retried + 1 \in 0..MaxRetry
    BY <1>1, <1>2 DEF QueuedTask
  <2>2. Retried(queue[t]) = [queue[t] EXCEPT !.state = "pending", !.worker = Nobody,
                                            !.retried = queue[t].retried + 1]
    BY <1>1, <1>2 DEF Retried, QueuedTask
  <2>3. Retried(queue[t]) \in QueuedTask
    BY <1>1, <2>1, <2>2 DEF QueuedTask
  <2>. QED
    BY <1>1, <2>3 DEF Completed, QueuedTask
<1>3. CASE ~(queue[t].retried < MaxRetry)
  <2>1. Retried(queue[t]) = [queue[t] EXCEPT !.state = "archived", !.worker = Nobody,
                                            !.doneAt = now]
    BY <1>3 DEF Retried
  <2>. QED
    BY <1>1, <2>1 DEF Completed, QueuedTask
<1>. QED
  BY <1>2, <1>3

LEMMA SettledQueue ==
    ASSUME TypeOK, NEW r, NEW outcome
    PROVE  Settled(r, outcome) \in [ManualTask -> QueuedTask]
<1>1. \A t \in ManualTask : queue[t] \in QueuedTask
  BY DEF TypeOK
<1>. QED
  BY <1>1, QueueEffects DEF Settled

-----------------------------------------------------------------------------
(* What a step does to the runs: Moved keeps the run and changes its       *)
(* phase, Ended leaves the runner idle.                                    *)

Moved(r, phase) ==
    /\ run' \in [Runner -> Run]
    /\ \A q \in Runner : q # r => run'[q] = run[q]
    /\ run'[r].phase = phase
    /\ run'[r].task = run[r].task
    /\ run'[r].schedule = run[r].schedule
    /\ run'[r].batch = run[r].batch
    /\ run'[r].finishedAt = run[r].finishedAt

Ended(r) ==
    /\ run' \in [Runner -> Run]
    /\ \A q \in Runner : q # r => run'[q] = run[q]
    /\ run'[r].phase = "idle"
    /\ run'[r].schedule \in {0, run[r].schedule}

LEMMA GoToMoves ==
    ASSUME TypeOK, NEW r \in Runner, NEW phase \in Phase, GoTo(r, phase)
    PROVE  Moved(r, phase)
<1>1. run \in [Runner -> Run] /\ run[r] \in Run
  BY DEF TypeOK
<1>2. [run[r] EXCEPT !.phase = phase] \in Run
  BY <1>1 DEF Run
<1>3. run' = [run EXCEPT ![r] = [run[r] EXCEPT !.phase = phase]]
  BY DEF GoTo
<1>. QED
  BY <1>1, <1>2, <1>3 DEF Moved, Run

LEMMA EndWithMoves ==
    ASSUME TypeOK, NEW r \in Runner, NEW phase \in Phase,
           NEW outcome \in {"none", "ok", "empty", "error"}, EndWith(r, phase, outcome)
    PROVE  Moved(r, phase)
<1>1. run \in [Runner -> Run] /\ run[r] \in Run
  BY DEF TypeOK
<1>2. [run[r] EXCEPT !.phase = phase, !.outcome = outcome] \in Run
  BY <1>1 DEF Run
<1>3. run' = [run EXCEPT ![r] = [run[r] EXCEPT !.phase = phase, !.outcome = outcome]]
  BY DEF EndWith
<1>. QED
  BY <1>1, <1>2, <1>3 DEF Moved, Run

LEMMA FinishEnds ==
    ASSUME TypeOK, NEW r \in Runner, NEW outcome \in {"none", "ok", "empty", "error"},
           Finish(r, outcome)
    PROVE  Ended(r) /\ queue' \in [ManualTask -> QueuedTask]
<1>1. run \in [Runner -> Run] /\ run[r] \in Run /\ now \in Nat
  BY DEF TypeOK
<1>2. /\ Asleep(r, outcome) \in Run
      /\ Asleep(r, outcome).phase = "idle"
      /\ Asleep(r, outcome).schedule = run[r].schedule
  BY <1>1, AsleepRun
<1>3. run' = [run EXCEPT ![r] = Asleep(r, outcome)] /\ queue' = Settled(r, outcome)
  BY DEF Finish
<1>. QED
  BY <1>1, <1>2, <1>3, SettledQueue DEF Ended

LEMMA NewRun ==
    ASSUME TypeOK
    PROVE  /\ NoRun \in Run
           /\ [NoRun EXCEPT !.wakeAt = now] \in Run
           /\ [NoRun EXCEPT !.wakeAt = NextHour] \in Run
           /\ [NoRun EXCEPT !.phase = "lock", !.schedule = now] \in Run
           /\ \A t \in ManualTask : [NoRun EXCEPT !.phase = "lock", !.task = t] \in Run
<1>1. now \in Nat /\ NextHour \in Nat
  BY HourType DEF TypeOK
<1>2. NoRun \in Run
  BY DEF NoRun, Run, Phase
<1>. QED
  BY <1>1, <1>2 DEF Run, Phase

(* What the invariant of the runs needs of a step.                         *)
LEMMA RunsKeep ==
    ASSUME BatchInv, NEW r \in Runner, now' = now,
           \/ Ended(r)
           \/ \E phase \in Phase :
                 /\ Moved(r, phase)
                 /\ phase \in WithBatch => run[r].batch \in BatchID
                 /\ phase = "publish" => run[r].finishedAt >= run[r].schedule
    PROVE  run' \in [Runner -> Run] /\ HasBatch' /\ Timely'
<1>1. CASE Ended(r)
  <2>1. now \in Nat
    BY DEF BatchInv, TypeOK
  <2>. QED
    BY <1>1, <2>1 DEF Ended, BatchInv, HasBatch, Timely, WithBatch
<1>2. ASSUME NEW phase \in Phase,
             Moved(r, phase),
             phase \in WithBatch => run[r].batch \in BatchID,
             phase = "publish" => run[r].finishedAt >= run[r].schedule
      PROVE  run' \in [Runner -> Run] /\ HasBatch' /\ Timely'
  BY <1>2 DEF Moved, BatchInv, HasBatch, Timely, WithBatch
<1>. QED
  BY <1>1, <1>2

-----------------------------------------------------------------------------
(* The invariant.                                                          *)

LEMMA InitHolds == Init => BatchInv
<1>. SUFFICES ASSUME Init PROVE BatchInv
  OBVIOUS
<1>1. NoRow \in Row /\ NotQueued \in QueuedTask
  BY DEF NoRow, Row, NotQueued, QueuedTask
<1>2. NoRun \in Run /\ NoRun.phase = "idle" /\ NoRun.schedule = 0
  BY DEF NoRun, Run, Phase
<1>3. TypeOK
  <2>1. batch \in [BatchID -> Row] /\ run \in [Runner -> Run] /\ queue \in [ManualTask -> QueuedTask]
    BY <1>1, <1>2 DEF Init
  <2>2. now \in Nat /\ faults \in 0..MaxFaults /\ lock = Nobody
    BY DEF Init
  <2>3. lockLost \in BOOLEAN
    BY Zenon DEF Init
  <2>. QED
    BY <2>1, <2>2, <2>3 DEF TypeOK
<1>4. OneRunning
  BY DEF Init, OneRunning, NoRow
<1>. QED
  BY <1>2, <1>3, <1>4 DEF Init, BatchInv, HasBatch, Timely, WithBatch

(* A run's step that leaves the batches alone.                             *)
LEMMA OnlyRun ==
    ASSUME BatchInv, run' \in [Runner -> Run], HasBatch', Timely',
           queue' \in [ManualTask -> QueuedTask], UNCHANGED <<now, batch>>,
           lock' \in Runner \cup {Nobody, Orphan}, faults' \in 0..MaxFaults,
           lockLost' \in BOOLEAN
    PROVE  BatchInv'
BY DEF BatchInv, TypeOK, OneRunning

LEMMA FaultType ==
    ASSUME TypeOK, Fault \/ NoFault
    PROVE  faults' \in 0..MaxFaults
BY DEF TypeOK, Fault, NoFault

LEMMA TryLockKeeps ==
    ASSUME BatchInv, NEW r \in Runner, TryLock(r) PROVE BatchInv'
<1>1. TypeOK /\ lock \in Runner \cup {Nobody, Orphan}
  BY DEF BatchInv, TypeOK
<1>2. now' = now /\ batch' = batch /\ lockLost' = lockLost /\ faults' \in 0..MaxFaults
  BY <1>1, FaultType DEF TryLock
<1>3. CASE lock' = r /\ GoTo(r, IF r \in Scheduler THEN "check" ELSE "start") /\ UNCHANGED queue
  <2>1. PICK phase \in {"check", "start"} : GoTo(r, phase)
    BY <1>3
  <2>2. Moved(r, phase)
    BY <1>1, <2>1, GoToMoves DEF Phase
  <2>. QED
    BY <1>1, <1>2, <1>3, <2>2, RunsKeep, OnlyRun DEF Phase, WithBatch, TypeOK
<1>4. CASE Finish(r, "error") /\ lock' \in {lock, IF lock = Nobody THEN Orphan ELSE lock}
  BY <1>1, <1>2, <1>4, FinishEnds, RunsKeep, OnlyRun DEF TypeOK
<1>. QED
  BY <1>3, <1>4 DEF TryLock

LEMMA CheckDueKeeps ==
    ASSUME BatchInv, NEW r \in Runner, CheckDue(r) PROVE BatchInv'
<1>1. TypeOK
  BY DEF BatchInv
<1>2. UNCHANGED <<now, batch, lock, queue, lockLost>> /\ faults' \in 0..MaxFaults
  BY <1>1, FaultType DEF CheckDue
<1>3. Moved(r, "release") \/ Moved(r, "start")
  BY <1>1, EndWithMoves, GoToMoves DEF CheckDue, Phase
<1>. QED
  BY <1>1, <1>2, <1>3, RunsKeep, OnlyRun DEF Phase, WithBatch, TypeOK

LEMMA AggregateKeeps ==
    ASSUME BatchInv, NEW r \in Runner, Aggregate(r) PROVE BatchInv'
<1>1. TypeOK /\ run \in [Runner -> Run] /\ run[r] \in Run /\ now \in Nat
  BY DEF BatchInv, TypeOK
<1>2. UNCHANGED <<now, batch, lock, queue, lockLost>> /\ faults' \in 0..MaxFaults
  BY <1>1, FaultType DEF Aggregate
<1>3. run[r].batch \in BatchID
  BY DEF BatchInv, HasBatch, WithBatch, Aggregate, At
<1>4. CASE run' = [run EXCEPT ![r].phase = "publish", ![r].finishedAt = now]
  <2>1. [run[r] EXCEPT !.phase = "publish", !.finishedAt = now] \in Run
    BY <1>1 DEF Run, Phase
  <2>2. run' = [run EXCEPT ![r] = [run[r] EXCEPT !.phase = "publish", !.finishedAt = now]]
    BY <1>4
  <2>3. /\ run' \in [Runner -> Run]
        /\ \A q \in Runner : q # r => run'[q] = run[q]
        /\ run'[r].batch = run[r].batch
        /\ run'[r].schedule = run[r].schedule
        /\ run'[r].finishedAt = now
    BY <1>1, <2>1, <2>2 DEF Run
  <2>4. HasBatch' /\ Timely'
    BY <1>2, <1>3, <2>3 DEF BatchInv, HasBatch, Timely
  <2>. QED
    BY <1>1, <1>2, <2>3, <2>4, OnlyRun DEF TypeOK
<1>5. CASE EndWith(r, "fail", "empty") \/ EndWith(r, "fail", "error")
  <2>1. Moved(r, "fail")
    BY <1>1, <1>5, EndWithMoves DEF Phase
  <2>. QED
    BY <1>1, <1>2, <1>3, <2>1, RunsKeep, OnlyRun DEF Phase, TypeOK
<1>. QED
  BY <1>4, <1>5 DEF Aggregate

LEMMA ReleaseKeeps ==
    ASSUME BatchInv, NEW r \in Runner, Release(r) PROVE BatchInv'
<1>1. TypeOK /\ lock \in Runner \cup {Nobody, Orphan} /\ run[r] \in Run
  BY DEF BatchInv, TypeOK
<1>2. UNCHANGED <<now, batch, lockLost>> /\ faults' \in 0..MaxFaults
      /\ lock' \in Runner \cup {Nobody, Orphan}
  BY <1>1, FaultType DEF Release
<1>3. /\ run[r].outcome \in {"none", "ok", "empty", "error"}
      /\ Joined(run[r].outcome) \in {"none", "ok", "empty", "error"}
  BY <1>1 DEF Run, Joined
<1>4. Ended(r) /\ queue' \in [ManualTask -> QueuedTask]
  BY <1>1, <1>3, FinishEnds DEF Release
<1>. QED
  BY <1>1, <1>2, <1>4, RunsKeep, OnlyRun DEF TypeOK

LEMMA StartBatchKeeps ==
    ASSUME BatchInv, NEW r \in Runner, StartBatch(r) PROVE BatchInv'
<1>1. TypeOK /\ run \in [Runner -> Run] /\ run[r] \in Run
  BY DEF BatchInv, TypeOK
<1>2. UNCHANGED <<now, lock, queue, lockLost>> /\ faults' \in 0..MaxFaults
  BY <1>1, FaultType DEF StartBatch
<1>3. CASE UNCHANGED batch /\ EndWith(r, "release", "error")
  <2>1. Moved(r, "release")
    BY <1>1, <1>3, EndWithMoves DEF Phase
  <2>. QED
    BY <1>1, <1>2, <1>3, <2>1, RunsKeep, OnlyRun DEF Phase, WithBatch, TypeOK
<1>4. ASSUME NEW b \in BatchID, batch' = Started(r, b),
             \/ EndWith(r, "release", "ok")
             \/ EndWith(r, "release", "error")
             \/ run' = [run EXCEPT ![r].phase = "aggregate", ![r].batch = b]
      PROVE  BatchInv'
  <2>1. run' \in [Runner -> Run] /\ HasBatch' /\ Timely'
    <3>1. CASE EndWith(r, "release", "ok") \/ EndWith(r, "release", "error")
      <4>1. Moved(r, "release")
        BY <1>1, <3>1, EndWithMoves DEF Phase
      <4>. QED
        BY <1>2, <4>1, RunsKeep DEF Phase, WithBatch
    <3>2. CASE run' = [run EXCEPT ![r].phase = "aggregate", ![r].batch = b]
      <4>1. [run[r] EXCEPT !.phase = "aggregate", !.batch = b] \in Run
        BY <1>1 DEF Run, Phase
      <4>2. run' = [run EXCEPT ![r] = [run[r] EXCEPT !.phase = "aggregate", !.batch = b]]
        BY <3>2
      <4>3. /\ run' \in [Runner -> Run]
            /\ \A q \in Runner : q # r => run'[q] = run[q]
            /\ run'[r].batch = b
            /\ run'[r].phase = "aggregate"
            /\ run'[r].schedule = run[r].schedule
        BY <1>1, <4>1, <4>2 DEF Run
      <4>. QED
        BY <1>2, <4>3 DEF BatchInv, HasBatch, Timely
    <3>. QED
      BY <1>4, <3>1, <3>2
  <2>2. batch' \in [BatchID -> Row]
    BY <1>1, <1>4, StartedRows
  <2>3. \A a \in BatchID : batch'[a].status = "running" => a = b
    BY <1>1, <1>4, StartedRows, CleanedRows
  <2>. QED
    BY <1>1, <1>2, <2>1, <2>2, <2>3 DEF BatchInv, TypeOK, OneRunning
<1>. QED
  BY <1>3, <1>4 DEF StartBatch

LEMMA PublishBatchKeeps ==
    ASSUME BatchInv, NEW r \in Runner, PublishBatch(r) PROVE BatchInv'
<1>. DEFINE b == run[r].batch
<1>1. TypeOK /\ run[r] \in Run /\ batch \in [BatchID -> Row]
  BY DEF BatchInv, TypeOK
<1>2. UNCHANGED <<now, lock, queue, lockLost>> /\ faults' \in 0..MaxFaults
  BY <1>1, FaultType DEF PublishBatch
<1>3. b \in BatchID
  BY DEF BatchInv, HasBatch, WithBatch, PublishBatch, At
<1>4. run' \in [Runner -> Run] /\ HasBatch' /\ Timely'
  <2>1. Moved(r, "release") \/ Moved(r, "fail")
    BY <1>1, EndWithMoves DEF PublishBatch, Phase
  <2>. QED
    BY <1>2, <1>3, <2>1, RunsKeep DEF Phase, WithBatch
<1>5. CASE UNCHANGED batch
  BY <1>1, <1>2, <1>4, <1>5, OnlyRun DEF TypeOK
<1>6. CASE batch' = [batch EXCEPT ![b] = Published(r, batch[b])]
  <2>1. Published(r, batch[b]) \in Row /\ Published(r, batch[b]).status = "published"
    BY <1>1, <1>3, PublishedRow
  <2>2. batch' \in [BatchID -> Row] /\ OneRunning'
    BY <1>1, <1>3, <1>6, <2>1 DEF BatchInv, OneRunning
  <2>. QED
    BY <1>1, <1>2, <1>4, <2>2 DEF BatchInv, TypeOK
<1>. QED
  BY <1>5, <1>6 DEF PublishBatch

LEMMA FailBatchKeeps ==
    ASSUME BatchInv, NEW r \in Runner, FailBatch(r) PROVE BatchInv'
<1>. DEFINE b == run[r].batch
<1>1. TypeOK /\ batch \in [BatchID -> Row]
  BY DEF BatchInv, TypeOK
<1>2. UNCHANGED <<now, lock, queue, lockLost>> /\ faults' \in 0..MaxFaults
  BY <1>1, FaultType DEF FailBatch
<1>3. b \in BatchID
  BY DEF BatchInv, HasBatch, WithBatch, FailBatch, At
<1>4. run' \in [Runner -> Run] /\ HasBatch' /\ Timely'
  <2>1. Moved(r, "release")
    BY <1>1, GoToMoves DEF FailBatch, Phase
  <2>. QED
    BY <1>2, <2>1, RunsKeep DEF Phase, WithBatch
<1>5. CASE UNCHANGED batch
  BY <1>1, <1>2, <1>4, <1>5, OnlyRun DEF TypeOK
<1>6. CASE batch' = [batch EXCEPT ![b] = Failed(batch[b])]
  <2>1. Failed(batch[b]) \in Row /\ Failed(batch[b]).status = "failed"
    BY <1>1, <1>3, RowEffects
  <2>2. batch' \in [BatchID -> Row] /\ OneRunning'
    BY <1>1, <1>3, <1>6, <2>1 DEF BatchInv, OneRunning
  <2>. QED
    BY <1>1, <1>2, <1>4, <2>2 DEF BatchInv, TypeOK
<1>. QED
  BY <1>5, <1>6 DEF FailBatch

(* The scheduler's timer, the queue, the connections, crashes and time.    *)
LEMMA OthersKeep ==
    ASSUME BatchInv,
           \/ \E s \in Scheduler : Wake(s)
           \/ \E h \in Handler, t \in ManualTask : Deliver(h, t)
           \/ \E t \in ManualTask : Enqueue(t) \/ Reclaim(t) \/ Forget(t)
           \/ \E r \in Runner : LoseConnection(r) \/ Crash(r)
           \/ DropOrphan
           \/ Tick
    PROVE  BatchInv'
<1>1. /\ TypeOK /\ run \in [Runner -> Run] /\ now \in Nat /\ queue \in [ManualTask -> QueuedTask]
      /\ lock \in Runner \cup {Nobody, Orphan} /\ faults \in 0..MaxFaults /\ lockLost \in BOOLEAN
      /\ HasBatch /\ Timely
  BY DEF BatchInv, TypeOK
<1>2. ASSUME NEW s \in Scheduler, Wake(s) PROVE BatchInv'
  <2>. DEFINE next == IF AfterHour THEN [NoRun EXCEPT !.phase = "lock", !.schedule = now]
                                  ELSE [NoRun EXCEPT !.wakeAt = NextHour]
  <2>1. s \in Runner
    BY DEF Runner
  <2>2. next \in Run
    BY <1>1, NewRun
  <2>3. next.phase \in {"lock", "idle"} /\ next.schedule \in {0, now}
    BY DEF NoRun
  <2>4. run' = [run EXCEPT ![s] = next] /\ now' = now
    BY <1>2 DEF Wake
  <2>. HIDE DEF next
  <2>5. run' \in [Runner -> Run] /\ HasBatch' /\ Timely'
    BY <1>1, <2>1, <2>2, <2>3, <2>4 DEF HasBatch, Timely, WithBatch
  <2>. QED
    BY <1>1, <1>2, <2>5, OnlyRun DEF Wake
<1>3. ASSUME NEW h \in Handler, NEW t \in ManualTask, Deliver(h, t) PROVE BatchInv'
  <2>. DEFINE next == [NoRun EXCEPT !.phase = "lock", !.task = t]
  <2>1. h \in Runner
    BY DEF Runner
  <2>2. next \in Run /\ next.phase = "lock" /\ next.schedule = 0
    BY <1>1, NewRun DEF NoRun
  <2>3. run' = [run EXCEPT ![h] = next] /\ now' = now
    BY <1>3 DEF Deliver
  <2>. HIDE DEF next
  <2>4. run' \in [Runner -> Run] /\ HasBatch' /\ Timely'
    BY <1>1, <2>1, <2>2, <2>3 DEF HasBatch, Timely, WithBatch
  <2>5. [queue[t] EXCEPT !.state = "active", !.worker = h] \in QueuedTask
    BY <1>1 DEF QueuedTask
  <2>6. queue' = [queue EXCEPT ![t] = [queue[t] EXCEPT !.state = "active", !.worker = h]]
    BY <1>3 DEF Deliver
  <2>7. queue' \in [ManualTask -> QueuedTask]
    BY <1>1, <2>5, <2>6
  <2>. QED
    BY <1>1, <1>3, <2>4, <2>7, OnlyRun DEF Deliver
<1>4. ASSUME NEW t \in ManualTask, Enqueue(t) \/ Reclaim(t) \/ Forget(t) PROVE BatchInv'
  <2>1. /\ [queue[t] EXCEPT !.state = "pending"] \in QueuedTask
        /\ NotQueued \in QueuedTask
        /\ Retried(queue[t]) \in QueuedTask
    BY <1>1, QueueEffects DEF QueuedTask, NotQueued
  <2>2. \E q \in QueuedTask : queue' = [queue EXCEPT ![t] = q]
    BY <1>4, <2>1 DEF Enqueue, Reclaim, Forget
  <2>3. UNCHANGED <<now, batch, run, lock, lockLost>> /\ faults' \in 0..MaxFaults
    BY <1>1, <1>4, FaultType DEF Enqueue, Reclaim, Forget
  <2>4. HasBatch' /\ Timely'
    BY <1>1, <2>3 DEF HasBatch, Timely
  <2>. QED
    BY <1>1, <2>2, <2>3, <2>4, OnlyRun
<1>5. ASSUME NEW r \in Runner, LoseConnection(r) PROVE BatchInv'
  <2>1. HasBatch' /\ Timely'
    BY <1>1, <1>5 DEF LoseConnection, HasBatch, Timely
  <2>. QED
    BY <1>1, <1>5, <2>1, FaultType, OnlyRun DEF LoseConnection
<1>6. ASSUME NEW r \in Runner, Crash(r) PROVE BatchInv'
  <2>1. Ended(r)
    BY <1>1, <1>6, NewRun DEF Crash, Ended, NoRun
  <2>2. lock' \in Runner \cup {Nobody, Orphan} /\ faults' \in 0..MaxFaults
    BY <1>1, <1>6, FaultType DEF Crash
  <2>. QED
    BY <1>1, <1>6, <2>1, <2>2, RunsKeep, OnlyRun DEF Crash
<1>7. ASSUME DropOrphan PROVE BatchInv'
  <2>1. HasBatch' /\ Timely'
    BY <1>1, <1>7 DEF DropOrphan, HasBatch, Timely
  <2>. QED
    BY <1>1, <1>7, <2>1, OnlyRun DEF DropOrphan
<1>8. ASSUME Tick PROVE BatchInv'
  <2>1. run' = run /\ now' = now + 1 /\ now' \in Nat
    BY <1>1, <1>8 DEF Tick
  <2>2. \A r \in Runner : run[r].schedule \in Nat
    BY <1>1 DEF Run
  <2>3. HasBatch' /\ Timely'
    BY <1>1, <2>1, <2>2 DEF HasBatch, Timely
  <2>. QED
    BY <1>8, <2>1, <2>3 DEF Tick, BatchInv, TypeOK, OneRunning
<1>. QED
  BY <1>2, <1>3, <1>4, <1>5, <1>6, <1>7, <1>8

LEMMA StepKeeps == BatchInv /\ [Next]_vars => BatchInv'
<1>. SUFFICES ASSUME BatchInv, [Next]_vars PROVE BatchInv'
  OBVIOUS
<1>1. CASE UNCHANGED vars
  BY <1>1 DEF vars, BatchInv, TypeOK, HasBatch, OneRunning, Timely
<1>2. ASSUME NEW r \in Runner, RunStep(r) PROVE BatchInv'
  BY <1>2, TryLockKeeps, CheckDueKeeps, StartBatchKeeps, AggregateKeeps, PublishBatchKeeps,
     FailBatchKeeps, ReleaseKeeps DEF RunStep
<1>. QED
  BY <1>1, <1>2, OthersKeep DEF Next

(* The invariant of the module: types, at most one running batch, and runs *)
(* that know the batch they aggregate.                                     *)
THEOREM BatchInvariant == Spec => []BatchInv
<1>. QED
  BY InitHolds, StepKeeps, PTL DEF Spec

(* Values stay in their types: no task is retried past MaxRetry.           *)
THEOREM BatchTypes == Spec => []TypeOK
<1>1. BatchInv => TypeOK
  BY DEF BatchInv
<1>. QED
  BY <1>1, BatchInvariant, PTL

-----------------------------------------------------------------------------
(* The refinement of module Publication.                                   *)

RunningIn(rows) == {b \in BatchID : rows[b].status = "running"}
PublishedIn(rows) == {b \in BatchID : rows[b].status = "published"}
CurrentIn(rows) == IF RunningIn(rows) = {} THEN 0 ELSE CHOOSE b \in RunningIn(rows) : TRUE

(* What Publication's Next says of a change of the rows.                   *)
Maps(rows, next) ==
    \/ PublishedIn(next) = PublishedIn(rows) /\ CurrentIn(next) = CurrentIn(rows)
    \/ /\ \E b \in BatchID \ PublishedIn(rows) : CurrentIn(next) = b
       /\ PublishedIn(next) = PublishedIn(rows)
    \/ /\ CurrentIn(rows) # 0 /\ CurrentIn(next) = 0
       /\ PublishedIn(next) \in {PublishedIn(rows), PublishedIn(rows) \cup {CurrentIn(rows)}}

LEMMA TheCurrentRow ==
    ASSUME NEW rows
    PROVE  /\ (\A a \in BatchID : rows[a].status # "running") => CurrentIn(rows) = 0
           /\ \A b \in BatchID :
                 /\ rows[b].status = "running"
                 /\ \A a \in BatchID : rows[a].status = "running" => a = b
                 => CurrentIn(rows) = b
<1>1. (\A a \in BatchID : rows[a].status # "running") => RunningIn(rows) = {}
  BY DEF RunningIn
<1>2. ASSUME NEW b \in BatchID, rows[b].status = "running",
             \A a \in BatchID : rows[a].status = "running" => a = b
      PROVE  CurrentIn(rows) = b
  <2>1. RunningIn(rows) = {b}
    BY <1>2 DEF RunningIn
  <2>. QED
    BY <2>1 DEF CurrentIn
<1>. QED
  BY <1>1, <1>2 DEF CurrentIn

LEMMA MapsToPublication ==
    ASSUME Maps(batch, batch')
    PROVE  [P!Next]_(P!pubVars)
<1>1. /\ Current = CurrentIn(batch) /\ Current' = CurrentIn(batch')
  BY DEF Current, RunningRows, CurrentIn, RunningIn
<1>2. /\ {b \in BatchID : batch[b].status = "published"} = PublishedIn(batch)
      /\ {b \in BatchID : batch[b].status = "published"}' = PublishedIn(batch')
  BY DEF PublishedIn
<1>. QED
  BY <1>1, <1>2 DEF Maps, P!Next, P!Begin, P!Publish, P!Abandon, P!pubVars

LEMMA StartMaps ==
    ASSUME BatchInv, NEW r \in Runner, StartBatch(r) PROVE Maps(batch, batch')
<1>1. TypeOK /\ OneRunning
  BY DEF BatchInv
<1>2. CASE UNCHANGED batch
  BY <1>2 DEF Maps
<1>3. ASSUME NEW b \in BatchID, batch' = Started(r, b) PROVE Maps(batch, batch')
  <2>1. PublishedIn(batch') = PublishedIn(batch)
    <3>1. \A a \in BatchID : batch'[a].status = "published" <=> batch[a].status = "published"
      BY <1>1, <1>3, StartedRows
    <3>. QED
      BY <3>1 DEF PublishedIn
  <2>2. CASE Cleaned[b].status = "published"
    <3>1. \A a \in BatchID : batch'[a].status # "running"
      BY <1>1, <1>3, <2>2, StartedRows, CleanedRows
    <3>2. CurrentIn(batch') = 0
      BY <3>1, TheCurrentRow
    <3>. QED
      BY <2>1, <3>2 DEF Maps
  <2>3. CASE Cleaned[b].status # "published"
    <3>1. /\ batch'[b].status = "running"
          /\ \A a \in BatchID : batch'[a].status = "running" => a = b
      BY <1>1, <1>3, <2>3, StartedRows, CleanedRows
    <3>2. CurrentIn(batch') = b
      BY <3>1, TheCurrentRow
    <3>3. b \notin PublishedIn(batch)
      BY <1>1, <2>3, CleanedRows DEF PublishedIn
    <3>. QED
      BY <2>1, <3>2, <3>3 DEF Maps
  <2>. QED
    BY <2>2, <2>3
<1>. QED
  BY <1>2, <1>3 DEF StartBatch

LEMMA PublishMaps ==
    ASSUME BatchInv, NEW r \in Runner, PublishBatch(r) PROVE Maps(batch, batch')
<1>. DEFINE b == run[r].batch
<1>1. run[r] \in Run /\ batch \in [BatchID -> Row] /\ b \in BatchID /\ b # 0
  BY RunnerNames DEF BatchInv, TypeOK, HasBatch, WithBatch, PublishBatch, At
<1>2. CASE UNCHANGED batch
  BY <1>2 DEF Maps
<1>3. CASE MayPublish(b) /\ batch' = [batch EXCEPT ![b] = Published(r, batch[b])]
  <2>1. Published(r, batch[b]).status = "published"
    BY <1>1, PublishedRow
  <2>2. batch[b].status = "running" /\ \A a \in BatchID : batch[a].status = "running" => a = b
    BY <1>1, <1>3 DEF MayPublish, BatchInv, OneRunning
  <2>3. CurrentIn(batch) = b
    BY <1>1, <2>2, TheCurrentRow
  <2>4. CurrentIn(batch') = 0
    BY <1>1, <1>3, <2>1, <2>2, TheCurrentRow
  <2>5. PublishedIn(batch') = PublishedIn(batch) \cup {b}
    BY <1>1, <1>3, <2>1 DEF PublishedIn
  <2>. QED
    BY <1>1, <2>3, <2>4, <2>5 DEF Maps
<1>. QED
  BY <1>2, <1>3 DEF PublishBatch

LEMMA FailMaps ==
    ASSUME BatchInv, NEW r \in Runner, FailBatch(r) PROVE Maps(batch, batch')
<1>. DEFINE b == run[r].batch
<1>1. batch \in [BatchID -> Row] /\ batch[b] \in Row /\ b \in BatchID /\ b # 0
  BY RunnerNames DEF BatchInv, TypeOK, HasBatch, WithBatch, FailBatch, At
<1>2. CASE UNCHANGED batch
  BY <1>2 DEF Maps
<1>3. CASE FailsBatch(b) /\ batch' = [batch EXCEPT ![b] = Failed(batch[b])]
  <2>1. Failed(batch[b]).status = "failed"
    BY <1>1, RowEffects
  <2>2. batch[b].status = "running" /\ \A a \in BatchID : batch[a].status = "running" => a = b
    BY <1>1, <1>3 DEF FailsBatch, BatchInv, OneRunning
  <2>3. CurrentIn(batch) = b /\ CurrentIn(batch') = 0
    BY <1>1, <1>3, <2>1, <2>2, TheCurrentRow
  <2>4. PublishedIn(batch') = PublishedIn(batch)
    BY <1>1, <1>3, <2>1, <2>2 DEF PublishedIn
  <2>. QED
    BY <1>1, <2>3, <2>4 DEF Maps
<1>. QED
  BY <1>2, <1>3 DEF FailBatch

LEMMA StepMaps == BatchInv /\ [Next]_vars => [P!Next]_(P!pubVars)
<1>. SUFFICES ASSUME BatchInv, [Next]_vars PROVE Maps(batch, batch')
  BY MapsToPublication
<1>1. CASE UNCHANGED batch
  BY <1>1 DEF Maps
<1>2. ASSUME NEW r \in Runner, RunStep(r) PROVE Maps(batch, batch')
  <2>1. CASE TryLock(r) \/ CheckDue(r) \/ Aggregate(r) \/ Release(r)
    BY <1>1, <2>1 DEF TryLock, CheckDue, Aggregate, Release
  <2>. QED
    BY <1>2, <2>1, StartMaps, PublishMaps, FailMaps DEF RunStep
<1>3. CASE \/ \E r \in Runner : LoseConnection(r) \/ Crash(r)
           \/ \E s \in Scheduler : Wake(s)
           \/ \E t \in ManualTask : Enqueue(t) \/ Reclaim(t) \/ Forget(t)
           \/ \E h \in Handler, t \in ManualTask : Deliver(h, t)
           \/ DropOrphan
           \/ Tick
  BY <1>1, <1>3 DEF LoseConnection, Crash, Wake, Enqueue, Reclaim, Forget, Deliver, DropOrphan, Tick
<1>. QED
  BY <1>1, <1>2, <1>3 DEF Next, vars

(* The batches implement module Publication: attempts are made one at a    *)
(* time, only the attempt in progress is published, and what StartBatch,   *)
(* PublishBatch and FailBatch do leaves every publication as it is, with   *)
(* any number of runs inside and whatever connections they lose.           *)
THEOREM PublicationsHold == Spec => Publications
<1>1. Init => P!Init
  <2>. SUFFICES ASSUME Init PROVE P!Init
    OBVIOUS
  <2>1. \A b \in BatchID : batch[b].status = "absent"
    BY DEF Init, NoRow
  <2>2. RunningRows = {} /\ {b \in BatchID : batch[b].status = "published"} = {}
    BY <2>1 DEF RunningRows
  <2>. QED
    BY <2>2 DEF P!Init, Current
<1>. QED
  BY <1>1, StepMaps, BatchInvariant, PTL DEF Spec, Publications, P!Spec

-----------------------------------------------------------------------------
(* The lock.  Phases in which a run is inside, has its row, or is due.     *)

WithRow == {"aggregate", "publish"}
Due == {"start", "aggregate", "publish"}

LockHeld == \A r \in Runner : run[r].phase \in Inside => lock = r

Owns ==
    \A r \in Runner : run[r].phase \in WithRow =>
        /\ batch[run[r].batch].status = "running"
        /\ batch[run[r].batch].starter = r
        /\ batch[run[r].batch].schedule = run[r].schedule

Uncovered(schedule) ==
    \A b \in BatchID : batch[b].status = "published" => batch[b].schedule # schedule
StillDue == \A s \in Scheduler : run[s].phase \in Due => Uncovered(run[s].schedule)

HandlerRuns == \A h \in Handler : run[h].schedule = 0

PublishedLate ==
    \A b \in BatchID : batch[b].status = "published" => batch[b].publishedAt >= batch[b].schedule
Once ==
    \A a, b \in BatchID :
        /\ batch[a].status = "published" /\ batch[b].status = "published"
        /\ batch[a].schedule # 0 /\ batch[a].schedule = batch[b].schedule
        => a = b
ByStarter ==
    \A b \in BatchID : batch[b].status = "published" => batch[b].publisher = batch[b].starter

UnderLock ==
    LockHeld /\ Owns /\ StillDue /\ HandlerRuns /\ PublishedLate /\ Once /\ ByStarter
LockInv == lockLost \/ UnderLock

LEMMA Alone ==
    ASSUME LockHeld, NEW r \in Runner, run[r].phase \in Inside
    PROVE  lock = r /\ \A q \in Runner : q # r => run[q].phase \notin Inside
BY DEF LockHeld

(* What a step that leaves the published rows alone must do to the runs.   *)
LEMMA PublicationsSame ==
    ASSUME UnderLock, HandlerRuns', LockHeld',
           \A a \in BatchID : batch'[a].status = "published" => batch'[a] = batch[a],
           Owns',
           \A s \in Scheduler : run'[s].phase \in Due =>
               Uncovered(run'[s].schedule) \/ (run[s].phase \in Due /\ run'[s].schedule = run[s].schedule)
    PROVE  UnderLock'
<1>1. PublishedLate' /\ Once' /\ ByStarter'
  BY DEF UnderLock, PublishedLate, Once, ByStarter
<1>2. StillDue'
  BY DEF UnderLock, StillDue, Uncovered
<1>. QED
  BY <1>1, <1>2 DEF UnderLock

(* A run's step that changes no row.                                       *)
LEMMA RowsSame ==
    ASSUME UnderLock, batch' = batch, NEW r \in Runner,
           \A q \in Runner : q # r => run'[q] = run[q] /\ run[q].phase \notin Inside,
           run'[r].phase \in Inside => lock' = r,
           r \in Handler => run'[r].schedule = 0,
           run'[r].phase \in WithRow =>
               run[r].phase \in WithRow /\ run'[r].batch = run[r].batch
                   /\ run'[r].schedule = run[r].schedule,
           run'[r].phase \in Due =>
               \/ r \notin Scheduler
               \/ Uncovered(run'[r].schedule)
               \/ run[r].phase \in Due /\ run'[r].schedule = run[r].schedule
    PROVE  UnderLock'
<1>1. Scheduler \subseteq Runner /\ Handler \subseteq Runner
      /\ WithRow \subseteq Inside /\ Due \subseteq Inside
  BY DEF Runner, WithRow, Due, Inside
<1>2. LockHeld' /\ HandlerRuns'
  BY <1>1 DEF UnderLock, LockHeld, HandlerRuns
<1>3. Owns'
  BY <1>1 DEF UnderLock, Owns
<1>. QED
  BY <1>1, <1>2, <1>3, PublicationsSame

LEMMA LockInit == Init => LockInv
<1>. SUFFICES ASSUME Init PROVE UnderLock
  BY DEF LockInv
<1>1. \A b \in BatchID : batch[b].status = "absent"
  BY DEF Init, NoRow
<1>2. \A r \in Runner : run[r].phase = "idle" /\ run[r].schedule = 0
  BY DEF Init, NoRun
<1>3. Scheduler \subseteq Runner /\ Handler \subseteq Runner
  BY DEF Runner
<1>. QED
  BY <1>1, <1>2, <1>3 DEF UnderLock, LockHeld, Owns, StillDue, HandlerRuns, PublishedLate, Once,
     ByStarter, Inside, WithRow, Due

LEMMA TryLockUnder ==
    ASSUME BatchInv, UnderLock, NEW r \in Runner, TryLock(r) PROVE UnderLock'
<1>1. TypeOK /\ run[r].phase = "lock" /\ batch' = batch
  BY DEF BatchInv, TryLock, At
<1>2. CASE LockGranted /\ lock' = r /\ GoTo(r, IF r \in Scheduler THEN "check" ELSE "start")
  <2>1. \A q \in Runner : run[q].phase \notin Inside
    BY <1>2, RunnerNames DEF UnderLock, LockHeld, LockGranted
  <2>2. Moved(r, IF r \in Scheduler THEN "check" ELSE "start")
    BY <1>1, <1>2, GoToMoves DEF Phase
  <2>3. r \in Handler => run'[r].schedule = 0
    BY <2>2 DEF Moved, UnderLock, HandlerRuns
  <2>. QED
    BY <1>1, <1>2, <2>1, <2>2, <2>3, RowsSame DEF Moved, WithRow, Due
<1>3. CASE Finish(r, "error")
  <2>1. lock' = lock \/ lock = Nobody
    BY <1>3 DEF TryLock, LockGranted, GoTo, Finish
  <2>2. /\ \A q \in Runner : q # r => run'[q] = run[q]
        /\ run'[r].phase = "idle" /\ run'[r].schedule \in {0, run[r].schedule}
    BY <1>1, <1>3, FinishEnds DEF Ended
  <2>3. LockHeld' /\ HandlerRuns'
    <3>1. Handler \subseteq Runner
      BY DEF Runner
    <3>. QED
      BY <2>1, <2>2, <3>1, RunnerNames DEF UnderLock, LockHeld, HandlerRuns, Inside
  <2>4. Owns'
    BY <1>1, <2>2 DEF UnderLock, Owns, WithRow
  <2>5. \A s \in Scheduler : run'[s].phase \in Due =>
            run[s].phase \in Due /\ run'[s].schedule = run[s].schedule
    BY <2>2 DEF Runner, Due
  <2>. QED
    BY <1>1, <2>3, <2>4, <2>5, PublicationsSame
<1>. QED
  BY <1>2, <1>3 DEF TryLock

LEMMA InsideUnder ==
    ASSUME BatchInv, UnderLock, NEW r \in Runner, CheckDue(r) \/ Aggregate(r) \/ Release(r)
    PROVE  UnderLock'
<1>1. TypeOK /\ batch \in [BatchID -> Row] /\ run \in [Runner -> Run] /\ run[r] \in Run
  BY DEF BatchInv, TypeOK
<1>2. run[r].phase \in {"check", "aggregate", "release"} /\ batch' = batch
  BY DEF CheckDue, Aggregate, Release, At
<1>3. lock = r /\ \A q \in Runner : q # r => run[q].phase \notin Inside
  BY <1>2, Alone DEF UnderLock, Inside
<1>4. r \in Handler => run[r].schedule = 0
  BY DEF UnderLock, HandlerRuns
<1>5. CASE CheckDue(r)
  <2>1. lock' = lock
    BY <1>5 DEF CheckDue
  <2>2. CASE Moved(r, "release")
    BY <1>2, <1>3, <1>4, <2>1, <2>2, RowsSame DEF Moved, WithRow, Due
  <2>3. CASE Moved(r, "start") /\ ~Covered(run[r].schedule)
    <3>1. Uncovered(run[r].schedule)
      BY <1>1, <2>3 DEF Covered, Uncovered, UnderLock, PublishedLate, Row, Run
    <3>. QED
      BY <1>2, <1>3, <1>4, <2>1, <2>3, <3>1, RowsSame DEF Moved, WithRow, Due
  <2>. QED
    BY <1>1, <1>5, <2>2, <2>3, EndWithMoves, GoToMoves DEF CheckDue, Phase
<1>6. CASE Aggregate(r)
  <2>1. lock' = lock /\ run[r].phase = "aggregate"
    BY <1>6 DEF Aggregate, At
  <2>2. CASE Moved(r, "fail")
    BY <1>2, <1>3, <1>4, <2>1, <2>2, RowsSame DEF Moved, WithRow, Due
  <2>3. CASE run' = [run EXCEPT ![r].phase = "publish", ![r].finishedAt = now]
    <3>1. run' = [run EXCEPT ![r] = [run[r] EXCEPT !.phase = "publish", !.finishedAt = now]]
      BY <2>3
    <3>2. /\ \A q \in Runner : q # r => run'[q] = run[q]
          /\ run'[r].phase = "publish"
          /\ run'[r].batch = run[r].batch
          /\ run'[r].schedule = run[r].schedule
      BY <1>1, <3>1 DEF Run
    <3>. QED
      BY <1>2, <1>3, <1>4, <2>1, <3>2, RowsSame DEF WithRow, Due
  <2>. QED
    BY <1>1, <1>6, <2>2, <2>3, EndWithMoves DEF Aggregate, Phase
<1>7. CASE Release(r)
  <2>1. /\ run[r].outcome \in {"none", "ok", "empty", "error"}
        /\ Joined(run[r].outcome) \in {"none", "ok", "empty", "error"}
    BY <1>1 DEF Run, Joined
  <2>2. Ended(r)
    BY <1>1, <1>7, <2>1, FinishEnds DEF Release
  <2>. QED
    BY <1>2, <1>3, <1>4, <2>2, RowsSame DEF Ended, Inside, WithRow, Due
<1>. QED
  BY <1>5, <1>6, <1>7

LEMMA StartUnder ==
    ASSUME BatchInv, UnderLock, NEW r \in Runner, StartBatch(r) PROVE UnderLock'
<1>1. TypeOK /\ run \in [Runner -> Run] /\ run[r] \in Run
  BY DEF BatchInv, TypeOK
<1>2. run[r].phase = "start" /\ lock' = lock
  BY DEF StartBatch, At
<1>3. lock = r /\ \A q \in Runner : q # r => run[q].phase \notin Inside
  BY <1>2, Alone DEF UnderLock, Inside
<1>4. /\ r \in Handler => run[r].schedule = 0
      /\ Handler \subseteq Runner /\ Scheduler \subseteq Runner
      /\ WithRow \subseteq Inside /\ Due \subseteq Inside
  BY DEF UnderLock, HandlerRuns, Runner, WithRow, Due, Inside
<1>5. CASE UNCHANGED batch /\ EndWith(r, "release", "error")
  <2>1. Moved(r, "release")
    BY <1>1, <1>5, EndWithMoves DEF Phase
  <2>. QED
    BY <1>2, <1>3, <1>4, <1>5, <2>1, RowsSame DEF Moved, WithRow, Due
<1>6. ASSUME NEW b \in BatchID, batch' = Started(r, b),
             \/ EndWith(r, "release", "ok") \/ EndWith(r, "release", "error")
             \/ /\ Cleaned[b].status # "published"
                /\ run' = [run EXCEPT ![r].phase = "aggregate", ![r].batch = b]
      PROVE  UnderLock'
  <2>1. \A a \in BatchID : batch'[a].status = "published" => batch'[a] = batch[a]
    BY <1>1, <1>6, StartedRows
  <2>2. CASE EndWith(r, "release", "ok") \/ EndWith(r, "release", "error")
    <3>1. Moved(r, "release")
      BY <1>1, <2>2, EndWithMoves DEF Phase
    <3>2. LockHeld' /\ HandlerRuns'
      BY <1>2, <1>3, <1>4, <3>1 DEF Moved, LockHeld, UnderLock, HandlerRuns
    <3>3. Owns' /\ \A s \in Scheduler : run'[s].phase \notin Due
      BY <1>3, <1>4, <3>1 DEF Moved, Owns, WithRow, Due
    <3>. QED
      BY <2>1, <3>2, <3>3, PublicationsSame
  <2>3. CASE /\ Cleaned[b].status # "published"
             /\ run' = [run EXCEPT ![r].phase = "aggregate", ![r].batch = b]
    <3>1. run' = [run EXCEPT ![r] = [run[r] EXCEPT !.phase = "aggregate", !.batch = b]]
      BY <2>3
    <3>2. /\ \A q \in Runner : q # r => run'[q] = run[q]
          /\ run'[r].phase = "aggregate"
          /\ run'[r].batch = b
          /\ run'[r].schedule = run[r].schedule
      BY <1>1, <3>1 DEF Run
    <3>3. /\ batch'[b].status = "running" /\ batch'[b].starter = r
          /\ batch'[b].schedule = run[r].schedule
      BY <1>1, <1>6, <2>3, StartedRows
    <3>4. LockHeld' /\ HandlerRuns'
      BY <1>2, <1>3, <1>4, <3>2 DEF LockHeld, UnderLock, HandlerRuns
    <3>5. Owns'
      BY <1>3, <1>4, <3>2, <3>3 DEF Owns
    <3>6. \A s \in Scheduler : run'[s].phase \in Due =>
              run[s].phase \in Due /\ run'[s].schedule = run[s].schedule
      BY <1>2, <1>3, <1>4, <3>2 DEF Due
    <3>. QED
      BY <2>1, <3>4, <3>5, <3>6, PublicationsSame
  <2>. QED
    BY <1>6, <2>2, <2>3
<1>. QED
  BY <1>5, <1>6 DEF StartBatch

LEMMA PublishUnder ==
    ASSUME BatchInv, UnderLock, NEW r \in Runner, PublishBatch(r) PROVE UnderLock'
<1>. DEFINE b == run[r].batch
            row == Published(r, batch[b])
<1>1. TypeOK /\ batch \in [BatchID -> Row] /\ run[r] \in Run /\ b \in BatchID /\ batch[b] \in Row
  BY DEF BatchInv, TypeOK, HasBatch, WithBatch, PublishBatch, At
<1>2. run[r].phase = "publish" /\ lock' = lock
  BY DEF PublishBatch, At
<1>3. lock = r /\ \A q \in Runner : q # r => run[q].phase \notin Inside
  BY <1>2, Alone DEF UnderLock, Inside
<1>4. /\ r \in Handler => run[r].schedule = 0
      /\ Handler \subseteq Runner /\ Scheduler \subseteq Runner
      /\ WithRow \subseteq Inside /\ Due \subseteq Inside
  BY DEF UnderLock, HandlerRuns, Runner, WithRow, Due, Inside
<1>5. PICK phase \in {"release", "fail"} : Moved(r, phase)
  BY <1>1, EndWithMoves DEF PublishBatch, Phase
<1>6. LockHeld' /\ HandlerRuns'
  BY <1>2, <1>3, <1>4, <1>5 DEF Moved, LockHeld, UnderLock, HandlerRuns
<1>7. Owns' /\ StillDue'
  BY <1>3, <1>4, <1>5 DEF Moved, Owns, StillDue, WithRow, Due
<1>8. CASE UNCHANGED batch
  BY <1>6, <1>7, <1>8 DEF UnderLock, PublishedLate, Once, ByStarter
<1>9. CASE batch' = [batch EXCEPT ![b] = row]
  <2>1. /\ row.status = "published" /\ row.publishedAt = run[r].finishedAt
        /\ row.publisher = r /\ row.starter = batch[b].starter
        /\ row.schedule = batch[b].schedule
    BY <1>1, PublishedRow
  <2>2. batch[b].starter = r /\ batch[b].schedule = run[r].schedule
    BY <1>2 DEF UnderLock, Owns, WithRow
  <2>3. run[r].finishedAt >= run[r].schedule
    BY <1>2 DEF BatchInv, Timely
  <2>4. run[r].schedule # 0 => Uncovered(run[r].schedule)
    BY <1>2, <1>4 DEF Runner, UnderLock, StillDue, Due
  <2>. HIDE DEF row, b
  <2>5. \A a \in BatchID : batch'[a] = IF a = b THEN row ELSE batch[a]
    BY <1>1, <1>9
  <2>6. PublishedLate' /\ ByStarter'
    BY <2>1, <2>2, <2>3, <2>5 DEF UnderLock, PublishedLate, ByStarter
  <2>7. Once'
    BY <2>1, <2>2, <2>4, <2>5 DEF UnderLock, Once, Uncovered
  <2>. QED
    BY <1>6, <1>7, <2>6, <2>7 DEF UnderLock
<1>. QED
  BY <1>8, <1>9 DEF PublishBatch

LEMMA FailUnder ==
    ASSUME BatchInv, UnderLock, NEW r \in Runner, FailBatch(r) PROVE UnderLock'
<1>. DEFINE b == run[r].batch
<1>1. TypeOK /\ batch \in [BatchID -> Row] /\ b \in BatchID /\ batch[b] \in Row
  BY DEF BatchInv, TypeOK, HasBatch, WithBatch, FailBatch, At
<1>2. run[r].phase = "fail" /\ lock' = lock
  BY DEF FailBatch, At
<1>3. lock = r /\ \A q \in Runner : q # r => run[q].phase \notin Inside
  BY <1>2, Alone DEF UnderLock, Inside
<1>4. /\ Handler \subseteq Runner /\ Scheduler \subseteq Runner
      /\ WithRow \subseteq Inside /\ Due \subseteq Inside
  BY DEF Runner, WithRow, Due, Inside
<1>5. Moved(r, "release")
  BY <1>1, GoToMoves DEF FailBatch, Phase
<1>6. LockHeld' /\ HandlerRuns'
  BY <1>2, <1>3, <1>4, <1>5 DEF Moved, LockHeld, UnderLock, HandlerRuns
<1>7. Owns' /\ \A s \in Scheduler : run'[s].phase \notin Due
  BY <1>3, <1>4, <1>5 DEF Moved, Owns, WithRow, Due
<1>8. Failed(batch[b]).status = "failed"
  BY <1>1, RowEffects
<1>9. \A a \in BatchID : batch'[a].status = "published" => batch'[a] = batch[a]
  BY <1>1, <1>8 DEF FailBatch
<1>. QED
  BY <1>6, <1>7, <1>9, PublicationsSame

LEMMA OthersUnder ==
    ASSUME BatchInv, UnderLock,
           \/ \E s \in Scheduler : Wake(s)
           \/ \E h \in Handler, t \in ManualTask : Deliver(h, t)
           \/ \E t \in ManualTask : Enqueue(t) \/ Reclaim(t) \/ Forget(t)
           \/ \E r \in Runner : Crash(r)
           \/ DropOrphan
           \/ Tick
    PROVE  UnderLock'
<1>1. /\ TypeOK /\ run \in [Runner -> Run]
      /\ Handler \subseteq Runner /\ Scheduler \subseteq Runner
      /\ WithRow \subseteq Inside /\ Due \subseteq Inside
  BY DEF BatchInv, TypeOK, Runner, WithRow, Due, Inside
(* Steps that leave one runner outside and keep the others.                *)
<1>2. ASSUME NEW r \in Runner, batch' = batch,
             \A q \in Runner : q # r => run'[q] = run[q],
             run'[r].phase \notin Inside,
             r \in Handler => run'[r].schedule = 0,
             lock' = lock \/ lock \in {r, Orphan}
      PROVE  UnderLock'
  <2>1. LockHeld' /\ HandlerRuns'
    BY <1>1, <1>2, RunnerNames DEF UnderLock, LockHeld, HandlerRuns
  <2>2. Owns' /\ \A s \in Scheduler : run'[s].phase \in Due =>
                     run[s].phase \in Due /\ run'[s].schedule = run[s].schedule
    BY <1>1, <1>2 DEF UnderLock, Owns
  <2>. QED
    BY <1>2, <2>1, <2>2, PublicationsSame
<1>3. ASSUME NEW s \in Scheduler, Wake(s) PROVE UnderLock'
  <2>. DEFINE next == IF AfterHour THEN [NoRun EXCEPT !.phase = "lock", !.schedule = now]
                                  ELSE [NoRun EXCEPT !.wakeAt = NextHour]
  <2>1. next.phase \notin Inside
    BY DEF NoRun, Inside
  <2>2. run' = [run EXCEPT ![s] = next] /\ batch' = batch /\ lock' = lock
    BY <1>3 DEF Wake
  <2>. HIDE DEF next
  <2>3. s \in Runner /\ s \notin Handler
    BY DEF Runner
  <2>. QED
    BY <1>1, <1>2, <2>1, <2>2, <2>3
<1>4. ASSUME NEW h \in Handler, NEW t \in ManualTask, Deliver(h, t) PROVE UnderLock'
  <2>. DEFINE next == [NoRun EXCEPT !.phase = "lock", !.task = t]
  <2>1. next.phase \notin Inside /\ next.schedule = 0
    BY DEF NoRun, Inside
  <2>2. run' = [run EXCEPT ![h] = next] /\ batch' = batch /\ lock' = lock
    BY <1>4 DEF Deliver
  <2>. HIDE DEF next
  <2>. QED
    BY <1>1, <1>2, <2>1, <2>2
<1>5. CASE \E t \in ManualTask : Enqueue(t) \/ Reclaim(t) \/ Forget(t)
  BY <1>5 DEF Enqueue, Reclaim, Forget, UnderLock, LockHeld, Owns, StillDue, Uncovered, HandlerRuns,
     PublishedLate, Once, ByStarter
<1>6. ASSUME NEW r \in Runner, Crash(r) PROVE UnderLock'
  <2>. DEFINE next == [NoRun EXCEPT !.wakeAt = now]
  <2>1. next.phase \notin Inside /\ next.schedule = 0
    BY DEF NoRun, Inside
  <2>2. run' = [run EXCEPT ![r] = next] /\ batch' = batch /\ (lock' = lock \/ lock = r)
    BY <1>6 DEF Crash
  <2>. HIDE DEF next
  <2>. QED
    BY <1>1, <1>2, <2>1, <2>2
<1>7. CASE DropOrphan
  <2>1. lock = Orphan /\ run' = run /\ batch' = batch
    BY <1>7 DEF DropOrphan
  <2>2. \A r \in Runner : run[r].phase \notin Inside
    BY <2>1, RunnerNames DEF UnderLock, LockHeld
  <2>. QED
    BY <2>1, <2>2 DEF UnderLock, LockHeld, Owns, StillDue, Uncovered, HandlerRuns,
       PublishedLate, Once, ByStarter
<1>8. CASE Tick
  BY <1>8 DEF Tick, UnderLock, LockHeld, Owns, StillDue, Uncovered, HandlerRuns,
     PublishedLate, Once, ByStarter
<1>. QED
  BY <1>3, <1>4, <1>5, <1>6, <1>7, <1>8

LEMMA LockStep == BatchInv /\ LockInv /\ [Next]_vars => LockInv'
<1>. SUFFICES ASSUME BatchInv, LockInv, [Next]_vars PROVE LockInv'
  OBVIOUS
<1>1. CASE lockLost
  <2>1. lockLost'
    BY Zenon, <1>1 DEF Next, RunStep, TryLock, CheckDue, StartBatch, Aggregate, PublishBatch, FailBatch,
       Release, LoseConnection, Crash, Wake, Enqueue, Reclaim, Forget, Deliver, DropOrphan, Tick, vars
  <2>. QED
    BY <2>1 DEF LockInv
<1>2. CASE UnderLock
  <2>1. CASE UNCHANGED vars
    BY <1>2, <2>1 DEF vars, LockInv, UnderLock, LockHeld, Owns, StillDue, Uncovered, HandlerRuns,
       PublishedLate, Once, ByStarter
  <2>2. ASSUME NEW r \in Runner, RunStep(r) PROVE LockInv'
    BY <1>2, <2>2, TryLockUnder, InsideUnder, StartUnder, PublishUnder, FailUnder
       DEF RunStep, LockInv
  <2>3. ASSUME NEW r \in Runner, LoseConnection(r) PROVE LockInv'
    BY <2>3 DEF LoseConnection, LockInv
  <2>4. CASE \/ \E s \in Scheduler : Wake(s)
             \/ \E h \in Handler, t \in ManualTask : Deliver(h, t)
             \/ \E t \in ManualTask : Enqueue(t) \/ Reclaim(t) \/ Forget(t)
             \/ \E r \in Runner : Crash(r)
             \/ DropOrphan
             \/ Tick
    BY <1>2, <2>4, OthersUnder DEF LockInv
  <2>. QED
    BY <2>1, <2>2, <2>3, <2>4 DEF Next
<1>. QED
  BY <1>1, <1>2 DEF LockInv

LEMMA LockInvariant == Spec => []LockInv
<1>. QED
  BY LockInit, LockStep, BatchInvariant, PTL DEF Spec

(* RunIfDue publishes a day's schedule once: a run checks and publishes    *)
(* under one tenure of the lock, so what it found uncovered is still       *)
(* uncovered when it publishes - for any number of processes, crashes and  *)
(* lost replies, unless a run lost the lock.                               *)
THEOREM SchedulesPublishedOnce == Spec => []OncePerSchedule
<1>1. LockInv => OncePerSchedule
  BY DEF LockInv, UnderLock, Once, OncePerSchedule
<1>. QED
  BY <1>1, LockInvariant, PTL

(* PublishBatch is reached by the run that StartBatch last gave the row    *)
(* to, redeliveries of the row's manual task included.                     *)
THEOREM StartersPublish == Spec => []PublishedByStarter
<1>1. LockInv => PublishedByStarter
  BY DEF LockInv, UnderLock, ByStarter, PublishedByStarter
<1>. QED
  BY <1>1, LockInvariant, PTL
-----------------------------------------------------------------------------
(* What was promised of a run that ended without error: its task's row, or *)
(* a row not older than its schedule, is published.                        *)

TaskPublished(t) == \E b \in BatchID : batch[b].task = t /\ batch[b].status = "published"

Fulfilled(r) ==
    /\ r \in Scheduler => Covered(run[r].schedule)
    /\ run[r].task # NoTask => TaskPublished(run[r].task)

(* A run's row stays its task's, unless a later run deletes it as an old   *)
(* failure; a deleted row belongs to no task and is never used again.      *)
KeepsRow(r) ==
    /\ batch[run[r].batch].status # "absent"
    /\ batch[run[r].batch].status = "pruned" \/ batch[run[r].batch].task = run[r].task

Honest(r) ==
    /\ r \in Scheduler => run[r].task = NoTask
    /\ run[r].phase = "check" => r \in Scheduler
    /\ run[r].phase \in WithRow => KeepsRow(r)
    /\ run[r].phase = "fail" => run[r].outcome # "ok"
    /\ run[r].phase = "release" /\ run[r].outcome = "ok" => Fulfilled(r)
    /\ run[r].phase = "idle" /\ run[r].outcome = "ok" /\ r \in Scheduler =>
          Covered(run[r].schedule)

Blank == \A b \in BatchID : batch[b].status \in {"absent", "pruned"} => batch[b].task = NoTask

DoneInv ==
    /\ Blank
    /\ \A r \in Runner : Honest(r)
    /\ \A t \in ManualTask : queue[t].state = "completed" => TaskPublished(t)

(* What a step may do to the rows: publications stay, a row in use stays   *)
(* its task's or is deleted, and a deleted one stays so.                   *)
RowsPersist ==
    \A b \in BatchID :
        /\ batch[b].status = "published" => batch'[b] = batch[b]
        /\ batch[b].status # "absent" =>
              /\ batch'[b].status # "absent"
              /\ batch[b].status = "pruned" => batch'[b].status = "pruned"
              /\ batch'[b].status = "pruned" \/ batch'[b].task = batch[b].task

LEMMA PromisesStay ==
    ASSUME RowsPersist
    PROVE  /\ \A schedule : Covered(schedule) => Covered(schedule)'
           /\ \A t : TaskPublished(t) => TaskPublished(t)'
BY DEF RowsPersist, Covered, TaskPublished

LEMMA OthersHonest ==
    ASSUME HasBatch, RowsPersist, NEW r \in Runner, Honest(r), run'[r] = run[r]
    PROVE  Honest(r)'
<1>1. run[r].phase \in WithRow => run[r].batch \in BatchID
  BY DEF HasBatch, WithBatch, WithRow
<1>2. run[r].phase \in WithRow => KeepsRow(r)'
  BY <1>1 DEF Honest, KeepsRow, RowsPersist
<1>3. Fulfilled(r) => Fulfilled(r)'
  BY PromisesStay DEF Fulfilled
<1>. QED
  BY <1>2, <1>3, PromisesStay DEF Honest

LEMMA PrunedRow ==
    ASSUME NEW row \in Row, row.status \in {"absent", "pruned"} => row.task = NoTask
    PROVE  LET new == Pruned(Recovered(row))
           IN  /\ new.status \in {"absent", "pruned"} => new.task = NoTask
               /\ (row.status = "absent") = (new.status = "absent")
               /\ row.status = "pruned" => new.status = "pruned"
               /\ new.status = "pruned" \/ new.task = row.task
               /\ row.status = "published" => new = row
<1>1. /\ Recovered(row) \in Row
      /\ Recovered(row).task = row.task
      /\ Recovered(row).status = IF row.status = "running" THEN "failed" ELSE row.status
      /\ row.status = "published" => Recovered(row) = row
  BY DEF Row, Recovered, Failed
<1>2. [NoRow EXCEPT !.status = "pruned"].status = "pruned"
      /\ [NoRow EXCEPT !.status = "pruned"].task = NoTask
  BY DEF NoRow
<1>3. \/ Pruned(Recovered(row)) = Recovered(row)
      \/ /\ Recovered(row).status = "failed"
         /\ Pruned(Recovered(row)) = [NoRow EXCEPT !.status = "pruned"]
  BY DEF Pruned
<1>. QED
  BY <1>1, <1>2, <1>3

(* StartBatch restarts a row of the same task, or takes an unused one.     *)
LEMMA StartPersists ==
    ASSUME TypeOK, Blank, NEW r \in Runner, NEW b \in BatchID, Picks(r, b),
           batch' = Started(r, b)
    PROVE  /\ RowsPersist /\ Blank'
           /\ Cleaned[b].status # "published" =>
                 batch'[b].status = "running" /\ batch'[b].task = run[r].task
           /\ Cleaned[b].status = "published" =>
                 /\ run[r].task # NoTask
                 /\ batch'[b].status = "published" /\ batch'[b].task = run[r].task
<1>1. \A a \in BatchID : batch[a] \in Row /\ Cleaned[a] = Pruned(Recovered(batch[a]))
  BY DEF TypeOK, Cleaned
<1>2. \A a \in BatchID :
         /\ Cleaned[a].status \in {"absent", "pruned"} => Cleaned[a].task = NoTask
         /\ (batch[a].status = "absent") = (Cleaned[a].status = "absent")
         /\ batch[a].status = "pruned" => Cleaned[a].status = "pruned"
         /\ Cleaned[a].status = "pruned" \/ Cleaned[a].task = batch[a].task
         /\ batch[a].status = "published" => Cleaned[a] = batch[a]
  BY <1>1, PrunedRow DEF Blank
<1>3. \/ run[r].task # NoTask /\ Cleaned[b].task = run[r].task
      \/ Cleaned[b].status = "absent"
  BY DEF Picks, OwnRows, Fresh
<1>4. \A a \in BatchID : a # b => batch'[a] = Cleaned[a]
  BY StartedRows
<1>5. CASE Cleaned[b].status = "published"
  <2>1. batch'[b] = Cleaned[b]
    BY <1>5, StartedRows
  <2>. QED
    BY <1>2, <1>3, <1>4, <1>5, <2>1 DEF RowsPersist, Blank
<1>6. CASE Cleaned[b].status # "published"
  <2>1. batch'[b] = Running(r, Cleaned[b])
    BY <1>6, CleanedRows DEF Started
  <2>2. batch'[b].status = "running" /\ batch'[b].task = run[r].task
    BY <2>1 DEF Running
  <2>. QED
    BY <1>2, <1>3, <1>4, <1>6, <2>2 DEF RowsPersist, Blank
<1>. QED
  BY <1>5, <1>6

(* PublishBatch and FailBatch change a running row's status alone.         *)
LEMMA StatusPersists ==
    ASSUME TypeOK, Blank, NEW b \in BatchID, NEW row, batch[b].status = "running",
           row.status \in {"published", "failed"}, row.task = batch[b].task,
           batch' = [batch EXCEPT ![b] = row]
    PROVE  RowsPersist /\ Blank'
<1>1. \A a \in BatchID : batch'[a] = IF a = b THEN row ELSE batch[a]
  BY DEF TypeOK
<1>. QED
  BY <1>1 DEF RowsPersist, Blank

LEMMA SameRows == ASSUME Blank, batch' = batch PROVE RowsPersist /\ Blank'
BY DEF RowsPersist, Blank

(* A step of one runner, given what it does to that runner and the queue.  *)
LEMMA OneRunner ==
    ASSUME HasBatch, DoneInv, RowsPersist, Blank', NEW r \in Runner,
           \A q \in Runner : q # r => run'[q] = run[q],
           Honest(r)',
           \A t \in ManualTask :
               queue'[t].state = "completed" =>
                   queue[t].state = "completed" \/ TaskPublished(t)
    PROVE  DoneInv'
<1>1. \A q \in Runner : Honest(q)'
  BY OthersHonest DEF DoneInv
<1>. QED
  BY <1>1, PromisesStay DEF DoneInv

LEMMA InitDone == Init => DoneInv
<1>. SUFFICES ASSUME Init PROVE DoneInv
  OBVIOUS
<1>1. \A r \in Runner :
         run[r].phase = "idle" /\ run[r].outcome = "none" /\ run[r].task = NoTask
  BY DEF Init, NoRun
<1>2. \A b \in BatchID : batch[b].status = "absent" /\ batch[b].task = NoTask
  BY DEF Init, NoRow
<1>3. \A t \in ManualTask : queue[t].state = "absent"
  BY DEF Init, NotQueued
<1>. QED
  BY <1>1, <1>2, <1>3 DEF DoneInv, Blank, Honest, WithRow

Outcome == {"none", "ok", "empty", "error"}

(* The run of r goes on in a phase, with an outcome.                       *)
GoesOn(r, phase, outcome) ==
    /\ \A q \in Runner : q # r => run'[q] = run[q]
    /\ run'[r].phase = phase /\ run'[r].outcome = outcome
    /\ run'[r].task = run[r].task
    /\ run'[r].schedule = run[r].schedule
    /\ run'[r].batch = run[r].batch

LEMMA GoingOn ==
    ASSUME TypeOK, NEW r \in Runner, NEW phase, NEW outcome
    PROVE  /\ EndWith(r, phase, outcome) => GoesOn(r, phase, outcome)
           /\ GoTo(r, phase) => GoesOn(r, phase, run[r].outcome)
           /\ run[r].outcome \in Outcome
<1>1. run \in [Runner -> Run] /\ run[r] \in Run
  BY DEF TypeOK
<1>2. ASSUME EndWith(r, phase, outcome) PROVE GoesOn(r, phase, outcome)
  <2>1. run' = [run EXCEPT ![r] = [run[r] EXCEPT !.phase = phase, !.outcome = outcome]]
    BY <1>2 DEF EndWith
  <2>. QED
    BY <1>1, <2>1 DEF GoesOn, Run
<1>3. ASSUME GoTo(r, phase) PROVE GoesOn(r, phase, run[r].outcome)
  <2>1. run' = [run EXCEPT ![r] = [run[r] EXCEPT !.phase = phase]]
    BY <1>3 DEF GoTo
  <2>. QED
    BY <1>1, <2>1 DEF GoesOn, Run
<1>. QED
  BY <1>1, <1>2, <1>3 DEF Run, Outcome

(* A run ends: its own delivery is settled, as done only by an "ok" that   *)
(* kept its promise.                                                       *)
LEMMA FinishDone ==
    ASSUME BatchInv, DoneInv, NEW r \in Runner, NEW outcome \in Outcome,
           outcome = "ok" => Fulfilled(r), Finish(r, outcome), batch' = batch
    PROVE  DoneInv'
<1>1. TypeOK /\ HasBatch /\ run \in [Runner -> Run] /\ now \in Nat
  BY DEF BatchInv, TypeOK
<1>2. /\ \A q \in Runner : q # r => run'[q] = run[q]
      /\ run'[r] = Asleep(r, outcome)
  BY <1>1 DEF Finish
<1>3. /\ run'[r].phase = "idle" /\ run'[r].outcome = outcome
      /\ run'[r].task = NoTask /\ run'[r].schedule = run[r].schedule
  BY <1>2 DEF Asleep, NoRun
<1>4. RowsPersist /\ Blank'
  BY SameRows DEF DoneInv
<1>5. Honest(r)'
  BY <1>3, <1>4, PromisesStay DEF Honest, Fulfilled, WithRow
<1>6. ASSUME NEW t \in ManualTask, queue'[t].state = "completed"
      PROVE  queue[t].state = "completed" \/ TaskPublished(t)
  <2>1. queue[t] \in QueuedTask /\ t # NoTask
    BY <1>1 DEF TypeOK
  <2>2. Retried(queue[t]).state # "completed"
    BY <2>1 DEF Retried, QueuedTask
  <2>3. queue'[t] = IF run[r].task = t /\ queue[t].state = "active" /\ queue[t].worker = r
                    THEN IF outcome = "ok" THEN Completed(queue[t]) ELSE Retried(queue[t])
                    ELSE queue[t]
    BY DEF Finish, Settled
  <2>. QED
    BY <1>6, <2>1, <2>2, <2>3 DEF Fulfilled
<1>. QED
  BY <1>1, <1>2, <1>4, <1>5, <1>6, OneRunner

(* A run goes on.                                                          *)
LEMMA GoingOnDone ==
    ASSUME BatchInv, DoneInv, NEW r \in Runner, NEW phase, NEW outcome, queue' = queue,
           GoesOn(r, phase, outcome), RowsPersist, Blank',
           phase # "idle",
           phase = "check" => r \in Scheduler,
           phase \in WithRow => KeepsRow(r)',
           phase = "fail" => outcome # "ok",
           phase = "release" /\ outcome = "ok" => Fulfilled(r)'
    PROVE  DoneInv'
<1>1. Honest(r)'
  BY DEF GoesOn, Honest, DoneInv
<1>. QED
  BY <1>1, OneRunner DEF GoesOn, BatchInv, DoneInv

LEMMA TryLockDone ==
    ASSUME BatchInv, DoneInv, NEW r \in Runner, TryLock(r) PROVE DoneInv'
<1>1. batch' = batch /\ RowsPersist /\ Blank'
  BY SameRows DEF TryLock, DoneInv
<1>2. CASE Finish(r, "error")
  BY <1>1, <1>2, FinishDone DEF Outcome
<1>3. CASE GoTo(r, IF r \in Scheduler THEN "check" ELSE "start") /\ UNCHANGED queue
  <2>. DEFINE phase == IF r \in Scheduler THEN "check" ELSE "start"
  <2>1. GoesOn(r, phase, run[r].outcome)
    BY <1>3, GoingOn DEF BatchInv
  <2>2. (phase = "check" /\ r \in Scheduler) \/ phase = "start"
    OBVIOUS
  <2>. HIDE DEF phase
  <2>. QED
    BY <1>1, <1>3, <2>1, <2>2, GoingOnDone DEF WithRow
<1>. QED
  BY <1>2, <1>3 DEF TryLock

LEMMA CheckDueDone ==
    ASSUME BatchInv, DoneInv, NEW r \in Runner, CheckDue(r) PROVE DoneInv'
<1>1. batch' = batch /\ RowsPersist /\ Blank' /\ queue' = queue
  BY SameRows DEF CheckDue, DoneInv
<1>2. r \in Scheduler /\ run[r].task = NoTask
  BY DEF CheckDue, At, DoneInv, Honest
<1>3. CASE Covered(run[r].schedule) /\ EndWith(r, "release", "ok")
  <2>1. GoesOn(r, "release", "ok")
    BY <1>3, GoingOn DEF BatchInv
  <2>2. Fulfilled(r)'
    BY <1>1, <1>2, <1>3, <2>1, PromisesStay DEF Fulfilled, GoesOn
  <2>. QED
    BY <1>1, <2>1, <2>2, GoingOnDone DEF WithRow
<1>4. CASE GoTo(r, "start")
  BY <1>1, <1>4, GoingOn, GoingOnDone DEF BatchInv, WithRow
<1>5. CASE EndWith(r, "release", "error")
  BY <1>1, <1>5, GoingOn, GoingOnDone DEF BatchInv, WithRow
<1>. QED
  BY <1>3, <1>4, <1>5 DEF CheckDue

LEMMA StartBatchDone ==
    ASSUME BatchInv, DoneInv, NEW r \in Runner, StartBatch(r) PROVE DoneInv'
<1>1. TypeOK /\ Blank /\ queue' = queue /\ run \in [Runner -> Run] /\ run[r] \in Run
  BY DEF BatchInv, DoneInv, StartBatch, TypeOK
<1>2. CASE UNCHANGED batch /\ EndWith(r, "release", "error")
  BY <1>1, <1>2, SameRows, GoingOn, GoingOnDone DEF WithRow
<1>3. ASSUME NEW b \in BatchID, Picks(r, b), batch' = Started(r, b),
             \/ Cleaned[b].status = "published" /\ EndWith(r, "release", "ok")
             \/ /\ Cleaned[b].status # "published"
                /\ run' = [run EXCEPT ![r].phase = "aggregate", ![r].batch = b]
             \/ EndWith(r, "release", "error")
      PROVE  DoneInv'
  <2>1. /\ RowsPersist /\ Blank'
        /\ Cleaned[b].status # "published" =>
              batch'[b].status = "running" /\ batch'[b].task = run[r].task
        /\ Cleaned[b].status = "published" =>
              /\ run[r].task # NoTask
              /\ batch'[b].status = "published" /\ batch'[b].task = run[r].task
    BY <1>1, <1>3, StartPersists
  <2>2. CASE Cleaned[b].status = "published" /\ EndWith(r, "release", "ok")
    <3>1. GoesOn(r, "release", "ok")
      BY <1>1, <2>2, GoingOn
    <3>2. r \notin Scheduler
      BY <2>1, <2>2 DEF DoneInv, Honest
    <3>3. Fulfilled(r)'
      BY <2>1, <2>2, <3>1, <3>2 DEF Fulfilled, GoesOn, TaskPublished
    <3>. QED
      BY <1>1, <2>1, <3>1, <3>3, GoingOnDone DEF WithRow
  <2>3. CASE /\ Cleaned[b].status # "published"
             /\ run' = [run EXCEPT ![r].phase = "aggregate", ![r].batch = b]
    <3>1. run' = [run EXCEPT ![r] = [run[r] EXCEPT !.phase = "aggregate", !.batch = b]]
      BY <2>3
    <3>2. /\ \A q \in Runner : q # r => run'[q] = run[q]
          /\ run'[r].phase = "aggregate" /\ run'[r].batch = b
          /\ run'[r].task = run[r].task
      BY <1>1, <3>1 DEF Run
    <3>3. Honest(r)'
      BY <2>1, <2>3, <3>2 DEF Honest, KeepsRow, DoneInv
    <3>. QED
      BY <1>1, <2>1, <3>2, <3>3, OneRunner DEF BatchInv, DoneInv
  <2>4. CASE EndWith(r, "release", "error")
    BY <1>1, <2>1, <2>4, GoingOn, GoingOnDone DEF WithRow
  <2>. QED
    BY <1>3, <2>2, <2>3, <2>4
<1>. QED
  BY <1>2, <1>3 DEF StartBatch

LEMMA AggregateDone ==
    ASSUME BatchInv, DoneInv, NEW r \in Runner, Aggregate(r) PROVE DoneInv'
<1>1. TypeOK /\ run \in [Runner -> Run] /\ run[r] \in Run
      /\ RowsPersist /\ Blank' /\ queue' = queue /\ batch' = batch
  BY SameRows DEF BatchInv, TypeOK, Aggregate, DoneInv
<1>2. KeepsRow(r)
  BY DEF DoneInv, Honest, Aggregate, At, WithRow
<1>3. CASE run' = [run EXCEPT ![r].phase = "publish", ![r].finishedAt = now]
  <2>1. run' = [run EXCEPT ![r] = [run[r] EXCEPT !.phase = "publish", !.finishedAt = now]]
    BY <1>3
  <2>2. GoesOn(r, "publish", run[r].outcome)
    BY <1>1, <2>1 DEF Run, GoesOn
  <2>3. KeepsRow(r)'
    BY <1>1, <1>2, <2>2 DEF KeepsRow, GoesOn
  <2>. QED
    BY <1>1, <2>2, <2>3, GoingOnDone
<1>4. CASE EndWith(r, "fail", "empty") \/ EndWith(r, "fail", "error")
  BY <1>1, <1>4, GoingOn, GoingOnDone DEF WithRow
<1>. QED
  BY <1>3, <1>4 DEF Aggregate

(* The row published is the run's own task's: another run restarts a row   *)
(* only for the same task, and a deleted row is not running.               *)
LEMMA PublishBatchDone ==
    ASSUME BatchInv, DoneInv, NEW r \in Runner, PublishBatch(r) PROVE DoneInv'
<1>. DEFINE b == run[r].batch
            row == Published(r, batch[b])
<1>1. /\ TypeOK /\ Blank /\ queue' = queue
      /\ b \in BatchID /\ batch \in [BatchID -> Row] /\ batch[b] \in Row /\ run[r] \in Run
  BY DEF BatchInv, DoneInv, TypeOK, HasBatch, WithBatch, PublishBatch, At
<1>2. CASE MayPublish(b) /\ batch' = [batch EXCEPT ![b] = row]
  <2>1. /\ row.status = "published" /\ row.publishedAt = run[r].finishedAt
        /\ row.task = batch[b].task
    BY <1>1, PublishedRow
  <2>2. batch[b].status = "running" /\ batch[b].task = run[r].task
    BY <1>2 DEF MayPublish, DoneInv, Honest, KeepsRow, PublishBatch, At, WithRow
  <2>3. run[r].finishedAt >= run[r].schedule
    BY DEF BatchInv, Timely, PublishBatch, At
  <2>. HIDE DEF row, b
  <2>4. RowsPersist /\ Blank' /\ batch'[b] = row
    BY <1>1, <1>2, <2>1, <2>2, StatusPersists
  <2>5. ASSUME GoesOn(r, "release", "ok") PROVE Fulfilled(r)'
    <3>1. run'[r].task = batch'[b].task /\ batch'[b].status = "published"
      BY <2>1, <2>2, <2>4, <2>5 DEF GoesOn
    <3>2. batch'[b].publishedAt >= run'[r].schedule
      BY <2>1, <2>3, <2>4, <2>5 DEF GoesOn
    <3>. QED
      BY <1>1, <3>1, <3>2 DEF Fulfilled, TaskPublished, Covered
  <2>6. GoesOn(r, "release", "ok") \/ GoesOn(r, "fail", "error")
    BY <1>1, <1>2, <2>2, GoingOn DEF PublishBatch, MayPublish, b
  <2>. QED
    BY <1>1, <2>4, <2>5, <2>6, GoingOnDone DEF WithRow
<1>3. CASE UNCHANGED batch /\ EndWith(r, "fail", "error")
  BY <1>1, <1>3, SameRows, GoingOn, GoingOnDone DEF WithRow
<1>. QED
  BY <1>2, <1>3 DEF PublishBatch

LEMMA FailBatchDone ==
    ASSUME BatchInv, DoneInv, NEW r \in Runner, FailBatch(r) PROVE DoneInv'
<1>. DEFINE b == run[r].batch
<1>1. /\ TypeOK /\ Blank /\ queue' = queue
      /\ b \in BatchID /\ batch \in [BatchID -> Row] /\ batch[b] \in Row
  BY DEF BatchInv, DoneInv, TypeOK, HasBatch, WithBatch, FailBatch, At
<1>2. run[r].outcome # "ok"
  BY DEF DoneInv, Honest, FailBatch, At
<1>3. RowsPersist /\ Blank'
  <2>1. Failed(batch[b]).status = "failed" /\ Failed(batch[b]).task = batch[b].task
    BY <1>1 DEF Failed, Row
  <2>2. CASE FailsBatch(b) /\ batch' = [batch EXCEPT ![b] = Failed(batch[b])]
    BY <1>1, <2>1, <2>2, StatusPersists DEF FailsBatch
  <2>3. CASE batch' = batch
    BY <1>1, <2>3, SameRows
  <2>. QED
    BY <1>1, <2>2, <2>3 DEF FailBatch
<1>4. GoesOn(r, "release", run[r].outcome)
  BY <1>1, GoingOn DEF FailBatch
<1>. QED
  BY <1>1, <1>2, <1>3, <1>4, GoingOnDone DEF WithRow

LEMMA ReleaseDone ==
    ASSUME BatchInv, DoneInv, NEW r \in Runner, Release(r) PROVE DoneInv'
<1>1. batch' = batch /\ run[r].phase = "release" /\ run[r].outcome \in Outcome
  BY GoingOn DEF Release, At, BatchInv
<1>2. Joined(run[r].outcome) \in Outcome \ {"ok"}
  BY <1>1 DEF Joined, Outcome
<1>3. run[r].outcome = "ok" => Fulfilled(r)
  BY <1>1 DEF DoneInv, Honest
<1>. QED
  BY <1>1, <1>2, <1>3, FinishDone DEF Release

(* Deliveries, timers, crashes and the queue's own steps.                  *)
LEMMA OthersDone ==
    ASSUME BatchInv, DoneInv,
           \/ \E s \in Scheduler : Wake(s)
           \/ \E h \in Handler, t \in ManualTask : Deliver(h, t)
           \/ \E t \in ManualTask : Enqueue(t) \/ Reclaim(t) \/ Forget(t)
           \/ \E r \in Runner : Crash(r) \/ LoseConnection(r)
           \/ DropOrphan
           \/ Tick
           \/ UNCHANGED vars
    PROVE  DoneInv'
<1>1. /\ run \in [Runner -> Run] /\ queue \in [ManualTask -> QueuedTask] /\ HasBatch
      /\ Handler \subseteq Runner /\ Scheduler \subseteq Runner
      /\ \A h \in Handler : h \notin Scheduler
  BY DEF BatchInv, TypeOK, Runner
<1>2. batch' = batch /\ RowsPersist /\ Blank'
  BY Zenon, SameRows DEF DoneInv, Wake, Deliver, Enqueue, Reclaim, Forget, Crash, LoseConnection,
     DropOrphan, Tick, vars
(* A step that gives one runner a new run, of no known outcome.            *)
<1>3. ASSUME NEW r \in Runner, NEW new, run' = [run EXCEPT ![r] = new],
             new.outcome = "none", new.phase \in {"idle", "lock"},
             r \in Scheduler => new.task = NoTask,
             \A t \in ManualTask :
                 queue'[t].state = "completed" => queue[t].state = "completed"
      PROVE  DoneInv'
  <2>1. run'[r] = new /\ \A q \in Runner : q # r => run'[q] = run[q]
    BY <1>1, <1>3
  <2>2. Honest(r)'
    BY <1>3, <2>1 DEF Honest, WithRow
  <2>. QED
    BY <1>1, <1>2, <1>3, <2>1, <2>2, OneRunner
(* A step that leaves all runs alone.                                      *)
<1>4. ASSUME run' = run,
             \A t \in ManualTask :
                 queue'[t].state = "completed" => queue[t].state = "completed"
      PROVE  DoneInv'
  <2>1. \A q \in Runner : Honest(q)'
    BY <1>1, <1>2, <1>4, OthersHonest DEF DoneInv
  <2>. QED
    BY <1>2, <1>4, <2>1, PromisesStay DEF DoneInv
<1>5. ASSUME NEW s \in Scheduler, Wake(s) PROVE DoneInv'
  <2>. DEFINE new == IF AfterHour THEN [NoRun EXCEPT !.phase = "lock", !.schedule = now]
                                 ELSE [NoRun EXCEPT !.wakeAt = NextHour]
  <2>1. new.outcome = "none" /\ new.phase \in {"idle", "lock"} /\ new.task = NoTask
    BY DEF NoRun
  <2>2. run' = [run EXCEPT ![s] = new] /\ queue' = queue
    BY <1>5 DEF Wake
  <2>. HIDE DEF new
  <2>. QED
    BY <1>1, <1>3, <2>1, <2>2
<1>6. ASSUME NEW h \in Handler, NEW t \in ManualTask, Deliver(h, t) PROVE DoneInv'
  <2>. DEFINE new == [NoRun EXCEPT !.phase = "lock", !.task = t]
  <2>1. new.outcome = "none" /\ new.phase = "lock"
    BY DEF NoRun
  <2>2. /\ run' = [run EXCEPT ![h] = new]
        /\ queue' = [queue EXCEPT ![t].state = "active", ![t].worker = h]
    BY Zenon, <1>6 DEF Deliver
  <2>3. \A u \in ManualTask : queue'[u].state = "completed" => queue[u].state = "completed"
    BY <1>1, <2>2 DEF QueuedTask
  <2>. HIDE DEF new
  <2>. QED
    BY <1>1, <1>3, <2>1, <2>2, <2>3
<1>7. ASSUME NEW r \in Runner, Crash(r) PROVE DoneInv'
  <2>. DEFINE new == [NoRun EXCEPT !.wakeAt = now]
  <2>1. new.outcome = "none" /\ new.phase = "idle" /\ new.task = NoTask
    BY DEF NoRun
  <2>2. run' = [run EXCEPT ![r] = new] /\ queue' = queue
    BY <1>7 DEF Crash
  <2>. HIDE DEF new
  <2>. QED
    BY <1>1, <1>3, <2>1, <2>2
<1>8. ASSUME NEW t \in ManualTask, Enqueue(t) \/ Reclaim(t) \/ Forget(t) PROVE DoneInv'
  <2>1. queue[t] \in QueuedTask
    BY <1>1
  <2>2. /\ Retried(queue[t]).state # "completed" /\ NotQueued.state # "completed"
        /\ [queue[t] EXCEPT !.state = "pending"].state = "pending"
    BY <2>1 DEF Retried, QueuedTask, NotQueued
  <2>3. \E new : queue' = [queue EXCEPT ![t] = new] /\ new.state # "completed"
    BY <1>8, <2>2 DEF Enqueue, Reclaim, Forget
  <2>4. run' = run
    BY <1>8 DEF Enqueue, Reclaim, Forget
  <2>. QED
    BY <1>1, <1>4, <2>3, <2>4
<1>9. CASE (\E r \in Runner : LoseConnection(r)) \/ DropOrphan \/ Tick \/ UNCHANGED vars
  BY <1>4, <1>9 DEF LoseConnection, DropOrphan, Tick, vars
<1>. QED
  BY <1>5, <1>6, <1>7, <1>8, <1>9

LEMMA DoneStep == BatchInv /\ DoneInv /\ [Next]_vars => DoneInv'
<1>. SUFFICES ASSUME BatchInv, DoneInv, [Next]_vars PROVE DoneInv'
  OBVIOUS
<1>1. ASSUME NEW r \in Runner, RunStep(r) PROVE DoneInv'
  BY <1>1, TryLockDone, CheckDueDone, StartBatchDone, AggregateDone, PublishBatchDone,
     FailBatchDone, ReleaseDone DEF RunStep
<1>. QED
  BY <1>1, OthersDone DEF Next

(* HandleManualRun reports a task done only when its own batch has been    *)
(* published, and RunIfDue ends without error only when its schedule is    *)
(* covered - for any number of tasks, retries, crashes and overlapping     *)
(* runs, also when a lock was lost.                                        *)
THEOREM DoneIsPublished == Spec => []DoneMeansPublished
<1>1. DoneInv => DoneMeansPublished
  <2>. SUFFICES ASSUME DoneInv PROVE DoneMeansPublished
    OBVIOUS
  <2>1. Scheduler \subseteq Runner
    BY DEF Runner
  <2>. QED
    BY <2>1 DEF DoneInv, Honest, TaskPublished, DoneMeansPublished, At
<1>. QED
  BY <1>1, InitDone, DoneStep, BatchInvariant, PTL DEF Spec
=============================================================================
