------------------------- MODULE QueryCircuitProofs -------------------------
(***************************************************************************)
(* Proofs about the circuit breaker, for every number of leaders and every *)
(* configuration: its types, that an open breaker has no probe, that it    *)
(* rejects for exactly its open duration, that it never rejects for longer *)
(* than an open duration or a leader's timeout, that nobody is admitted    *)
(* beside a live probe, and that a late success forgets no failures.       *)
(*                                                                         *)
(* The strengthening that makes the rest inductive is OutlivesOpening: the *)
(* TTL of the Redis hash never ends before open_until does.                *)
(***************************************************************************)
EXTENDS QueryCircuit, FiniteSetTheorems, TLAPS

OutlivesOpening == Open => circuit.expireAt >= circuit.openUntil

CircuitInv ==
    /\ TypeOK
    /\ OpenHasNoProbe
    /\ OutlivesOpening
    /\ RejectionBounded

Hash == [openUntil : Nat, probeToken : Leader \cup {NoToken},
         probeUntil : Nat, lastFailureAt : Nat, expireAt : Nat]

FiniteEvents(Z) == Z \in SUBSET Event /\ IsFiniteSet(Z)

(* All that the invariants need to know of a step that runs one script: it *)
(* leaves a rejecting hash rejecting for as long, without a probe and with *)
(* no shorter TTL, and what it opens or grants is bounded.                 *)
ScriptStep ==
    /\ circuit' \in Hash
    /\ Open => /\ circuit'.openUntil = circuit.openUntil
               /\ circuit'.expireAt >= circuit.expireAt
               /\ circuit'.probeToken = NoToken
    /\ circuit'.openUntil > now =>
          /\ circuit'.probeToken = NoToken
          /\ circuit'.expireAt >= circuit'.openUntil
    /\ circuit'.openUntil <= now + OpenDuration
    /\ circuit'.probeUntil <= now + Timeout
    /\ FiniteEvents(samples')
    /\ FiniteEvents(deadlines')

USE CircuitAssumption DEF CircuitAssumption

(* Pruning or extending a sorted set keeps it a finite set of events.      *)
LEMMA SetTypes ==
    ASSUME now \in Nat \ {0}, NEW Z, FiniteEvents(Z), NEW i \in Int
    PROVE  /\ FiniteEvents(After(Z, i))
           /\ FiniteEvents(Add(Z))
           /\ FiniteEvents({})
<1>1. FiniteEvents(After(Z, i))
  BY FS_Subset DEF FiniteEvents, After
<1>2. IsFiniteSet(NoOlder(Z, now))
  BY FS_Subset DEF FiniteEvents, NoOlder
<1>3. Cardinality(NoOlder(Z, now)) \in Nat
  BY <1>2, FS_CardinalityType
<1>4. FiniteEvents(Add(Z))
  <2>. DEFINE e == <<now, Cardinality(NoOlder(Z, now))>>
  <2>1. e \in Event
    BY <1>3 DEF Event
  <2>2. IsFiniteSet(Z \cup {e})
    BY FS_AddElement DEF FiniteEvents
  <2>. QED
    BY <2>1, <2>2 DEF FiniteEvents, Add
<1>5. FiniteEvents({})
  BY FS_EmptySet DEF FiniteEvents
<1>. QED
  BY <1>1, <1>4, <1>5

(* The scripts, one lemma each.                                            *)

LEMMA UnchangedScript ==
    ASSUME CircuitInv, UNCHANGED redis
    PROVE  ScriptStep
BY DEF CircuitInv, TypeOK, OpenHasNoProbe, OutlivesOpening, RejectionBounded,
       ScriptStep, Hash, FiniteEvents, redis, Open

LEMMA Fields ==
    ASSUME CircuitInv
    PROVE  /\ circuit \in Hash
           /\ now \in Nat \ {0}
           /\ circuit.openUntil \in Nat /\ circuit.probeUntil \in Nat
           /\ circuit.probeToken \in Leader \cup {NoToken}
           /\ circuit.lastFailureAt \in Nat /\ circuit.expireAt \in Nat
           /\ FiniteEvents(samples) /\ FiniteEvents(deadlines)
           /\ Open => circuit.probeToken = NoToken
           /\ Open => circuit.expireAt >= circuit.openUntil
           /\ circuit.openUntil <= now + OpenDuration
           /\ circuit.probeUntil <= now + Timeout
BY DEF CircuitInv, TypeOK, OpenHasNoProbe, OutlivesOpening, RejectionBounded, Hash,
       FiniteEvents

(* A record without its probe.                                             *)
LEMMA WithoutProbeFields ==
    ASSUME NEW c \in Hash
    PROVE  /\ WithoutProbe(c) \in Hash
           /\ WithoutProbe(c).openUntil = c.openUntil
           /\ WithoutProbe(c).probeToken = NoToken
           /\ WithoutProbe(c).probeUntil = 0
           /\ WithoutProbe(c).expireAt = c.expireAt
BY DEF Hash, WithoutProbe

LEMMA SettleScript ==
    ASSUME CircuitInv, circuit' = Settled, UNCHANGED <<samples, deadlines>>
    PROVE  ScriptStep
<1>1. CASE Open \/ ProbeLive
  BY <1>1, Fields DEF Settled, ScriptStep, Open
<1>2. CASE ~(Open \/ ProbeLive)
  <2>1. circuit' = WithoutProbe(circuit)
    BY <1>2 DEF Settled
  <2>. QED
    BY <1>2, <2>1, Fields, WithoutProbeFields DEF ScriptStep, Open
<1>. QED
  BY <1>1, <1>2

LEMMA GrantScript ==
    ASSUME CircuitInv, NEW l \in Leader, NEW left \in 1..Timeout, GrantsProbe(l),
           circuit' = Granted(l, left), UNCHANGED <<samples, deadlines>>
    PROVE  ScriptStep
<1>. DEFINE ttl == Later(circuit.expireAt, now + left)
<1>1. ttl \in Nat /\ now + left \in Nat
  BY Fields DEF Later
<1>2. circuit' = [circuit EXCEPT !.openUntil = circuit.openUntil, !.probeToken = l,
                      !.probeUntil = now + left,
                      !.lastFailureAt = circuit.lastFailureAt, !.expireAt = ttl]
  BY Fields DEF Granted, ExtendTTL, Hash
<1>3. /\ circuit' \in Hash
      /\ circuit'.openUntil = circuit.openUntil
      /\ circuit'.probeUntil = now + left
  <2>. HIDE DEF ttl
  <2>. QED
    BY <1>1, <1>2, Fields DEF Hash
<1>. QED
  BY <1>3, Fields DEF ScriptStep, GrantsProbe, Open

LEMMA ReleaseScript ==
    ASSUME CircuitInv, NEW token \in Leader, ReleaseProbe(token)
    PROVE  ScriptStep
<1>1. CASE OwnsProbe(token)
  <2>1. circuit' = [WithoutProbe(circuit) EXCEPT !.openUntil = 0]
    BY <1>1 DEF ReleaseProbe
  <2>2. /\ circuit' \in Hash
        /\ circuit'.openUntil = 0
        /\ circuit'.probeUntil = 0
    BY <2>1, Fields, WithoutProbeFields DEF Hash
  <2>3. ~Open
    BY <1>1, Fields DEF OwnsProbe
  <2>. QED
    BY <2>2, <2>3, Fields DEF ScriptStep, ReleaseProbe
<1>2. CASE ~OwnsProbe(token)
  BY <1>2, Fields DEF ScriptStep, ReleaseProbe, Open
<1>. QED
  BY <1>1, <1>2

LEMMA DeadlineScript ==
    ASSUME CircuitInv, NEW token \in Leader, NEW at \in Nat, RecordDeadline(token, at)
    PROVE  ScriptStep
<1>. DEFINE failed == [circuit EXCEPT !.lastFailureAt = Later(@, at)]
            s == Add(After(samples, now - Window))
            d == Add(After(deadlines, now - LongWindow))
<1>1. circuit \in Hash /\ now \in Nat \ {0}
  BY DEF CircuitInv, TypeOK, Hash
<1>2. failed \in Hash /\ failed = [circuit EXCEPT !.lastFailureAt = failed.lastFailureAt]
  BY <1>1 DEF Hash, Later
<1>3. LongWindow \in Nat /\ EventTTL \in Nat /\ EventTTL >= OpenDuration
  BY DEF LongWindow, EventTTL
<1>4. FiniteEvents(samples) /\ FiniteEvents(deadlines)
  BY DEF CircuitInv, TypeOK, FiniteEvents
<1>5. FiniteEvents(s) /\ FiniteEvents(d) /\ FiniteEvents({})
  <2>1. FiniteEvents(After(samples, now - Window))
    BY <1>1, <1>4, SetTypes
  <2>2. FiniteEvents(After(deadlines, now - LongWindow))
    BY <1>1, <1>3, <1>4, SetTypes
  <2>. QED
    BY <1>1, <2>1, <2>2, SetTypes
<1>6. CASE Open /\ circuit' = failed /\ UNCHANGED <<samples, deadlines>>
  <2>1. circuit' = [circuit EXCEPT !.lastFailureAt = failed.lastFailureAt]
    BY <1>2, <1>6
  <2>. QED
    BY <1>1, <1>2, <1>4, <1>6, <2>1
    DEF CircuitInv, OpenHasNoProbe, OutlivesOpening, RejectionBounded, ScriptStep, Hash, Open
<1>7. ASSUME NEW ttl \in Nat, ttl >= OpenDuration, ~Open,
             circuit' = Opened(failed, ttl), samples' = {}, deadlines' = {}
      PROVE  ScriptStep
  <2>1. circuit' = [failed EXCEPT !.openUntil = now + OpenDuration, !.probeToken = NoToken,
                       !.probeUntil = 0, !.lastFailureAt = failed.lastFailureAt,
                       !.expireAt = now + ttl]
    BY <1>7, <1>2 DEF Opened, WithoutProbe, Hash
  <2>2. failed.lastFailureAt \in Nat /\ now + OpenDuration \in Nat /\ now + ttl \in Nat
    BY <1>1, <1>2, <1>7 DEF Hash
  <2>3. /\ circuit' \in Hash
        /\ circuit'.openUntil = now + OpenDuration
        /\ circuit'.probeToken = NoToken
        /\ circuit'.probeUntil = 0
        /\ circuit'.expireAt = now + ttl
    <3>. HIDE DEF failed
    <3>. QED
      BY <1>2, <2>1, <2>2 DEF Hash
  <2>. QED
    BY <1>1, <1>5, <1>7, <2>3 DEF ScriptStep
<1>8. CASE /\ ~Open
           /\ circuit' = [failed EXCEPT !.openUntil = 0, !.expireAt = now + EventTTL]
           /\ samples' = s
           /\ deadlines' = d
  <2>1. circuit' = [circuit EXCEPT !.openUntil = 0, !.probeToken = circuit.probeToken,
                       !.probeUntil = circuit.probeUntil,
                       !.lastFailureAt = failed.lastFailureAt, !.expireAt = now + EventTTL]
    BY <1>8, <1>2, Fields DEF Hash
  <2>2. failed.lastFailureAt \in Nat /\ now + EventTTL \in Nat
    BY <1>1, <1>2, <1>3 DEF Hash
  <2>3. /\ circuit' \in Hash
        /\ circuit'.openUntil = 0
        /\ circuit'.probeUntil = circuit.probeUntil
    <3>. HIDE DEF failed
    <3>. QED
      BY <2>1, <2>2, Fields DEF Hash
  <2>. HIDE DEF s, d
  <2>. QED
    BY <1>5, <1>8, <2>3, Fields DEF ScriptStep
<1>9. OpenDuration + Window \in Nat /\ OpenDuration + Window >= OpenDuration
  OBVIOUS
<1>. QED
  BY <1>3, <1>6, <1>7, <1>8, <1>9 DEF RecordDeadline

LEMMA ResetScript ==
    ASSUME CircuitInv, NEW token \in Leader \cup {NoToken}, NEW at \in Nat,
           NEW preserve, ResetCircuit(token, at, preserve)
    PROVE  ScriptStep
<1>. DEFINE sampled == IF preserve THEN ExtendTTL(circuit, LongWindow) ELSE circuit
            closed == IF OwnsProbe(token)
                      THEN [WithoutProbe(sampled) EXCEPT !.openUntil = 0]
                      ELSE sampled
<1>1. LongWindow \in Nat
  BY DEF LongWindow
<1>2. FiniteEvents(samples') /\ FiniteEvents(deadlines')
  <2>1. SampleSuccess(preserve) => FiniteEvents(samples') /\ FiniteEvents(deadlines')
    BY <1>1, Fields, SetTypes DEF SampleSuccess
  <2>. QED
    BY <2>1, Fields, SetTypes DEF ResetCircuit
<1>3. /\ sampled \in Hash
      /\ sampled.openUntil = circuit.openUntil
      /\ sampled.probeToken = circuit.probeToken
      /\ sampled.probeUntil = circuit.probeUntil
      /\ sampled.expireAt \in Nat /\ sampled.expireAt >= circuit.expireAt
  <2>1. Later(circuit.expireAt, now + LongWindow) \in Nat
    BY <1>1, Fields DEF Later
  <2>2. Later(circuit.expireAt, now + LongWindow) >= circuit.expireAt
    BY <1>1, Fields DEF Later
  <2>. QED
    BY <2>1, <2>2, Fields DEF ExtendTTL, Hash
<1>4. /\ closed \in Hash
      /\ closed.openUntil \in {0, circuit.openUntil}
      /\ closed.probeUntil \in {0, circuit.probeUntil}
  <2>. HIDE DEF sampled
  <2>1. CASE OwnsProbe(token)
    BY <1>3, <2>1, WithoutProbeFields DEF Hash
  <2>2. CASE ~OwnsProbe(token)
    BY <1>3, <2>2
  <2>. QED
    BY <2>1, <2>2
<1>5. CASE circuit' = sampled
  <2>. HIDE DEF sampled
  <2>. QED
    BY <1>2, <1>3, <1>5, Fields DEF ScriptStep, Open
<1>6. ASSUME ~Open, NEW e \in Nat,
             circuit' = [closed EXCEPT !.lastFailureAt = 0, !.expireAt = e]
      PROVE  ScriptStep
  <2>. HIDE DEF closed, sampled
  <2>1. /\ circuit' \in Hash
        /\ circuit'.openUntil = closed.openUntil
        /\ circuit'.probeUntil = closed.probeUntil
    BY <1>4, <1>6 DEF Hash
  <2>. QED
    BY <1>2, <1>4, <1>6, <2>1, Fields DEF ScriptStep, Open
<1>7. CASE ~Open /\ circuit' = [closed EXCEPT !.lastFailureAt = 0]
  <2>1. closed.expireAt \in Nat
    BY <1>4 DEF Hash
  <2>2. circuit' = [closed EXCEPT !.lastFailureAt = 0, !.expireAt = closed.expireAt]
    <3>. HIDE DEF closed
    <3>. QED
      BY <1>4, <1>7 DEF Hash
  <2>. QED
    BY <1>6, <1>7, <2>1, <2>2
<1>8. CASE ~Open /\ circuit' = [closed EXCEPT !.lastFailureAt = 0, !.expireAt = now + Window]
  <2>. HIDE DEF closed
  <2>1. now + Window \in Nat
    BY Fields
  <2>. QED
    BY <1>6, <1>8, <2>1
<1>. QED
  BY <1>5, <1>7, <1>8 DEF ResetCircuit

-----------------------------------------------------------------------------
(* Actions.                                                                *)

(* A step that runs at most one script while the clock stands still.       *)
LEMMA ScriptPreserves ==
    ASSUME CircuitInv, ScriptStep, now' = now
    PROVE  /\ OpenHasNoProbe' /\ OutlivesOpening' /\ RejectionBounded'
           /\ circuit.openUntil > now' => circuit'.openUntil = circuit.openUntil
BY Fields DEF ScriptStep, OpenHasNoProbe, OutlivesOpening, RejectionBounded, Open, Hash

LEMMA TaskFields ==
    ASSUME CircuitInv, NEW t \in bookkeeping
    PROVE  t.token \in Leader /\ t.at \in Nat
BY DEF CircuitInv, TypeOK, Task

(* Every step but Tick runs at most one script.                            *)
LEMMA OneScript ==
    ASSUME CircuitInv, Next, ~Tick
    PROVE  ScriptStep /\ now' = now
<1>1. CASE PollCircuit
  BY <1>1, SettleScript DEF PollCircuit
<1>2. ASSUME NEW l \in Leader, NEW left \in 1..Timeout, Admit(l, left)
      PROVE  ScriptStep /\ now' = now
  BY <1>2, SettleScript, GrantScript DEF Admit
<1>3. ASSUME NEW l \in Leader, LeaveProbe(l)
      PROVE  ScriptStep
  BY <1>3, UnchangedScript, ReleaseScript DEF LeaveProbe, redis
<1>4. ASSUME NEW l \in Leader, Abandon(l) \/ Exit(l)
      PROVE  ScriptStep /\ now' = now
  BY <1>3, <1>4 DEF Abandon, Exit
<1>5. ASSUME NEW l \in Leader, Succeed(l)
      PROVE  ScriptStep /\ now' = now
  <2>1. ProbeToken(l) \in Leader \cup {NoToken} /\ now \in Nat
    BY Fields DEF ProbeToken
  <2>. QED
    BY <1>5, <2>1, UnchangedScript, ResetScript DEF Succeed
<1>6. ASSUME NEW l \in Leader, TimeOut(l) \/ Crash(l)
      PROVE  ScriptStep /\ now' = now
  BY <1>6, UnchangedScript DEF TimeOut, Crash
<1>7. ASSUME NEW t \in bookkeeping, RunTask(t)
      PROVE  ScriptStep /\ now' = now
  <2>1. (IF t.probe THEN t.token ELSE NoToken) \in Leader \cup {NoToken}
    BY TaskFields
  <2>. QED
    BY <1>7, <2>1, TaskFields, DeadlineScript, ResetScript, ReleaseScript DEF RunTask
<1>8. ASSUME NEW t \in bookkeeping, LoseTask(t)
      PROVE  ScriptStep /\ now' = now
  BY <1>8, UnchangedScript DEF LoseTask
<1>. QED
  BY <1>1, <1>2, <1>4, <1>5, <1>6, <1>7, <1>8 DEF Next

(* Leaders and tasks keep their types.                                     *)
LEMMA ActorTypes ==
    ASSUME CircuitInv, Next
    PROVE  /\ leader' \in [Leader -> [phase : Phase, probe : BOOLEAN,
                                      admittedAt : Nat, deadline : Nat]]
           /\ bookkeeping' \in SUBSET Task
<1>. DEFINE Record == [phase : Phase, probe : BOOLEAN, admittedAt : Nat, deadline : Nat]
<1>1. leader \in [Leader -> Record] /\ bookkeeping \in SUBSET Task /\ now \in Nat
  BY DEF CircuitInv, TypeOK
<1>2. ASSUME NEW l \in Leader, NEW k \in {"deadline", "reset", "release"},
             NEW probe \in BOOLEAN,
             Enqueue([kind |-> k, token |-> l, at |-> now, probe |-> probe])
      PROVE  bookkeeping' \in SUBSET Task
  BY <1>1, <1>2 DEF Enqueue, Task
<1>3. ASSUME NEW l \in Leader, NEW phase \in Phase, GoTo(l, phase) \/ Leave(l)
      PROVE  leader' \in [Leader -> Record]
  BY <1>1, <1>3 DEF GoTo, Leave, Phase
<1>4. ASSUME NEW l \in Leader, NEW left \in 1..Timeout, Admit(l, left)
      PROVE  leader' \in [Leader -> Record] /\ bookkeeping' \in SUBSET Task
  <2>1. now + left \in Nat /\ GrantsProbe(l) \in BOOLEAN
    BY <1>1 DEF GrantsProbe
  <2>2. [phase |-> "flight", probe |-> GrantsProbe(l),
         admittedAt |-> now, deadline |-> now + left] \in Record
    BY <1>1, <2>1 DEF Phase
  <2>. QED
    BY <1>1, <1>4, <2>2 DEF Admit
<1>5. ASSUME NEW l \in Leader, LeaveProbe(l)
      PROVE  bookkeeping' \in SUBSET Task
  BY <1>1, <1>2, <1>5 DEF LeaveProbe
<1>6. ASSUME NEW l \in Leader, Abandon(l) \/ Exit(l)
      PROVE  leader' \in [Leader -> Record] /\ bookkeeping' \in SUBSET Task
  BY <1>3, <1>5, <1>6 DEF Abandon, Exit, Phase
<1>7. ASSUME NEW l \in Leader, Succeed(l) \/ TimeOut(l)
      PROVE  leader' \in [Leader -> Record] /\ bookkeeping' \in SUBSET Task
  <2>1. leader[l].probe \in BOOLEAN
    BY <1>1
  <2>. QED
    BY <1>2, <1>3, <1>7, <2>1 DEF Succeed, TimeOut, Phase
<1>8. ASSUME NEW l \in Leader, Crash(l)
      PROVE  leader' \in [Leader -> Record] /\ bookkeeping' \in SUBSET Task
  BY <1>1, <1>3, <1>8 DEF Crash, Phase
<1>9. CASE PollCircuit \/ Tick
  BY <1>1, <1>9 DEF PollCircuit, Tick
<1>10. ASSUME NEW t \in bookkeeping, RunTask(t) \/ LoseTask(t)
       PROVE  leader' \in [Leader -> Record] /\ bookkeeping' \in SUBSET Task
  BY <1>1, <1>10 DEF RunTask, LoseTask
<1>. QED
  BY <1>4, <1>6, <1>7, <1>8, <1>9, <1>10 DEF Next

(* Time passing, and the hash expiring, open nothing and close nothing     *)
(* early: the TTL of an open hash reaches beyond open_until.               *)
LEMMA TickPreserves ==
    ASSUME CircuitInv, Tick
    PROVE  /\ circuit' \in Hash
           /\ FiniteEvents(samples') /\ FiniteEvents(deadlines')
           /\ now' \in Nat \ {0}
           /\ OpenHasNoProbe' /\ OutlivesOpening' /\ RejectionBounded'
           /\ circuit.openUntil > now' => circuit'.openUntil = circuit.openUntil
<1>1. /\ NoCircuit \in Hash
      /\ NoCircuit.openUntil = 0 /\ NoCircuit.probeUntil = 0
  BY DEF NoCircuit, Hash
<1>2. now' = now + 1 /\ UNCHANGED <<samples, deadlines>>
  BY DEF Tick
<1>3. CASE circuit.expireAt <= now' /\ circuit' = NoCircuit
  BY <1>1, <1>2, <1>3, Fields DEF OpenHasNoProbe, OutlivesOpening, RejectionBounded, Open
<1>4. CASE circuit' = circuit
  BY <1>2, <1>4, Fields DEF OpenHasNoProbe, OutlivesOpening, RejectionBounded, Open
<1>. QED
  BY <1>3, <1>4 DEF Tick

LEMMA InductiveStep ==
    ASSUME CircuitInv, [Next]_vars
    PROVE  /\ CircuitInv'
           /\ circuit.openUntil > now' => circuit'.openUntil = circuit.openUntil
<1>1. CASE UNCHANGED vars
  BY <1>1 DEF vars, CircuitInv, TypeOK, OpenHasNoProbe, OutlivesOpening, RejectionBounded, Open
<1>2. CASE Next /\ Tick
  BY <1>2, TickPreserves, ActorTypes DEF CircuitInv, TypeOK, Hash, FiniteEvents
<1>3. CASE Next /\ ~Tick
  <2>1. ScriptStep /\ now' = now
    BY <1>3, OneScript
  <2>2. TypeOK'
    BY <1>3, <2>1, ActorTypes, Fields DEF ScriptStep, TypeOK, Hash, FiniteEvents
  <2>. QED
    BY <2>1, <2>2, ScriptPreserves DEF CircuitInv
<1>. QED
  BY <1>1, <1>2, <1>3

-----------------------------------------------------------------------------
(* The inductive invariant holds of every reachable state.                 *)
THEOREM CircuitInvariant == Spec => []CircuitInv
<1>1. Init => CircuitInv
  BY FS_EmptySet DEF Init, NoCircuit, CircuitInv, TypeOK, OpenHasNoProbe,
     OutlivesOpening, RejectionBounded, Open, Phase
<1>2. CircuitInv /\ [Next]_vars => CircuitInv'
  BY InductiveStep
<1>. QED
  BY <1>1, <1>2, PTL DEF Spec

(* Every variable keeps its type (store.go's hash and sorted sets, the     *)
(* leaders of coordinator.go and their bookkeeping).                       *)
THEOREM CircuitTypes == Spec => []TypeOK
<1>1. CircuitInv => TypeOK
  BY DEF CircuitInv
<1>. QED
  BY <1>1, CircuitInvariant, PTL

(* An open breaker has no probe that could close it.                       *)
THEOREM OpenExcludesProbe == Spec => []OpenHasNoProbe
<1>1. CircuitInv => OpenHasNoProbe
  BY DEF CircuitInv
<1>. QED
  BY <1>1, CircuitInvariant, PTL

(* A lost probe or a lost report never makes the breaker reject for longer *)
(* than the configured durations.                                          *)
THEOREM RejectionIsBounded == Spec => []RejectionBounded
<1>1. CircuitInv => RejectionBounded
  BY DEF CircuitInv
<1>. QED
  BY <1>1, CircuitInvariant, PTL

(* No step of any instance ends an opening before open_until.              *)
THEOREM OpeningLasts == Spec => StaysOpen
<1>1. CircuitInv /\ [Next]_vars
      => [circuit.openUntil > now' => circuit'.openUntil = circuit.openUntil]_vars
  BY InductiveStep
<1>. QED
  BY <1>1, CircuitInvariant, PTL DEF Spec, StaysOpen

-----------------------------------------------------------------------------
(* The probe.  A leader admitted beside a live probe was admitted before   *)
(* it: while the probe lives nobody else is admitted, and its token is     *)
(* given to nobody else.                                                   *)

ProbeInv == ProbeExclusive /\ \A l \in Leader : leader[l].admittedAt <= now

(* A hash with the present probe or with none.                             *)
SameProbe(c) ==
    /\ c \in Hash
    /\ \/ c.probeToken = NoToken
       \/ c.probeToken = circuit.probeToken /\ c.probeUntil = circuit.probeUntil

LEMMA ProbeTaken ==
    ASSUME NEW c, SameProbe(c)
    PROVE  c \in Hash /\ SameProbe(WithoutProbe(c))
BY WithoutProbeFields DEF SameProbe

(* The scripts other than an admission.                                    *)
LEMMA SettleProbe == ASSUME CircuitInv PROVE SameProbe(Settled) /\ SameProbe(circuit)
<1>1. SameProbe(circuit)
  BY Fields DEF SameProbe
<1>2. SameProbe(WithoutProbe(circuit))
  BY <1>1, ProbeTaken
<1>. QED
  BY <1>1, <1>2 DEF Settled

LEMMA ReleaseEndsProbe ==
    ASSUME CircuitInv, NEW token, ReleaseProbe(token) PROVE SameProbe(circuit')
<1>. DEFINE c == WithoutProbe(circuit)
<1>1. SameProbe(circuit) /\ SameProbe(c)
  BY SettleProbe, ProbeTaken
<1>2. circuit' = circuit \/ circuit' = [c EXCEPT !.openUntil = 0]
  BY DEF ReleaseProbe
<1>. HIDE DEF c
<1>. QED
  BY <1>1, <1>2 DEF SameProbe, Hash

LEMMA DeadlineEndsProbe ==
    ASSUME CircuitInv, NEW token, NEW at \in Nat, RecordDeadline(token, at)
    PROVE  SameProbe(circuit')
<1>. DEFINE last == Later(circuit.lastFailureAt, at)
            failed == [circuit EXCEPT !.lastFailureAt = last]
            ended == WithoutProbe(failed)
            Reopened(ttl) ==
                circuit' = [ended EXCEPT !.openUntil = now + OpenDuration, !.expireAt = now + ttl]
            closed == [failed EXCEPT !.openUntil = 0, !.expireAt = now + EventTTL]
<1>1. last \in Nat /\ now \in Nat /\ EventTTL \in Nat /\ now + OpenDuration \in Nat
  BY Fields DEF Later, EventTTL, LongWindow
<1>2. SameProbe(failed)
  <2>. HIDE DEF last
  <2>. QED
    BY <1>1, SettleProbe DEF SameProbe, Hash
<1>3. \/ circuit' = failed
      \/ Reopened(OpenDuration + Window) \/ Reopened(EventTTL)
      \/ circuit' = closed
  BY Zenon DEF RecordDeadline, Opened
<1>. HIDE DEF failed
<1>4. SameProbe(ended)
  BY <1>2, ProbeTaken
<1>. HIDE DEF ended
<1>5. ASSUME NEW ttl \in Nat, Reopened(ttl) PROVE SameProbe(circuit')
  <2>1. now + ttl \in Nat
    BY <1>1
  <2>. QED
    BY <1>1, <1>4, <1>5, <2>1 DEF SameProbe, Hash
<1>6. SameProbe(closed)
  <2>1. now + EventTTL \in Nat
    BY <1>1
  <2>. QED
    BY <1>2, <2>1 DEF SameProbe, Hash
<1>7. OpenDuration + Window \in Nat
  OBVIOUS
<1>. HIDE DEF Reopened, closed
<1>. QED
  BY <1>1, <1>2, <1>3, <1>5, <1>6, <1>7

LEMMA ResetEndsProbe ==
    ASSUME CircuitInv, NEW token, NEW at, NEW preserve, ResetCircuit(token, at, preserve)
    PROVE  SameProbe(circuit')
<1>. DEFINE sampled == IF preserve THEN ExtendTTL(circuit, LongWindow) ELSE circuit
            ended == WithoutProbe(sampled)
            closed == IF OwnsProbe(token) THEN [ended EXCEPT !.openUntil = 0] ELSE sampled
<1>1. now \in Nat /\ now + Window \in Nat /\ Later(circuit.expireAt, now + LongWindow) \in Nat
  BY Fields DEF LongWindow, Later
<1>2. SameProbe(sampled)
  BY <1>1, SettleProbe DEF ExtendTTL, SameProbe, Hash
<1>3. \/ circuit' = sampled
      \/ circuit' = [closed EXCEPT !.lastFailureAt = 0]
      \/ circuit' = [closed EXCEPT !.lastFailureAt = 0, !.expireAt = now + Window]
  BY DEF ResetCircuit
<1>. HIDE DEF sampled
<1>4. SameProbe(ended)
  BY <1>2, ProbeTaken
<1>. HIDE DEF ended
<1>5. SameProbe(closed)
  BY <1>2, <1>4 DEF SameProbe, Hash
<1>. HIDE DEF closed
<1>6. CASE circuit' = [closed EXCEPT !.lastFailureAt = 0]
  BY <1>5, <1>6 DEF SameProbe, Hash
<1>7. CASE circuit' = [closed EXCEPT !.lastFailureAt = 0, !.expireAt = now + Window]
  BY <1>1, <1>5, <1>7 DEF SameProbe, Hash
<1>. QED
  BY <1>2, <1>3, <1>6, <1>7

(* A step that admits nobody keeps the exclusion.                          *)
LEMMA NobodyAdmitted ==
    ASSUME CircuitInv, ProbeInv, now' \in {now, now + 1}, SameProbe(circuit'),
           \A l \in Leader :
               /\ leader'[l].admittedAt = leader[l].admittedAt
               /\ leader[l].phase = "idle" => leader'[l].phase = "idle"
    PROVE  ProbeInv'
<1>1. ASSUME NEW l \in Leader PROVE leader[l].admittedAt \in Nat
  BY DEF CircuitInv, TypeOK
<1>2. /\ now \in Nat /\ now' \in Nat /\ now' >= now
      /\ circuit.probeUntil \in Nat /\ circuit.probeToken \in Leader \cup {NoToken}
  BY Fields
<1>3. \A l \in Leader : leader'[l].admittedAt <= now'
  BY <1>1, <1>2 DEF ProbeInv
<1>4. ProbeLive' => ProbeLive /\ circuit'.probeToken = circuit.probeToken
  BY <1>2 DEF SameProbe, ProbeLive
<1>5. ProbeLive => circuit.probeToken \in Leader
  BY <1>2 DEF ProbeLive
<1>6. ProbeExclusive'
  <2>. SUFFICES ASSUME NEW l \in Leader, ProbeLive', leader'[l].phase # "idle"
                PROVE  leader'[l].admittedAt <= leader'[circuit'.probeToken].admittedAt
    BY DEF ProbeExclusive
  <2>1. leader[l].admittedAt <= leader[circuit.probeToken].admittedAt
    BY <1>4 DEF ProbeInv, ProbeExclusive
  <2>. QED
    BY <1>4, <1>5, <2>1
<1>. QED
  BY <1>3, <1>6 DEF ProbeInv

(* An admission to a probe is the latest of all; one without a probe       *)
(* leaves none behind.                                                     *)
LEMMA AdmitKeepsProbe ==
    ASSUME CircuitInv, ProbeInv, NEW l \in Leader, NEW left \in 1..Timeout, Admit(l, left)
    PROVE  ProbeInv'
<1>. DEFINE new == [phase |-> "flight", probe |-> GrantsProbe(l),
                    admittedAt |-> now, deadline |-> now + left]
<1>1. /\ now \in Nat /\ now' = now /\ DOMAIN leader = Leader
      /\ \A k \in Leader : leader[k].admittedAt <= now
  BY DEF CircuitInv, TypeOK, Admit, ProbeInv
<1>2. leader' = [leader EXCEPT ![l] = new] /\ new.admittedAt = now
  BY DEF Admit
<1>. HIDE DEF new
<1>3. leader'[l].admittedAt = now /\ \A k \in Leader : leader'[k].admittedAt <= now
  BY <1>1, <1>2
<1>4. CASE GrantsProbe(l)
  <2>1. circuit'.probeToken = l
    <3>1. now + left \in Nat /\ Later(circuit.expireAt, now + left) \in Nat
      BY Fields DEF Later
    <3>2. circuit' = Granted(l, left) /\ circuit \in Hash
      BY <1>4, Fields DEF Admit
    <3>. QED
      BY <3>1, <3>2 DEF Granted, ExtendTTL, Hash
  <2>. QED
    BY <1>1, <1>3, <2>1 DEF ProbeInv, ProbeExclusive
<1>5. CASE ~GrantsProbe(l)
  <2>1. circuit' = Settled /\ ~Open /\ ~ProbeLive
    BY <1>5 DEF Admit, Rejects, OwnsProbe
  <2>2. circuit'.probeToken = NoToken
    BY <2>1, Fields, WithoutProbeFields DEF Settled
  <2>. QED
    BY <1>1, <1>3, <2>2 DEF ProbeInv, ProbeExclusive, ProbeLive
<1>. QED
  BY <1>4, <1>5

LEMMA ProbeStep == CircuitInv /\ ProbeInv /\ [Next]_vars => ProbeInv'
<1>. SUFFICES ASSUME CircuitInv, ProbeInv, [Next]_vars PROVE ProbeInv'
  OBVIOUS
<1>1. SameProbe(circuit) /\ SameProbe(Settled)
  BY SettleProbe
<1>2. ASSUME NEW l \in Leader, (GoTo(l, "exit") /\ leader[l].phase # "idle") \/ Leave(l)
      PROVE  \A k \in Leader :
                /\ leader'[k].admittedAt = leader[k].admittedAt
                /\ leader[k].phase = "idle" => leader'[k].phase = "idle"
  BY <1>2 DEF GoTo, Leave, CircuitInv, TypeOK
<1>3. ASSUME NEW l \in Leader, LeaveProbe(l) PROVE SameProbe(circuit')
  BY <1>1, <1>3, ReleaseEndsProbe DEF LeaveProbe, redis
<1>4. ASSUME NEW l \in Leader,
             Abandon(l) \/ Succeed(l) \/ Exit(l) \/ TimeOut(l) \/ Crash(l)
      PROVE  ProbeInv'
  <2>1. SameProbe(circuit')
    BY <1>1, <1>3, <1>4, ResetEndsProbe DEF Abandon, Succeed, Exit, TimeOut, Crash, redis
  <2>2. /\ now' = now
        /\ (GoTo(l, "exit") /\ leader[l].phase # "idle") \/ Leave(l)
    BY <1>4 DEF Abandon, Succeed, Exit, TimeOut, Crash
  <2>. QED
    BY <1>2, <2>1, <2>2, NobodyAdmitted
<1>5. ASSUME NEW t \in bookkeeping, RunTask(t) \/ LoseTask(t) PROVE ProbeInv'
  <2>1. t.at \in Nat
    BY DEF CircuitInv, TypeOK, Task
  <2>2. SameProbe(circuit')
    BY <1>1, <1>5, <2>1, ReleaseEndsProbe, ResetEndsProbe, DeadlineEndsProbe
       DEF RunTask, LoseTask, redis
  <2>3. now' = now /\ leader' = leader
    BY <1>5 DEF RunTask, LoseTask
  <2>. QED
    BY <2>2, <2>3, NobodyAdmitted
<1>6. CASE PollCircuit
  BY <1>1, <1>6, NobodyAdmitted DEF PollCircuit
<1>7. CASE Tick
  <2>1. SameProbe(NoCircuit)
    BY DEF NoCircuit, SameProbe, Hash
  <2>2. SameProbe(circuit') /\ now' = now + 1 /\ leader' = leader
    BY <1>1, <1>7, <2>1 DEF Tick
  <2>. QED
    BY <2>2, NobodyAdmitted
<1>8. CASE UNCHANGED vars
  BY <1>1, <1>8, NobodyAdmitted DEF vars
<1>. QED
  BY <1>4, <1>5, <1>6, <1>7, <1>8, AdmitKeepsProbe DEF Next

(* While a half-open probe lives, every other leader at work was admitted  *)
(* before it, for any number of leaders, losses and crashes.               *)
THEOREM ProbesAreAlone == Spec => []ProbeExclusive
<1>1. Init => ProbeInv
  BY DEF Init, NoCircuit, ProbeInv, ProbeExclusive, ProbeLive
<1>2. ProbeInv => ProbeExclusive
  BY DEF ProbeInv
<1>. QED
  BY <1>1, <1>2, ProbeStep, CircuitInvariant, PTL DEF Spec
(* A reset that completed before the last recorded failure only prunes the *)
(* deadlines, by no more than their longest window.                        *)
LEMMA LateReset ==
    ASSUME NEW token, NEW completedAt, NEW preserve,
           completedAt < circuit.lastFailureAt, ResetCircuit(token, completedAt, preserve)
    PROVE  After(deadlines, now - LongWindow) \subseteq deadlines'
<1>1. SampleSuccess(preserve)
  BY DEF ResetCircuit, OutOfOrder
<1>. QED
  BY <1>1 DEF SampleSuccess, After

(* A success reported after a later failure takes no failure of the longest *)
(* window away, however its report was delayed: whatever the breaker, the  *)
(* other leaders and their reports did meanwhile.                          *)
THEOREM LateSuccessesAreHarmless == Spec => LateSuccessKeepsFailures
<1>1. ASSUME [Next]_vars, NEW t \in bookkeeping \ bookkeeping',
             t.kind = "reset", t.at < circuit.lastFailureAt
      PROVE  After(deadlines, now - LongWindow) \subseteq deadlines'
  <2>1. After(deadlines, now - LongWindow) \subseteq deadlines
    BY DEF After
  <2>2. CASE \E r \in bookkeeping : RunTask(r)
    <3>1. PICK r \in bookkeeping : RunTask(r)
      BY <2>2
    <3>2. r = t
      BY <3>1 DEF RunTask
    <3>3. PICK preserve \in PreserveSamples :
              ResetCircuit(IF t.probe THEN t.token ELSE NoToken, t.at, preserve)
      BY <1>1, <3>1, <3>2 DEF RunTask
    <3>. QED
      BY <1>1, <3>3, LateReset
  <2>3. CASE (\E r \in bookkeeping : LoseTask(r)) \/ (\E l \in Leader : Crash(l))
    BY <2>1, <2>3 DEF LoseTask, Crash, redis
  <2>4. ASSUME NEW l \in Leader, LeaveProbe(l) PROVE bookkeeping \subseteq bookkeeping'
    BY <2>4 DEF LeaveProbe, Enqueue
  <2>5. ASSUME NEW l \in Leader, NEW left \in 1..Timeout,
               Admit(l, left) \/ Abandon(l) \/ Succeed(l) \/ Exit(l) \/ TimeOut(l)
        PROVE  bookkeeping \subseteq bookkeeping'
    BY <2>4, <2>5 DEF Admit, Abandon, Succeed, Exit, TimeOut, Enqueue
  <2>6. CASE PollCircuit \/ Tick \/ UNCHANGED vars
    BY <2>6 DEF PollCircuit, Tick, vars
  <2>. QED
    BY <1>1, <2>2, <2>3, <2>5, <2>6 DEF Next
<1>2. [Next]_vars => [\A t \in bookkeeping \ bookkeeping' :
                        t.kind = "reset" /\ t.at < circuit.lastFailureAt
                        => After(deadlines, now - LongWindow) \subseteq deadlines']_vars
  BY <1>1
<1>. QED
  BY <1>2, PTL DEF Spec, LateSuccessKeepsFailures
=============================================================================
