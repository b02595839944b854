# TLA+ specifications of campus-academic

Formal models of the academic provider and the academic analytics worker, with TLC
configurations and TLAPS proofs. Paths below are relative to the repository root
(`src/`); paths without a directory are in
`internal/modules/academic/infrastructure/` or in `internal/modules/academic_statistics/`.

## The system

Two long-running programs share a Redis and a MySQL database.

* **academic-provider** (`cmd/academic-provider`, several instances) answers gRPC
  queries for courses, grades, exams and selections by reading the university's
  web systems ("the school") with a student's credentials.
* **academic-analytics** (`cmd/academic-analytics`, several instances) aggregates
  the grades of all students once a day, or on an administrator's request, and
  publishes them as immutable batches.

| Component | Source | State | Operations | Hard behaviour | Module |
|---|---|---|---|---|---|
| Provider RPC | `rpc/*.go` | bulkhead permits | unary handlers | permits against deadlines, classes of errors | `ProviderQuery` |
| Provider router, configuration | `providerrouter/router.go`, `academicconfig/resolver.go` | the last valid snapshot | resolve, refresh, validate | one query reads the configuration twice | `ProviderQuery`, `AcademicRequest` |
| Query coordinator | `querycoord/coordinator.go` | flights (singleflight), permits, bookkeeping slots | `execute`, `loadDistributed`, `loadAsLeader`, `DeleteStudent`, detached bookkeeping | instances race for two leases; callers cancel; replies are lost; everything may outlive its deadline | `QueryCoord` |
| Result store | `querycoord/store.go` | result keys, student index, leases, failure markers in Redis | `save`, `loadWithMetadata`, `deleteStudent`, `acquireLease`, `releaseLease`, `markFailure` | TTLs of keys, index and leases; list-then-delete | `QueryCoord` |
| Circuit breaker | five Lua scripts of `store.go` | hash and two sorted sets per operation and education level | admit, probe, record deadline, reset, release probe | reports arrive late, twice or never; half-open probe | `QueryCircuit` |
| Session store | `ouc/session_store.go` | sessions of three generations of keys, student indexes | `LoadScope`, `SaveScope`, `DeleteScope`, `DeleteStudent` | revocation without the lease; TTLs shared by an index | `SessionStore` |
| Cookie jar | `ouc/tracked_cookie_jar.go` | cookies and the host that set each | `SetCookies`, snapshots, restoring | hosts overwrite one another's cookies; what is saved must stay with its target | `SessionCookies` |
| Queries and recovery | `ouc/provider.go` | shared recovery flights | `sessionForQuery`, `recoverTargetSession`, `queryWithOperation`, each `ListX`, `Verify` | a leader's short deadline fails its followers; retries; a failing cache | `ProviderQuery` |
| Requests | `ouc/provider.go` | none | `academicRequestWithValues` | values under configured names override one another | `AcademicRequest` |
| Login | `ouc/sso.go`, `challenge.go`, `login_response.go`, `portal_identity.go` | one HTTP conversation | `authenticate`, `accessService`, probes, redirects | any redirect and any page at any step | `SsoLogin` |
| Parsers | `ouc/*parser.go` | none | timetables, grades, selections, catalogs | spans, merging, joining of answers, paging | `Timetable`, `AcademicRecords`, `CourseCatalog` |
| Statistics runs | `application/manager.go`, `infrastructure/store.go`, `worker/` | named lock, batch rows, timers | `RunIfDue`, `RunManual`, `StartBatch`, `PublishBatch`, `FailBatch` | lock lost with its connection, commit without reply, crash | `StatsBatch`, `Publication` |
| Manual run queue | `application/trigger.go`, `infrastructure/run_publisher.go`, `worker/processor.go` | Asynq tasks | enqueue, deliver, retry, archive | redelivery of a running or finished task | `StatsBatch` |
| Publication privacy | `suppressSmallPublicationDeltas` in `store.go` | published rows as baselines | suppress, carry the cutoff | sequences of publications, overlapping runs, a changed minimum | `StatsPrivacy` |
| Token bucket, diagnostics, tracing, bootstrap, generated code | see `PROJECT.json` | | | | not modelled |

Interaction: an RPC handler takes a permit and calls the router, the router the
coordinator, the coordinator the OUC provider; only the catalog goes from the handler to the OUC
provider directly, and Verify past the coordinator. The provider asks the session store
for a session, recovers one by a login conversation, sends the query's
request in another and parses the page. Coordinator and session store share Redis
and are both erased by the combined revoker. The analytics scheduler and the
queue's handlers call the same manager and meet in MySQL, in the named lock and
the batch table.

What makes the parts correct: one student is queried by one owner at a time; an
erased student stays erased; permits and leases are never leaked; an open breaker
stays open and lets one probe through; a refused password is not sent again, and no
form leaves the host it is for; a failing cache or a canceled neighbour fails nobody
else; what a page shows is what the caller gets; each day is published once, by one run, and
never changed afterwards; and whatever waits is answered. `PROJECT.json` lists the
hazards behind these sentences one by one, at their lines, with the property
that covers each or the reason why none does.

## Modules

| Module | Content |
|---|---|
| `QueryCircuit` | the breaker's scripts and the leaders that call them |
| `QueryCoord` | callers, flights, leases, cache, index, permits, bookkeeping, revocation |
| `SessionStore` | session records and indexes in Redis, deletion of a student |
| `ProviderQuery` | extends `SessionStore`: calls from the bulkhead to the answer, shared recoveries, retries |
| `SessionCookies` | the library's cookie jar, the side index, what is saved of it and restored |
| `SsoLogin` | one HTTP conversation with the school: login, handoff, probe or query |
| `AcademicRequest` | validation of an operation, and the request made of it |
| `Timetable`, `AcademicRecords`, `CourseCatalog` | what the parsers make of a page, and the pages the school shows |
| `KeptPlaces` | the members of a list at some of its places: what a parser's loop keeps |
| `SchoolQuery` | composes the last five: an operation, its request, the conversation, the page read |
| `Publication` | abstract: attempts one at a time, publications final |
| `StatsBatch` | scheduler loops, handlers, lock, batch rows, queue, faults; implements `Publication` |
| `StatsPrivacy` | runs that read grades, compare them with what is published, and publish |
| `MC...` | values of constants and symmetry for TLC |
| `QueryCircuitProofs`, `QueryCoordProofs`, `ProviderQueryProofs` (with `SessionStore`'s), `SessionCookiesProofs`, `TimetableProofs`, `SchoolQueryProofs`, `StatsBatchProofs`, `StatsPrivacyProofs` | theorems and proofs |

Each model has a few operators that no action uses, next to the one they vary:
`TakenBriefly` beside `Taken`, `LockUnchecked` beside `LockGranted` and so on.
They are plausible mistakes. Replacing the original by its variant makes TLC
violate the property named in the `mutants` of `PROJECT.json`, which shows that
the property depends on that line of the code.

### QueryCircuit

One hash, two sorted sets, any number of leaders. `Admit` is `circuitStateScript`
with a leader's token, `PollCircuit` the same script with the empty token of
`loadDistributed`; `RecordDeadline`, `ResetCircuit` and `ReleaseProbe` are the
other three scripts line by line in their effect on the state. A leader ends by
`Succeed` and `Exit`, `Abandon`, `TimeOut` or `Crash`; `Enqueue` is the bookkeeping
semaphore, which may drop a task, and `RunTask`/`LoseTask` are the goroutine.

Abstractions: Redis and the instances have one clock; `latest_success_at` is left
out because no decision reads it; a sorted-set member is a pair of the instant and
a number, in place of the text built from `sample_sequence`; the TTLs of the sorted
sets are not observable, since every use prunes by the window first. The upstream
call ends by its context's deadline (the loader passes the context to HTTP).

### QueryCoord

`Start` is `execute` up to `DoChan`, `Poll` and `AcquireQueryLease` one turn of
`loadDistributed`, `AcquireStudentLease` to `SaveResult` are `loadAsLeader`, and
`FreeStudentLease`/`FreeQueryLease` its deferred releases, in the order in which
Go runs them (the permit first). `Revoker...` actions are `DeleteStudent`. Every
action that writes to Redis is one command or script, so that all interleavings of
instances are explored; each may fail without effect or lose its reply.

Abstractions: the breaker and the token bucket answer either way, and `AcquirePermit` takes
the permit and asks the bucket in one step, so that a permit given back because the bucket
refused is never seen taken; a record is
its two expiry instants and `born`, the number of deletions of its student when it
was fetched (history); a caller is answered, but with what is not kept.
Assumptions on the environment, all in `CoordAssumption` or in the guard of `Tick`:
a Redis command has no effect after its context ended (the defaults leave 8 to 10 s
between the operation timeouts and the 20 s lease for a straggling command), the
lease outlives every timeout (`validateConfig` enforces it), and DeleteStudent's
two commands take less than a lease (nothing enforces it: it is listed as a hazard).

### SessionStore

A credential is a student with one password, for keys contain the password's digest. `SaveScope`,
`DeleteScope` and `LoadScope` are one Redis transaction or a chain of reads each; a
read finds the scope's own record, or what a record of an earlier release (`v1`, or
`v1` of one level) holds for the scope. `StartDeletion`, `ReadIndex` and
`CommitDeletion` are `DeleteStudent`: three `SMEMBERS`, then one transaction. `Tick` is Redis
dropping what has expired, `Corrupt` a record whose key was rotated. `late` is history: keys
saved while a deletion is under way. `mishaps` counts and bounds the faults.

### ProviderQuery

An actor is a caller, from the RPC handler to its status code, or a flight, the recovery
that callers with one credential and level share. Callers: `Acquire` and `Route` (bulkhead,
router), `Configure`, then `Load`, `Discard`, `Probe` and `SaveProbed` (`loadTargetSession`),
`Join`, `Receive` and `Leave` (singleflight with one re-election), `Query` and what may follow an
answer (`Challenged`, `Rejected`, `Unreadable`, `SaveParsed`), `Verify`. Flights: the same look at
the cache, then `Identity`, `Handoff`, `DropIdentity`, `Login`, `SaveIdentity`, `Access` and
`SaveTarget` (`recoverTargetSession`). The school answers anything; what exactly it can
answer in a conversation, and how that is classified, is `SsoLogin`.
Contexts end at any time: a caller is canceled or expires, a flight expires on its own,
or with its leader when the leader's deadline was the earlier one (`bound`). `trouble`, `refused`,
`cause` and the mail's `leader` and `bound` are what a step hands to the next or history of it.

### SessionCookies

`jar` is what the Go library would send, `records` the side index kept beside it,
which alone is saved. `SetCookies` is one answer's cookie from any host with any domain
the library accepts; `Snapshot`, `Filtered` and the validations say what is saved for a scope,
shared with the followers of a recovery, or migrated from a record without scopes; `SentAgain`
what a restored session sends. Cookies without a name or with a bad domain are left out: the
library drops them before either side sees them. Of the validations of a saved session,
the length limits of names, values and source URLs and the size in bytes are left out: no
property tells such sessions apart.

### SsoLogin

One conversation of the `login`, `verify`, `access`, `probe` or `query` kind. A request
meets a redirect that the policy follows, takes for the answer or refuses (`Follow`, `Stop`),
fails (`Fail`), or arrives at a page (`Arrive`), which the step reads: the login form, the
answer to it, the continuation of an expiring password, the target's page. URLs are kinds
of hosts; a page is the marks the code looks for, all combinations of them. SM2, the portal's
document and the text of pages are outside.

### AcademicRequest, Timetable, AcademicRecords, CourseCatalog

Operators without state. `ValidEndpoint` and `AcademicRequest` go from what the
configuration says of an operation to the request's values. A configured name is a text
that may have blanks around it (`Written`): `validateFixedParameters` and
`academicCatalogRequest` take it as it is written, the other validations and
`academicPeriodValues` trim it, and so do their operators. A grade's row has two names of
the school's: its own `id` (`id` or `grade_id`), and the `key` (`cj0708id`) by which
`parseGrades` drops repetitions, and which names only the rows without an `id`.
`ParseGraduatePage`,
`ParseUndergraduateCourses` and `ParseSelectionSchedule` end in merged courses, `ParseGrades`,
`ParseGraduateGrades`, `ParseSelections`, `FilterHidden` and `MergeSelections` in records, and
`ParseUndergraduateCatalogPage` and `ParseGraduateCatalogPage` in one page of the catalog. Text is
abstract: a set of the words or of the week ranges the code finds in it. Beside the parsers
stand the pages the school renders (`TablePage`, `ItemOf`, `AnswerIn`, `RowsOf`), modelled
from the parsers' tests, so that the properties can compare what is read with what is meant.
The code follows JSON objects to any depth; `UnwrapRows` follows one into another, as deep as the answers
of `AnswerIn` go. What the parsers keep of a list is `Kept(list, places)`.

What a page shows and what is read of it are compared as *lessons*: who is taught on which weekday, in
which section and week. `SchoolTimetable` says what timetables there are to show: at most seven weekdays, each
column filled by blocks that do not overlap, each with any number of fragments.
`TablePage` renders one, so that a block is a cell only of the row it starts in and its `rowspan`
covers the others, the way the parser's test pages are written. Courses are sets, since their order tells
nothing a property is about; where the code sorts (`mergeAdjacentUndergraduateCourses`), `Sweep` takes the
`Earliest` course next.

### SchoolQuery

`Prepare` makes a request of a configured operation (the supplement of an undergraduate's
selections and a page of the catalog with the values they add), `SubmitQuery` starts its
conversation, and an accepted answer is read by one of `ReadTimetable`, `ReadGrades`,
`ReadSelections` or `OpenCatalog`; `ReadFallback`, `ReadSupplement` and `TurnPage` read the
next answer where an operation or its reader asks for one. No page beyond
`MaxCatalogPage` is asked for.

### StatsBatch

A *runner* is one scheduler loop or one handler slot. Its run takes the lock
(`TryLock`), checks whether today is published (`CheckDue`, scheduled runs),
starts a batch, aggregates, publishes or fails it and releases. Each database
statement or transaction is an action and has, beside its normal outcome, the two
faulty ones: no effect and an error, or the effect and an error. `LoseConnection`
ends the connection that holds the named lock while the run goes on, `Orphan` is a
connection of a dead client that MySQL has not noticed yet. `Crash` restarts a
runner; a process crash is the crash of its runners one after the other.

Time counts half days: an even instant is the part of a day before the schedule
hour, an odd one the part after it. A retry delay is shorter than any part. The
queue is Asynq as `run_publisher.go` uses it (task ID conflict, MaxRetry, retention,
redelivery); `Reclaim`, `Forget` and `DropOrphan` are external. `schedule`, `starter`
and `publisher` of a row, and `lockLost`, are history. RunOperational has no caller;
it is a run with a task ID like RunManual. `MaxBatches`, `MaxFaults` and `MaxTime`
are bounds; a pruned row keeps its ID (auto-increment IDs are not used again).

### StatsPrivacy

`StatsBatch` says which run may publish; `StatsPrivacy` says what it publishes. Its
state is the source database's time, each process's minimum sample size, what every
run carries, the run whose batch row is running, and the published batches in
commit order. `StartBatch` takes the running row over; `ReadCutoff` and `ReadGrades`
are the two reads of `Aggregate`, between which time may pass; `SuppressDeltas` is the
publishing transaction up to its inserts, with the baselines it reads;
`Publish` is the conditional update, which rolls back when another run has taken
over. `Fail` is any error followed by `FailBatch`, `Crash` an end without it,
`Reconfigure` a restart with another `minimum_sample_size`. Runs may overlap freely,
since nothing here depends on the named lock.

Abstractions: a snapshot is any member of the constant `Snapshots` (grades change at
will between reads); `MCStatsPrivacy` builds the sets by grouping grades as the source
query does. An aggregate keeps the valid, passed and numeric counts and the score
sum; the other ten counts are only copied and compared, as the passed count is. One rule
version is deployed; the latest publication is the one committed last, so
the clocks behind `published_at` are taken to agree with the order of commits. Names,
class counts and the list's filters are left out. `at`, the time at which a row's
grades were read, is history: no action decides by it.

## Runs

| Run | Checks | Instance and why it is enough |
|---|---|---|
| `circuit_ratio` | `TypeOK`, `OpenHasNoProbe`, `RejectionBounded`, `ProbeExclusive`, `StaysOpen`, `LateSuccessKeepsFailures` | three leaders (one opens, one straggles, one probes), 5 ticks with open duration 2, both policies: the breaker opens, goes half open, is probed and opens or closes again |
| `circuit_failed_probe` | `FailedProbeReopens`, violated | see Findings |
| `coord_revoke` | `TypeOK`, `StudentSerialized`, `IndexCovers`, `ErasedStaysErased`, `LeaseHeldUntilReleased` | two instances, one forcing the upstream, two operations of one student with different stale TTLs, one revocation, lease 2, 5 ticks: leases expire, are taken by a second owner and are released late |
| `coord_live` | `UpstreamBounded`, `CallsAnswered`, `NoLeaseStuck` | a shared flight, canceled callers, one permit, one bookkeeping slot and a revocation under `FairSpec` |
| `batch_runs` | `PublishedByStarter`, `DoneMeansPublished`, `OncePerSchedule`, `Publications` | two schedulers, two handlers of one task with one retry, two faults, one schedule hour with the half days before and after it and the start of the next day: lost lock, lost reply and crash in any pair |
| `batch_live` | `ScheduleCovered`, `TaskSettles` | one of each, one fault, enough batch IDs that none is missing |
| `privacy_publications` | `CutoffConservative`, `CourseHeldWithInstructor`, `RowsMoveForward`, `SmallDeltasWithheld`, `ListTotalExact` | two runs in any interleaving, three publications, minimum 2 or 3 changing between publications and readings, few grades of two teachers, a changed score of equal count, a course over two periods |
| `privacy_public` | `PublicValuesCompared`, violated | see Findings |
| `session_jar` | `SideIndexAgrees`, `SavedStaysHome`, `RecoveryComplete`, `MigratedStaysHome` | the identity host and both targets set one cookie name with two values, every domain, sessions and one-tick lifetimes: cookies collide, widen, expire and are deleted by others; two cookies is the limit of a saved session |
| `sessions_revoked` | `RemovesEveryIndexed`, violated | see Findings |
| `provider_queries` | `WrongPasswordSentOnce`, `IndexCovers`, `NotPoisoned`, `CacheBestEffort` | one caller of each operation with one disturbance, or two callers that share recoveries (below) |
| `school_conversations` | `FormsStayHome`, `FormsSentOnce`, `ExpiredStaysExpired`, `QueryComplete`, `TimetableKept`, `RecordsKept`, `CatalogReadOnce` | every conversation up to the code's limit of ten requests with every page; the configurations, timetables, rows and catalogs of `MCSchoolQuery` |

`provider_queries` bounds the interleavings by a constraint, `Bounded`: while one caller
runs alone, one disturbance may happen (a Redis failure, a damaged record, a deletion, a reload, a
tick, or a record left by an earlier release); two callers run together for one graduate, one
reading the catalog (which retries most) and one the courses, with contexts ending at any
moment, and without other disturbances. A constraint cuts behaviours off, so the run says nothing of two
disturbances in one call; its properties are safety properties. Its VIEW drops what a call
returned, except that it has: the properties about it are action properties, on
the step that ends a call, where TLC sees both states whole.

The samples of `school_conversations` are small data in which each branch of a parser
is taken: tables of three sections and two weekdays with every way to
span rows, two fragments per cell, weeks in both orders and parities; up to three items or rows,
with equal and missing keys, equal ids under different keys and the reverse; configured
names with and without blanks, and blanks alone; catalogs of up to seven rows in pages of the size asked for or
another, with or without the counts a page may tell, the longest with a page more than
`MaxCatalogPage` allows.

Deadlock is not checked: clocks stop at `MaxTime`, publications at `MaxBatches`,
calls are made once and a conversation ends, so every behaviour of an instance may end.

`OncePerSchedule` and `PublishedByStarter` hold as long as no run lost its lock
(`lockLost`). The condition is needed: without it TLC shows two runs that both
found the day uncovered. `Publications` needs no condition: overlapping runs can
publish a day twice, but not the same row, and never change a published one.
`NoLeaseStuck` looks at leases taken by `LastStart`; later ones may outlive the
bounded clock. The types of `StatsBatch` and `StatsPrivacy` are proved (`BatchTypes`,
`PrivacyTypes`) rather than checked; of those of the OUC provider's modules, what the
proofs need is part of the invariants.

### Fairness

Liveness is checked under `FairSpec` only. QueryCoord: weak fairness of every
flight, every revocation, the bookkeeping goroutines and the clock, which the Go
scheduler and context deadlines give; none of callers, cancellations or crashes.
StatsBatch: weak fairness of a run's own steps, of the scheduler's timer, of
Asynq's delivery and its recovery of tasks whose worker is gone, of MySQL dropping
dead connections, and of time. Faults and crashes are never required and are
bounded by `MaxFaults`; with unboundedly many faults a day may never be published.
The modules of the OUC provider state safety only: the Go library's time limits end every
request, so their waits end as `CallsAnswered` shows for the coordinator's.

## Proofs

TLAPS checks the following for every value of the constants that satisfies the
`ASSUME` of the module, without bounds on time, leaders, calls or faults (the
proofs never use the bounds of the guards).

* `QueryCircuitProofs`: `CircuitTypes`, `OpenExcludesProbe`, `RejectionIsBounded`,
  `OpeningLasts`, `ProbesAreAlone`, `LateSuccessesAreHarmless`. `CircuitInvariant` joins the types with the bounds on both
  expiry instants and with the hash outliving them, without which a TTL could drop
  an opening early. `ProbeInv` adds that no leader was admitted later than now, so that the
  one that is given a probe is the latest; scripts other than an admission keep the probe or end it.
  `LateSuccessesAreHarmless` needs no invariant: of the scripts a report runs, the one of a success
  older than the last failure leaves the failures alone except those the longest window has left behind.
* `QueryCoordProofs`: `CoordTypes`, `StudentsSerialized`, `IndexIsComplete`,
  `ErasureIsFinal`, `PermitsAccounted`, `LeasesAreTheirHolders`. The inductive argument: an owner inside the
  protected phases with its context alive holds an unexpired student lease, because
  the lease was taken under a context that ends before it; leases have one holder;
  hence a result is written by the owner of the lease, and a deletion cannot fall
  between its fetch and its write. The index argument is that its TTL is only ever
  extended while results are added under the lease. `PermitsAccounted` is cardinality
  bookkeeping over the finite set of calls. `LeasesAreTheirHolders` is an action property: each
  step that changes a running lease is the release of its owner or of the task the owner left.
* `StatsBatchProofs`: `BatchTypes`; `PublicationsHold`, the refinement of
  `Publication` (at most one row is running, since StartBatch fails every other row
  in its own transaction, and both PublishBatch and FailBatch act on running rows
  only); `SchedulesPublishedOnce` and `StartersPublish`, by an invariant that holds
  until a lock is lost: a run inside holds the lock, its row is its own, and its
  schedule stays uncovered until it publishes; `DoneIsPublished`, which needs no lock: a row
  stays its task's until it is deleted as an old failure, and a deleted row is never
  published (`DoneInv`). The instance of `batch_runs` has one task; the theorem is for any number,
  also when a restarted handler takes a second task while the first waits to be recovered.
* `StatsPrivacyProofs`: `PrivacyTypes`, `CutoffIsConservative`, `SmallDeltasAreWithheld`,
  `CoursesHeldWithInstructors`, `RowsOnlyMoveForward`, `ListTotalsAreExact`, for any source, any number of runs
  and any history of publications. Lemmas first state what `SuppressDeltas` makes of a
  run's rows for an arbitrary history: each row is the baseline or the run's own, no
  row is older than the resulting cutoff, and no public row moved by a small delta. The
  inductive invariant adds that a run whose batch is still running started after
  the last publication (`Current`), so that what it was compared with is
  all there is when its update succeeds. That is where the conditional update is needed: without it
  an overlapping run would publish against a baseline it never saw. `ListTotalsAreExact` has an
  invariant of its own (`CountInv`): every batch carries the count of what it lists and the minimum
  it was counted under, and a reader with another minimum counts again.
* `ProviderQueryProofs`, of the store: `SessionsIndexed`. `IndexCovers` is not inductive alone: a deletion
  drops all indexes of a student at once, and leaves no live session without one only
  because it found, when it read each index, whatever that index covered
  (`DeletionFinds`). Saves keep it because they extend the index to the later of the two lifetimes.
* `ProviderQueryProofs`, of the queries: `QueriesKeepIndex`, `RefusedPasswordSentOnce`,
  `LeadersPoisonNobody`, `CacheFailsNobody`. Every step of a query changes the store by an
  operation of `SessionStore` or not at all, so its invariant carries over. `QueryInv` says
  who waits: those in a flight's list wait for it, have no mail and have not been refused,
  and mail tells what became of a leader that ran out of time. `StepOK` is what a single
  step does to a call, and gives the two action properties. `QueryAssumption` says that
  the names of flights differ from those of callers.
* `SessionCookiesProofs`: `SideIndexAlwaysAgrees`, `SavedAlwaysStaysHome`,
  `RecoveryAlwaysComplete`, `MigratedAlwaysStaysHome`. `JarInv` adds to the agreement of
  the side index with the jar that a record lies in the slot of the domain its cookie is
  sent to, so that a snapshot by domain takes what a host would get. The last needs no invariant:
  it holds of every jar.
* `SchoolQueryProofs`: `FormsStayHomeAlways`, `FormsSentOnceAlways`, `ExpiredGivesNoSession`
  about `SsoLogin`'s conversations; `QueriesStayHome`, `QueriesSentOnce`, `ExpiredStays`,
  `QueriesTellAll`, `TimetablesAreKept`, `RecordsAreKept`, `CatalogsReadOnce` about `SchoolQuery`, from the request to the records.
  `LoginInv` counts the forms by the step of the conversation and says of which kind a
  request with a body is, at each step; a query adds one step and one form. `QueryInv` adds
  `AskedOK` (a prepared request was made of a valid operation and a period that fits it;
  what such a request tells is `RequestTells` and `ExtraCarried`),
  `CatalogOK` (after page *p* the entries read are the first *p* pages' rows, and there is more
  exactly when there are more rows) and `RecordsOK` (undergraduate selections that wait for their
  supplement are still those of one table), beside `TimetableKept`, which `TimetableProofs` makes inductive as it is. Three lines of argument carry the records.
  What a parser keeps is `Kept(rows, places)`: as long as the places are many, in their order, and keeping
  twice is keeping once (`KeptTwice`). The five forms of an answer lead to the same rows
  (`AnswersAlike`), which for a page of many tables is an induction over their concatenation
  (`Flattens`). Of the rows with one key, the one at the least place is kept, so that each key
  is there and none twice (`FirstsOfKeys`); a merged list repeats nothing (`OncePerValue`).
  The catalog is arithmetic on page counts: the last page, by any of the ways to tell it, is the first that
  reaches the last row (`UndergraduatePage`, `GraduatePage`).
  `ConfigurationAssumption` gives the types of what the configuration and the school may say and
  nothing else: operations may be invalid, tables have any length and any texts.
* `TimetableProofs` has the lemmas about `Timetable` that `TimetablesAreKept` rests on, one for
  each kind of page: `WeekIsKept`, `HistoryIsKept`, `ItemsAreKept`, `SelectionIsKept`. Lessons are
  neither lost nor invented, and no two courses that remain could still be merged, for timetables of
  any number of sections, and tables and sets of items of any size. The parsers are loops, so each lemma is
  an induction along a fold. The library's induction theorems cannot be instantiated here; instead the
  least counterexample is taken (`LeastNatural`, `Reaches`), and the turns of a fold are shown to exist as a function from
  the sets `1..k` (`FoldExists` where the turns have a type, `TableFoldExists` where they need
  none). Then:
  merging two courses that touch changes no lesson and leaves one course less, so that as many
  turns as there are courses end with none to merge (`CollapseKeeps`); a sweep in the order of sections
  needs to look only at the last course it made, since whatever follows starts no earlier
  (`SweepKeeps`); and in a graduate's table the spans left when a row is read tell which columns are taken by a
  block that is still on (`SpansTell`, `SpansBefore`), so that the free columns, from left to right, are those of
  the cells the row has (`RowIsPlaced`, `PagePlaced`). That last step is where an error of one row in
  `graduateRowPlacements` would move every later cell to another weekday; it needs that the columns
  are filled, which is an assumption about the school's pages: a column with a gap would have to be
  rendered as an empty cell, as a block without fragments is.

The properties state the limits of what the code promises. Without its guards
`QueryComplete` would be violated:

* `validateFixedParameters` compares a fixed parameter with the mapped names as they are
  written, but the period is sent under trimmed names. A `period_parameter` written
  `"term "` and a fixed parameter `term` are both accepted, and the fixed value replaces the
  period, which the error text "parameters cannot override mapped parameters"
  (resolver.go:487) rules out. `FixedUnseen` excludes exactly these configurations; names with
  blanks that meet no fixed parameter remain.
* Nothing compares a page, or the supplement's values, with the names of the period: one
  with the name of a part hides that part. `validateCatalogPagination` does not compare the
  page with its size, and both are sent under their names untrimmed (`PagedApart`).
* With an empty period, `strings.Contains(path, url.PathEscape(periodID))` is true of every
  path (provider.go:1908, 1931), so that all fixed parameters are dropped, although the
  condition before it (provider.go:1907) asks whether there are values to send. The same
  happens when the path contains the period. A query then carries its page or the
  supplement's values alone, which the second half of `QueryComplete` states, and a form
  nothing, not even its page.

`RecordsKept` does not say that grades have distinct ids, for they need not: two rows with
one `id` and no `cj0708id` are two grades with that id, and rows with one `cj0708id` are one
grade, whatever their ids.

`CatalogReadOnce` is about pages that say how they are sized (`SizeKnown`): an undergraduate
page without its size is counted by the configured size, so that a reader stops early when the school's pages
are smaller than configured, and the total of a graduate catalog is told by the configured size times the
pages before the last.

Only model-checked: the liveness properties `CallsAnswered`, `NoLeaseStuck`, `ScheduleCovered` and
`TaskSettles`, which are outside the prover's reach. Every invariant and every action property of a passing run
is a theorem.

## Findings

* `circuit_failed_probe`: a half-open probe lives exactly as long as its leader's
  context. When the leader times out, the probe has expired; a poll of any other
  leader removes its token, and the deadline report that follows no longer counts as
  the probe's failure. Below the thresholds it even deletes `open_until`, so the
  failed probe closes the breaker. The test "failed half-open probe" expects it to
  open.
* `privacy_public`: the comment above `latestPublishedCourseBaselines` promises the
  latest public value as the baseline. The code takes the latest published row, also
  one too small to be shown, and then compares with nothing. A row shown with 10
  grades, hidden with fewer than the minimum and shown again with 11 is never
  compared with what readers saw.
* `sessions_revoked`: `DeleteStudent` of the session store reads three indexes one after the
  other and deletes what they named, and the indexes, in a later transaction, without the
  student lease. A session saved in between outlives the deletion, and its index entry is
  gone, so that the next deletion does not find it either. The comment says that it
  "removes every indexed school session".

## Plan

Done: `QueryCircuit`, `QueryCoord`, `Publication`, `StatsBatch`, `StatsPrivacy` with their
theorems; `SessionStore`, `SessionCookies`, `ProviderQuery`, `SsoLogin`, `AcademicRequest`,
`Timetable`, `AcademicRecords`, `CourseCatalog`, `SchoolQuery`; theorems about the sessions, queries,
cookies, logins, timetables and records of the OUC provider. Next, in this order:

1. What a caller of the coordinator is answered: stale fallback, cache modes, markers,
   composed with `QueryCoord`'s cache.
2. Exams and periods, the remaining records of the parsers.
3. Abstract specifications of the student lease (a lock) and of the breaker,
   implemented by `QueryCoord` and `QueryCircuit`.

## Not modelled

* HTML, JSON and SM2 as text and bytes, SQL text, logging, tracing and metrics, start-up and
  environment parsing, generated code: they keep no state that another component
  observes, or their behaviour is that of a library.
* The token bucket: one atomic script that bounds a rate; `QueryCoord` lets it answer either way.
* Contract diagnostics: samples of unreadable pages in a directory which nobody waits for.
* A session store without scopes (`sessionForLegacyQuery`, the unscoped `Save` and `Delete`) and
  `application/service.go`: neither binary assembles them.
* Exams, periods, names and profiles of the parsers; the administrator's list queries beyond
  the cached total.
