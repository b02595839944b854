--------------------------- MODULE ProviderQuery ----------------------------
(***************************************************************************)
(* Queries of the OUC provider for one student (ouc/provider.go), from the *)
(* RPC server's bulkhead and the provider router down: how a query gets a  *)
(* session from the cache (SessionStore), shares one recovery with the     *)
(* other callers of the process, and retries when the upstream rejects its *)
(* session.                                                                *)
(*                                                                         *)
(* A caller runs one operation; a flight is the recovery that callers with *)
(* the same credential and level wait for (singleflight).  Both look for a *)
(* cached target session in the same way, so a step is an actor's, caller  *)
(* or flight.  The upstream answers anything at any time; each Redis call  *)
(* is one step and may fail.  A caller's context may be canceled or pass   *)
(* its deadline; a flight's has a deadline only, its leader's when that is *)
(* the earlier one (bound).  The configuration may be reloaded at any      *)
(* time.  What the query coordinator does between the router and the       *)
(* provider is QueryCoord.                                                 *)
(***************************************************************************)
EXTENDS SessionStore

CONSTANTS
    Caller,
    KindsOf,      \* [Caller -> SUBSET Kind]: the operations a caller may run
    LevelsOf,     \* [Caller -> SUBSET Target]
    MaxConcurrent,    \* bound on the bulkhead's capacity
    Allowed       \* ProviderPolicy: the providers a deployment may use

Kind == {"grades", "courses", "schedule", "selections", "catalog", "verify"}

ASSUME QueryAssumption ==
    /\ KindsOf \in [Caller -> SUBSET Kind] /\ LevelsOf \in [Caller -> SUBSET Target]
    /\ Caller \cap (Credential \X Target) = {}     \* a caller is no flight
    /\ MaxConcurrent \in Nat \ {0}
    /\ Allowed \subseteq {"ouc", "mock"}

Flight == Credential \X Target
Actor == Caller \cup Flight

VARIABLES
    call,        \* a caller: its operation, where it is, its context
    flight,      \* a flight: its leader and waiters, where it is
    active,      \* the configured provider
    permits      \* the bulkhead's capacity, set when the process starts

queryVars == <<call, flight, active, permits>>
vars == <<storeVars, queryVars>>

NoMail == [value |-> "none", leader |-> "none", bound |-> FALSE, trouble |-> FALSE]
NotCalled ==
    [at |-> "idle", kind |-> "none", c |-> "none", level |-> "none",
     part |-> 0, attempt |-> 0, election |-> 0,
     page |-> 0,            \* of the catalog
     ctx |-> "live",        \* or "canceled", "expired"
     mail |-> NoMail,       \* what the flight it waits for returned
     trouble |-> FALSE,     \* it, or a flight it waited for, met an upstream failure
     refused |-> 0,         \* logins refused as invalid credentials
     cause |-> "none",      \* the error it ended with, before it got a class
     result |-> "none"]
NoFlight == [at |-> "idle", leader |-> "none", bound |-> FALSE, waiters |-> {},
             expired |-> FALSE]

CallerAt == {"idle", "queued", "route", "configure", "load", "discard", "probe",
             "saveProbed", "join", "wait", "request", "rejected", "challenged", "parse", "verify",
             "saveVerified", "done"}
FlightAt == {"load", "discard", "probe", "saveProbed", "identity", "handoff",
             "dropIdentity", "login", "saveIdentity", "access", "saveTarget"}
Error == {"unavailable",   \* any failure without a class of its own
          "retryable",     \* a transport failure, or a time limit of the request's own
          "timeout",       \* a request that ended with its context's deadline
          "deadline",      \* the context's own error
          "canceled",
          "invalid",       \* the credential is refused: wrong, expired, restricted
          "challenge",
          "contract"}      \* a page of the catalog that cannot be read
Result == {"none", "items", "retryable", "Canceled", "DeadlineExceeded", "busy",
           "refused", "challenge", "contract", "Unavailable", "InvalidArgument"}

TypeOK ==
    /\ StoreTypeOK
    /\ \A q \in Caller :
        /\ call[q].at \in CallerAt
        /\ call[q].attempt <= 3 /\ call[q].election <= 2 /\ call[q].part <= 2
        /\ call[q].mail.value \in Error \cup {"none", "session"}
        /\ call[q].result \in Result
    /\ active \in Allowed \cup {"none"}
    /\ \A f \in Flight :
        flight[f] # NoFlight => flight[f].at \in FlightAt /\ flight[f].leader \in Caller

Init ==
    /\ StoreInit
    /\ call = [q \in Caller |-> NotCalled]
    /\ flight = [f \in Flight |-> NoFlight]
    /\ active \in Allowed
    /\ permits \in 1 .. MaxConcurrent

IsCaller(a) == a \in Caller
At(a) == IF IsCaller(a) THEN call[a].at ELSE flight[a].at
Credentials(a) == IF IsCaller(a) THEN call[a].c ELSE a[1]
Level(a) == IF IsCaller(a) THEN call[a].level ELSE a[2]
Dead(a) == IF IsCaller(a) THEN call[a].ctx # "live" ELSE flight[a].expired
ContextError(a) ==
    IF IsCaller(a) /\ call[a].ctx = "canceled" THEN "canceled" ELSE "deadline"

-----------------------------------------------------------------------------
(* How an actor goes on, and how it ends.                                  *)

Set(q, c) == call' = [call EXCEPT ![q] = c]
Go(a, where) ==
    IF IsCaller(a)
    THEN Set(a, [call[a] EXCEPT !.at = where]) /\ UNCHANGED flight
    ELSE flight' = [flight EXCEPT ![a].at = where] /\ UNCHANGED call

(* A caller returns a value, or an error that queryProviderError puts in   *)
(* one of the application's classes and providerStatus in one of gRPC's;   *)
(* the reasons to fail a precondition are kept apart from each other.      *)
Return(value) == [NotCalled EXCEPT !.at = "done", !.result = value]
ProviderError(error) == IF error \in {"timeout", "deadline"} THEN "retryable" ELSE error
Status(error) ==
    CASE error \in {"retryable", "timeout"} -> "retryable"
      [] error = "canceled"  -> "Canceled"
      [] error = "deadline"  -> "DeadlineExceeded"
      [] error = "busy"      -> "busy"
      [] error = "invalid"   -> "refused"
      [] error \in {"challenge", "contract"} -> error
      [] OTHER -> "Unavailable"
Ended(error) == [Return(Status(error)) EXCEPT !.cause = error]
Fails(error) == [Return(Status(ProviderError(error))) EXCEPT !.cause = error]

(* The second request of an operation that has one: a supplement that      *)
(* fails is left out, unless the caller is gone.                           *)
AfterFailure(c, error) ==
    IF c.kind = "selections" /\ c.part = 2 /\ c.ctx = "live"
    THEN Return("items") ELSE [Fails(error) EXCEPT !.trouble = c.trouble]

NextAttempt(c, where) ==
    [c EXCEPT !.at = where, !.attempt = @ + 1, !.election = 0, !.mail = NoMail]
MaxAttempts(c) == IF c.kind = "catalog" THEN 3 ELSE 2

(* An error of sessionForQuery: the catalog tries again unless the         *)
(* credential was the reason.                                              *)
RetriesAnyError(error) == error \notin {"retryable", "timeout"}
RetriesSession(error) == error \notin {"invalid", "challenge", "retryable", "timeout"}
AfterSessionError(c, error) ==
    IF c.kind = "catalog" /\ c.attempt < 3 /\ c.ctx = "live" /\ RetriesSession(error)
    THEN NextAttempt(c, "load")
    ELSE AfterFailure(c, error)

(* DoChan gives its result to every waiter and forgets the flight.         *)
Land(f, value, upset) ==
    /\ call' = [q \in Caller |->
                   IF q \in flight[f].waiters
                   THEN [call[q] EXCEPT !.mail =
                            [value |-> value, leader |-> flight[f].leader,
                             bound |-> flight[f].bound /\ flight[f].expired,
                             trouble |-> upset]]
                   ELSE call[q]]
    /\ flight' = [flight EXCEPT ![f] = NoFlight]

(* An actor's error, its own or the upstream's; a session it may use.      *)
Fail(a, error) ==
    IF IsCaller(a)
    THEN Set(a, AfterSessionError(call[a], error)) /\ UNCHANGED flight
    ELSE Land(a, error, FALSE)
UpstreamFails(a, error) ==
    IF IsCaller(a)
    THEN Set(a, AfterSessionError([call[a] EXCEPT !.trouble = TRUE], error))
         /\ UNCHANGED flight
    ELSE Land(a, error, TRUE)
Use(a) ==
    IF IsCaller(a) THEN Go(a, "request")
    ELSE \/ Land(a, "session", FALSE)
         \/ Land(a, "unavailable", TRUE)   \* no cookies to share, or too many
Missed(a) == Go(a, IF IsCaller(a) THEN "join" ELSE "identity")

(* A Redis call fails, its context's end included.                         *)
RedisFails(a) ==
    /\ IF Dead(a) THEN UNCHANGED mishaps ELSE Mishap
    /\ UNCHANGED <<now, store, index, deletion, late>>
RequestEnds(a) == IF ContextError(a) = "canceled" THEN "canceled" ELSE "timeout"

-----------------------------------------------------------------------------
(* loadTargetSession.                                                      *)

(* A record is found, with cookies still live or not; an undergraduate's   *)
(* is used without a probe for a while after it was last validated.        *)
Looked(a) ==
    LET loaded == LoadScope(Credentials(a), Level(a))
    IN  CASE loaded = "miss"    -> Missed(a)
          [] loaded = "invalid" -> Go(a, "discard")
          [] OTHER ->
                \/ Go(a, "discard")
                \/ Level(a) = "undergraduate" /\ Go(a, "probe")
                \/ (Level(a) = "graduate" \/ loaded = "scoped") /\ Use(a)
LoadFailsHard(a) == Fail(a, "unavailable")
LoadFails(a) == Missed(a)
Load(a) ==
    /\ At(a) = "load"
    /\ \/ ~Dead(a) /\ Looked(a) /\ UNCHANGED storeVars
       \/ RedisFails(a) /\ IF Dead(a) THEN Fail(a, ContextError(a)) ELSE LoadFails(a)
    /\ UNCHANGED <<active, permits>>

(* deleteTargetSession; deletions and saves that fail are only logged.     *)
Forget(a, scope) ==
    /\ (~Dead(a) /\ DeleteScope(Credentials(a), scope)) \/ RedisFails(a)
    /\ UNCHANGED <<active, permits>>
Discard(a) == At(a) = "discard" /\ Forget(a, Level(a)) /\ Missed(a)

Probe(a) ==
    /\ At(a) = "probe"
    /\ \/ Dead(a) /\ Fail(a, RequestEnds(a))
       \/ ~Dead(a) /\ \E e \in {"unavailable", "retryable"} : UpstreamFails(a, e)
       \/ ~Dead(a) /\ Go(a, "discard")
       \/ ~Dead(a) /\ Go(a, "saveProbed")
    /\ UNCHANGED <<storeVars, active, permits>>

Keep(a, scope) ==
    /\ \/ ~Dead(a) /\ \E ttl \in Ttl[scope] : SaveScope(Credentials(a), scope, ttl)
       \/ RedisFails(a)
    /\ UNCHANGED <<active, permits>>
SaveProbed(a) == At(a) = "saveProbed" /\ Keep(a, Level(a)) /\ Use(a)

-----------------------------------------------------------------------------
(* sessionForQuery: waiting for a recovery.                                *)

(* The first to come leads: its flight's context outlives a cancellation,  *)
(* not the leader's deadline.                                              *)
Waiting(q) == [call[q] EXCEPT !.at = "wait", !.election = @ + 1, !.mail = NoMail]
Join(q) ==
    /\ call[q].at = "join"
    /\ LET f == <<call[q].c, call[q].level>>
       IN  \/ /\ flight[f] = NoFlight
              /\ \E bound \in BOOLEAN :
                    /\ call[q].ctx = "expired" => bound
                    /\ flight' = [flight EXCEPT ![f] =
                                     [at |-> "load", leader |-> q, bound |-> bound,
                                      waiters |-> {q},
                                      expired |-> call[q].ctx = "expired"]]
           \/ /\ flight[f] # NoFlight
              /\ flight' = [flight EXCEPT ![f].waiters = @ \cup {q}]
    /\ Set(q, Waiting(q))
    /\ UNCHANGED <<storeVars, active, permits>>

(* A follower whose leader ran out of its own time waits once more.        *)
NeverAgain(q) == FALSE
TriesAgain(q) ==
    /\ call[q].mail.value \in {"deadline", "timeout"} /\ call[q].mail.bound
    /\ call[q].mail.leader # q
    /\ call[q].election = 1
    /\ ~Dead(q)
Receive(q) ==
    /\ call[q].at = "wait" /\ call[q].mail # NoMail
    /\ LET c == [call[q] EXCEPT !.trouble = @ \/ call[q].mail.trouble]
       IN  IF call[q].mail.value = "session" THEN
               \/ Set(q, [c EXCEPT !.at = "request", !.mail = NoMail])
               \/ Set(q, AfterSessionError([c EXCEPT !.trouble = TRUE], "unavailable"))
           ELSE IF TriesAgain(q) THEN Set(q, [c EXCEPT !.at = "join", !.mail = NoMail])
           ELSE Set(q, AfterSessionError(c, call[q].mail.value))
    /\ UNCHANGED <<storeVars, flight, active, permits>>

Leave(q) ==
    /\ call[q].at = "wait" /\ Dead(q)
    /\ flight' = [f \in Flight |-> [flight[f] EXCEPT !.waiters = @ \ {q}]]
    /\ Set(q, AfterSessionError(call[q], ContextError(q)))
    /\ UNCHANGED <<storeVars, active, permits>>

-----------------------------------------------------------------------------
(* recoverTargetSession.                                                   *)

Identity(f) ==
    /\ At(f) = "identity"
    /\ LET loaded == LoadScope(f[1], "identity")
       IN  \/ /\ ~Dead(f) /\ UNCHANGED storeVars
              /\ CASE loaded = "miss"    -> Go(f, "login")
                   [] loaded = "invalid" -> Go(f, "dropIdentity")
                   [] OTHER -> Go(f, "handoff") \/ Go(f, "dropIdentity")
           \/ RedisFails(f) /\ IF Dead(f) THEN Fail(f, "deadline") ELSE Go(f, "login")
    /\ UNCHANGED <<active, permits>>

(* An upstream request of a flight: its context's end, its failure, or an  *)
(* answer that leads on.                                                   *)
Attempt(f, next) ==
    /\ \/ Dead(f) /\ Fail(f, "timeout")
       \/ ~Dead(f) /\ \E e \in {"unavailable", "retryable"} : UpstreamFails(f, e)
       \/ ~Dead(f) /\ \E where \in next : Go(f, where)
    /\ UNCHANGED <<storeVars, active, permits>>

(* Granted, or rejected by the identity service; a rejection by the target *)
(* is an error.                                                            *)
Handoff(f) == At(f) = "handoff" /\ Attempt(f, {"saveTarget", "dropIdentity"})

DropIdentity(f) == At(f) = "dropIdentity" /\ Forget(f, "identity") /\ Go(f, "login")

(* authenticate: the credential itself may be what is refused.             *)
Refuses(f) ==
    LET waiting(q) == q \in flight[f].waiters
    IN  /\ flight' = [flight EXCEPT ![f] = NoFlight]
        /\ call' = [q \in Caller |->
                       LET mail == [value |-> "invalid", leader |-> flight[f].leader,
                                    bound |-> FALSE, trouble |-> TRUE]
                           c == IF waiting(q) THEN [call[q] EXCEPT !.mail = mail]
                                ELSE call[q]
                       IN  IF q = flight[f].leader /\ waiting(q)
                           THEN [c EXCEPT !.refused = @ + 1] ELSE c]
Login(f) ==
    /\ At(f) = "login"
    /\ \/ Attempt(f, {"saveIdentity"})
       \/ /\ ~Dead(f)
          /\ UpstreamFails(f, "challenge") \/ Refuses(f)
          /\ UNCHANGED <<storeVars, active, permits>>

SaveIdentity(f) == At(f) = "saveIdentity" /\ Keep(f, "identity") /\ Go(f, "access")
Access(f) == At(f) = "access" /\ Attempt(f, {"saveTarget"})
SaveTarget(f) == At(f) = "saveTarget" /\ Keep(f, f[2]) /\ Use(f)

-----------------------------------------------------------------------------
(* The RPC server: a call waits for a permit and keeps it until it returns. *)

(* What a request must carry; a catalog page is in 1 .. 1000.              *)
Request == [credential : BOOLEAN, student : BOOLEAN, level : BOOLEAN, period : BOOLEAN,
            page : {0, 1, 501, 1001}]
QueryInput(r) == r.credential /\ r.student /\ r.level
CatalogInput(r) == r.credential /\ r.level /\ r.period /\ r.page \in 1 .. 1000
ValidRequest(kind, r) ==
    CASE kind = "verify"  -> r.credential /\ r.level
      [] kind = "catalog" -> CatalogInput(r)
      [] kind = "grades"  -> QueryInput(r)
      [] OTHER -> QueryInput(r) /\ r.period

Inside == {q \in Caller : call[q].at \notin {"idle", "queued", "done"}}
ValidPages ==
    [kind \in Kind |-> {IF kind = "catalog" THEN r.page ELSE 0 :
                           r \in {r \in Request : ValidRequest(kind, r)}}]
Refusable == {kind \in Kind : \E r \in Request : ~ValidRequest(kind, r)}
Start(q) ==
    /\ call[q].at = "idle"
    /\ \/ /\ KindsOf[q] \cap Refusable # {}
          /\ Set(q, Return("InvalidArgument"))
       \/ \E kind \in KindsOf[q], c \in Credential, level \in LevelsOf[q] :
          \E page \in ValidPages[kind] :
            /\ kind \in {"schedule", "selections"} => level = "undergraduate"
            /\ Set(q, [NotCalled EXCEPT !.at = "queued", !.kind = kind, !.c = c,
                          !.level = level, !.part = 1, !.attempt = 1, !.page = page])
    /\ UNCHANGED <<storeVars, flight, active, permits>>

(* The catalog is read from the OUC provider itself, all else through the  *)
(* router.                                                                 *)
Acquire(q) ==
    /\ call[q].at = "queued"
    /\ \/ /\ Cardinality(Inside) < permits
          /\ Go(q, IF call[q].kind = "catalog" THEN "configure" ELSE "route")
       \/ /\ Cardinality(Inside) = permits
          /\ Set(q, Ended("busy")) /\ UNCHANGED flight
       \/ Dead(q) /\ Set(q, Ended(ContextError(q))) /\ UNCHANGED flight
    /\ UNCHANGED <<storeVars, active, permits>>

(* The router reads the configuration, and the provider reads it again; a  *)
(* mock answers without the school.                                        *)
Route(q) ==
    /\ call[q].at = "route"
    /\ CASE active = "ouc"  -> Go(q, "configure")
         [] active = "mock" -> Set(q, Return("items")) /\ UNCHANGED flight
         [] active = "none" -> Set(q, Fails("unavailable")) /\ UNCHANGED flight
    /\ UNCHANGED <<storeVars, active, permits>>

(* The provider itself reads at most 500 pages of a catalog.               *)
MaxCatalogPage == 500
Configure(q) ==
    /\ call[q].at = "configure"
    /\ IF active = "ouc" /\ call[q].page <= MaxCatalogPage
       THEN Go(q, IF call[q].kind = "verify" THEN "verify" ELSE "load")
       ELSE Set(q, AfterFailure(call[q], "unavailable")) /\ UNCHANGED flight
    /\ UNCHANGED <<storeVars, active, permits>>

(* Resolver.refresh: the last valid configuration stays.                   *)
Parsed(content) ==
    CASE content # "" -> content
      [] "mock" \in Allowed -> "mock"
      [] OTHER -> "none"
Refresh ==
    /\ \E content \in Allowed \cup {""} : active' = Parsed(content)
    /\ active' # active
    /\ Mishap
    /\ UNCHANGED <<now, store, index, deletion, late, call, flight, permits>>

-----------------------------------------------------------------------------
(* queryWithOperation and the operations built on it.                      *)

(* The request fails, or its answer is a challenge, a rejection of the     *)
(* session, or accepted.  After a failure the catalog keeps its session    *)
(* and asks again.                                                         *)
AskAgain(c, error) ==
    IF c.kind = "catalog" /\ c.attempt < 3 /\ c.ctx = "live"
    THEN NextAttempt(c, "request") ELSE AfterFailure(c, error)
Query(q) ==
    LET c == call[q]
        upset == [c EXCEPT !.trouble = TRUE]
    IN  /\ c.at = "request"
        /\ \/ Dead(q) /\ Set(q, AfterFailure(c, RequestEnds(q)))
           \/ ~Dead(q) /\ \E e \in {"unavailable", "retryable"} : Set(q, AskAgain(upset, e))
           \/ ~Dead(q) /\ Set(q, [upset EXCEPT !.at = "challenged"])
           \/ ~Dead(q) /\ Set(q, [upset EXCEPT !.at = "rejected"])
           \/ ~Dead(q) /\ Set(q, [c EXCEPT !.at = "parse"])
        /\ UNCHANGED <<storeVars, flight, active, permits>>

Challenged(q) ==
    /\ call[q].at = "challenged"
    /\ Forget(q, call[q].level)
    /\ Set(q, AfterFailure(call[q], "challenge"))
    /\ UNCHANGED flight

AfterRejection(c) ==
    IF c.attempt < MaxAttempts(c) THEN NextAttempt(c, "load")
    ELSE AfterFailure(c, "unavailable")
Rejected(q) ==
    /\ call[q].at = "rejected"
    /\ Forget(q, call[q].level)
    /\ Set(q, AfterRejection(call[q]))
    /\ UNCHANGED flight

(* An answer that cannot be read: its session is not saved.  Nothing is    *)
(* read from a schedule's first request, and a supplement is left out.     *)
Unreadable(q) ==
    LET c == call[q]
        error == IF c.kind = "catalog" THEN "contract" ELSE "unavailable"
    IN  /\ c.at = "parse" /\ (c.kind = "schedule" => c.part = 2)
        /\ Set(q, IF c.kind = "selections" /\ c.part = 2 THEN Return("items")
                  ELSE AskAgain([c EXCEPT !.trouble = TRUE], error))
        /\ UNCHANGED <<storeVars, flight, active, permits>>

(* The accepted session is saved; then the operation's second request, if  *)
(* it has one: always for a schedule and undergraduate selections, after   *)
(* an empty result for graduate courses.                                   *)
TwoRequests(c) == c.kind \in {"schedule", "selections"}
MaySecond(c) == TwoRequests(c) \/ (c.kind = "courses" /\ c.level = "graduate")
SaveParsed(q) ==
    LET c == call[q]
    IN  /\ c.at = "parse"
        /\ Keep(q, c.level)
        /\ \/ /\ c.part = 1 /\ MaySecond(c)
              /\ Set(q, [c EXCEPT !.at = "configure", !.part = 2, !.attempt = 1, !.election = 0])
           \/ /\ c.part = 2 \/ ~TwoRequests(c)
              /\ Set(q, Return("items"))
        /\ UNCHANGED flight

(* Verify logs in whatever is cached, and saves the identity session when  *)
(* the portal confirms the student.                                        *)
Verify(q) ==
    /\ call[q].at = "verify"
    /\ \/ Dead(q) /\ Set(q, Fails(RequestEnds(q)))
       \/ /\ ~Dead(q)
          /\ \E e \in {"unavailable", "retryable", "challenge", "invalid"} : Set(q, Fails(e))
       \/ ~Dead(q) /\ Set(q, [call[q] EXCEPT !.at = "saveVerified"])
    /\ UNCHANGED <<storeVars, flight, active, permits>>

SaveVerified(q) ==
    /\ call[q].at = "saveVerified"
    /\ Keep(q, "identity")
    /\ Set(q, Return("items"))
    /\ UNCHANGED flight

-----------------------------------------------------------------------------
(* Contexts: a caller is canceled, or its deadline passes, and with it     *)
(* that of the flights bound to it; a flight's own time runs out.          *)

Running(q) == call[q].at \notin {"idle", "done"}
Cancel(q) ==
    /\ Running(q) /\ ~Dead(q)
    /\ Set(q, [call[q] EXCEPT !.ctx = "canceled"])
    /\ UNCHANGED <<storeVars, flight, active, permits>>

Expire(q) ==
    /\ Running(q) /\ ~Dead(q)
    /\ Set(q, [call[q] EXCEPT !.ctx = "expired"])
    /\ flight' = [f \in Flight |->
                     IF flight[f].leader = q /\ flight[f].bound
                     THEN [flight[f] EXCEPT !.expired = TRUE] ELSE flight[f]]
    /\ UNCHANGED <<storeVars, active, permits>>

FlightExpires(f) ==
    LET leader == flight[f].leader
    IN  /\ flight[f] # NoFlight /\ ~Dead(f)
        /\ flight[f].bound => Dead(leader) \/ ~Running(leader)
        /\ flight' = [flight EXCEPT ![f].expired = TRUE]
        /\ UNCHANGED <<storeVars, call, active, permits>>

CallerStep(q) ==
    \/ Acquire(q) \/ Route(q) \/ Configure(q)
    \/ Load(q) \/ Discard(q) \/ Probe(q) \/ SaveProbed(q)
    \/ Join(q) \/ Receive(q) \/ Leave(q)
    \/ Query(q) \/ Challenged(q) \/ Rejected(q)
    \/ Unreadable(q) \/ SaveParsed(q)
    \/ Verify(q) \/ SaveVerified(q)
FlightStep(f) ==
    \/ Load(f) \/ Discard(f) \/ Probe(f) \/ SaveProbed(f)
    \/ Identity(f) \/ Handoff(f) \/ DropIdentity(f)
    \/ Login(f) \/ SaveIdentity(f) \/ Access(f) \/ SaveTarget(f)

Next ==
    \/ \E q \in Caller : Start(q) \/ CallerStep(q) \/ Cancel(q) \/ Expire(q)
    \/ \E f \in Flight : FlightStep(f) \/ FlightExpires(f)
    \/ Refresh
    \/ StoreSteps /\ UNCHANGED queryVars

Spec == Init /\ [][Next]_vars

-----------------------------------------------------------------------------
(* Properties.                                                             *)

(* sessionForQuery: "A canceled leader must not poison concurrent          *)
(* followers."  A caller ends as canceled only if it was, and by a         *)
(* deadline only if its own passed, or the recovery's own time ran out, or *)
(* the deadlines of two leaders passed.                                    *)
Ends(q, errors) == call'[q].cause \in errors /\ call[q].at # "done"
NotPoisoned ==
    [][\A q \in Caller :
          LET c == call[q]
          IN  /\ Ends(q, {"canceled"}) => c.ctx = "canceled"
              /\ Ends(q, {"deadline", "timeout"}) /\ c.ctx = "live" =>
                     ~c.mail.bound \/ c.election = 2]_vars

(* A password that the school refuses is sent once per call: no retry of   *)
(* the catalog, no second election and no second request sends it again.   *)
WrongPasswordSentOnce == \A q \in Caller : call[q].refused <= 1

(* loadTargetSession and recoverTargetSession keep the session cache       *)
(* best-effort: a failing Redis alone never fails a query whose upstream   *)
(* requests succeed.                                                       *)
CacheBestEffort ==
    [][\A q \in Caller :
          Ends(q, Error \ {"deadline", "timeout", "canceled"}) =>
              call'[q].trouble \/ call[q].at \in {"route", "configure", "verify"}]_vars
=============================================================================
