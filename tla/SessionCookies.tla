--------------------------- MODULE SessionCookies ---------------------------
(***************************************************************************)
(* The cookies of one upstream session (ouc/tracked_cookie_jar.go and the  *)
(* cookie rules of ouc/session_store.go).  A session's client has a cookie *)
(* jar of the Go library; trackedCookieJar keeps beside it the host that   *)
(* set each cookie, and only that side index is persisted: per scope       *)
(* (identity, undergraduate, graduate) for later queries, and identity     *)
(* with one target for the callers that share a recovery.  The saved state *)
(* must not lose a login, bring back a cookie that was replaced or         *)
(* deleted, or send a target's cookie to another host.                     *)
(*                                                                         *)
(* A cookie's name stands for its name and path, a URL for its host; a     *)
(* domain is the host that sets the cookie, the parent domain, or one      *)
(* above it.  Servers set any cookie that is well formed, at any time.     *)
(***************************************************************************)
EXTENDS Integers, FiniteSets

CONSTANTS
    Name, Value,
    Life,          \* lifetimes servers give: 0 until the session ends, or ticks
    Source,        \* hosts that answer
    MaxCookies,    \* maxSessionCookies
    MaxTime        \* bound on the clock

Host == {"id", "my", "jwgl2024", "pgs"}                    \* allowedOUCHost
ScopeHost == [identity |-> {"id", "my"}, undergraduate |-> {"jwgl2024"},
              graduate |-> {"pgs"}]
Scope == DOMAIN ScopeHost                                  \* validSessionScope
Target == Scope \ {"identity"}

Parent == "ouc"                \* ouc.edu.cn
Wider == "edu"                 \* a domain above it
HostOnly == ""

ASSUME CookiesAssumption ==
    /\ Life \subseteq Nat
    /\ Source \subseteq Host
    /\ MaxCookies \in Nat /\ MaxTime \in Nat

VARIABLES
    now,
    jar,         \* the library's jar: what is sent
    records      \* the side index: what is saved

vars == <<now, jar, records>>

(* A cookie's slot: RFC 6265 keeps one value per domain, path and name.    *)
Slot == (Host \cup {Parent, Wider}) \X Name
NoCookie == [value |-> "none"]
Live(expires, t) == expires = 0 \/ expires > t

(* A cookie as a server sets it; a negative Max-Age, or a date that is     *)
(* past, deletes.                                                          *)
SetCookie == [name : Name, value : Value,
              domain : {HostOnly, "own", Parent, Wider}, life : Life \cup {-1}]
DomainOf(source, c) == IF c.domain = "own" THEN source ELSE c.domain
ExpiryOf(c) == IF c.life = 0 THEN 0 ELSE now + c.life
SlotOf(source, c) ==
    <<IF c.domain = HostOnly THEN source ELSE DomainOf(source, c), c.name>>

TypeOK ==
    /\ now \in Nat
    /\ \A s \in Slot :
        /\ jar[s] # NoCookie => jar[s].value \in Value /\ jar[s].expires \in Nat
        /\ records[s] # NoCookie =>
               /\ records[s].value \in Value
               /\ records[s].source \in Source
               /\ records[s].domain \in {HostOnly, records[s].source, Parent}

Init ==
    /\ now = 1
    /\ jar = [s \in Slot |-> NoCookie]
    /\ records = [s \in Slot |-> NoCookie]

-----------------------------------------------------------------------------
(* What a jar sends to a URL: host-only cookies to their host, the others  *)
(* to every host of their domain.                                          *)

DomainMatch(hostOnly, domain, host) == domain = host \/ (~hostOnly /\ domain \in {Parent, Wider})
Sent(j, host, t) ==
    {[name |-> s[2], value |-> j[s].value] :
        s \in {s \in DOMAIN j : /\ j[s] # NoCookie /\ Live(j[s].expires, t)
                                /\ DomainMatch(j[s].hostOnly, s[1], host)}}

(* The library's SetCookies.                                               *)
Stored(j, source, c) ==
    [j EXCEPT ![SlotOf(source, c)] =
        IF c.life = -1 THEN NoCookie
        ELSE [value |-> c.value, hostOnly |-> c.domain = HostOnly, expires |-> ExpiryOf(c)]]

(* trackedCookieJar.SetCookies: a cookie whose domain is neither the host's *)
(* nor the parent's is not tracked.                                        *)
ValidDomain(host, domain) == domain \in {HostOnly, host, Parent}   \* validSessionCookieDomain
Tracks(source, c) == ValidDomain(source, DomainOf(source, c))

TrackedRecord(source, c) ==
    [source |-> source, domain |-> DomainOf(source, c), value |-> c.value,
     expires |-> ExpiryOf(c)]
TrackedKeepingDeleted(r, source, c) ==   \* no delete of an expired cookie's record
    IF Tracks(source, c) /\ c.life # -1
    THEN [r EXCEPT ![SlotOf(source, c)] = TrackedRecord(source, c)]
    ELSE r
Tracked(r, source, c) ==
    IF Tracks(source, c)
    THEN [r EXCEPT ![SlotOf(source, c)] =
             IF c.life = -1 THEN NoCookie ELSE TrackedRecord(source, c)]
    ELSE r

SetCookies(source, c) ==
    /\ jar' = Stored(jar, source, c)
    /\ records' = Tracked(records, source, c)
    /\ UNCHANGED now

Tick ==
    /\ now < MaxTime
    /\ now' = now + 1
    /\ UNCHANGED <<jar, records>>

Next ==
    \/ Tick
    \/ \E source \in Source, c \in SetCookie : SetCookies(source, c)

Spec == Init /\ [][Next]_vars

-----------------------------------------------------------------------------
(* Saved sessions: sets of cookies, each with the URL that set it.         *)

SavedCookie(s) ==
    [source |-> records[s].source, name |-> s[2], value |-> records[s].value,
     domain |-> records[s].domain, expires |-> records[s].expires]

(* snapshotRecords: the live cookies of some scopes.  A parent-domain      *)
(* cookie of a target is kept only where the snapshot is not persisted.    *)
KeepsParentDomain(s, scope, parentAllowed) == TRUE
Included(s, scope, parentAllowed) ==
    parentAllowed \/ scope = "identity" \/ s[1] = records[s].source
Snapshot(scopes, parentAllowed) ==
    {SavedCookie(s) :
        s \in {s \in Slot : /\ records[s] # NoCookie /\ Live(records[s].expires, now)
                            /\ \E scope \in scopes :
                                   /\ records[s].source \in ScopeHost[scope]
                                   /\ Included(s, scope, parentAllowed)}}
ScopeSnapshot(scope) == Snapshot({scope}, FALSE)
TargetOnly(target) == Snapshot({target}, TRUE)   \* the identity is left behind
RecoverySnapshot(target) == Snapshot({"identity", target}, TRUE)

(* validateSessionState, validateScopedSessionState.                       *)
ValidState(state) ==
    /\ state # {} /\ Cardinality(state) <= MaxCookies
    /\ \A c \in state : ValidDomain(c.source, c.domain)
ValidScopedState(state, scope) ==
    /\ ValidState(state)
    /\ \A c \in state : /\ c.source \in ScopeHost[scope]
                        /\ scope # "identity" => c.domain # Parent

(* What a jar restored from a saved session at time t sends: restoreSession *)
(* sets every cookie that is still live from the URL it is saved with.     *)
SentAgain(state, host, t) ==
    {[name |-> c.name, value |-> c.value] :
        c \in {c \in state :
                  /\ Live(c.expires, t)
                  /\ DomainMatch(c.domain = HostOnly,
                                 IF c.domain = HostOnly THEN c.source ELSE c.domain,
                                 host)}}

(* Sessions saved before scopes: names and values of what is sent to each  *)
(* configured host (snapshotSession), and the cookies of one scope of them  *)
(* (filterSessionState): neither the parent domain's nor any the identity  *)
(* hosts have too.                                                         *)
LegacySnapshot ==
    UNION {{[source |-> host, name |-> c.name, value |-> c.value,
             domain |-> HostOnly, expires |-> 0] : c \in Sent(jar, host, now)} :
           host \in Host}
OfNobody(state, c) == FALSE   \* identity cookies not compared
OfIdentity(state, c) ==
    \E i \in state : /\ i.source \in ScopeHost["identity"]
                     /\ i.name = c.name /\ i.value = c.value
OthersCookie(state, c, scope) ==
    scope # "identity" /\ (c.domain = Parent \/ OfIdentity(state, c))
Filtered(state, scope) ==
    {c \in state : c.source \in ScopeHost[scope] /\ ~OthersCookie(state, c, scope)}

-----------------------------------------------------------------------------
(* Properties.                                                             *)

Later == now..(MaxTime + 1)

(* trackedCookieJar.SetCookies' comment: an overwrite or deletion from     *)
(* another subdomain "replace[s] the old source instead of resurrecting    *)
(* it": the side index holds what the jar would send, and nothing else.    *)
SideIndexAgrees ==
    \A s \in Slot :
        s[1] # Wider =>
            /\ (jar[s] = NoCookie) = (records[s] = NoCookie)
            /\ jar[s] # NoCookie =>
                   /\ records[s].value = jar[s].value
                   /\ records[s].expires = jar[s].expires
                   /\ (records[s].domain = HostOnly) = jar[s].hostOnly

(* A session that fits can be saved, and restored at any time it sends     *)
(* only what the original would still send: a target's to the target alone *)
(* (SaveScope refuses a session with any cookie of another host).          *)
SavedStaysHome ==
    \A scope \in Scope :
        LET saved == ScopeSnapshot(scope)
        IN  /\ Cardinality(saved) \in 1..MaxCookies => ValidScopedState(saved, scope)
            /\ \A host \in Host, t \in Later :
                   SentAgain(saved, host, t) \subseteq
                       IF scope = "identity" \/ host \in ScopeHost[scope]
                       THEN Sent(jar, host, t) ELSE {}

(* A caller that shares a recovery sends the identity hosts and its target *)
(* all that the recovered session would of the cookies they set, and       *)
(* nothing that any other host set.                                        *)
SetBy(hosts) ==
    [s \in Slot |-> IF records[s] # NoCookie /\ records[s].source \in hosts
                    THEN jar[s] ELSE NoCookie]
RecoveryComplete ==
    \A target \in Target :
        LET shared == RecoverySnapshot(target)
            own == SetBy(ScopeHost["identity"] \cup ScopeHost[target])
        IN  \A host \in Host, t \in Later :
                SentAgain(shared, host, t) = Sent(own, host, t)

(* A target session taken from a record without scopes sends nothing to    *)
(* another host, and nothing that is also an identity host's.              *)
MigratedStaysHome ==
    LET legacy == LegacySnapshot
        others == UNION {Sent(jar, host, now) : host \in ScopeHost["identity"]}
    IN  \A scope \in Target :
            LET kept == Filtered(legacy, scope)
            IN  \A host \in Host :
                    SentAgain(kept, host, now) \subseteq
                        IF host \in ScopeHost[scope] THEN Sent(jar, host, now) \ others ELSE {}
=============================================================================
