------------------------ MODULE SessionCookiesProofs ------------------------
(***************************************************************************)
(* Proofs about the cookies of a session, for any cookies, servers and     *)
(* limits: the side index agrees with the jar, and what is saved from it   *)
(* sends what the session would, and to nobody else.                       *)
(*                                                                         *)
(* The invariant says where a record lies: in the slot of the domain that  *)
(* its cookie is sent to.  SideIndexAgrees compares the two slot by slot,  *)
(* and so says nothing of the hosts a record is restored for without it.   *)
(***************************************************************************)
EXTENDS SessionCookies, TLAPS, FiniteSetTheorems

Cookie == [value : Value, hostOnly : BOOLEAN, expires : Nat]
CookieRecord ==
    [source : Source, domain : Host \cup {HostOnly, Parent}, value : Value, expires : Nat]

SentTo(r) == IF r.domain = HostOnly THEN r.source ELSE r.domain
RecordOK(s) ==
    records[s] # NoCookie =>
        /\ records[s] \in CookieRecord
        /\ ValidDomain(records[s].source, records[s].domain)
        /\ s[1] = SentTo(records[s])
JarInv ==
    /\ now \in Nat
    /\ jar \in [Slot -> Cookie \cup {NoCookie}]
    /\ records \in [Slot -> CookieRecord \cup {NoCookie}]
    /\ \A s \in Slot : RecordOK(s)
    /\ SideIndexAgrees

LEMMA NotNone == NoCookie \notin Cookie /\ NoCookie \notin CookieRecord
<1>1. \A r : r = NoCookie => DOMAIN r = {"value"}
  BY DEF NoCookie
<1>2. \A r \in Cookie : "expires" \in DOMAIN r
  BY DEF Cookie
<1>3. \A r \in CookieRecord : "expires" \in DOMAIN r
  BY DEF CookieRecord
<1> QED
  BY <1>1, <1>2, <1>3

LEMMA DomainsDiffer ==
    /\ HostOnly \notin Host \cup {Parent, Wider}
    /\ Parent \notin Host /\ Wider \notin Host /\ Parent # Wider
    /\ "own" \notin Host \cup {HostOnly, Parent, Wider}
  BY DEF HostOnly, Host, Parent, Wider

-----------------------------------------------------------------------------
(* trackedCookieJar.SetCookies: one slot of the jar and of the side index. *)
LEMMA SetCookiesKeeps ==
    ASSUME JarInv, NEW source \in Source, NEW c \in SetCookie, SetCookies(source, c)
    PROVE  JarInv'
<1> DEFINE slot == SlotOf(source, c)
           set == [value |-> c.value, hostOnly |-> c.domain = HostOnly,
                   expires |-> ExpiryOf(c)]
           tracked == TrackedRecord(source, c)
<1>1. /\ now' = now /\ jar' = Stored(jar, source, c)
      /\ records' = Tracked(records, source, c)
  BY DEF SetCookies
<1>2. /\ source \in Host /\ c.name \in Name /\ c.value \in Value
      /\ c.domain \in {HostOnly, "own", Parent, Wider}
      /\ c.life \in Nat \cup {-1}
  BY CookiesAssumption DEF SetCookie
<1>3. slot \in Slot /\ slot[1] = IF c.domain = HostOnly THEN source ELSE DomainOf(source, c)
  BY <1>2 DEF Slot, SlotOf, DomainOf
<1>4. c.life # -1 => ExpiryOf(c) \in Nat
  BY <1>2 DEF ExpiryOf, JarInv
<1>5. c.life # -1 => set \in Cookie
  BY <1>2, <1>4 DEF Cookie
<1>6. Tracks(source, c) <=> c.domain # Wider
  BY <1>2, DomainsDiffer DEF Tracks, ValidDomain, DomainOf
<1>7. Tracks(source, c) /\ c.life # -1 =>
          /\ tracked \in CookieRecord
          /\ ValidDomain(tracked.source, tracked.domain)
          /\ slot[1] = SentTo(tracked)
  <2>1. Tracks(source, c) => DomainOf(source, c) \in Host \cup {HostOnly, Parent}
    BY <1>2 DEF Tracks, ValidDomain
  <2>2. c.domain = HostOnly <=> DomainOf(source, c) = HostOnly
    BY <1>2, DomainsDiffer DEF DomainOf
  <2> QED
    BY <1>2, <1>3, <1>4, <2>1, <2>2 DEF TrackedRecord, CookieRecord, Tracks, SentTo
<1>8. jar' = [jar EXCEPT ![slot] = IF c.life = -1 THEN NoCookie ELSE set]
  BY <1>1 DEF Stored
<1>9. records' = [records EXCEPT ![slot] =
                     IF ~Tracks(source, c) THEN records[slot]
                     ELSE IF c.life = -1 THEN NoCookie ELSE tracked]
  BY <1>1, <1>3 DEF Tracked, JarInv
<1>10. jar' \in [Slot -> Cookie \cup {NoCookie}]
  BY <1>3, <1>5, <1>8 DEF JarInv
<1>11. records' \in [Slot -> CookieRecord \cup {NoCookie}]
  BY <1>3, <1>7, <1>9 DEF JarInv
<1>12. \A s \in Slot : RecordOK(s)'
  <2> SUFFICES ASSUME NEW s \in Slot PROVE RecordOK(s)'
    OBVIOUS
  <2>1. CASE s = slot /\ Tracks(source, c)
    BY <2>1, <1>3, <1>7, <1>9 DEF RecordOK, JarInv
  <2>2. CASE ~(s = slot /\ Tracks(source, c))
    <3>1. records'[s] = records[s]
      BY <2>2, <1>3, <1>9 DEF JarInv
    <3> QED
      BY <3>1 DEF RecordOK, JarInv
  <2> QED
    BY <2>1, <2>2
<1>13. SideIndexAgrees'
  <2> SUFFICES ASSUME NEW s \in Slot, s[1] # Wider
               PROVE  /\ (jar'[s] = NoCookie) = (records'[s] = NoCookie)
                      /\ jar'[s] # NoCookie =>
                             /\ records'[s].value = jar'[s].value
                             /\ records'[s].expires = jar'[s].expires
                             /\ (records'[s].domain = HostOnly) = jar'[s].hostOnly
    BY DEF SideIndexAgrees
  <2>1. CASE s # slot
    <3>1. records'[s] = records[s] /\ jar'[s] = jar[s]
      BY <2>1, <1>8, <1>9 DEF JarInv
    <3> QED
      BY <3>1 DEF JarInv, SideIndexAgrees
  <2>2. CASE s = slot
    <3>1. c.domain # Wider
      BY <2>2, <1>3, DomainsDiffer DEF DomainOf
    <3>2. CASE c.life = -1
      BY <2>2, <3>1, <3>2, <1>3, <1>6, <1>8, <1>9 DEF JarInv
    <3>3. CASE c.life # -1
      <4>1. jar'[s] = set /\ records'[s] = tracked
        BY <2>2, <3>1, <3>3, <1>3, <1>6, <1>8, <1>9 DEF JarInv
      <4>2. set # NoCookie /\ tracked # NoCookie
        BY <3>1, <3>3, <1>5, <1>6, <1>7, NotNone
      <4>3. (tracked.domain = HostOnly) = (c.domain = HostOnly)
        BY <1>2, DomainsDiffer DEF TrackedRecord, DomainOf
      <4> QED
        BY <4>1, <4>2, <4>3 DEF TrackedRecord
    <3> QED
      BY <3>2, <3>3
  <2> QED
    BY <2>1, <2>2
<1> QED
  BY <1>1, <1>10, <1>11, <1>12, <1>13 DEF JarInv

LEMMA JarInvariant == Spec => []JarInv
<1>1. ASSUME Init PROVE JarInv
  <2>1. /\ now = 1 /\ \A s \in Slot : jar[s] = NoCookie /\ records[s] = NoCookie
        /\ jar \in [Slot -> Cookie \cup {NoCookie}]
        /\ records \in [Slot -> CookieRecord \cup {NoCookie}]
    BY <1>1 DEF Init
  <2> QED
    BY <2>1 DEF JarInv, RecordOK, SideIndexAgrees
<1>2. ASSUME JarInv, [Next]_vars PROVE JarInv'
  <2>1. CASE Tick
    <3>1. now' = now + 1 /\ jar' = jar /\ records' = records
      BY <2>1 DEF Tick
    <3>2. now' \in Nat
      BY <3>1, <1>2 DEF JarInv
    <3> QED
      BY <3>1, <3>2, <1>2 DEF JarInv, RecordOK, SideIndexAgrees
  <2>2. CASE \E source \in Source, c \in SetCookie : SetCookies(source, c)
    BY <2>2, <1>2, SetCookiesKeeps
  <2>3. CASE UNCHANGED vars
    <3>1. now' = now /\ jar' = jar /\ records' = records
      BY <2>3 DEF vars
    <3> QED
      BY <3>1, <1>2 DEF JarInv, RecordOK, SideIndexAgrees
  <2> QED
    BY <1>2, <2>1, <2>2, <2>3 DEF Next
<1> QED
  BY <1>1, <1>2, PTL DEF Spec

-----------------------------------------------------------------------------
(* What is saved of a record is sent where its cookie is, while it lives.  *)
LEMMA SavedLikeJar ==
    ASSUME JarInv, NEW s \in Slot, records[s] # NoCookie
    PROVE  LET c == SavedCookie(s)
           IN  /\ jar[s] # NoCookie
               /\ c.source \in Source /\ c.source = records[s].source
               /\ c.expires = jar[s].expires /\ c.expires \in Nat
               /\ c.name = s[2] /\ c.value = jar[s].value
               /\ c.domain = records[s].domain
               /\ ValidDomain(c.source, c.domain)
               /\ \A host : DomainMatch(c.domain = HostOnly, SentTo(c), host)
                                <=> DomainMatch(jar[s].hostOnly, s[1], host)
               /\ SentTo(c) = s[1]
<1>1. /\ records[s] \in CookieRecord
      /\ ValidDomain(records[s].source, records[s].domain)
      /\ s[1] = SentTo(records[s])
  BY DEF JarInv, RecordOK
<1>2. records[s].source \in Host /\ records[s].expires \in Nat /\ records[s].source \in Source
  BY <1>1, CookiesAssumption DEF CookieRecord
<1>3. s[1] # Wider
  BY <1>1, <1>2, DomainsDiffer DEF SentTo, ValidDomain
<1>4. /\ jar[s] # NoCookie /\ records[s].value = jar[s].value
      /\ records[s].expires = jar[s].expires
      /\ (records[s].domain = HostOnly) = jar[s].hostOnly
  BY <1>3 DEF JarInv, SideIndexAgrees
<1> QED
  BY <1>1, <1>2, <1>4 DEF SavedCookie, SentTo

(* A restored session sends what its jar would of the slots it was saved   *)
(* from.                                                                   *)
LEMMA SentAgainFrom ==
    ASSUME JarInv, NEW slots \in SUBSET Slot, \A s \in slots : records[s] # NoCookie,
           NEW host, NEW t
    PROVE  SentAgain({SavedCookie(s) : s \in slots}, host, t) =
               {[name |-> s[2], value |-> jar[s].value] :
                   s \in {s \in slots : /\ Live(jar[s].expires, t)
                                        /\ DomainMatch(jar[s].hostOnly, s[1], host)}}
<1> DEFINE state == {SavedCookie(s) : s \in slots}
           goes(c) == /\ Live(c.expires, t)
                      /\ DomainMatch(c.domain = HostOnly, SentTo(c), host)
           sends(s) == /\ Live(jar[s].expires, t)
                       /\ DomainMatch(jar[s].hostOnly, s[1], host)
           sent(s) == [name |-> s[2], value |-> jar[s].value]
<1>1. SentAgain(state, host, t) =
          {[name |-> c.name, value |-> c.value] : c \in {c \in state : goes(c)}}
  BY DEF SentAgain, SentTo
<1>2. \A s \in slots : /\ goes(SavedCookie(s)) <=> sends(s)
                       /\ [name |-> SavedCookie(s).name, value |-> SavedCookie(s).value] = sent(s)
  BY SavedLikeJar
<1> HIDE DEF goes, sends, sent
<1>3. {[name |-> c.name, value |-> c.value] : c \in {c \in state : goes(c)}} =
          {sent(s) : s \in {s \in slots : sends(s)}}
  BY <1>2
<1> QED
  BY <1>1, <1>3 DEF sends, sent

-----------------------------------------------------------------------------
(* The comment of trackedCookieJar.SetCookies: the side index holds what   *)
(* the jar would send, whatever hosts overwrite or delete.                 *)
THEOREM SideIndexAlwaysAgrees == Spec => []SideIndexAgrees
<1>1. JarInv => SideIndexAgrees
  BY DEF JarInv
<1> QED
  BY <1>1, JarInvariant, PTL

(* SaveScope, validateScopedSessionState: a session that fits is valid, and *)
(* sends only what the original would, a target's to the target alone.     *)
THEOREM SavedAlwaysStaysHome == Spec => []SavedStaysHome
<1>1. ASSUME JarInv PROVE SavedStaysHome
  <2> SUFFICES ASSUME NEW scope \in Scope
               PROVE  LET saved == ScopeSnapshot(scope)
                      IN  /\ Cardinality(saved) \in 1..MaxCookies => ValidScopedState(saved, scope)
                          /\ \A host \in Host, t \in Later :
                                 SentAgain(saved, host, t) \subseteq
                                     IF scope = "identity" \/ host \in ScopeHost[scope]
                                     THEN Sent(jar, host, t) ELSE {}
    BY DEF SavedStaysHome
  <2> DEFINE slots == {s \in Slot :
                 /\ records[s] # NoCookie /\ Live(records[s].expires, now)
                 /\ records[s].source \in ScopeHost[scope]
                 /\ scope = "identity" \/ s[1] = records[s].source}
             saved == ScopeSnapshot(scope)
  <2>1. saved = {SavedCookie(s) : s \in slots}
    BY DEF ScopeSnapshot, Snapshot, Included
  <2>2. slots \in SUBSET Slot /\ \A s \in slots : records[s] # NoCookie
    OBVIOUS
  <2>3. ASSUME NEW s \in slots
        PROVE  /\ ValidDomain(SavedCookie(s).source, SavedCookie(s).domain)
               /\ SavedCookie(s).source \in ScopeHost[scope]
               /\ scope # "identity" =>
                      SavedCookie(s).domain # Parent /\ s[1] \in ScopeHost[scope] \cap Host
    <3>1. /\ SavedCookie(s).source = records[s].source
          /\ SavedCookie(s).source \in Host
          /\ SentTo(SavedCookie(s)) = s[1]
          /\ ValidDomain(SavedCookie(s).source, SavedCookie(s).domain)
      BY <1>1, SavedLikeJar, CookiesAssumption
    <3> QED
      BY <3>1, DomainsDiffer DEF SentTo
  <2>4. Cardinality(saved) \in 1..MaxCookies => ValidScopedState(saved, scope)
    <3>1. Cardinality({}) = 0
      BY FS_EmptySet
    <3>2. \A c \in saved :
              /\ ValidDomain(c.source, c.domain) /\ c.source \in ScopeHost[scope]
              /\ scope # "identity" => c.domain # Parent
      BY <2>1, <2>3
    <3>3. Cardinality(saved) \in 1..MaxCookies =>
              saved # {} /\ Cardinality(saved) <= MaxCookies
      BY <3>1, CookiesAssumption
    <3> QED
      BY <3>2, <3>3 DEF ValidScopedState, ValidState
  <2>5. ASSUME NEW host \in Host, NEW t \in Later
        PROVE  SentAgain(saved, host, t) \subseteq
                   IF scope = "identity" \/ host \in ScopeHost[scope]
                   THEN Sent(jar, host, t) ELSE {}
    <3> HIDE DEF slots
    <3>1. SentAgain({SavedCookie(s) : s \in slots}, host, t) =
              {[name |-> s[2], value |-> jar[s].value] :
                  s \in {s \in slots : /\ Live(jar[s].expires, t)
                                       /\ DomainMatch(jar[s].hostOnly, s[1], host)}}
      BY <1>1, <2>2, SentAgainFrom
    <3>2. \A s \in slots : s \in DOMAIN jar /\ jar[s] # NoCookie
      BY <1>1, <2>2, SavedLikeJar DEF JarInv
    <3>3. SentAgain(saved, host, t) \subseteq Sent(jar, host, t)
      BY <2>1, <3>1, <3>2 DEF Sent
    <3>4. CASE scope # "identity" /\ host \notin ScopeHost[scope]
      <4>1. \A s \in slots : ~DomainMatch(jar[s].hostOnly, s[1], host)
        BY <2>3, <3>4, DomainsDiffer DEF DomainMatch
      <4> QED
        BY <2>1, <3>1, <3>4, <4>1
    <3> QED
      BY <3>3, <3>4
  <2> QED
    BY <2>4, <2>5
<1> QED
  BY <1>1, JarInvariant, PTL

(* snapshotRecoverySession: a caller that shares a recovery sends all that *)
(* the recovered session would of the cookies of its hosts, and no more.   *)
THEOREM RecoveryAlwaysComplete == Spec => []RecoveryComplete
<1>1. ASSUME JarInv PROVE RecoveryComplete
  <2> SUFFICES ASSUME NEW target \in Target, NEW host \in Host, NEW t \in Later
               PROVE  SentAgain(RecoverySnapshot(target), host, t) =
                          Sent(SetBy(ScopeHost["identity"] \cup ScopeHost[target]), host, t)
    BY DEF RecoveryComplete
  <2> DEFINE hosts == ScopeHost["identity"] \cup ScopeHost[target]
             slots == {s \in Slot : /\ records[s] # NoCookie /\ Live(records[s].expires, now)
                                    /\ records[s].source \in hosts}
             own == SetBy(hosts)
             sends(s) == /\ Live(jar[s].expires, t)
                         /\ DomainMatch(jar[s].hostOnly, s[1], host)
  <2>1. RecoverySnapshot(target) = {SavedCookie(s) : s \in slots}
    BY DEF RecoverySnapshot, Snapshot, Included
  <2>2. SentAgain(RecoverySnapshot(target), host, t) =
            {[name |-> s[2], value |-> jar[s].value] : s \in {s \in slots : sends(s)}}
    <3>1. slots \in SUBSET Slot /\ \A s \in slots : records[s] # NoCookie
      OBVIOUS
    <3> HIDE DEF slots
    <3>2. SentAgain({SavedCookie(s) : s \in slots}, host, t) =
              {[name |-> s[2], value |-> jar[s].value] : s \in {s \in slots : sends(s)}}
      BY <1>1, <3>1, SentAgainFrom
    <3> QED
      BY <2>1, <3>2
  <2>3. now <= t /\ now \in Nat /\ t \in Int
    BY <1>1 DEF Later, JarInv
  <2>4. {s \in DOMAIN own : own[s] # NoCookie /\ Live(own[s].expires, t)
                            /\ DomainMatch(own[s].hostOnly, s[1], host)}
            = {s \in slots : sends(s)}
    <3>1. ASSUME NEW s \in Slot, records[s] # NoCookie
          PROVE  /\ jar[s] # NoCookie /\ records[s].expires = jar[s].expires
                 /\ jar[s].expires \in Nat
      BY <1>1, <3>1, SavedLikeJar DEF SavedCookie
    <3>2. DOMAIN own = Slot
          /\ \A s \in Slot : own[s] = IF records[s] # NoCookie /\ records[s].source \in hosts
                                      THEN jar[s] ELSE NoCookie
      BY DEF SetBy
    <3>3. \A s \in Slot : records[s] # NoCookie /\ Live(jar[s].expires, t) =>
              Live(records[s].expires, now)
      BY <2>3, <3>1 DEF Live
    <3> QED
      BY <3>1, <3>2, <3>3
  <2>5. \A s \in {s \in slots : sends(s)} : own[s] = jar[s]
    BY DEF SetBy
  <2>6. Sent(own, host, t) =
            {[name |-> s[2], value |-> own[s].value] : s \in {s \in slots : sends(s)}}
    BY <2>4 DEF Sent
  <2> QED
    BY <2>2, <2>5, <2>6
<1> QED
  BY <1>1, JarInvariant, PTL

(* filterSessionState: a target session taken from a record without scopes *)
(* sends nothing to another host, and nothing the identity hosts have.     *)
THEOREM MigratedAlwaysStaysHome == Spec => []MigratedStaysHome
<1>1. MigratedStaysHome
  <2> SUFFICES ASSUME NEW scope \in Target, NEW host \in Host,
                      NEW sent \in SentAgain(Filtered(LegacySnapshot, scope), host, now)
               PROVE  /\ host \in ScopeHost[scope] /\ sent \in Sent(jar, host, now)
                      /\ \A other \in ScopeHost["identity"] : sent \notin Sent(jar, other, now)
    BY DEF MigratedStaysHome
  <2>1. PICK c \in Filtered(LegacySnapshot, scope) :
            /\ sent = [name |-> c.name, value |-> c.value]
            /\ DomainMatch(c.domain = HostOnly,
                           IF c.domain = HostOnly THEN c.source ELSE c.domain, host)
    BY DEF SentAgain
  <2>2. /\ c \in LegacySnapshot /\ c.source \in ScopeHost[scope]
        /\ ~OfIdentity(LegacySnapshot, c)
    BY DEF Filtered, OthersCookie, Target
  <2>3. PICK h \in Host : \E o \in Sent(jar, h, now) :
            c = [source |-> h, name |-> o.name, value |-> o.value,
                 domain |-> HostOnly, expires |-> 0]
    BY <2>2 DEF LegacySnapshot
  <2>4. PICK o \in Sent(jar, h, now) :
            c = [source |-> h, name |-> o.name, value |-> o.value,
                 domain |-> HostOnly, expires |-> 0]
    BY <2>3
  <2>5. \A g : \A k \in Sent(jar, g, now) : k = [name |-> k.name, value |-> k.value]
    BY DEF Sent
  <2>6. c.source = host /\ h = host /\ sent = o
    BY <2>1, <2>4, <2>5 DEF DomainMatch
  <2>7. ASSUME NEW other \in ScopeHost["identity"], sent \in Sent(jar, other, now)
        PROVE  FALSE
    <3> DEFINE i == [source |-> other, name |-> sent.name, value |-> sent.value,
                     domain |-> HostOnly, expires |-> 0]
    <3>1. other \in Host
      BY DEF ScopeHost, Host
    <3> DEFINE told(g) == {[source |-> g, name |-> k.name, value |-> k.value,
                            domain |-> HostOnly, expires |-> 0] : k \in Sent(jar, g, now)}
    <3>2. i \in LegacySnapshot
      <4>1. LegacySnapshot = UNION {told(g) : g \in Host}
        BY Zenon DEF LegacySnapshot
      <4>2. i \in told(other)
        BY <2>7
      <4> HIDE DEF told, i
      <4> QED BY <3>1, <4>1, <4>2
    <3>3. i.source = other /\ i.name = c.name /\ i.value = c.value
      BY <2>4, <2>6
    <3> QED
      BY <2>2, <3>2, <3>3 DEF OfIdentity
  <2> QED
    BY <2>2, <2>4, <2>6, <2>7
<1> QED
  BY <1>1, PTL
=============================================================================
