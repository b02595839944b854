------------------------ MODULE ProviderQueryProofs ------------------------
(***************************************************************************)
(* Proofs about the session store and about the queries of the OUC         *)
(* provider that use it, for any credentials, lifetimes, callers, students *)
(* and histories.                                                          *)
(*                                                                         *)
(* Of the store, for any history of saves, deletions, damages and          *)
(* expiries: its types, and that the next deletion finds every live        *)
(* session that was not saved during one.  IndexCovers is not inductive    *)
(* alone: a deletion drops all indexes, and leaves no uncovered session    *)
(* only because it has found what was covered when it read the index       *)
(* (DeletionFinds).                                                        *)
(*                                                                         *)
(* Of the queries: the session index covers every session whatever queries *)
(* do, a refused password is sent once per call, a canceled or expired     *)
(* leader does not fail its followers, and a failing cache alone fails     *)
(* nobody.                                                                 *)
(*                                                                         *)
(* The invariant says who waits: the callers in a flight's list wait for   *)
(* that flight, have no mail yet and have not been refused; its leader is  *)
(* among them or gone; and a flight or mail, once its leader's deadline    *)
(* has passed, names a leader who knows.                                   *)
(***************************************************************************)
EXTENDS ProviderQuery, TLAPS

-----------------------------------------------------------------------------
(* The session store.                                                      *)

Entry == [keys : SUBSET Key, expires : Nat]

Types ==
    /\ now \in Nat
    /\ store \in [Key -> Record \cup {None}]
    /\ index \in [Subject -> Entry \cup {None}]
    /\ deletion \in [left : SUBSET (Subject \cup {"commit"}), found : SUBSET Key]
    /\ late \in SUBSET Key

DeletionFinds ==
    Deleting =>
        \A k \in Key :
            Stored(k) /\ k \notin late =>
                SubjectOf(k) \in deletion.left \/ k \in deletion.found

StoreInv == Types /\ IndexCovers /\ DeletionFinds

kept == <<now, store, index, deletion, late>>

LEMMA KeysHaveSubjects == \A k \in Key : SubjectOf(k) \in Subject
BY DEF SubjectOf, Subject

LEMMA KeyParts ==
    ASSUME NEW c \in Credential, NEW scope \in Scope
    PROVE  /\ <<c, scope>> \in Key /\ <<c, "v1">> \in Key
           /\ scope \in Target => <<c, Historical[scope]>> \in Key
BY DEF Key, Scope, Target, Old, Historical

(* An index entry is not None when it has a lifetime.                      *)
LEMMA Entries ==
    /\ None.expires = 0
    /\ \A e \in Entry : e.expires > 0 => e # None
    /\ \A r \in Record : r.expires > 0 => r # None
    /\ \A r \in Record \cup {None} : r.expires \in Nat
BY DEF None, Entry, Record

-----------------------------------------------------------------------------
(* The initial state.                                                      *)

LEMMA StoreInitInv == StoreAssumption /\ StoreInit => StoreInv
<1>. SUFFICES ASSUME StoreAssumption, StoreInit PROVE StoreInv
  OBVIOUS
<1>1. PICK old \in SUBSET (Credential \X V1), holds \in SUBSET Scope, ttl \in UNION Range(Ttl) :
        /\ store = [k \in Key |->
                       IF k \in old
                       THEN [expires |-> ttl, holds |-> holds, readable |-> TRUE]
                       ELSE None]
        /\ index = [i \in Subject |->
                       LET keys == {k \in old : SubjectOf(k) = i}
                       IN  IF keys = {} THEN None ELSE [keys |-> keys, expires |-> ttl]]
  BY DEF StoreInit
<1>2. old \subseteq Key
  BY DEF StoreAssumption, Key
<1>3. ttl \in Nat \ {0}
  BY DEF StoreAssumption, Range
<1>4. [expires |-> ttl, holds |-> holds, readable |-> TRUE] \in Record
  BY <1>3 DEF Record
<1>5. \A i \in Subject : [keys |-> {k \in old : SubjectOf(k) = i}, expires |-> ttl] \in Entry
  BY <1>2, <1>3 DEF Entry
<1>6. ~Deleting
  BY DEF StoreInit, Deleting
<1>7. Types
  BY <1>1, <1>4, <1>5 DEF StoreInit, Types, Idle
<1>8. IndexCovers
  <2>. SUFFICES ASSUME NEW k \in Key, Stored(k)
                PROVE  /\ index[SubjectOf(k)] # None
                       /\ k \in index[SubjectOf(k)].keys
                       /\ index[SubjectOf(k)].expires >= store[k].expires
    BY DEF IndexCovers
  <2>1. k \in old /\ store[k].expires = ttl
    BY <1>1 DEF Stored
  <2>2. index[SubjectOf(k)] = [keys |-> {j \in old : SubjectOf(j) = SubjectOf(k)},
                               expires |-> ttl]
    BY <1>1, <2>1, KeysHaveSubjects
  <2> QED
    BY <2>1, <2>2, <1>3, <1>5, Entries, KeysHaveSubjects
<1> QED
  BY <1>6, <1>7, <1>8 DEF StoreInv, DeletionFinds

-----------------------------------------------------------------------------
(* Saving.                                                                 *)

LEMMA IndexedEntry ==
    ASSUME Types, NEW i \in Subject, NEW k \in Key, NEW t \in Nat \ {0}
    PROVE  /\ Indexed(i, k, t) \in Entry
           /\ Indexed(i, k, t) # None
           /\ k \in Indexed(i, k, t).keys
           /\ Indexed(i, k, t).expires >= t
           /\ index[i] # None =>
                  /\ index[i].keys \subseteq Indexed(i, k, t).keys
                  /\ Indexed(i, k, t).expires >= index[i].expires
<1>1. index[i] = None \/ index[i] \in Entry
  BY DEF Types
<1>2. index[i].expires \in Nat
  BY <1>1, Entries DEF Entry
<1>3. (IF index[i] = None THEN {} ELSE index[i].keys) \in SUBSET Key
  BY <1>1 DEF Entry
<1>4. Indexed(i, k, t) \in Entry
  BY <1>2, <1>3 DEF Indexed, Entry
<1>5. Indexed(i, k, t).expires >= t /\ Indexed(i, k, t).expires >= index[i].expires
  BY <1>2 DEF Indexed
<1>6. k \in Indexed(i, k, t).keys
      /\ (index[i] # None => index[i].keys \subseteq Indexed(i, k, t).keys)
  BY DEF Indexed
<1> QED
  BY <1>4, <1>5, <1>6, Entries DEF Entry

LEMMA SaveKeeps ==
    ASSUME StoreAssumption, StoreInv, NEW c \in Credential, NEW scope \in Scope,
           NEW ttl \in Ttl[scope], SaveScope(c, scope, ttl)
    PROVE  StoreInv'
<1>. DEFINE k == <<c, scope>>
            i == SubjectOf(k)
            t == now + ttl
<1>1. k \in Key /\ i \in Subject
  BY KeyParts, KeysHaveSubjects
<1>2. now \in Nat /\ t \in Nat \ {0}
  BY DEF StoreAssumption, StoreInv, Types
<1>. DEFINE r == [expires |-> t, holds |-> {scope}, readable |-> TRUE]
<1>3. r \in Record
  BY <1>2 DEF Record
<1>4. store' = [store EXCEPT ![k] = r] /\ index' = [index EXCEPT ![i] = Indexed(i, k, t)]
  BY DEF SaveScope
<1>5. /\ late' = (IF Deleting THEN late \cup {k} ELSE late \ {k})
      /\ now' = now /\ deletion' = deletion
  BY DEF SaveScope
<1>6. Types
  BY DEF StoreInv
<1>7. /\ Indexed(i, k, t) \in Entry /\ Indexed(i, k, t) # None
      /\ k \in Indexed(i, k, t).keys /\ Indexed(i, k, t).expires >= t
      /\ index[i] # None => /\ index[i].keys \subseteq Indexed(i, k, t).keys
                            /\ Indexed(i, k, t).expires >= index[i].expires
  BY <1>1, <1>2, <1>6, IndexedEntry
<1>8. Types'
  BY <1>1, <1>3, <1>4, <1>5, <1>6, <1>7 DEF Types
<1>. HIDE DEF k, i, t, r
<1>9. \A j \in Key : j # k => store'[j] = store[j]
  BY <1>4, <1>6 DEF Types
<1>10. store'[k] = r /\ r.expires = t
  BY <1>1, <1>4, <1>6 DEF Types, r
<1>11. index'[i] = Indexed(i, k, t) /\ \A j \in Subject : j # i => index'[j] = index[j]
  BY <1>1, <1>4, <1>6 DEF Types
<1>12. IndexCovers'
  <2>. SUFFICES ASSUME NEW j \in Key, Stored(j)', j \notin late'
                PROVE  /\ index'[SubjectOf(j)] # None
                       /\ j \in index'[SubjectOf(j)].keys
                       /\ index'[SubjectOf(j)].expires >= store'[j].expires
    BY DEF IndexCovers, Stored, SubjectOf, None
  <2>1. CASE j = k
    BY <2>1, <1>7, <1>10, <1>11 DEF i
  <2>2. CASE j # k
    <3>1. Stored(j) /\ j \notin late /\ store'[j] = store[j]
      BY <2>2, <1>5, <1>9 DEF Stored
    <3>2. /\ index[SubjectOf(j)] # None /\ j \in index[SubjectOf(j)].keys
          /\ index[SubjectOf(j)].expires >= store[j].expires
      BY <3>1 DEF StoreInv, IndexCovers
    <3>3. /\ store[j].expires \in Nat /\ index[SubjectOf(j)].expires \in Nat
          /\ SubjectOf(j) \in Subject /\ Indexed(i, k, t).expires \in Nat
      BY <1>6, <1>7, KeysHaveSubjects, Entries DEF Types, Entry
    <3>. QED
      BY <3>1, <3>2, <3>3, <1>7, <1>11
  <2> QED
    BY <2>1, <2>2
<1>13. DeletionFinds'
  BY <1>5, <1>9 DEF StoreInv, DeletionFinds, Deleting, Stored, SubjectOf, Idle, None
<1> QED
  BY <1>8, <1>12, <1>13 DEF StoreInv

-----------------------------------------------------------------------------
(* Deleting a scope, and a student.                                        *)

LEMMA DeleteKeeps ==
    ASSUME StoreInv, NEW c \in Credential, NEW scope \in Scope, DeleteScope(c, scope)
    PROVE  StoreInv'
<1>. DEFINE keys == {<<c, scope>>, <<c, "v1">>} \cup
                    IF scope \in Target THEN {<<c, Historical[scope]>>} ELSE {}
            of(i) == {k \in keys : SubjectOf(k) = i}
<1>1. /\ store' = [k \in Key |-> IF k \in keys THEN None ELSE store[k]]
      /\ late' = late \ keys
      /\ index' = [i \in Subject |-> Without(i, of(i))]
      /\ now' = now /\ deletion' = deletion
  BY DEF DeleteScope, Erase
<1>. HIDE DEF keys
<1>2. Types
  BY DEF StoreInv
<1>3. \A i \in Subject :
        /\ Without(i, of(i)) \in Entry \cup {None}
        /\ \A k \in Key : k \notin of(i) /\ index[i] # None /\ k \in index[i].keys =>
               /\ Without(i, of(i)) # None
               /\ k \in Without(i, of(i)).keys
               /\ Without(i, of(i)).expires = index[i].expires
  <2>. SUFFICES ASSUME NEW i \in Subject
                PROVE  /\ Without(i, of(i)) \in Entry \cup {None}
                       /\ \A k \in Key : k \notin of(i) /\ index[i] # None /\ k \in index[i].keys =>
                              /\ Without(i, of(i)) # None
                              /\ k \in Without(i, of(i)).keys
                              /\ Without(i, of(i)).expires = index[i].expires
    OBVIOUS
  <2>1. CASE index[i] = None \/ index[i].keys \subseteq of(i)
    BY <2>1 DEF Without
  <2>2. CASE ~(index[i] = None \/ index[i].keys \subseteq of(i))
    <3>1. index[i] \in Entry
      BY <1>2, <2>2 DEF Types
    <3>2. Without(i, of(i)) = [index[i] EXCEPT !.keys = @ \ of(i)]
      BY <2>2 DEF Without
    <3>3. /\ Without(i, of(i)) = [keys |-> index[i].keys \ of(i), expires |-> index[i].expires]
          /\ index[i].expires \in Nat /\ index[i].keys \in SUBSET Key
      BY <3>1, <3>2 DEF Entry
    <3>4. Without(i, of(i)) # None
      BY <3>3 DEF None
    <3>. DEFINE w == Without(i, of(i))
    <3>. HIDE DEF of
    <3>5. w \in Entry
      BY <3>3 DEF Entry
    <3>6. w.keys = index[i].keys \ of(i) /\ w.expires = index[i].expires
      BY <3>3
    <3>. HIDE DEF w
    <3>. QED
      BY <3>4, <3>5, <3>6 DEF w
  <2> QED
    BY <2>1, <2>2
<1>4. Types'
  BY <1>1, <1>2, <1>3 DEF Types
<1>5. \A k \in Key : Stored(k)' /\ k \notin late' =>
          Stored(k) /\ k \notin late /\ k \notin keys /\ store'[k] = store[k]
  BY <1>1 DEF Stored, None
<1>6. IndexCovers'
  <2>. SUFFICES ASSUME NEW k \in Key, Stored(k)', k \notin late'
                PROVE  /\ index'[SubjectOf(k)] # None
                       /\ k \in index'[SubjectOf(k)].keys
                       /\ index'[SubjectOf(k)].expires >= store'[k].expires
    BY DEF IndexCovers, Stored, SubjectOf, None
  <2>1. /\ index[SubjectOf(k)] # None /\ k \in index[SubjectOf(k)].keys
        /\ index[SubjectOf(k)].expires >= store[k].expires
    BY <1>5 DEF StoreInv, IndexCovers
  <2>2. k \notin of(SubjectOf(k)) /\ SubjectOf(k) \in Subject
    BY <1>5, KeysHaveSubjects
  <2>. HIDE DEF of
  <2> QED
    BY <1>1, <1>3, <1>5, <2>1, <2>2
<1>7. DeletionFinds'
  BY <1>1, <1>5 DEF StoreInv, DeletionFinds, Deleting, SubjectOf, Idle
<1> QED
  BY <1>4, <1>6, <1>7 DEF StoreInv

LEMMA ReadKeeps ==
    ASSUME StoreInv, NEW i \in Subject, ReadIndex(i)
    PROVE  StoreInv'
<1>. DEFINE found == IF index[i] = None THEN {} ELSE index[i].keys
<1>1. /\ deletion' = [left |-> deletion.left \ {i}, found |-> deletion.found \cup found]
      /\ UNCHANGED <<now, store, index, late>>
      /\ i \in deletion.left
  BY DEF ReadIndex
<1>2. found \in SUBSET Key
  BY DEF StoreInv, Types, Entry
<1>3. Types'
  BY <1>1, <1>2 DEF StoreInv, Types
<1>4. IndexCovers'
  BY <1>1 DEF StoreInv, IndexCovers, Stored, SubjectOf, None
<1>5. Deleting
  BY <1>1 DEF Deleting, Idle
<1>6. ASSUME NEW k \in Key, Stored(k), k \notin late
      PROVE  SubjectOf(k) \in deletion'.left \/ k \in deletion'.found
  <2>1. SubjectOf(k) \in deletion.left \/ k \in deletion.found
    BY <1>5, <1>6 DEF StoreInv, DeletionFinds
  <2>2. SubjectOf(k) = i => k \in found
    BY <1>6 DEF StoreInv, IndexCovers
  <2> QED
    BY <1>1, <2>1, <2>2
<1>7. DeletionFinds'
  BY <1>1, <1>6 DEF DeletionFinds, Stored, SubjectOf, None
<1> QED
  BY <1>3, <1>4, <1>7 DEF StoreInv

LEMMA CommitKeeps == StoreInv /\ CommitDeletion => StoreInv'
<1>. SUFFICES ASSUME StoreInv, CommitDeletion PROVE StoreInv'
  OBVIOUS
<1>1. /\ store' = [k \in Key |-> IF k \in deletion.found THEN None ELSE store[k]]
      /\ late' = late \ deletion.found
      /\ index' = [i \in Subject |-> None]
      /\ deletion' = Idle /\ now' = now /\ deletion.left = {"commit"}
  BY DEF CommitDeletion, Erase
<1>2. Types'
  BY <1>1 DEF StoreInv, Types, Idle
<1>3. Deleting
  BY <1>1 DEF Deleting, Idle
<1>4. ASSUME NEW k \in Key, Stored(k)', k \notin late'
      PROVE  FALSE
  <2>1. Stored(k) /\ k \notin late /\ k \notin deletion.found
    BY <1>1, <1>4 DEF Stored, None
  <2>2. SubjectOf(k) \in {"commit"}
    BY <1>1, <1>3, <2>1 DEF StoreInv, DeletionFinds
  <2> QED
    BY <2>2, KeysHaveSubjects DEF Subject
<1>5. IndexCovers'
  BY <1>4 DEF IndexCovers
<1>6. ~Deleting'
  BY <1>1 DEF Deleting, Idle
<1> QED
  BY <1>2, <1>5, <1>6 DEF StoreInv, DeletionFinds

LEMMA StartKeeps == StoreInv /\ StartDeletion => StoreInv'
<1>. SUFFICES ASSUME StoreInv, StartDeletion PROVE StoreInv'
  OBVIOUS
<1>1. deletion' = [left |-> Subject \cup {"commit"}, found |-> {}]
      /\ UNCHANGED <<now, store, index, late>>
  BY DEF StartDeletion
<1>2. Types'
  BY <1>1 DEF StoreInv, Types
<1>3. IndexCovers'
  BY <1>1 DEF StoreInv, IndexCovers, Stored, SubjectOf, None
<1>4. \A k \in Key : SubjectOf(k)' \in deletion'.left
  BY <1>1, KeysHaveSubjects DEF SubjectOf
<1> QED
  BY <1>2, <1>3, <1>4 DEF StoreInv, DeletionFinds

LEMMA FailKeeps == StoreInv /\ FailDeletion => StoreInv'
<1>. SUFFICES ASSUME StoreInv, FailDeletion PROVE StoreInv'
  OBVIOUS
<1>1. deletion' = Idle /\ UNCHANGED <<now, store, index, late>>
  BY DEF FailDeletion
<1>2. Types' /\ ~Deleting'
  BY <1>1 DEF StoreInv, Types, Idle, Deleting
<1>3. IndexCovers'
  BY <1>1 DEF StoreInv, IndexCovers, Stored, SubjectOf, None
<1> QED
  BY <1>2, <1>3 DEF StoreInv, DeletionFinds

-----------------------------------------------------------------------------
(* Damage and expiry.                                                      *)

LEMMA CorruptKeeps ==
    ASSUME StoreInv, NEW k \in Key, Corrupt(k)
    PROVE  StoreInv'
<1>1. store' = [store EXCEPT ![k].readable = FALSE] /\ UNCHANGED <<now, index, deletion, late>>
      /\ Stored(k)
  BY DEF Corrupt
<1>2. store[k] \in Record
  BY <1>1 DEF StoreInv, Types, Stored
<1>3. /\ store'[k] \in Record /\ store'[k].expires = store[k].expires
      /\ \A j \in Key : j # k => store'[j] = store[j]
      /\ store' \in [Key -> Record \cup {None}]
  BY <1>1, <1>2 DEF StoreInv, Types, Record
<1>4. \A j \in Key : Stored(j)' => Stored(j) /\ store'[j].expires = store[j].expires
  BY <1>1, <1>3 DEF Stored, None
<1>5. Types'
  BY <1>1, <1>3 DEF StoreInv, Types
<1>6. IndexCovers'
  BY <1>1, <1>4 DEF StoreInv, IndexCovers, SubjectOf, None
<1>7. DeletionFinds'
  BY <1>1, <1>4 DEF StoreInv, DeletionFinds, Deleting, SubjectOf, Idle
<1> QED
  BY <1>5, <1>6, <1>7 DEF StoreInv

LEMMA TickKeeps == StoreInv /\ Tick => StoreInv'
<1>. SUFFICES ASSUME StoreInv, Tick PROVE StoreInv'
  OBVIOUS
<1>1. /\ now' = now + 1 /\ deletion' = deletion
      /\ store' = [k \in Key |-> IF store[k].expires <= now + 1 THEN None ELSE store[k]]
      /\ index' = [i \in Subject |-> IF index[i].expires <= now + 1 THEN None ELSE index[i]]
      /\ late' = {k \in late : store[k].expires > now + 1}
  BY DEF Tick
<1>2. Types'
  BY <1>1 DEF StoreInv, Types
<1>3. now \in Nat /\ \A k \in Key : store[k].expires \in Nat
  BY Entries DEF StoreInv, Types
<1>4. \A k \in Key : Stored(k)' /\ k \notin late' =>
          /\ Stored(k) /\ k \notin late /\ store'[k] = store[k]
          /\ store[k].expires > now + 1
  BY <1>1, <1>3 DEF Stored, None
<1>5. IndexCovers'
  <2>. SUFFICES ASSUME NEW k \in Key, Stored(k)', k \notin late'
                PROVE  /\ index'[SubjectOf(k)] # None
                       /\ k \in index'[SubjectOf(k)].keys
                       /\ index'[SubjectOf(k)].expires >= store'[k].expires
    BY DEF IndexCovers, Stored, SubjectOf, None
  <2>1. /\ index[SubjectOf(k)] # None /\ k \in index[SubjectOf(k)].keys
        /\ index[SubjectOf(k)].expires >= store[k].expires
    BY <1>4 DEF StoreInv, IndexCovers
  <2>2. SubjectOf(k) \in Subject /\ index[SubjectOf(k)].expires \in Nat
    BY <2>1, KeysHaveSubjects DEF StoreInv, Types, Entry
  <2>3. index'[SubjectOf(k)] = index[SubjectOf(k)]
    BY <1>1, <1>3, <1>4, <2>1, <2>2
  <2> QED
    BY <1>4, <2>1, <2>3
<1>6. DeletionFinds'
  BY <1>1, <1>4 DEF StoreInv, DeletionFinds, Deleting, SubjectOf, Idle
<1> QED
  BY <1>2, <1>5, <1>6 DEF StoreInv

-----------------------------------------------------------------------------
(* The store on its own.                                                   *)

LEMMA StoreStepsKeep == StoreInv /\ StoreSteps => StoreInv'
<1>. SUFFICES ASSUME StoreInv, StoreSteps PROVE StoreInv'
  OBVIOUS
<1> QED
  BY StartKeeps, ReadKeeps, CommitKeeps, FailKeeps, CorruptKeeps, TickKeeps DEF StoreSteps

LEMMA StoreStutters == StoreInv /\ UNCHANGED kept => StoreInv'
BY DEF kept, StoreInv, Types, IndexCovers, DeletionFinds, Deleting, Stored, SubjectOf, Idle, None

LEMMA StoreStepInv == StoreAssumption /\ StoreInv /\ [StoreNext]_storeVars => StoreInv'
<1>. SUFFICES ASSUME StoreAssumption, StoreInv, [StoreNext]_storeVars PROVE StoreInv'
  OBVIOUS
<1>1. CASE StoreSteps
  BY <1>1, StoreStepsKeep
<1>2. CASE \E c \in Credential, scope \in Scope : \E ttl \in Ttl[scope] : SaveScope(c, scope, ttl)
  BY <1>2, SaveKeeps
<1>3. CASE \E c \in Credential, scope \in Scope : DeleteScope(c, scope)
  BY <1>3, DeleteKeeps
<1>4. CASE UNCHANGED storeVars
  BY <1>4, StoreStutters DEF storeVars, kept
<1> QED
  BY <1>1, <1>2, <1>3, <1>4 DEF StoreNext

(* saveKey, DeleteScope and DeleteStudent: every session in Redis is in    *)
(* its student's index for as long as it lives, unless it was saved while  *)
(* a deletion was under way.                                               *)
THEOREM SessionsIndexed == StoreSpec => []IndexCovers
<1>1. StoreInit => StoreInv
  BY StoreInitInv, StoreAssumption
<1>2. StoreInv /\ [StoreNext]_storeVars => StoreInv'
  BY StoreStepInv, StoreAssumption
<1>3. StoreInv => IndexCovers
  BY DEF StoreInv
<1> QED
  BY <1>1, <1>2, <1>3, PTL DEF StoreSpec

-----------------------------------------------------------------------------
(* The queries.                                                            *)

Mail == [value : Error \cup {"none", "session"}, leader : Caller \cup {"none"},
         bound : BOOLEAN, trouble : BOOLEAN]
Call == [at : CallerAt, kind : Kind \cup {"none"}, c : Credential \cup {"none"},
         level : Target \cup {"none"}, part : Nat, attempt : Nat, election : Nat, page : Nat,
         ctx : {"live", "canceled", "expired"}, mail : Mail, trouble : BOOLEAN,
         refused : Nat, cause : Error \cup {"none", "busy"}, result : Result]
Recovery == [at : FlightAt \cup {"idle"}, leader : Caller \cup {"none"}, bound : BOOLEAN,
             waiters : SUBSET Caller, expired : BOOLEAN]

Upset == {"unavailable", "retryable", "invalid", "challenge", "contract"}
Overdue == {"deadline", "timeout"}
BeforeJoin == {"idle", "queued", "route", "configure", "load", "discard", "probe", "saveProbed"}

MailOK(m) ==
    /\ m.value = "none" => m = NoMail
    /\ m.value # "canceled"
    /\ m.value \in Upset => m.trouble
CallOK(c) ==
    /\ c \in Call
    /\ c.at \notin {"idle", "done"} => c.c \in Credential /\ c.level \in Target
    /\ c.at \in BeforeJoin => c.election = 0
    /\ c.at = "join" => c.election \in {0, 1}
    /\ c.at = "wait" => c.election \in {1, 2}
    /\ c.at \in {"challenged", "rejected"} => c.trouble
    /\ c.at # "done" => c.cause = "none"
    /\ c.at # "wait" => c.mail = NoMail
    /\ MailOK(c.mail)
    /\ c.refused # 0 => c.refused = 1 /\ c.at = "wait" /\ c.mail.value = "invalid"

Overtaken(q) == call[q].mail.bound /\ call[q].mail.leader = q
FlightOK(f) ==
    /\ flight[f] \in Recovery
    /\ \A q \in flight[f].waiters :
        /\ call[q].at = "wait" /\ call[q].mail = NoMail
        /\ f = <<call[q].c, call[q].level>>
    /\ flight[f].at # "idle" =>
        /\ flight[f].leader \in Caller
        /\ flight[f].leader \in flight[f].waiters \/ call[flight[f].leader].at = "done"
    /\ flight[f].at = "idle" => flight[f] = NoFlight
    /\ flight[f].bound /\ flight[f].expired /\ flight[f].leader \in flight[f].waiters =>
           call[flight[f].leader].ctx # "live"
CallsOK ==
    /\ call \in [Caller -> Call]
    /\ \A q \in Caller : CallOK(call[q])
    /\ \A q \in Caller : Overtaken(q) => call[q].ctx # "live"
FlightsOK ==
    /\ DOMAIN flight = Flight
    /\ flight = [f \in Flight |-> flight[f]]
    /\ \A f \in Flight : FlightOK(f)
QueryInv == CallsOK /\ FlightsOK

(* What the action properties say of one caller's step from c to n.        *)
EndOK(c, n) ==
    /\ n.cause = "canceled" => c.ctx = "canceled"
    /\ n.cause \in Overdue /\ c.ctx = "live" => ~c.mail.bound \/ c.election = 2
    /\ n.cause \in Upset => n.trouble \/ c.at \in {"route", "configure", "verify"}
StepOK == \A q \in Caller : call[q].at # "done" => EndOK(call[q], call'[q])

Good(c, n) ==
    /\ CallOK(n) /\ n.mail = NoMail
    /\ c.at = "done" => n.at = "done"
    /\ c.at # "done" => EndOK(c, n)

LEMMA NoMailOK == NoMail \in Mail /\ MailOK(NoMail)
  BY DEF NoMail, Mail, MailOK, Upset

-----------------------------------------------------------------------------
(* How a call ends or goes on.                                             *)

(* Why a call may end with error e.                                        *)
Blame(c, e, trouble) ==
    /\ e = "canceled" => c.ctx = "canceled"
    /\ e \in Overdue /\ c.ctx = "live" => ~c.mail.bound \/ c.election = 2
    /\ e \in Upset => trouble \/ c.at \in {"route", "configure", "verify"}

LEMMA DoneGood ==
    ASSUME NEW c, NEW n \in Call, n.at = "done", n.mail = NoMail, n.refused = 0,
           n.cause = "none" \/ Blame(c, n.cause, n.trouble)
    PROVE  Good(c, n)
<1>1. CallOK(n)
  BY NoMailOK DEF CallOK, BeforeJoin
<1>2. EndOK(c, n)
  BY DEF EndOK, Blame, Overdue, Upset
<1> QED
  BY <1>1, <1>2 DEF Good

LEMMA NotCalledType == NotCalled \in Call
  BY NoMailOK DEF NotCalled, Call, CallerAt, Result

LEMMA ReturnType ==
    ASSUME NEW value \in Result
    PROVE  /\ Return(value) \in Call
           /\ Return(value).at = "done" /\ Return(value).mail = NoMail
           /\ Return(value).refused = 0 /\ Return(value).cause = "none"
           /\ Return(value).trouble = FALSE /\ Return(value).result = value
<1>1. [NotCalled EXCEPT !.at = "done"] \in Call
  BY NotCalledType DEF Call, CallerAt
<1>2. Return(value) \in Call
  BY NotCalledType DEF Call, CallerAt, Return
<1> QED
  BY <1>2 DEF Return, NotCalled

LEMMA ReturnGood ==
    ASSUME NEW c, NEW value \in Result
    PROVE  Good(c, Return(value)) /\ Return(value).at = "done"
  BY ReturnType, DoneGood

Caused(r, e) == [r EXCEPT !.cause = e]
Troubled(r, t) == [r EXCEPT !.trouble = t]

LEMMA CauseType ==
    \A r \in Call, e \in Error \cup {"busy"} :
        /\ Caused(r, e) \in Call /\ Caused(r, e).at = r.at /\ Caused(r, e).mail = r.mail
        /\ Caused(r, e).refused = r.refused /\ Caused(r, e).cause = e
        /\ Caused(r, e).trouble = r.trouble
  BY DEF Call, Caused

LEMMA TroubleType ==
    \A r \in Call, t \in BOOLEAN :
        LET n == Troubled(r, t)
        IN  /\ n \in Call /\ n.at = r.at /\ n.mail = r.mail /\ n.refused = r.refused
            /\ n.cause = r.cause /\ n.trouble = t /\ n.ctx = r.ctx
            /\ n.election = r.election /\ n.c = r.c /\ n.level = r.level
  BY DEF Call, Troubled

LEMMA Statuses ==
    \A e \in Error \cup {"busy"} : Status(e) \in Result /\ Status(ProviderError(e)) \in Result
  BY DEF Error, Status, ProviderError, Result

LEMMA CausedReturn ==
    ASSUME NEW value \in Result, NEW e \in Error \cup {"busy"}
    PROVE  LET n == Caused(Return(value), e)
           IN  /\ n \in Call /\ n.at = "done" /\ n.mail = NoMail /\ n.refused = 0
               /\ n.cause = e /\ n.trouble = FALSE
<1> DEFINE r == Return(value)
<1>1. /\ r \in Call /\ r.at = "done" /\ r.mail = NoMail /\ r.refused = 0
      /\ r.trouble = FALSE
  BY ReturnType
<1> HIDE DEF r
<1>2. LET n == Caused(r, e)
      IN  /\ n \in Call /\ n.at = "done" /\ n.mail = NoMail /\ n.refused = 0
          /\ n.cause = e /\ n.trouble = FALSE
  BY <1>1, CauseType
<1> QED
  BY <1>2 DEF r

LEMMA FailsType ==
    ASSUME NEW e \in Error \cup {"busy"}, NEW n \in {Fails(e), Ended(e)}
    PROVE  /\ n \in Call /\ n.at = "done" /\ n.mail = NoMail /\ n.refused = 0
           /\ n.cause = e /\ n.trouble = FALSE
<1>1. PICK value \in Result : n = Caused(Return(value), e)
  BY Statuses DEF Fails, Ended, Caused
<1> QED
  BY <1>1, CausedReturn

LEMMA FailsGood ==
    ASSUME NEW c, NEW e \in Error \cup {"busy"}, Blame(c, e, FALSE)
    PROVE  /\ Good(c, Fails(e)) /\ Fails(e).at = "done"
           /\ Good(c, Ended(e)) /\ Ended(e).at = "done"
  BY FailsType, DoneGood

LEMMA AfterFailureGood ==
    ASSUME NEW c, NEW d \in Call, NEW e \in Error, Blame(c, e, d.trouble)
    PROVE  Good(c, AfterFailure(d, e)) /\ AfterFailure(d, e).at = "done"
<1>1. d.trouble \in BOOLEAN
  BY DEF Call
<1>2. Good(c, Return("items")) /\ Return("items").at = "done"
  BY ReturnGood DEF Result
<1> DEFINE f == Fails(e)
           n == Troubled(f, d.trouble)
<1>3. /\ f \in Call /\ f.at = "done" /\ f.mail = NoMail /\ f.refused = 0
      /\ f.cause = e
  BY FailsType
<1> HIDE DEF f
<1>4. /\ n \in Call /\ n.at = "done" /\ n.mail = NoMail /\ n.refused = 0
      /\ n.cause = e /\ n.trouble = d.trouble
  BY <1>1, <1>3, TroubleType
<1> HIDE DEF n
<1>5. Good(c, n)
  BY <1>4, DoneGood
<1>6. AfterFailure(d, e) \in {Return("items"), n}
  BY DEF AfterFailure, Troubled, n, f
<1> QED
  BY <1>2, <1>4, <1>5, <1>6

(* A retry.                                                                *)
LEMMA NextAttemptGood ==
    ASSUME NEW c, NEW d, CallOK(d), d.at \notin {"idle", "done"}, d.refused = 0,
           c.at # "done", NEW where \in {"load", "request"}
    PROVE  Good(c, NextAttempt(d, where))
<1> DEFINE n == NextAttempt(d, where)
<1>1. d \in Call
  BY DEF CallOK
<1>2. /\ n.at = where /\ n.election = 0 /\ n.mail = NoMail
      /\ n.c = d.c /\ n.level = d.level /\ n.refused = d.refused /\ n.cause = d.cause
  BY <1>1 DEF NextAttempt, Call
<1>3. n \in Call
  <2>1. d.attempt + 1 \in Nat /\ where \in CallerAt /\ 0 \in Nat
    BY <1>1 DEF Call, CallerAt
  <2> QED
    BY <1>1, <2>1, NoMailOK DEF NextAttempt, Call
<1>4. CallOK(n)
  BY <1>2, <1>3, NoMailOK DEF CallOK, BeforeJoin
<1>5. n.cause = "none"
  BY <1>2 DEF CallOK
<1> QED
  BY <1>2, <1>4, <1>5 DEF Good, EndOK, Overdue, Upset

LEMMA AfterSessionErrorGood ==
    ASSUME NEW c, c.at # "done", NEW d, CallOK(d), d.at \notin {"idle", "done"},
           NEW e \in Error, Blame(c, e, d.trouble),
           e = "invalid" \/ d.ctx # "live" \/ d.refused = 0
    PROVE  /\ Good(c, AfterSessionError(d, e))
           /\ d.ctx # "live" => AfterSessionError(d, e).at = "done"
<1>1. d \in Call
  BY DEF CallOK
<1>2. CASE d.kind = "catalog" /\ d.attempt < 3 /\ d.ctx = "live" /\ RetriesSession(e)
  <2>1. d.refused = 0
    BY <1>2 DEF RetriesSession
  <2>2. AfterSessionError(d, e) = NextAttempt(d, "load")
    BY <1>2 DEF AfterSessionError
  <2> QED
    BY <1>2, <2>1, <2>2, NextAttemptGood
<1>3. CASE ~(d.kind = "catalog" /\ d.attempt < 3 /\ d.ctx = "live" /\ RetriesSession(e))
  BY <1>1, <1>3, AfterFailureGood DEF AfterSessionError
<1> QED
  BY <1>2, <1>3

LEMMA AskAgainGood ==
    ASSUME NEW c, c.at # "done", NEW d, CallOK(d), d.at \notin {"idle", "done"},
           d.refused = 0, NEW e \in Error, Blame(c, e, d.trouble)
    PROVE  Good(c, AskAgain(d, e))
<1>1. d \in Call
  BY DEF CallOK
<1> QED
  BY <1>1, AfterFailureGood, NextAttemptGood DEF AskAgain

(* A caller that goes on within its call.                                  *)
LEMMA GoesGood ==
    ASSUME NEW c, CallOK(c), c.at \notin {"idle", "done", "wait"},
           NEW where \in CallerAt \ {"idle", "wait", "done", "challenged", "rejected"},
           where \in BeforeJoin \cup {"join"} => c.election = 0
    PROVE  Good(c, [c EXCEPT !.at = where])
<1> DEFINE n == [c EXCEPT !.at = where]
<1>1. c \in Call
  BY DEF CallOK
<1>2. n \in Call /\ n.at = where
  BY <1>1 DEF Call
<1>3. /\ n.c = c.c /\ n.level = c.level /\ n.election = c.election /\ n.mail = c.mail
      /\ n.cause = c.cause /\ n.refused = c.refused
  BY <1>1 DEF Call
<1>4. CallOK(n)
  BY <1>2, <1>3 DEF CallOK
<1> QED
  BY <1>2, <1>3, <1>4 DEF Good, CallOK, EndOK, Overdue, Upset

LEMMA TroubleOK ==
    ASSUME NEW c, CallOK(c)
    PROVE  LET n == Troubled(c, TRUE)
           IN  /\ CallOK(n) /\ n.trouble /\ n \in Call
               /\ n.at = c.at /\ n.ctx = c.ctx /\ n.refused = c.refused
               /\ n.election = c.election /\ n.mail = c.mail
  BY TroubleType DEF CallOK

-----------------------------------------------------------------------------
(* What a step does to the calls and flights.                              *)

(* A caller's own step: it goes on or ends, and no flight moves.           *)
Moved(q) == \E n : Good(call[q], n) /\ Set(q, n) /\ UNCHANGED flight
NotWaited(q) == \A f \in Flight : q \notin flight[f].waiters

LEMMA WaitersWait ==
    ASSUME QueryInv, NEW q \in Caller, call[q].at # "wait" \/ call[q].mail # NoMail
    PROVE  NotWaited(q)
  BY DEF NotWaited, QueryInv, FlightsOK, FlightOK

(* The calls that a step does not touch.                                   *)
LEMMA SameCall ==
    ASSUME QueryInv, NEW q \in Caller, call[q].at # "done", call'[q] = call[q]
    PROVE  EndOK(call[q], call'[q])
<1>1. call[q].cause = "none"
  BY DEF QueryInv, CallsOK, CallOK
<1> QED
  BY <1>1 DEF EndOK, Overdue, Upset

LEMMA GoodCall ==
    ASSUME QueryInv, NEW q \in Caller, NEW n, Good(call[q], n), Set(q, n)
    PROVE  CallsOK' /\ StepOK
<1>1. /\ call' = [call EXCEPT ![q] = n] /\ call \in [Caller -> Call] /\ n \in Call
      /\ CallOK(n) /\ n.mail = NoMail
  BY DEF Set, Good, CallOK, QueryInv, CallsOK
<1>2. call'[q] = n /\ \A p \in Caller : p # q => call'[p] = call[p]
  BY <1>1
<1>3. call' \in [Caller -> Call] /\ \A p \in Caller : CallOK(call'[p])
  BY <1>1, <1>2 DEF QueryInv, CallsOK
<1>4. \A p \in Caller : Overtaken(p)' => call'[p].ctx # "live"
  BY <1>1, <1>2 DEF QueryInv, CallsOK, Overtaken, NoMail
<1>5. StepOK
  BY <1>2, SameCall DEF StepOK, Good
<1> QED
  BY <1>3, <1>4, <1>5 DEF CallsOK

LEMMA CallerMoves ==
    ASSUME QueryInv, NEW q \in Caller, Moved(q), NotWaited(q)
    PROVE  QueryInv' /\ StepOK
<1>1. PICK n : Good(call[q], n) /\ Set(q, n) /\ flight' = flight
  BY DEF Moved
<1>2. CallsOK' /\ StepOK
  BY <1>1, GoodCall
<1>3. call'[q] = n /\ \A p \in Caller : p # q => call'[p] = call[p]
  BY <1>1 DEF Set, QueryInv, CallsOK
<1>4. ASSUME NEW f \in Flight PROVE FlightOK(f)'
  <2>1. FlightOK(f) /\ q \notin flight[f].waiters
    BY DEF QueryInv, FlightsOK, NotWaited
  <2>2. call[q].at = "done" => n.at = "done"
    BY <1>1 DEF Good
  <2>3. flight[f].waiters \subseteq Caller
    BY <2>1 DEF FlightOK, Recovery
  <2> QED
    BY <1>1, <1>3, <2>1, <2>2, <2>3 DEF FlightOK
<1> QED
  BY <1>1, <1>2, <1>4 DEF QueryInv, FlightsOK

(* A flight that goes on.                                                  *)
LEMMA FlightMoves ==
    ASSUME QueryInv, NEW f \in Flight, flight[f].at # "idle",
           NEW where \in FlightAt, flight' = [flight EXCEPT ![f].at = where],
           UNCHANGED call
    PROVE  QueryInv' /\ StepOK
<1> DEFINE n == [flight[f] EXCEPT !.at = where]
<1>1. DOMAIN flight = Flight /\ flight[f] \in Recovery
  BY DEF QueryInv, FlightsOK, FlightOK
<1>2. /\ n \in Recovery /\ n.at = where /\ where # "idle"
      /\ n.leader = flight[f].leader /\ n.waiters = flight[f].waiters
      /\ n.bound = flight[f].bound /\ n.expired = flight[f].expired
  BY <1>1 DEF Recovery, FlightAt
<1> HIDE DEF n
<1>3. flight' = [flight EXCEPT ![f] = n]
  BY DEF n
<1>4. /\ flight'[f] = n /\ \A g \in Flight : g # f => flight'[g] = flight[g]
      /\ DOMAIN flight' = Flight /\ flight' = [g \in Flight |-> flight'[g]]
  BY <1>1, <1>3 DEF QueryInv, FlightsOK
<1>5. CallsOK' /\ StepOK
  BY SameCall DEF QueryInv, CallsOK, Overtaken, StepOK
<1>6. ASSUME NEW g \in Flight PROVE FlightOK(g)'
  <2>1. FlightOK(g)
    BY DEF QueryInv, FlightsOK
  <2>2. CASE g = f
    BY <1>2, <1>4, <2>1, <2>2 DEF FlightOK
  <2>3. CASE g # f
    BY <1>4, <2>1, <2>3 DEF FlightOK
  <2> QED
    BY <2>2, <2>3
<1> QED
  BY <1>4, <1>5, <1>6 DEF QueryInv, FlightsOK

(* Mail to a caller that waits; one is told that it was refused.           *)
Mailed(c, m) == [c EXCEPT !.mail = m]
Refused(c) == [c EXCEPT !.refused = @ + 1]
SameBut(c, n) ==
    /\ n.at = c.at /\ n.c = c.c /\ n.level = c.level /\ n.ctx = c.ctx
    /\ n.cause = c.cause

LEMMA MailedOK ==
    ASSUME NEW c, CallOK(c), c.at = "wait", c.mail = NoMail,
           NEW m \in Mail, MailOK(m)
    PROVE  /\ CallOK(Mailed(c, m)) /\ SameBut(c, Mailed(c, m)) /\ Mailed(c, m).mail = m
           /\ Mailed(c, m).refused = 0
<1>1. c \in Call /\ c.refused = 0
  BY DEF CallOK, NoMail
<1> DEFINE n == Mailed(c, m)
<1>2. /\ n \in Call /\ n.mail = m /\ n.refused = 0 /\ n.election = c.election
      /\ n.trouble = c.trouble
  BY <1>1 DEF Call, Mailed
<1>3. SameBut(c, n)
  BY <1>1 DEF Call, Mailed, SameBut
<1> HIDE DEF n
<1>4. CallOK(n)
  BY <1>1, <1>2, <1>3 DEF CallOK, SameBut
<1> QED
  BY <1>2, <1>3, <1>4 DEF n

LEMMA RefusedOK ==
    ASSUME NEW c, CallOK(c), c.at = "wait", c.refused = 0, c.mail.value = "invalid"
    PROVE  CallOK(Refused(c)) /\ SameBut(c, Refused(c)) /\ Refused(c).mail = c.mail
<1>1. c \in Call
  BY DEF CallOK
<1> DEFINE n == Refused(c)
<1>2. /\ n \in Call /\ n.mail = c.mail /\ n.refused = 1 /\ n.election = c.election
      /\ n.trouble = c.trouble
  BY <1>1 DEF Call, Refused
<1>3. SameBut(c, n)
  BY <1>1 DEF Call, Refused, SameBut
<1> HIDE DEF n
<1>4. CallOK(n)
  BY <1>1, <1>2, <1>3 DEF CallOK, SameBut
<1> QED
  BY <1>2, <1>3, <1>4 DEF n

(* A flight that ends: its waiters have its result, and it is forgotten.   *)
LEMMA Delivered ==
    ASSUME QueryInv, NEW f \in Flight, flight[f].at # "idle",
           flight' = [flight EXCEPT ![f] = NoFlight],
           NEW m \in Mail, MailOK(m), m.value # "none", m.leader = flight[f].leader,
           m.bound => flight[f].bound /\ flight[f].expired,
           DOMAIN call' = Caller, call' = [q \in Caller |-> call'[q]],
           \A q \in Caller : q \notin flight[f].waiters => call'[q] = call[q],
           \A q \in flight[f].waiters :
               \/ call'[q] = Mailed(call[q], m)
               \/ call'[q] = Refused(Mailed(call[q], m)) /\ m.value = "invalid"
    PROVE  QueryInv' /\ StepOK
<1>1. /\ FlightOK(f) /\ flight[f].waiters \subseteq Caller
      /\ \A q \in Caller : CallOK(call[q])
      /\ \A q \in flight[f].waiters : call[q].at = "wait" /\ call[q].mail = NoMail
  BY DEF QueryInv, FlightsOK, FlightOK, Recovery, CallsOK
<1>2. ASSUME NEW q \in flight[f].waiters
      PROVE  CallOK(call'[q]) /\ SameBut(call[q], call'[q]) /\ call'[q].mail = m
  <2> DEFINE c == Mailed(call[q], m)
  <2>1. /\ CallOK(c) /\ SameBut(call[q], c) /\ c.mail = m /\ c.refused = 0
        /\ c.at = "wait"
    BY <1>1, MailedOK DEF SameBut
  <2>2. call'[q] = c \/ (call'[q] = Refused(c) /\ m.value = "invalid")
    OBVIOUS
  <2> HIDE DEF c
  <2> QED
    BY <2>1, <2>2, RefusedOK DEF SameBut
<1>3. \A q \in Caller : CallOK(call'[q]) /\ SameBut(call[q], call'[q])
  BY <1>1, <1>2 DEF SameBut
<1>4. call' \in [Caller -> Call]
  BY <1>3 DEF CallOK
<1>5. ASSUME NEW q \in Caller, Overtaken(q)' PROVE call'[q].ctx # "live"
  <2>1. CASE q \in flight[f].waiters
    <3>1. m.bound /\ m.leader = q
      BY <1>2, <1>5, <2>1 DEF Overtaken
    <3> QED
      BY <1>1, <1>2, <2>1, <3>1 DEF FlightOK, SameBut
  <2>2. CASE q \notin flight[f].waiters
    BY <1>5, <2>2 DEF QueryInv, CallsOK, Overtaken
  <2> QED
    BY <2>1, <2>2
<1>6. CallsOK'
  BY <1>3, <1>4, <1>5 DEF CallsOK
<1>7. StepOK
  <2>1. \A q \in Caller : call[q].at # "done" => call'[q].cause = "none"
    BY <1>1, <1>3 DEF SameBut, CallOK
  <2> QED
    BY <2>1 DEF StepOK, EndOK, Overdue, Upset
<1>8. /\ DOMAIN flight' = Flight /\ flight' = [g \in Flight |-> flight'[g]]
      /\ flight'[f] = NoFlight /\ \A g \in Flight : g # f => flight'[g] = flight[g]
  BY DEF QueryInv, FlightsOK
<1>9. ASSUME NEW g \in Flight PROVE FlightOK(g)'
  <2>1. CASE g = f
    BY <1>8, <2>1 DEF FlightOK, NoFlight, Recovery
  <2>2. CASE g # f
    <3>1. FlightOK(g) /\ flight'[g] = flight[g]
      BY <1>8, <2>2 DEF QueryInv, FlightsOK
    <3>2. \A q \in flight[g].waiters : q \in Caller /\ q \notin flight[f].waiters
      BY <1>1, <2>2, <3>1 DEF FlightOK, Recovery
    <3>3. \A q \in flight[g].waiters : call'[q] = call[q]
      BY <3>2
    <3>4. \A q \in Caller : call'[q].at = call[q].at
      BY <1>3 DEF SameBut
    <3> QED
      BY <3>1, <3>2, <3>3, <3>4 DEF FlightOK
  <2> QED
    BY <2>1, <2>2
<1> QED
  BY <1>6, <1>7, <1>8, <1>9 DEF QueryInv, FlightsOK

LEMMA Lands ==
    ASSUME QueryInv, NEW f \in Flight, flight[f].at # "idle",
           NEW value \in (Error \ {"canceled"}) \cup {"session"}, NEW upset \in BOOLEAN,
           value \in Upset => upset, Land(f, value, upset)
    PROVE  QueryInv' /\ StepOK
<1> DEFINE m == [value |-> value, leader |-> flight[f].leader,
                 bound |-> flight[f].bound /\ flight[f].expired, trouble |-> upset]
<1>1. FlightOK(f) /\ flight[f] \in Recovery /\ flight[f].leader \in Caller
  BY DEF QueryInv, FlightsOK, FlightOK
<1>2. /\ m \in Mail /\ MailOK(m) /\ m.value # "none" /\ m.leader = flight[f].leader
      /\ m.bound => flight[f].bound /\ flight[f].expired
  BY <1>1 DEF Mail, MailOK, Recovery, Error
<1>3. call' = [q \in Caller |-> IF q \in flight[f].waiters THEN Mailed(call[q], m) ELSE call[q]]
  BY DEF Land, Mailed
<1>4. flight' = [flight EXCEPT ![f] = NoFlight]
  BY DEF Land
<1>5. flight[f].waiters \subseteq Caller
  BY <1>1 DEF Recovery
<1> HIDE DEF m
<1> QED
  BY <1>2, <1>3, <1>4, <1>5, Delivered

LEMMA RefusesMoves ==
    ASSUME QueryInv, NEW f \in Flight, flight[f].at # "idle", Refuses(f)
    PROVE  QueryInv' /\ StepOK
<1> DEFINE m == [value |-> "invalid", leader |-> flight[f].leader,
                 bound |-> FALSE, trouble |-> TRUE]
           c(q) == IF q \in flight[f].waiters THEN Mailed(call[q], m) ELSE call[q]
<1>1. FlightOK(f) /\ flight[f] \in Recovery /\ flight[f].leader \in Caller
  BY DEF QueryInv, FlightsOK, FlightOK
<1>2. /\ m \in Mail /\ MailOK(m) /\ m.value = "invalid" /\ m.leader = flight[f].leader
      /\ ~m.bound
  BY <1>1 DEF Mail, MailOK, Error
<1>3. call' = [q \in Caller |-> IF q = flight[f].leader /\ q \in flight[f].waiters
                                THEN Refused(c(q)) ELSE c(q)]
  BY DEF Refuses, Mailed, Refused
<1>4. flight' = [flight EXCEPT ![f] = NoFlight]
  BY DEF Refuses
<1>5. flight[f].waiters \subseteq Caller
  BY <1>1 DEF Recovery
<1> HIDE DEF m
<1> QED
  BY <1>2, <1>3, <1>4, <1>5, Delivered

-----------------------------------------------------------------------------
(* Waiting for a flight.                                                   *)

LEMMA WaitingOK ==
    ASSUME NEW q, NEW c, c = call[q], CallOK(c), c.at = "join"
    PROVE  /\ CallOK(Waiting(q)) /\ Waiting(q).at = "wait" /\ Waiting(q).mail = NoMail
           /\ Waiting(q).c = c.c /\ Waiting(q).level = c.level
           /\ Waiting(q).ctx = c.ctx /\ Waiting(q).cause = "none"
<1> DEFINE n == Waiting(q)
<1>1. c \in Call /\ c.refused = 0 /\ c.cause = "none" /\ c.election \in {0, 1}
      /\ c.c \in Credential /\ c.level \in Target
  BY DEF CallOK
<1>2. /\ n.at = "wait" /\ n.mail = NoMail /\ n.c = c.c /\ n.level = c.level
      /\ n.ctx = c.ctx /\ n.cause = c.cause /\ n.refused = c.refused
      /\ n.election = c.election + 1
  BY <1>1 DEF Waiting, Call
<1>3. n \in Call
  <2>1. c.election + 1 \in Nat /\ "wait" \in CallerAt
    BY <1>1 DEF Call, CallerAt
  <2> QED
    BY <1>1, <2>1, NoMailOK DEF Waiting, Call
<1> HIDE DEF n
<1>4. n.election \in {1, 2}
  BY <1>1, <1>2
<1>5. CallOK(n)
  BY <1>1, <1>2, <1>3, <1>4, NoMailOK DEF CallOK, BeforeJoin
<1> QED
  BY <1>1, <1>2, <1>5 DEF n

LEMMA JoinMoves ==
    ASSUME QueryInv, NEW q \in Caller, Join(q)
    PROVE  QueryInv' /\ StepOK
<1> DEFINE n == Waiting(q)
<1>1. /\ call[q].at = "join" /\ CallOK(call[q])
      /\ call' = [call EXCEPT ![q] = n]
  BY DEF Join, Set, QueryInv, CallsOK
<1>2. PICK f \in Flight : f = <<call[q].c, call[q].level>>
  BY <1>1 DEF CallOK, Flight
<1>3. /\ CallOK(n) /\ n.at = "wait" /\ n.mail = NoMail /\ n.cause = "none"
      /\ n.c = call[q].c /\ n.level = call[q].level /\ n.ctx = call[q].ctx
  BY <1>1, WaitingOK
<1>4. Good(call[q], n)
  BY <1>1, <1>3 DEF Good, EndOK, Overdue, Upset
<1>5. CallsOK' /\ StepOK
  BY <1>1, <1>4, GoodCall DEF Set
<1>6. call'[q] = n /\ \A p \in Caller : p # q => call'[p] = call[p]
  BY <1>1 DEF QueryInv, CallsOK
<1>7. \A g \in Flight : FlightOK(g) /\ q \notin flight[g].waiters
                        /\ flight[g].waiters \subseteq Caller
  BY <1>1 DEF QueryInv, FlightsOK, FlightOK, Recovery
<1>8. PICK bound \in BOOLEAN :
          \/ /\ flight[f] = NoFlight
             /\ flight' = [flight EXCEPT ![f] =
                              [at |-> "load", leader |-> q, bound |-> bound,
                               waiters |-> {q}, expired |-> call[q].ctx = "expired"]]
          \/ /\ flight[f] # NoFlight
             /\ flight' = [flight EXCEPT ![f].waiters = @ \cup {q}]
  BY <1>2 DEF Join
<1>9. DOMAIN flight = Flight /\ flight = [g \in Flight |-> flight[g]]
  BY DEF QueryInv, FlightsOK
<1>10. \A g \in Flight : g # f => flight'[g] = flight[g]
  BY <1>8, <1>9
<1>11. DOMAIN flight' = Flight /\ flight' = [g \in Flight |-> flight'[g]]
  BY <1>8, <1>9
<1> HIDE DEF n
<1>12. ASSUME NEW g \in Flight, g # f PROVE FlightOK(g)'
  BY <1>1, <1>6, <1>7, <1>10, <1>12 DEF FlightOK
<1>13. FlightOK(f)'
  <2>1. CASE flight[f] = NoFlight
    <3> DEFINE r == [at |-> "load", leader |-> q, bound |-> bound,
                     waiters |-> {q}, expired |-> call[q].ctx = "expired"]
    <3>1. flight'[f] = r
      BY <1>2, <1>8, <1>9, <2>1
    <3>2. /\ r \in Recovery /\ r.at = "load" /\ r.leader = q /\ r.waiters = {q}
          /\ r.expired => call[q].ctx # "live"
      BY DEF Recovery, FlightAt
    <3> HIDE DEF r
    <3> QED
      BY <1>2, <1>3, <1>6, <3>1, <3>2 DEF FlightOK
  <2>2. CASE flight[f] # NoFlight
    <3> DEFINE r == [flight[f] EXCEPT !.waiters = @ \cup {q}]
    <3>1. flight'[f] = r
      BY <1>2, <1>8, <1>9, <2>2
    <3>2. flight[f] \in Recovery
      BY <1>2, <1>7 DEF FlightOK
    <3>3. /\ r \in Recovery /\ r.waiters = flight[f].waiters \cup {q}
          /\ r.at = flight[f].at /\ r.leader = flight[f].leader
          /\ r.bound = flight[f].bound /\ r.expired = flight[f].expired
      BY <3>2 DEF Recovery
    <3>4. flight[f].at # "idle" /\ flight[f].leader # q
      BY <1>1, <1>2, <1>7, <2>2 DEF FlightOK
    <3> HIDE DEF r
    <3> QED
      BY <1>2, <1>3, <1>6, <1>7, <3>1, <3>3, <3>4 DEF FlightOK
  <2> QED
    BY <2>1, <2>2
<1> QED
  BY <1>5, <1>11, <1>12, <1>13 DEF QueryInv, FlightsOK

LEMMA LeaveMoves ==
    ASSUME QueryInv, NEW q \in Caller, Leave(q)
    PROVE  QueryInv' /\ StepOK
<1> DEFINE c == call[q]
           e == ContextError(q)
           n == AfterSessionError(c, e)
<1>1. /\ c.at = "wait" /\ CallOK(c) /\ c.ctx # "live"
      /\ Set(q, n)
      /\ flight' = [f \in Flight |-> [flight[f] EXCEPT !.waiters = @ \ {q}]]
  BY DEF Leave, Dead, IsCaller, QueryInv, CallsOK
<1>2. e \in Error /\ Blame(c, e, c.trouble)
  BY <1>1 DEF ContextError, IsCaller, Error, Blame, Overdue, Upset
<1>3. Good(c, n) /\ n.at = "done"
  BY <1>1, <1>2, AfterSessionErrorGood
<1> HIDE DEF n, e
<1>4. CallsOK' /\ StepOK
  BY <1>1, <1>3, GoodCall
<1>5. call'[q] = n /\ \A p \in Caller : p # q => call'[p] = call[p]
  BY <1>1 DEF Set, QueryInv, CallsOK
<1>6. ASSUME NEW f \in Flight PROVE FlightOK(f)'
  <2> DEFINE r == [flight[f] EXCEPT !.waiters = @ \ {q}]
  <2>1. FlightOK(f) /\ flight[f] \in Recovery
    BY DEF QueryInv, FlightsOK, FlightOK
  <2>2. /\ r \in Recovery /\ r.waiters = flight[f].waiters \ {q}
        /\ r.at = flight[f].at /\ r.leader = flight[f].leader
        /\ r.bound = flight[f].bound /\ r.expired = flight[f].expired
    BY <2>1 DEF Recovery
  <2>3. flight'[f] = r
    BY <1>1
  <2>4. flight[f] = NoFlight => r = NoFlight
    BY DEF NoFlight
  <2> HIDE DEF r
  <2>5. flight[f].waiters \subseteq Caller
    BY <2>1 DEF Recovery
  <2> QED
    BY <1>3, <1>5, <2>1, <2>2, <2>3, <2>4, <2>5 DEF FlightOK
<1>7. DOMAIN flight' = Flight /\ flight' = [f \in Flight |-> flight'[f]]
  BY <1>1
<1> QED
  BY <1>4, <1>6, <1>7 DEF QueryInv, FlightsOK

(* A caller reads its mail: it has a session, tries again, or ends.        *)
LEMMA UnmailedOK ==
    ASSUME NEW c, CallOK(c), c.at = "wait", c.refused = 0,
           NEW where \in {"request", "join"}, where = "join" => c.election = 1
    PROVE  Good(c, [c EXCEPT !.at = where, !.mail = NoMail])
<1> DEFINE n == [c EXCEPT !.at = where, !.mail = NoMail]
<1>1. c \in Call /\ c.cause = "none" /\ c.c \in Credential /\ c.level \in Target
  BY DEF CallOK
<1>2. /\ n.at = where /\ n.mail = NoMail /\ n.c = c.c /\ n.level = c.level
      /\ n.cause = "none" /\ n.refused = 0 /\ n.election = c.election
  BY <1>1 DEF Call
<1>3. n \in Call
  BY <1>1, NoMailOK DEF Call, CallerAt
<1> HIDE DEF n
<1>4. CallOK(n)
  BY <1>1, <1>2, <1>3, NoMailOK DEF CallOK, BeforeJoin
<1>5. Good(c, n)
  BY <1>2, <1>4 DEF Good, EndOK, Overdue, Upset
<1> QED
  BY <1>5 DEF n

LEMMA ReceiveMoves ==
    ASSUME QueryInv, NEW q \in Caller, Receive(q)
    PROVE  Moved(q) /\ NotWaited(q)
<1> DEFINE o == call[q]
           t == o.trouble \/ o.mail.trouble
           c == Troubled(o, t)
<1>1. /\ o.at = "wait" /\ o.mail # NoMail /\ CallOK(o) /\ o \in Call
      /\ flight' = flight
  BY DEF Receive, QueryInv, CallsOK, CallOK
<1>2. NotWaited(q)
  BY <1>1, WaitersWait
<1>3. /\ o.mail \in Mail /\ MailOK(o.mail) /\ o.trouble \in BOOLEAN
      /\ o.mail.trouble \in BOOLEAN
  BY <1>1 DEF CallOK, Call, Mail
<1>4. o.mail.value \in (Error \ {"canceled"}) \cup {"session"}
  BY <1>1, <1>3 DEF MailOK, Mail
<1>5. /\ c \in Call /\ c.at = "wait" /\ c.mail = o.mail /\ c.refused = o.refused
      /\ c.cause = o.cause /\ c.trouble = t /\ c.ctx = o.ctx
      /\ c.election = o.election /\ c.c = o.c /\ c.level = o.level
  BY <1>1, <1>3, TroubleType
<1>6. c = [o EXCEPT !.trouble = @ \/ o.mail.trouble]
  BY <1>1 DEF Troubled, Call
<1> HIDE DEF c
<1>7. CallOK(c)
  BY <1>1, <1>5 DEF CallOK
<1>8. \A n : Good(c, n) => Good(o, n)
  BY <1>1, <1>5 DEF Good, EndOK
<1>9. o.refused # 0 => o.mail.value = "invalid"
  BY <1>1 DEF CallOK
<1>10. CASE o.mail.value = "session"
  <2> DEFINE r == [c EXCEPT !.at = "request", !.mail = NoMail]
             d == Troubled(c, TRUE)
             n == AfterSessionError(d, "unavailable")
  <2>1. Good(o, r)
    BY <1>5, <1>7, <1>8, <1>9, <1>10, UnmailedOK
  <2>2. /\ CallOK(d) /\ d.at = "wait" /\ d.trouble /\ d.refused = 0
    BY <1>5, <1>7, <1>9, <1>10, TroubleOK
  <2>3. d = [c EXCEPT !.trouble = TRUE]
    BY DEF Troubled
  <2> HIDE DEF d
  <2>4. Good(o, n)
    BY <1>1, <2>2, AfterSessionErrorGood DEF Error, Blame, Overdue
  <2>5. Set(q, r) \/ Set(q, n)
    BY <1>6, <1>10, <2>3 DEF Receive
  <2> HIDE DEF r, n
  <2> QED
    BY <1>1, <1>2, <2>1, <2>4, <2>5 DEF Moved
<1>11. CASE o.mail.value # "session" /\ TriesAgain(q)
  <2> DEFINE r == [c EXCEPT !.at = "join", !.mail = NoMail]
  <2>1. Set(q, r)
    BY <1>6, <1>11 DEF Receive
  <2>2. c.election = 1 /\ c.refused = 0
    BY <1>5, <1>9, <1>11 DEF TriesAgain
  <2>3. Good(o, r)
    BY <1>5, <1>7, <1>8, <2>2, UnmailedOK
  <2> HIDE DEF r
  <2> QED
    BY <1>1, <1>2, <2>1, <2>3 DEF Moved
<1>12. CASE o.mail.value # "session" /\ ~TriesAgain(q)
  <2> DEFINE e == o.mail.value
             n == AfterSessionError(c, e)
  <2>1. Set(q, n)
    BY <1>6, <1>12 DEF Receive
  <2>2. e \in Error /\ e # "canceled"
    BY <1>4, <1>12
  <2>3. e \in Overdue /\ o.ctx = "live" => ~o.mail.bound \/ o.election = 2
    <3>1. o.mail.bound /\ o.mail.leader = q => o.ctx # "live"
      BY DEF QueryInv, CallsOK, Overtaken
    <3>2. o.election \in {1, 2}
      BY <1>1 DEF CallOK
    <3>3. e \in Overdue /\ o.mail.bound /\ o.mail.leader # q /\ o.ctx = "live" =>
              o.election # 1
      BY <1>12 DEF TriesAgain, Dead, IsCaller, Overdue
    <3> QED
      BY <3>1, <3>2, <3>3
  <2>4. e \in Upset => c.trouble
    BY <1>3, <1>5 DEF MailOK
  <2>5. Blame(o, e, c.trouble)
    BY <2>2, <2>3, <2>4 DEF Blame
  <2>6. e = "invalid" \/ c.refused = 0
    BY <1>5, <1>9
  <2> HIDE DEF e
  <2>7. Good(o, n)
    BY <1>1, <1>5, <1>7, <2>2, <2>5, <2>6, AfterSessionErrorGood
  <2> HIDE DEF n
  <2> QED
    BY <1>1, <1>2, <2>1, <2>7 DEF Moved
<1> QED
  BY <1>10, <1>11, <1>12

-----------------------------------------------------------------------------
(* Contexts end.                                                           *)

Late(c, ctx) == [c EXCEPT !.ctx = ctx]
LEMMA LateOK ==
    ASSUME NEW c, CallOK(c), c.at \notin {"idle", "done"}, NEW ctx \in {"canceled", "expired"}
    PROVE  LET n == Late(c, ctx)
           IN  /\ CallOK(n) /\ n.at = c.at /\ n.c = c.c /\ n.level = c.level
               /\ n.mail = c.mail /\ n.ctx # "live" /\ n.cause = "none"
<1> DEFINE n == Late(c, ctx)
<1>1. c \in Call /\ c.cause = "none"
  BY DEF CallOK
<1>2. /\ n \in Call /\ n.at = c.at /\ n.c = c.c /\ n.level = c.level /\ n.mail = c.mail
      /\ n.ctx = ctx /\ n.cause = "none" /\ n.election = c.election
      /\ n.trouble = c.trouble /\ n.refused = c.refused
  BY <1>1 DEF Call, Late
<1> HIDE DEF n
<1>3. CallOK(n)
  BY <1>1, <1>2 DEF CallOK
<1> QED
  BY <1>2, <1>3 DEF n

(* One caller's context ends, and with it any flights' that are bound.     *)
LEMMA ContextEnds ==
    ASSUME QueryInv, NEW q \in Caller, call[q].at \notin {"idle", "done"},
           NEW ctx \in {"canceled", "expired"}, Set(q, [call[q] EXCEPT !.ctx = ctx]),
           NEW over \in SUBSET Flight,
           \A f \in over : flight[f].leader = q /\ flight[f].bound,
           flight' = [f \in Flight |-> IF f \in over THEN [flight[f] EXCEPT !.expired = TRUE]
                                       ELSE flight[f]]
    PROVE  QueryInv' /\ StepOK
<1> DEFINE n == Late(call[q], ctx)
<1>1. call \in [Caller -> Call] /\ \A p \in Caller : CallOK(call[p])
  BY DEF QueryInv, CallsOK
<1>2. /\ CallOK(n) /\ n.at = call[q].at /\ n.c = call[q].c /\ n.level = call[q].level
      /\ n.mail = call[q].mail /\ n.ctx # "live" /\ n.cause = "none"
  BY <1>1, LateOK
<1>3. call' = [call EXCEPT ![q] = n]
  BY DEF Set, Late
<1> HIDE DEF n
<1>4. call'[q] = n /\ \A p \in Caller : p # q => call'[p] = call[p]
  BY <1>1, <1>3
<1>5. CallsOK'
  <2>1. call' \in [Caller -> Call] /\ \A p \in Caller : CallOK(call'[p])
    BY <1>1, <1>2, <1>3, <1>4 DEF CallOK
  <2>2. \A p \in Caller : Overtaken(p)' => call'[p].ctx # "live"
    BY <1>2, <1>4 DEF Overtaken, QueryInv, CallsOK
  <2> QED
    BY <2>1, <2>2 DEF CallsOK
<1>6. StepOK
  <2>1. EndOK(call[q], call'[q])
    BY <1>2, <1>4 DEF EndOK, Overdue, Upset
  <2> QED
    BY <2>1, <1>4, SameCall DEF StepOK
<1>7. ASSUME NEW f \in Flight PROVE FlightOK(f)'
  <2> DEFINE r == [flight[f] EXCEPT !.expired = TRUE]
  <2>1. FlightOK(f) /\ flight[f] \in Recovery
    BY DEF QueryInv, FlightsOK, FlightOK
  <2>2. flight[f].waiters \subseteq Caller
    BY <2>1 DEF Recovery
  <2>3. /\ r \in Recovery /\ r.waiters = flight[f].waiters
        /\ r.at = flight[f].at /\ r.leader = flight[f].leader
        /\ r.bound = flight[f].bound
    BY <2>1 DEF Recovery
  <2>4. flight'[f] = IF f \in over THEN r ELSE flight[f]
    OBVIOUS
  <2> HIDE DEF r
  <2>5. CASE f \in over
    <3>1. flight[f].leader = q /\ flight[f].bound
      BY <2>5
    <3>2. flight[f].at # "idle"
      BY <2>1, <3>1 DEF FlightOK, NoFlight
    <3>3. flight'[f] = r /\ r.leader = q /\ r.at # "idle"
      BY <2>3, <2>4, <2>5, <3>1, <3>2
    <3>4. \A p \in Caller : /\ call'[p].at = call[p].at /\ call'[p].mail = call[p].mail
                            /\ call'[p].c = call[p].c /\ call'[p].level = call[p].level
      BY <1>2, <1>4
    <3>5. \A p \in r.waiters :
              /\ call'[p].at = "wait" /\ call'[p].mail = NoMail
              /\ f = <<call'[p].c, call'[p].level>>
      BY <2>1, <2>2, <2>3, <3>4 DEF FlightOK
    <3>6. q \in r.waiters \/ call'[q].at = "done"
      BY <2>1, <2>3, <3>1, <3>2, <3>4 DEF FlightOK
    <3>7. call'[q].ctx # "live"
      BY <1>2, <1>4
    <3> QED
      BY <2>3, <3>3, <3>5, <3>6, <3>7 DEF FlightOK
  <2>6. CASE f \notin over
    BY <1>2, <1>4, <2>1, <2>2, <2>4, <2>6 DEF FlightOK
  <2> QED
    BY <2>5, <2>6
<1>8. DOMAIN flight' = Flight /\ flight' = [f \in Flight |-> flight'[f]]
  OBVIOUS
<1> QED
  BY <1>5, <1>6, <1>7, <1>8 DEF QueryInv, FlightsOK

LEMMA FlightTimeEnds ==
    ASSUME QueryInv, NEW f \in Flight, FlightExpires(f)
    PROVE  QueryInv' /\ StepOK
<1> DEFINE r == [flight[f] EXCEPT !.expired = TRUE]
           leader == flight[f].leader
<1>1. /\ flight[f] # NoFlight /\ call' = call
      /\ flight[f].bound => Dead(leader) \/ ~Running(leader)
      /\ flight' = [flight EXCEPT ![f] = r]
  BY DEF FlightExpires
<1>2. FlightOK(f) /\ flight[f] \in Recovery /\ DOMAIN flight = Flight
  BY DEF QueryInv, FlightsOK, FlightOK
<1>3. /\ r \in Recovery /\ r.waiters = flight[f].waiters
      /\ r.at = flight[f].at /\ r.leader = leader /\ r.bound = flight[f].bound
  BY <1>2 DEF Recovery
<1>4. flight[f].at # "idle" /\ leader \in Caller
  BY <1>1, <1>2 DEF FlightOK
<1> HIDE DEF r
<1>5. /\ flight'[f] = r /\ \A g \in Flight : g # f => flight'[g] = flight[g]
      /\ DOMAIN flight' = Flight /\ flight' = [g \in Flight |-> flight'[g]]
  BY <1>1, <1>2 DEF QueryInv, FlightsOK
<1>6. CallsOK' /\ StepOK
  <2>1. StepOK
    BY <1>1, SameCall DEF StepOK
  <2>2. CallsOK'
    BY <1>1 DEF QueryInv, CallsOK, Overtaken
  <2> QED
    BY <2>1, <2>2
<1>7. flight[f].bound /\ leader \in flight[f].waiters => call[leader].ctx # "live"
  <2>1. leader \in flight[f].waiters => Running(leader)
    BY <1>2 DEF FlightOK, Running
  <2>2. Dead(leader) => call[leader].ctx # "live"
    BY <1>4 DEF Dead, IsCaller
  <2> QED
    BY <1>1, <2>1, <2>2
<1>8. ASSUME NEW g \in Flight PROVE FlightOK(g)'
  <2>1. CASE g = f
    BY <1>1, <1>2, <1>3, <1>4, <1>5, <1>7, <2>1 DEF FlightOK
  <2>2. CASE g # f
    <3>1. FlightOK(g)
      BY DEF QueryInv, FlightsOK
    <3> QED
      BY <1>1, <1>5, <2>2, <3>1 DEF FlightOK
  <2> QED
    BY <2>1, <2>2
<1> QED
  BY <1>5, <1>6, <1>8 DEF QueryInv, FlightsOK

-----------------------------------------------------------------------------
(* The parts that actions are made of.                                     *)

StoreMoved ==
    \/ \E c \in Credential, scope \in Scope :
           (\E ttl \in Ttl[scope] : SaveScope(c, scope, ttl)) \/ DeleteScope(c, scope)
    \/ UNCHANGED kept
    \/ StoreSteps

LEMMA StoreMovedKeeps ==
    ASSUME StoreInv, StoreMoved
    PROVE  StoreInv'
  BY StoreAssumption, SaveKeeps, DeleteKeeps, StoreStutters, StoreStepsKeep DEF StoreMoved

LEMMA StoreUnmoved == UNCHANGED storeVars => StoreMoved
  BY DEF storeVars, StoreMoved, kept

LEMMA RedisFailsMoved == \A a : RedisFails(a) => StoreMoved
  BY DEF RedisFails, StoreMoved, kept

LEMMA CacheMoved ==
    ASSUME NEW a, Credentials(a) \in Credential, NEW scope \in Scope,
           Forget(a, scope) \/ Keep(a, scope)
    PROVE  StoreMoved
  BY RedisFailsMoved DEF Forget, Keep, StoreMoved

LEMMA OfCaller ==
    ASSUME NEW q \in Caller
    PROVE  /\ At(q) = call[q].at /\ Credentials(q) = call[q].c /\ Level(q) = call[q].level
           /\ Dead(q) <=> call[q].ctx # "live"
           /\ Use(q) <=> Go(q, "request")
           /\ Missed(q) <=> Go(q, "join")
           /\ \A where : Go(q, where) <=>
                  Set(q, [call[q] EXCEPT !.at = where]) /\ UNCHANGED flight
           /\ \A e : Fail(q, e) <=> Set(q, AfterSessionError(call[q], e)) /\ UNCHANGED flight
           /\ \A e : UpstreamFails(q, e) <=>
                  /\ Set(q, AfterSessionError(Troubled(call[q], TRUE), e))
                  /\ UNCHANGED flight
  BY DEF At, Credentials, Level, Dead, IsCaller, Use, Missed, Go, Fail, UpstreamFails, Troubled

LEMMA OfFlight ==
    ASSUME NEW f \in Flight
    PROVE  /\ At(f) = flight[f].at /\ Credentials(f) = f[1] /\ Level(f) = f[2]
           /\ f[1] \in Credential /\ f[2] \in Target
           /\ Dead(f) <=> flight[f].expired
           /\ ContextError(f) = "deadline" /\ RequestEnds(f) = "timeout"
           /\ Use(f) <=> Land(f, "session", FALSE) \/ Land(f, "unavailable", TRUE)
           /\ Missed(f) <=> Go(f, "identity")
           /\ \A where : Go(f, where) <=>
                  flight' = [flight EXCEPT ![f].at = where] /\ UNCHANGED call
           /\ \A e : Fail(f, e) <=> Land(f, e, FALSE)
           /\ \A e : UpstreamFails(f, e) <=> Land(f, e, TRUE)
<1>1. f \notin Caller
  BY QueryAssumption DEF Flight
<1> QED
  BY <1>1 DEF At, Credentials, Level, Dead, IsCaller, Use, Missed, Go, Fail, UpstreamFails,
              ContextError, RequestEnds, Flight

(* A caller's context has ended.                                           *)
LEMMA ContextBlame ==
    ASSUME NEW q \in Caller, Dead(q), CallOK(call[q]), NEW e \in {ContextError(q), RequestEnds(q)},
           NEW trouble
    PROVE  e \in Error /\ Blame(call[q], e, trouble)
<1>1. call[q].ctx \in {"canceled", "expired"}
  BY OfCaller DEF CallOK, Call
<1> QED
  BY <1>1 DEF ContextError, RequestEnds, IsCaller, Error, Blame, Overdue, Upset

Here(q) == call[q].at \notin {"idle", "done", "wait"}

LEMMA CallFacts ==
    ASSUME QueryInv, NEW q \in Caller
    PROVE  /\ CallOK(call[q]) /\ call[q] \in Call /\ call[q].trouble \in BOOLEAN
           /\ Here(q) => /\ call[q].refused = 0 /\ NotWaited(q) /\ call[q].mail = NoMail
                         /\ call[q].c \in Credential /\ call[q].level \in Scope
                         /\ call[q].level \in Target
           /\ call[q].at # "idle" /\ call[q].at \in BeforeJoin => call[q].election = 0
<1>1. CallOK(call[q]) /\ call[q] \in Call
  BY DEF QueryInv, CallsOK, CallOK
<1>2. Here(q) => NotWaited(q)
  BY WaitersWait DEF Here
<1> QED
  BY <1>1, <1>2 DEF CallOK, Call, Here, Scope

LEMMA GoMoved ==
    ASSUME QueryInv, NEW q \in Caller, Here(q),
           NEW where \in CallerAt \ {"idle", "wait", "done", "challenged", "rejected"},
           Go(q, where), where \in BeforeJoin \cup {"join"} => call[q].at \in BeforeJoin
    PROVE  Moved(q)
<1> DEFINE n == [call[q] EXCEPT !.at = where]
<1>1. where \in BeforeJoin \cup {"join"} => call[q].election = 0
  BY CallFacts DEF Here
<1>2. Good(call[q], n)
  BY <1>1, CallFacts, GoesGood DEF Here
<1>3. Set(q, n) /\ UNCHANGED flight
  BY OfCaller
<1> HIDE DEF n
<1> QED
  BY <1>2, <1>3 DEF Moved

LEMMA FailMoved ==
    ASSUME QueryInv, NEW q \in Caller, Here(q), NEW e \in Error,
           Fail(q, e), Blame(call[q], e, call[q].trouble)
    PROVE  Moved(q)
<1> DEFINE n == AfterSessionError(call[q], e)
<1>1. Good(call[q], n)
  BY CallFacts, AfterSessionErrorGood DEF Here
<1>2. Set(q, n) /\ UNCHANGED flight
  BY OfCaller
<1> HIDE DEF n
<1> QED
  BY <1>1, <1>2 DEF Moved

LEMMA UpstreamMoved ==
    ASSUME QueryInv, NEW q \in Caller, Here(q), NEW e \in Upset, UpstreamFails(q, e)
    PROVE  Moved(q)
<1> DEFINE d == Troubled(call[q], TRUE)
           n == AfterSessionError(d, e)
<1>1. /\ CallOK(d) /\ d.trouble /\ d.at = call[q].at /\ d.refused = 0
  BY CallFacts, TroubleOK
<1>2. Set(q, n) /\ UNCHANGED flight
  BY OfCaller
<1> HIDE DEF d
<1>3. e \in Error /\ Blame(call[q], e, d.trouble)
  BY <1>1 DEF Upset, Error, Blame, Overdue
<1>4. Good(call[q], n)
  BY <1>1, <1>3, AfterSessionErrorGood DEF Here
<1> HIDE DEF n
<1> QED
  BY <1>2, <1>4 DEF Moved

-----------------------------------------------------------------------------
(* The steps that callers and flights have in common.                      *)

LEMMA CallerLoads ==
    ASSUME QueryInv, NEW q \in Caller, Load(q) \/ Discard(q) \/ Probe(q) \/ SaveProbed(q)
    PROVE  Moved(q) /\ StoreMoved /\ Here(q)
<1>1. /\ Here(q) /\ call[q].at \in BeforeJoin
      /\ Credentials(q) \in Credential /\ Level(q) \in Scope
  BY OfCaller, CallFacts DEF Load, Discard, Probe, SaveProbed, Here, BeforeJoin
<1>2. /\ "discard" \in CallerAt /\ "probe" \in CallerAt /\ "join" \in CallerAt
      /\ "request" \in CallerAt /\ "saveProbed" \in CallerAt
  BY DEF CallerAt
<1>3. \A where \in {"discard", "probe", "join", "request", "saveProbed"} : Go(q, where) => Moved(q)
  BY <1>1, <1>2, GoMoved
<1>4. \A e : Dead(q) /\ Fail(q, e) /\ e \in {ContextError(q), RequestEnds(q)} => Moved(q)
  BY <1>1, ContextBlame, CallFacts, FailMoved
<1>5. CASE Load(q)
  <2>1. StoreMoved
    BY <1>5, StoreUnmoved, RedisFailsMoved DEF Load
  <2>2. CASE Looked(q)
    BY <2>2, <1>1, <1>3, <2>1, OfCaller DEF Looked
  <2>3. CASE Dead(q) /\ Fail(q, ContextError(q))
    BY <2>3, <1>1, <1>4, <2>1
  <2>4. CASE LoadFails(q)
    BY <2>4, <1>1, <1>3, <2>1, OfCaller DEF LoadFails
  <2> QED
    BY <1>5, <2>2, <2>3, <2>4 DEF Load
<1>6. CASE Discard(q)
  BY <1>1, <1>3, <1>6, CacheMoved, OfCaller DEF Discard
<1>7. CASE Probe(q)
  <2>1. StoreMoved
    BY <1>7, StoreUnmoved DEF Probe
  <2>2. CASE Dead(q) /\ Fail(q, RequestEnds(q))
    BY <2>2, <1>1, <1>4, <2>1
  <2>3. CASE \E e \in {"unavailable", "retryable"} : UpstreamFails(q, e)
    BY <2>3, <1>1, <2>1, UpstreamMoved DEF Upset
  <2>4. CASE Go(q, "discard") \/ Go(q, "saveProbed")
    BY <2>4, <1>1, <1>3, <2>1
  <2> QED
    BY <1>7, <2>2, <2>3, <2>4 DEF Probe
<1>8. CASE SaveProbed(q)
  BY <1>1, <1>3, <1>8, CacheMoved, OfCaller DEF SaveProbed
<1> QED
  BY <1>5, <1>6, <1>7, <1>8

(* What a flight may do in a step.                                         *)
Advanced(f) ==
    \/ \E where \in FlightAt : flight' = [flight EXCEPT ![f].at = where] /\ UNCHANGED call
    \/ \E value \in (Error \ {"canceled"}) \cup {"session"}, upset \in BOOLEAN :
           (value \in Upset => upset) /\ Land(f, value, upset)
    \/ Refuses(f)

LEMMA FlightAdvances ==
    ASSUME QueryInv, NEW f \in Flight, flight[f].at # "idle", Advanced(f)
    PROVE  QueryInv' /\ StepOK
  BY FlightMoves, Lands, RefusesMoves DEF Advanced

LEMMA FlightGoes ==
    ASSUME NEW f \in Flight
    PROVE  /\ \A where \in FlightAt : Go(f, where) => Advanced(f)
           /\ \A e \in {"deadline", "timeout"} : Fail(f, e) => Advanced(f)
           /\ \A e \in Upset : UpstreamFails(f, e) => Advanced(f)
           /\ Use(f) => Advanced(f)
  BY OfFlight DEF Advanced, Upset, Error

LEMMA FlightLoads ==
    ASSUME QueryInv, NEW f \in Flight, Load(f) \/ Discard(f) \/ Probe(f) \/ SaveProbed(f)
    PROVE  Advanced(f) /\ StoreMoved /\ flight[f].at # "idle"
<1>1. /\ flight[f].at # "idle"
      /\ Credentials(f) \in Credential /\ Level(f) \in Scope
  BY OfFlight DEF Load, Discard, Probe, SaveProbed, Scope
<1>2. \A where \in {"discard", "probe", "identity", "saveProbed"} : where \in FlightAt
  BY DEF FlightAt
<1>3. CASE Load(f)
  <2>1. StoreMoved
    BY <1>3, StoreUnmoved, RedisFailsMoved DEF Load
  <2>2. CASE Looked(f)
    BY <2>2, <1>1, <1>2, <2>1, OfFlight, FlightGoes DEF Looked
  <2>3. CASE Fail(f, ContextError(f))
    BY <2>3, <1>1, <2>1, OfFlight, FlightGoes
  <2>4. CASE LoadFails(f)
    BY <2>4, <1>1, <1>2, <2>1, OfFlight, FlightGoes DEF LoadFails
  <2> QED
    BY <1>3, <2>2, <2>3, <2>4 DEF Load
<1>4. CASE Discard(f)
  BY <1>1, <1>2, <1>4, CacheMoved, OfFlight, FlightGoes DEF Discard
<1>5. CASE Probe(f)
  <2>1. StoreMoved
    BY <1>5, StoreUnmoved DEF Probe
  <2> QED
    BY <1>1, <1>2, <1>5, <2>1, OfFlight, FlightGoes DEF Probe, Upset
<1>6. CASE SaveProbed(f)
  BY <1>1, <1>6, CacheMoved, FlightGoes DEF SaveProbed
<1> QED
  BY <1>3, <1>4, <1>5, <1>6

-----------------------------------------------------------------------------
(* recoverTargetSession.                                                   *)

LEMMA AttemptAdvances ==
    ASSUME NEW f \in Flight, NEW next \in SUBSET FlightAt, Attempt(f, next)
    PROVE  Advanced(f) /\ StoreMoved
  BY StoreUnmoved, OfFlight, FlightGoes DEF Attempt, Upset

LEMMA FlightStepAdvances ==
    ASSUME QueryInv, NEW f \in Flight, FlightStep(f)
    PROVE  Advanced(f) /\ StoreMoved /\ flight[f].at # "idle"
<1>1. \A where \in {"login", "dropIdentity", "handoff", "saveTarget", "saveIdentity", "access"} :
          where \in FlightAt
  BY DEF FlightAt
<1>2. /\ Credentials(f) \in Credential /\ f[1] \in Credential
      /\ f[2] \in Scope /\ "identity" \in Scope
  BY OfFlight DEF Scope
<1>3. CASE Load(f) \/ Discard(f) \/ Probe(f) \/ SaveProbed(f)
  BY <1>3, FlightLoads
<1>4. CASE Identity(f)
  <2>1. StoreMoved /\ flight[f].at # "idle"
    BY <1>4, StoreUnmoved, RedisFailsMoved, OfFlight DEF Identity
  <2>2. \/ \E where \in FlightAt : Go(f, where)
        \/ Fail(f, "deadline")
    BY <1>1, <1>4 DEF Identity
  <2> QED
    BY <2>1, <2>2, FlightGoes
<1>5. CASE Handoff(f)
  BY <1>1, <1>5, OfFlight, AttemptAdvances DEF Handoff
<1>6. CASE DropIdentity(f)
  BY <1>1, <1>2, <1>6, OfFlight, CacheMoved, FlightGoes DEF DropIdentity
<1>7. CASE Login(f)
  <2>1. flight[f].at # "idle"
    BY <1>7, OfFlight DEF Login
  <2>2. CASE Attempt(f, {"saveIdentity"})
    BY <1>1, <2>1, <2>2, AttemptAdvances
  <2>3. CASE (UpstreamFails(f, "challenge") \/ Refuses(f)) /\ UNCHANGED storeVars
    BY <2>1, <2>3, StoreUnmoved, FlightGoes DEF Advanced, Upset
  <2> QED
    BY <1>7, <2>2, <2>3 DEF Login
<1>8. CASE SaveIdentity(f)
  BY <1>1, <1>2, <1>8, OfFlight, CacheMoved, FlightGoes DEF SaveIdentity
<1>9. CASE Access(f)
  BY <1>1, <1>9, OfFlight, AttemptAdvances DEF Access
<1>10. CASE SaveTarget(f)
  BY <1>2, <1>10, OfFlight, CacheMoved, FlightGoes DEF SaveTarget
<1> QED
  BY <1>3, <1>4, <1>5, <1>6, <1>7, <1>8, <1>9, <1>10 DEF FlightStep

-----------------------------------------------------------------------------
(* A call from its start to its end.                                       *)

(* A caller's step, whoever waits for it.                                  *)
Stepped(q) == Moved(q) /\ NotWaited(q) /\ StoreMoved

LEMMA StartSteps ==
    ASSUME QueryInv, NEW q \in Caller, Start(q)
    PROVE  Stepped(q)
<1>1. /\ call[q].at = "idle" /\ UNCHANGED flight /\ StoreMoved /\ NotWaited(q)
  BY StoreUnmoved, WaitersWait DEF Start
<1>2. CASE Set(q, Return("InvalidArgument"))
  BY <1>1, <1>2, ReturnGood DEF Stepped, Moved, Result
<1>3. ASSUME NEW kind \in KindsOf[q], NEW c \in Credential, NEW level \in LevelsOf[q],
             NEW page \in ValidPages[kind],
             Set(q, [NotCalled EXCEPT !.at = "queued", !.kind = kind, !.c = c,
                        !.level = level, !.part = 1, !.attempt = 1, !.page = page])
      PROVE  Stepped(q)
  <2> DEFINE n == [NotCalled EXCEPT !.at = "queued", !.kind = kind, !.c = c,
                      !.level = level, !.part = 1, !.attempt = 1, !.page = page]
  <2>1. kind \in Kind /\ level \in Target
    BY QueryAssumption
  <2>2. page \in Nat
    BY <2>1 DEF ValidPages, Request
  <2>3. /\ n.at = "queued" /\ n.c = c /\ n.level = level /\ n.mail = NoMail
        /\ n.election = 0 /\ n.refused = 0 /\ n.cause = "none"
    BY DEF NotCalled
  <2>4. n \in Call
    BY <2>1, <2>2, NoMailOK DEF NotCalled, Call, CallerAt, Result
  <2> HIDE DEF n
  <2>5. CallOK(n)
    BY <2>1, <2>3, <2>4, NoMailOK DEF CallOK, BeforeJoin
  <2>6. Good(call[q], n)
    BY <1>1, <2>3, <2>5 DEF Good, EndOK, Overdue, Upset
  <2>7. Set(q, n)
    BY <1>3 DEF n
  <2> QED
    BY <1>1, <2>6, <2>7 DEF Stepped, Moved
<1> QED
  BY <1>2, <1>3 DEF Start

(* Before the query: the bulkhead, the router, the configuration.          *)
LEMMA EntrySteps ==
    ASSUME QueryInv, NEW q \in Caller, active \in {"ouc", "mock", "none"},
           Acquire(q) \/ Route(q) \/ Configure(q)
    PROVE  Stepped(q)
<1>1. /\ Here(q) /\ call[q].at \in BeforeJoin /\ NotWaited(q) /\ StoreMoved
  BY CallFacts, StoreUnmoved DEF Acquire, Route, Configure, Here, BeforeJoin
<1>2. \A where \in {"configure", "route", "load", "verify"} : Go(q, where) => Stepped(q)
  BY <1>1, GoMoved DEF Stepped, CallerAt
<1>3. \A n : Good(call[q], n) /\ Set(q, n) /\ UNCHANGED flight => Stepped(q)
  BY <1>1 DEF Stepped, Moved
<1>4. CASE Acquire(q)
  <2>1. Good(call[q], Ended("busy"))
    BY FailsGood DEF Blame, Overdue, Upset
  <2>2. Dead(q) => Good(call[q], Ended(ContextError(q)))
    BY CallFacts, ContextBlame, FailsGood
  <2> QED
    BY <1>2, <1>3, <1>4, <2>1, <2>2 DEF Acquire
<1>5. CASE Route(q)
  <2>1. Good(call[q], Fails("unavailable"))
    BY <1>5, FailsGood DEF Route, Blame, Overdue, Error
  <2>2. Good(call[q], Return("items"))
    BY ReturnGood DEF Result
  <2>3. \/ Go(q, "configure")
        \/ Set(q, Return("items")) /\ UNCHANGED flight
        \/ Set(q, Fails("unavailable")) /\ UNCHANGED flight
    BY <1>5 DEF Route
  <2> QED
    BY <1>2, <1>3, <2>1, <2>2, <2>3
<1>6. CASE Configure(q)
  <2>1. Good(call[q], AfterFailure(call[q], "unavailable"))
    BY <1>6, CallFacts, AfterFailureGood DEF Configure, Blame, Overdue, Error
  <2>2. \/ Go(q, "verify") \/ Go(q, "load")
        \/ Set(q, AfterFailure(call[q], "unavailable")) /\ UNCHANGED flight
    BY <1>6 DEF Configure
  <2> QED
    BY <1>2, <1>3, <2>1, <2>2
<1> QED
  BY <1>4, <1>5, <1>6

(* The steps of a call with an answer.                                     *)
MovedTo(c, where) == [c EXCEPT !.at = where]
LEMMA UpsetGoes ==
    ASSUME NEW c, CallOK(c), c.at = "request", NEW where \in {"challenged", "rejected"}
    PROVE  Good(c, [Troubled(c, TRUE) EXCEPT !.at = where])
<1> DEFINE d == Troubled(c, TRUE)
           n == MovedTo(d, where)
<1>1. /\ d \in Call /\ d.trouble /\ d.c = c.c /\ d.level = c.level
      /\ d.refused = c.refused /\ d.cause = c.cause /\ d.mail = c.mail
  BY TroubleType DEF CallOK
<1>2. /\ c.cause = "none" /\ c.mail = NoMail /\ c.refused = 0
      /\ c.c \in Credential /\ c.level \in Target
  BY DEF CallOK
<1> HIDE DEF d
<1>3. /\ n \in Call /\ n.at = where /\ n.trouble /\ n.c = d.c /\ n.level = d.level
      /\ n.refused = d.refused /\ n.cause = d.cause /\ n.mail = d.mail
  BY <1>1 DEF Call, CallerAt, MovedTo
<1> HIDE DEF n
<1>4. CallOK(n)
  BY <1>1, <1>2, <1>3, NoMailOK DEF CallOK, BeforeJoin
<1>5. Good(c, n)
  BY <1>1, <1>2, <1>3, <1>4 DEF Good, EndOK, Overdue, Upset
<1> QED
  BY <1>5 DEF n, d, MovedTo

LEMMA AnswerSteps ==
    ASSUME QueryInv, NEW q \in Caller, Query(q) \/ Unreadable(q)
    PROVE  Stepped(q)
<1> DEFINE c == call[q]
           d == Troubled(c, TRUE)
<1>1. /\ Here(q) /\ NotWaited(q) /\ StoreMoved /\ UNCHANGED flight
      /\ CallOK(c) /\ c.refused = 0 /\ c.at # "done"
  BY CallFacts, StoreUnmoved DEF Query, Unreadable, Here
<1>2. \A n : Good(c, n) /\ Set(q, n) => Stepped(q)
  BY <1>1 DEF Stepped, Moved
<1>3. /\ CallOK(d) /\ d.trouble /\ d.at = c.at /\ d.refused = 0
  BY <1>1, TroubleOK
<1>4. d = [c EXCEPT !.trouble = TRUE]
  BY DEF Troubled
<1>5. ASSUME NEW e \in {"unavailable", "retryable", "contract"}
      PROVE  Good(c, AskAgain(d, e))
  <2> HIDE DEF d
  <2>1. e \in Error /\ Blame(c, e, d.trouble)
    BY <1>3 DEF Error, Blame, Overdue
  <2> QED
    BY <1>1, <1>3, <2>1, AskAgainGood DEF Here
<1>6. CASE Query(q)
  <2>1. Dead(q) => Good(c, AfterFailure(c, RequestEnds(q)))
    BY <1>1, CallFacts, ContextBlame, AfterFailureGood
  <2>2. c.at = "request"
    BY <1>6 DEF Query
  <2>3. \A where \in {"challenged", "rejected"} : Good(c, [d EXCEPT !.at = where])
    BY <1>1, <2>2, UpsetGoes
  <2>4. Good(c, [c EXCEPT !.at = "parse"])
    BY <1>1, <2>2, GoesGood DEF CallerAt, BeforeJoin
  <2> HIDE DEF d
  <2>5. \/ Dead(q) /\ Set(q, AfterFailure(c, RequestEnds(q)))
        \/ \E e \in {"unavailable", "retryable"} : Set(q, AskAgain(d, e))
        \/ \E where \in {"challenged", "rejected"} : Set(q, [d EXCEPT !.at = where])
        \/ Set(q, [c EXCEPT !.at = "parse"])
    BY <1>4, <1>6 DEF Query
  <2> HIDE DEF c
  <2> QED
    BY <1>2, <1>5, <2>1, <2>3, <2>4, <2>5
<1>7. CASE Unreadable(q)
  <2>1. Good(c, Return("items"))
    BY ReturnGood DEF Result
  <2> HIDE DEF d
  <2>2. Set(q, Return("items")) \/ \E e \in {"contract", "unavailable"} : Set(q, AskAgain(d, e))
    BY <1>4, <1>7 DEF Unreadable
  <2> HIDE DEF c
  <2> QED
    BY <1>2, <1>5, <2>1, <2>2
<1> QED
  BY <1>6, <1>7

(* The steps that drop or keep the session, and the verification.          *)
LEMMA SecondOK ==
    ASSUME NEW c, CallOK(c), c.at = "parse"
    PROVE  Good(c, [c EXCEPT !.at = "configure", !.part = 2, !.attempt = 1, !.election = 0])
<1> DEFINE n == [c EXCEPT !.at = "configure", !.part = 2, !.attempt = 1, !.election = 0]
<1>1. /\ c \in Call /\ c.cause = "none" /\ c.mail = NoMail /\ c.refused = 0
      /\ c.c \in Credential /\ c.level \in Target
  BY DEF CallOK
<1>2. /\ n.at = "configure" /\ n.c = c.c /\ n.level = c.level /\ n.election = 0
      /\ n.refused = c.refused /\ n.cause = c.cause /\ n.mail = c.mail
  BY <1>1 DEF Call
<1>3. n \in Call
  BY <1>1 DEF Call, CallerAt
<1> HIDE DEF n
<1>4. CallOK(n)
  BY <1>1, <1>2, <1>3, NoMailOK DEF CallOK, BeforeJoin
<1>5. Good(c, n)
  BY <1>1, <1>2, <1>4 DEF Good, EndOK, Overdue, Upset
<1> QED
  BY <1>5 DEF n

LEMMA SessionSteps ==
    ASSUME QueryInv, NEW q \in Caller, Challenged(q) \/ Rejected(q) \/ SaveParsed(q)
    PROVE  Stepped(q)
<1> DEFINE c == call[q]
<1>1. /\ Here(q) /\ NotWaited(q) /\ UNCHANGED flight
      /\ CallOK(c) /\ c \in Call /\ c.refused = 0 /\ c.at \notin {"idle", "done"}
  BY CallFacts DEF Challenged, Rejected, SaveParsed, Here
<1>2. StoreMoved
  BY <1>1, CallFacts, OfCaller, CacheMoved DEF Challenged, Rejected, SaveParsed
<1>3. \A n : Good(c, n) /\ Set(q, n) => Stepped(q)
  BY <1>1, <1>2 DEF Stepped, Moved
<1>4. c.at \in {"challenged", "rejected"} =>
          \A e \in {"challenge", "unavailable"} : Good(c, AfterFailure(c, e))
  <2>1. c.at \in {"challenged", "rejected"} =>
            \A e \in {"challenge", "unavailable"} : e \in Error /\ Blame(c, e, c.trouble)
    BY <1>1 DEF CallOK, Error, Blame, Overdue
  <2> QED
    BY <1>1, <2>1, AfterFailureGood
<1>5. Good(c, NextAttempt(c, "load"))
  BY <1>1, NextAttemptGood
<1>6. Good(c, Return("items"))
  BY ReturnGood DEF Result
<1>7. c.at = "parse" =>
          Good(c, [c EXCEPT !.at = "configure", !.part = 2, !.attempt = 1, !.election = 0])
  BY <1>1, SecondOK
<1>8. CASE Challenged(q)
  BY <1>3, <1>4, <1>8 DEF Challenged
<1>9. CASE Rejected(q)
  BY <1>3, <1>4, <1>5, <1>9 DEF Rejected, AfterRejection
<1>10. CASE SaveParsed(q)
  BY <1>3, <1>6, <1>7, <1>10 DEF SaveParsed
<1> QED
  BY <1>8, <1>9, <1>10

LEMMA VerifySteps ==
    ASSUME QueryInv, NEW q \in Caller, Verify(q) \/ SaveVerified(q)
    PROVE  Stepped(q)
<1> DEFINE c == call[q]
<1>1. /\ Here(q) /\ NotWaited(q) /\ UNCHANGED flight /\ CallOK(c)
  BY CallFacts DEF Verify, SaveVerified, Here
<1>2. CASE Verify(q)
  <2>1. StoreMoved /\ c.at = "verify"
    BY <1>2, StoreUnmoved DEF Verify
  <2>2. Dead(q) => Good(c, Fails(RequestEnds(q)))
    BY <1>1, ContextBlame, FailsGood
  <2>3. \A e \in {"unavailable", "retryable", "challenge", "invalid"} : Good(c, Fails(e))
    <3>1. \A e \in {"unavailable", "retryable", "challenge", "invalid"} :
              e \in Error /\ Blame(c, e, FALSE)
      BY <2>1 DEF Error, Blame, Overdue
    <3> QED
      BY <3>1, FailsGood
  <2>4. Good(c, [c EXCEPT !.at = "saveVerified"])
    BY <1>1, <2>1, GoesGood DEF CallerAt, BeforeJoin
  <2>5. \E n : Good(c, n) /\ Set(q, n)
    BY <1>2, <2>2, <2>3, <2>4 DEF Verify
  <2> QED
    BY <1>1, <2>1, <2>5 DEF Stepped, Moved
<1>3. CASE SaveVerified(q)
  <2>1. StoreMoved
    BY <1>1, <1>3, CallFacts, OfCaller, CacheMoved DEF SaveVerified, Scope
  <2>2. Good(c, Return("items"))
    BY ReturnGood DEF Result
  <2> QED
    BY <1>1, <1>3, <2>1, <2>2 DEF SaveVerified, Stepped, Moved
<1> QED
  BY <1>2, <1>3

-----------------------------------------------------------------------------
(* The invariant.                                                          *)

ActiveOK == active \in {"ouc", "mock", "none"}
Inv == StoreInv /\ QueryInv /\ ActiveOK

LEMMA InitInv == Init => Inv
<1> SUFFICES ASSUME Init PROVE Inv
  OBVIOUS
<1>1. StoreInv
  BY StoreAssumption, StoreInitInv DEF Init
<1>2. /\ \A q \in Caller : call[q] = NotCalled
      /\ call \in [Caller -> Call]
  BY NotCalledType DEF Init
<1>3. CallOK(NotCalled) /\ ~NotCalled.mail.bound
  BY NotCalledType, NoMailOK DEF CallOK, NotCalled, NoMail, BeforeJoin
<1>4. CallsOK
  BY <1>2, <1>3 DEF CallsOK, Overtaken
<1>5. FlightsOK
  <2>1. DOMAIN flight = Flight /\ \A f \in Flight : flight[f] = NoFlight
    BY DEF Init
  <2>2. flight = [f \in Flight |-> flight[f]]
    BY DEF Init
  <2>3. /\ NoFlight \in Recovery /\ NoFlight.at = "idle" /\ NoFlight.waiters = {}
        /\ ~NoFlight.bound
    BY DEF NoFlight, Recovery
  <2> QED
    BY <2>1, <2>2, <2>3 DEF FlightsOK, FlightOK
<1>6. ActiveOK
  BY QueryAssumption DEF Init, ActiveOK
<1> QED
  BY <1>1, <1>4, <1>5, <1>6 DEF Inv, QueryInv

LEMMA Unmoved ==
    ASSUME QueryInv, UNCHANGED <<call, flight>>
    PROVE  QueryInv' /\ StepOK
<1>1. QueryInv'
  BY DEF QueryInv, CallsOK, FlightsOK, FlightOK, Overtaken
<1>2. StepOK
  BY SameCall DEF StepOK
<1> QED
  BY <1>1, <1>2

LEMMA StepInv ==
    ASSUME Inv, [Next]_vars
    PROVE  Inv' /\ StepOK
<1>1. StoreInv /\ QueryInv /\ ActiveOK
  BY DEF Inv
<1>2. ASSUME NEW q \in Caller, Stepped(q) PROVE QueryInv' /\ StepOK /\ StoreInv'
  BY <1>1, <1>2, CallerMoves, StoreMovedKeeps DEF Stepped
<1>3. ASSUME NEW q \in Caller, Start(q) \/ CallerStep(q) \/ Cancel(q) \/ Expire(q)
      PROVE  Inv' /\ StepOK
  <2>1. ActiveOK'
    BY <1>1, <1>3 DEF ActiveOK, Start, CallerStep, Cancel, Expire, Acquire, Route, Configure,
       Load, Discard, Probe, SaveProbed, Join, Receive, Leave, Query, Challenged, Rejected,
       Unreadable, SaveParsed, Verify, SaveVerified, Forget, Keep
  <2>2. CASE Start(q)
    BY <1>1, <1>2, <2>1, <2>2, StartSteps DEF Inv
  <2>3. CASE Acquire(q) \/ Route(q) \/ Configure(q)
    BY <1>1, <1>2, <2>1, <2>3, EntrySteps DEF Inv, ActiveOK
  <2>4. CASE Load(q) \/ Discard(q) \/ Probe(q) \/ SaveProbed(q)
    <3>1. Stepped(q)
      BY <1>1, <2>4, CallerLoads, CallFacts DEF Stepped
    <3> QED
      BY <1>2, <2>1, <3>1 DEF Inv
  <2>5. CASE Join(q) \/ Leave(q)
    <3>1. StoreMoved
      BY <2>5, StoreUnmoved DEF Join, Leave
    <3> QED
      BY <1>1, <2>1, <2>5, <3>1, StoreMovedKeeps, JoinMoves, LeaveMoves DEF Inv
  <2>6. CASE Receive(q)
    <3>1. Stepped(q)
      BY <1>1, <2>6, StoreUnmoved, ReceiveMoves DEF Receive, Stepped
    <3> QED
      BY <1>2, <2>1, <3>1 DEF Inv
  <2>7. CASE Query(q) \/ Unreadable(q)
    BY <1>1, <1>2, <2>1, <2>7, AnswerSteps DEF Inv
  <2>8. CASE Challenged(q) \/ Rejected(q) \/ SaveParsed(q)
    BY <1>1, <1>2, <2>1, <2>8, SessionSteps DEF Inv
  <2>9. CASE Verify(q) \/ SaveVerified(q)
    BY <1>1, <1>2, <2>1, <2>9, VerifySteps DEF Inv
  <2>10. CASE Cancel(q) \/ Expire(q)
    <3>1. StoreInv'
      BY <1>1, <2>10, StoreUnmoved, StoreMovedKeeps DEF Cancel, Expire
    <3>2. call[q].at \notin {"idle", "done"}
      BY <2>10 DEF Cancel, Expire, Running
    <3>3. CASE Cancel(q)
      <4> DEFINE over == {}
      <4>1. flight' = [f \in Flight |-> IF f \in over THEN [flight[f] EXCEPT !.expired = TRUE]
                                        ELSE flight[f]]
        BY <1>1, <3>3 DEF Cancel, QueryInv, FlightsOK
      <4>2. Set(q, [call[q] EXCEPT !.ctx = "canceled"])
        BY <3>3 DEF Cancel
      <4>3. over \in SUBSET Flight /\ \A f \in over : flight[f].leader = q /\ flight[f].bound
        OBVIOUS
      <4> HIDE DEF over
      <4> QED
        BY <1>1, <2>1, <3>1, <3>2, <4>1, <4>2, <4>3, ContextEnds DEF Inv
    <3>4. CASE Expire(q)
      <4> DEFINE over == {f \in Flight : flight[f].leader = q /\ flight[f].bound}
      <4>1. flight' = [f \in Flight |-> IF f \in over THEN [flight[f] EXCEPT !.expired = TRUE]
                                        ELSE flight[f]]
        BY <3>4 DEF Expire
      <4>2. Set(q, [call[q] EXCEPT !.ctx = "expired"])
        BY <3>4 DEF Expire
      <4>3. over \in SUBSET Flight /\ \A f \in over : flight[f].leader = q /\ flight[f].bound
        OBVIOUS
      <4> HIDE DEF over
      <4> QED
        BY <1>1, <2>1, <3>1, <3>2, <4>1, <4>2, <4>3, ContextEnds DEF Inv
    <3> QED
      BY <2>10, <3>3, <3>4
  <2> QED
    BY <1>3, <2>2, <2>3, <2>4, <2>5, <2>6, <2>7, <2>8, <2>9, <2>10 DEF CallerStep
<1>4. ASSUME NEW f \in Flight, FlightStep(f) \/ FlightExpires(f)
      PROVE  Inv' /\ StepOK
  <2>1. ActiveOK'
    BY <1>1, <1>4 DEF ActiveOK, FlightStep, FlightExpires, Load, Discard, Probe, SaveProbed,
       Identity, Handoff, DropIdentity, Login, SaveIdentity, Access, SaveTarget, Attempt,
       Forget, Keep
  <2>2. CASE FlightStep(f)
    BY <1>1, <2>1, <2>2, FlightStepAdvances, FlightAdvances, StoreMovedKeeps DEF Inv
  <2>3. CASE FlightExpires(f)
    <3>1. StoreInv'
      BY <1>1, <2>3, StoreUnmoved, StoreMovedKeeps DEF FlightExpires
    <3> QED
      BY <1>1, <2>1, <2>3, <3>1, FlightTimeEnds DEF Inv
  <2> QED
    BY <1>4, <2>2, <2>3
<1>5. CASE Refresh
  <2>1. /\ ActiveOK' /\ UNCHANGED <<call, flight>> /\ UNCHANGED kept
    BY <1>5, QueryAssumption DEF Refresh, Parsed, ActiveOK, kept
  <2> QED
    BY <1>1, <2>1, Unmoved, StoreStutters DEF Inv
<1>6. CASE StoreSteps /\ UNCHANGED queryVars
  BY <1>1, <1>6, Unmoved, StoreStepsKeep DEF Inv, queryVars, ActiveOK
<1>7. CASE UNCHANGED vars
  <2>1. UNCHANGED <<call, flight>> /\ active' = active /\ UNCHANGED kept
    BY <1>7 DEF vars, queryVars, storeVars, kept
  <2> QED
    BY <1>1, <2>1, Unmoved, StoreStutters DEF Inv, ActiveOK
<1> QED
  BY <1>3, <1>4, <1>5, <1>6, <1>7 DEF Next

LEMMA Invariant == Spec => []Inv
<1>1. Inv /\ [Next]_vars => Inv'
  BY StepInv
<1> QED
  BY <1>1, InitInv, PTL DEF Spec

-----------------------------------------------------------------------------
(* Whatever queries, recoveries and deletions do at the same time, the     *)
(* next deletion finds every live session not saved during one (saveKey).  *)
THEOREM QueriesKeepIndex == Spec => []IndexCovers
<1>1. Inv => IndexCovers
  BY DEF Inv, StoreInv
<1> QED
  BY <1>1, Invariant, PTL

(* sessionForQuery and ListCourseCatalogPage: a call sends a password that *)
(* the school refuses at most once, whatever retries and elections it has. *)
THEOREM RefusedPasswordSentOnce == Spec => []WrongPasswordSentOnce
<1>1. Inv => WrongPasswordSentOnce
  BY DEF Inv, QueryInv, CallsOK, CallOK, WrongPasswordSentOnce
<1> QED
  BY <1>1, Invariant, PTL

(* sessionForQuery: a leader that is canceled, or one that runs out of its *)
(* time, fails no follower.                                                *)
THEOREM LeadersPoisonNobody == Spec => NotPoisoned
<1>1. Inv /\ [Next]_vars =>
          \A q \in Caller :
              LET c == call[q]
              IN  /\ Ends(q, {"canceled"}) => c.ctx = "canceled"
                  /\ Ends(q, {"deadline", "timeout"}) /\ c.ctx = "live" =>
                         ~c.mail.bound \/ c.election = 2
  BY StepInv DEF StepOK, EndOK, Ends, Overdue
<1> QED
  BY <1>1, Invariant, PTL DEF Spec, NotPoisoned

(* loadTargetSession, recoverTargetSession: Redis failures alone fail no   *)
(* query.                                                                  *)
THEOREM CacheFailsNobody == Spec => CacheBestEffort
<1>1. Inv /\ [Next]_vars =>
          \A q \in Caller :
              Ends(q, Error \ {"deadline", "timeout", "canceled"}) =>
                  call'[q].trouble \/ call[q].at \in {"route", "configure", "verify"}
  BY StepInv DEF StepOK, EndOK, Ends, Upset, Error
<1> QED
  BY <1>1, Invariant, PTL DEF Spec, CacheBestEffort
=============================================================================
