---------------------------- MODULE SessionStore ----------------------------
(***************************************************************************)
(* The encrypted session cache of one student (ouc/session_store.go): a    *)
(* record per credential and scope, each with its own lifetime, and per    *)
(* subject an index of the records, which DeleteStudent reads to find what *)
(* to erase.  Each method is one Redis transaction or a few commands;      *)
(* DeleteStudent reads its three indexes one by one and deletes in a later *)
(* transaction, while other processes save.                                *)
(*                                                                         *)
(* A credential is the student with one password: every password ever used *)
(* has keys of its own.  Records of earlier releases (v1, and v1 per       *)
(* level) may exist at the start and are never written again.              *)
(***************************************************************************)
EXTENDS Integers, Sequences, FiniteSets, Functions

CONSTANTS
    Credential,
    Ttl,          \* [Scope -> lifetimes the configurations give to its sessions]
    V1,           \* kinds of v1 record that may be left
    MaxTime,      \* bound on the clock
    MaxMishaps    \* bound on deletions begun, records damaged and Redis failures

Target == {"undergraduate", "graduate"}
Scope == Target \cup {"identity"}
Historical == [undergraduate |-> "v1undergraduate", graduate |-> "v1graduate"]
Old == {"v1", "v1undergraduate", "v1graduate"}
Key == Credential \X (Scope \cup Old)

ASSUME StoreAssumption ==
    /\ Ttl \in [Scope -> SUBSET (Nat \ {0})]
    /\ V1 \subseteq Old
    /\ MaxTime \in Nat /\ MaxMishaps \in Nat

Subject == {"student", "undergraduate", "graduate"}
SubjectOf(k) == CASE k[2] = "v1undergraduate" -> "undergraduate"
                  [] k[2] = "v1graduate"      -> "graduate"
                  [] OTHER                    -> "student"

VARIABLES
    now,
    store,        \* Key -> a record or None
    index,        \* Subject -> its keys and their expiry, or None
    deletion,     \* DeleteStudent under way: what is left to read, what it found
    late,         \* keys saved during a deletion, until saved or deleted again
    mishaps

storeVars == <<now, store, index, deletion, late, mishaps>>

None == [expires |-> 0]
Record == [expires : Nat, holds : SUBSET Scope, readable : BOOLEAN]
Idle == [left |-> {}, found |-> {}]
Order == [student |-> 1, undergraduate |-> 2, graduate |-> 3]
Deleting == deletion # Idle
Stored(k) == store[k] # None
Mishap == mishaps < MaxMishaps /\ mishaps' = mishaps + 1

StoreTypeOK ==
    /\ now \in Nat
    /\ store \in [Key -> Record \cup {None}]
    /\ \A i \in Subject : index[i] = None \/ (index[i].expires \in Nat /\ index[i].keys \subseteq Key)
    /\ deletion.left \subseteq Subject \cup {"commit"} /\ deletion.found \subseteq Key
    /\ late \subseteq Key /\ mishaps \in Nat

-----------------------------------------------------------------------------
(* LoadScope: the scope's own record, else what a v1 record holds for the  *)
(* scope.  A record that cannot be read ends the search.                   *)
Found(k, scope) == Stored(k) /\ store[k].readable /\ scope \in store[k].holds
LoadScope(c, scope) ==
    LET unreadable(k) == Stored(k) /\ ~store[k].readable
        sources == <<scope, "v1">> \o
                   IF scope \in Target THEN <<Historical[scope]>> ELSE <<>>
        ends == {n \in DOMAIN sources : \/ unreadable(<<c, sources[n]>>)
                                        \/ Found(<<c, sources[n]>>, scope)}
    IN  IF ends = {} THEN "miss"
        ELSE LET n == CHOOSE n \in ends : \A m \in ends : n <= m
             IN  IF unreadable(<<c, sources[n]>>) THEN "invalid"
                 ELSE IF n = 1 THEN "scoped"
                 ELSE "migrated"

(* saveKey, in one transaction: the record, its key in the index, and the  *)
(* index's expiry, never earlier than it was.                              *)
IndexedShorter(i, k, expires) ==     \* EXPIRE without GT
    [keys |-> (IF index[i] = None THEN {} ELSE index[i].keys) \cup {k},
     expires |-> expires]
Indexed(i, k, expires) ==
    [keys |-> (IF index[i] = None THEN {} ELSE index[i].keys) \cup {k},
     expires |-> IF index[i].expires > expires THEN index[i].expires ELSE expires]
SaveScope(c, scope, ttl) ==
    LET k == <<c, scope>>
        i == SubjectOf(k)
    IN  /\ store' = [store EXCEPT ![k] = [expires |-> now + ttl, holds |-> {scope},
                                          readable |-> TRUE]]
        /\ index' = [index EXCEPT ![i] = Indexed(i, k, now + ttl)]
        /\ late' = IF Deleting THEN late \cup {k} ELSE late \ {k}
        /\ UNCHANGED <<now, deletion, mishaps>>

(* Redis drops an index with its last key.                                 *)
Without(i, keys) ==
    IF index[i] = None \/ index[i].keys \subseteq keys THEN None
    ELSE [index[i] EXCEPT !.keys = @ \ keys]
Erase(keys) ==
    /\ store' = [k \in Key |-> IF k \in keys THEN None ELSE store[k]]
    /\ late' = late \ keys

(* DeleteScope: the scope's record, and the v1 records it may come from.   *)
DeleteScope(c, scope) ==
    LET keys == {<<c, scope>>, <<c, "v1">>} \cup
                IF scope \in Target THEN {<<c, Historical[scope]>>} ELSE {}
    IN  /\ Erase(keys)
        /\ index' = [i \in Subject |->
                        Without(i, {k \in keys : SubjectOf(k) = i})]
        /\ UNCHANGED <<now, deletion, mishaps>>

(* DeleteStudent: the SMEMBERS of each subject's index in turn, then one   *)
(* transaction; a Redis error ends it.                                     *)
StartDeletion ==
    /\ ~Deleting
    /\ Mishap
    /\ deletion' = [left |-> Subject \cup {"commit"}, found |-> {}]
    /\ UNCHANGED <<now, store, index, late>>

ReadIndex(i) ==
    /\ i \in deletion.left
    /\ \A j \in deletion.left \cap Subject : Order[i] <= Order[j]
    /\ deletion' = [left |-> deletion.left \ {i},
                    found |-> deletion.found \cup
                              IF index[i] = None THEN {} ELSE index[i].keys]
    /\ UNCHANGED <<now, store, index, late, mishaps>>

CommitDeletion ==
    /\ deletion.left = {"commit"}
    /\ Erase(deletion.found)
    /\ index' = [i \in Subject |-> None]
    /\ deletion' = Idle
    /\ UNCHANGED <<now, mishaps>>

FailDeletion ==
    /\ Deleting
    /\ deletion' = Idle
    /\ UNCHANGED <<now, store, index, late, mishaps>>

(* A key rotation or a damaged value: the record is there, not readable.   *)
Corrupt(k) ==
    /\ Stored(k) /\ store[k].readable
    /\ Mishap
    /\ store' = [store EXCEPT ![k].readable = FALSE]
    /\ UNCHANGED <<now, index, deletion, late>>

(* Redis expires records and indexes.                                      *)
Tick ==
    /\ now < MaxTime
    /\ now' = now + 1
    /\ store' = [k \in Key |-> IF store[k].expires <= now + 1 THEN None ELSE store[k]]
    /\ index' = [i \in Subject |-> IF index[i].expires <= now + 1 THEN None ELSE index[i]]
    /\ late' = {k \in late : store[k].expires > now + 1}
    /\ UNCHANGED <<deletion, mishaps>>

(* v1 records of an earlier release, indexed and with some life left.      *)
StoreInit ==
    /\ now = 0
    /\ deletion = Idle /\ late = {} /\ mishaps = 0
    /\ \E kept \in SUBSET (Credential \X V1), holds \in SUBSET Scope, ttl \in UNION Range(Ttl) :
        /\ store = [k \in Key |->
                       IF k \in kept
                       THEN [expires |-> ttl, holds |-> holds, readable |-> TRUE]
                       ELSE None]
        /\ index = [i \in Subject |->
                       LET keys == {k \in kept : SubjectOf(k) = i}
                       IN  IF keys = {} THEN None ELSE [keys |-> keys, expires |-> ttl]]

(* What goes on beside the queries that save and delete their sessions.    *)
StoreSteps ==
    \/ StartDeletion
    \/ \E i \in Subject : ReadIndex(i)
    \/ CommitDeletion
    \/ FailDeletion
    \/ \E k \in Key : Corrupt(k)
    \/ Tick

StoreNext ==
    \/ StoreSteps
    \/ \E c \in Credential, scope \in Scope :
           \/ \E ttl \in Ttl[scope] : SaveScope(c, scope, ttl)
           \/ DeleteScope(c, scope)

StoreSpec == StoreInit /\ [][StoreNext]_storeVars

-----------------------------------------------------------------------------
(* Properties.                                                             *)

(* saveKey's comment: never "shorten the student cleanup index below a     *)
(* still-live target session".  Every record can be found by the next      *)
(* deletion as long as it lives, unless it was saved during one.           *)
IndexCovers ==
    \A k \in Key :
        LET i == SubjectOf(k)
        IN  Stored(k) /\ k \notin late =>
                /\ index[i] # None
                /\ k \in index[i].keys
                /\ index[i].expires >= store[k].expires

(* DeleteStudent's comment: it "removes every indexed school session": no  *)
(* record that is indexed when it deletes stays behind.                    *)
RemovesEveryIndexed ==
    [][CommitDeletion =>
          \A i \in Subject, k \in Key :
              index[i] # None /\ k \in index[i].keys => store'[k] = None]_storeVars
=============================================================================
