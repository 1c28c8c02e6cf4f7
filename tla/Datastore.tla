------------------------------ MODULE Datastore ------------------------------
(***************************************************************************)
(* The datastore plugin (plugin_datastore_emscripten_int.js): the calls of *)
(* the datastore service become IndexedDB transactions, and the results of *)
(* their requests come back as events, between which the service makes     *)
(* other calls.                                                            *)
(*                                                                         *)
(* IndexedDB runs transactions on the one object store in the order they   *)
(* were created: one that writes runs alone, those that read may overlap.  *)
(* A transaction ends by itself after its last request: it commits, or, if *)
(* a request failed or the disk is full, everything it did is undone.      *)
(* Because a writer runs alone, a cursor that is moved until a record      *)
(* matches is one step here.                                               *)
(***************************************************************************)
EXTENDS Integers, Sequences, FiniteSets

CONSTANTS
  Key, Data, Type, \* hashes, contents, block types; 0 \in Type is "any type"
  Amount,          \* priorities, replications and anonymity levels of calls
  Time,            \* expiration times and values of the clock
  Stored,          \* the stores that may be found when the worker starts
  MaxUid,          \* bound: the key generator of the store
  Call,            \* the calls the service may make
  Op,              \* bound: identities of calls
  MaxFailure,      \* bound: requests that fail
  MaxFull,         \* bound: transactions that cannot be committed
  MaxCrash,        \* bound: deaths of the worker
  None,
  Careful          \* TRUE: `absent' is passed only while no put of the key is
                   \* under way and it is not stored

ASSUME NoneAssumption == None \notin Op \cup Key \cup Data
ASSUME NumbersAssumption ==
  Amount \subseteq Nat /\ Time \subseteq Nat /\ Type \subseteq Nat /\ MaxUid \in Nat
ASSUME BoundAssumption ==
  MaxFailure \in Nat /\ MaxFull \in Nat /\ MaxCrash \in Nat /\ Careful \in BOOLEAN

Uid == 1 .. MaxUid

\* A whole item.
Item == [uid : Uid, key : Key, data : Data, type : Type, priority : Nat,
         anonymity : Amount, replication : Nat, expiry : Time]

SameDataByReference(r, c) == FALSE

SameData(r, c) == r.key = c.key /\ r.data = c.data
SameKey(r, c) == r.key = c.key

\* Earlier workers have left whole items, none of them twice.
ASSUME StoredAssumption ==
  \A s \in Stored :
    s \subseteq Item /\ \A r, t \in s : r.uid = t.uid \/ SameData(r, t) => r = t

CallRecord ==
  [kind : {"put", "remove", "getKey", "getZero", "getKeys", "getReplication", "getExpiration"},
   key : Key \cup {None}, data : Data \cup {None}, type : Nat, absent : BOOLEAN, next : Nat,
   priority : Nat, anonymity : Nat, replication : Nat, expiry : Nat]

\* What the service passes; a put has a whole item.
Called(c) ==
  /\ c \in CallRecord
  /\ c.kind = "put" =>
       /\ c.key \in Key /\ c.data \in Data /\ c.type \in Type /\ c.expiry \in Time
       /\ c.priority \in Amount /\ c.anonymity \in Amount /\ c.replication \in Amount

ASSUME CallAssumption == \A c \in Call : Called(c)

VARIABLES
  db,        \* the records that are committed
  uids,      \* committed key generator: the last uid
  draft,     \* the records as the writing transaction sees them
  draftUids,
  txns,      \* calls with an open transaction, in the order of creation
  call,      \* what was called
  stage,     \* the request the call waits for
  found,     \* the record the cursor stopped at, or the one being written
  reply,     \* the calls of cont or proc
  now,       \* the clock
  failures, full, crashes

storeVars == <<db, uids, draft, draftUids>>
opVars    == <<txns, call, stage, found, reply>>
envVars   == <<now, failures, full, crashes>>
vars == <<storeVars, opVars, envVars>>

Record == [uid : Uid, key : Key \cup {None}, data : Data \cup {None}, type : Nat,
           priority : Nat, anonymity : Nat, replication : Nat, expiry : Nat]

LastUid(records) ==
  CHOOSE u \in 0 .. MaxUid :
    /\ u = 0 \/ \E r \in records : r.uid = u
    /\ \A r \in records : r.uid <= u

\* The object that add({}) stores until the item is put in its place.
Placeholder(u) ==
  [uid |-> u, key |-> None, data |-> None, type |-> 0, priority |-> 0,
   anonymity |-> 0, replication |-> 0, expiry |-> 0]

NoRecord == Placeholder(0)

\* The database is what earlier workers have left.
Init ==
  /\ db \in Stored /\ draft = db
  /\ uids = LastUid(db) /\ draftUids = uids
  /\ txns = <<>>
  /\ call = [o \in Op |-> None]
  /\ stage = [o \in Op |-> "new"]
  /\ found = [o \in Op |-> NoRecord]
  /\ reply = [o \in Op |-> <<>>]
  /\ now \in Time
  /\ failures = 0 /\ full = 0 /\ crashes = 0

-----------------------------------------------------------------------------

Kind(o) == call[o].kind

\* The mode of the call's transaction.
Reads(kind) == kind \in {"getKey", "getZero", "getKeys"}

\* A transaction runs when none created before it is in its way.
Runs(o) ==
  \E i \in 1 .. Len(txns) :
    /\ txns[i] = o
    /\ Reads(Kind(o)) \/ i = 1
    /\ \A j \in 1 .. i - 1 : Reads(Kind(txns[j]))

Position(o) == CHOOSE i \in 1 .. Len(txns) : txns[i] = o

Without(o) ==
  [i \in 1 .. Len(txns) - 1 |-> IF i < Position(o) THEN txns[i] ELSE txns[i + 1]]

\* What the call's transaction sees.
View(o) == IF Reads(Kind(o)) THEN db ELSE draft

OfType(r, c) == c.type = 0 \/ r.type = c.type

\* The records the call's cursor stops at.
Matches(o) ==
  LET c == call[o]
  IN  {r \in View(o) :
        CASE c.kind \in {"put", "remove"} -> SameData(r, c)
          [] c.kind = "getKey" ->
               /\ c.key # None => r.key = c.key /\ r.uid >= c.next
               /\ OfType(r, c)
          [] c.kind = "getReplication" -> r.key # None
          [] c.kind = "getExpiration" -> r.key # None /\ r.expiry < c.expiry
          [] c.kind = "getZero" ->
               r.key # None /\ r.anonymity = 0 /\ r.type = c.type /\ r.uid >= c.next
          [] c.kind = "getKeys" -> r.key # None}

\* by_replication is read backwards, by_expiry forwards, the others by uid.
Precedes(kind, r, s) ==
  CASE kind = "getReplication" ->
         \/ r.replication > s.replication
         \/ r.replication = s.replication /\ r.uid >= s.uid
    [] kind = "getExpiration" ->
         \/ r.expiry < s.expiry
         \/ r.expiry = s.expiry /\ r.uid <= s.uid
    [] OTHER -> r.uid <= s.uid

First(o) ==
  CHOOSE r \in Matches(o) : \A s \in Matches(o) : Precedes(Kind(o), r, s)

MergedOverwrites(r, c) ==
  [r EXCEPT !.priority = @ + c.priority, !.replication = @ + c.replication,
            !.expiry = c.expiry]

\* put of an item that is stored.
Merged(r, c) ==
  [r EXCEPT !.priority = @ + c.priority,
            !.replication = @ + c.replication,
            !.expiry = IF @ < c.expiry THEN c.expiry ELSE @]

Fresh(u, c) ==
  [uid |-> u, key |-> c.key, data |-> c.data, type |-> c.type,
   priority |-> c.priority, anonymity |-> c.anonymity,
   replication |-> c.replication, expiry |-> c.expiry]

Decremented(r) == [r EXCEPT !.replication = IF @ > 0 THEN @ - 1 ELSE @]

\* The record r takes the place of the one with its uid.
Written(view, r) == {s \in view : s.uid # r.uid} \cup {r}

\* Call back with x.
Answer(o, x) == reply' = [reply EXCEPT ![o] = Append(@, x)]
Status(n) == [status |-> n, record |-> NoRecord]
Found(r) == [status |-> 1, record |-> r]
NULL == Status(0)

To(o, s) == stage' = [stage EXCEPT ![o] = s]

-----------------------------------------------------------------------------
(* Calls.                                                                  *)

\* get_expiration takes the time of the call along.
WithTime(c) == IF c.kind = "getExpiration" THEN [c EXCEPT !.expiry = now] ELSE c

\* The transaction is created and its first request placed.
Start(o, c) ==
  /\ stage[o] = "new"
  /\ Careful /\ c.kind = "put" /\ c.absent =>
       /\ \A r \in db : ~SameKey(r, c)
       /\ \A i \in 1 .. Len(txns) :
            Kind(txns[i]) = "put" => ~SameKey(call[txns[i]], c)
  /\ call' = [call EXCEPT ![o] = WithTime(c)]
  /\ txns' = Append(txns, o)
  /\ To(o, IF c.kind = "put" /\ c.absent THEN "add" ELSE "search")
  /\ UNCHANGED <<storeVars, found, reply, envVars>>

-----------------------------------------------------------------------------
(* Events: the request of a running transaction has succeeded.             *)

PutSearched(o) ==
  /\ Runs(o) /\ stage[o] = "search" /\ Kind(o) = "put"
  /\ IF Matches(o) # {}
     THEN /\ found' = [found EXCEPT ![o] = Merged(First(o), call[o])]
          /\ To(o, "update")
     ELSE To(o, "add") /\ UNCHANGED found
  /\ UNCHANGED <<storeVars, txns, call, reply, envVars>>

\* add({}) has drawn a uid; the item is put in its place.
Added(o) ==
  /\ Runs(o) /\ stage[o] = "add"
  /\ draftUids < MaxUid
  /\ draftUids' = draftUids + 1
  /\ draft' = draft \cup {Placeholder(draftUids + 1)}
  /\ found' = [found EXCEPT ![o] = Fresh(draftUids + 1, call[o])]
  /\ To(o, "put")
  /\ UNCHANGED <<db, uids, txns, call, reply, envVars>>

\* The item is written; cont or proc is called.
Put(o) ==
  /\ Runs(o) /\ stage[o] \in {"put", "update"}
  /\ draft' = Written(draft, found[o])
  /\ Answer(o, CASE Kind(o) = "getReplication" -> Found(found[o])
                 [] stage[o] = "put" -> Status(1)
                 [] OTHER -> Status(0))
  /\ To(o, "settled")
  /\ UNCHANGED <<db, uids, draftUids, txns, call, found, envVars>>

NeverWraps(o) == FALSE

\* "do we need to wrap around?"
Wraps(o) == call[o].next # 0

WrapAroundAgain(o) == UNCHANGED call /\ txns' = Append(Without(o), o)

\* A search that finds nothing from next_uid on starts again from 0, in a new
\* transaction behind those that were created meanwhile.
WrapAround(o) ==
  /\ call' = [call EXCEPT ![o].next = 0]
  /\ txns' = Append(Without(o), o)

GetSearched(o) ==
  /\ Runs(o) /\ stage[o] = "search" /\ Kind(o) \in {"getKey", "getZero"}
  /\ CASE Matches(o) # {} -> Answer(o, Found(First(o))) /\ To(o, "settled") /\ UNCHANGED <<txns, call>>
       [] Matches(o) = {} /\ Wraps(o) -> WrapAround(o) /\ UNCHANGED <<stage, reply>>
       [] OTHER -> Answer(o, NULL) /\ To(o, "settled") /\ UNCHANGED <<txns, call>>
  /\ UNCHANGED <<storeVars, found, envVars>>

ReplicationSearched(o) ==
  /\ Runs(o) /\ stage[o] = "search" /\ Kind(o) = "getReplication"
  /\ IF Matches(o) # {}
     THEN /\ found' = [found EXCEPT ![o] = Decremented(First(o))]
          /\ To(o, "update")
          /\ UNCHANGED reply
     ELSE Answer(o, NULL) /\ To(o, "settled") /\ UNCHANGED found
  /\ UNCHANGED <<storeVars, txns, call, envVars>>

\* proc decides whether the expired record is deleted.
ExpirationSearched(o, keep) ==
  /\ Runs(o) /\ stage[o] = "search" /\ Kind(o) = "getExpiration"
  /\ IF Matches(o) # {}
     THEN /\ found' = [found EXCEPT ![o] = First(o)]
          /\ Answer(o, Found(First(o)))
          /\ To(o, IF keep THEN "settled" ELSE "delete")
     ELSE Answer(o, NULL) /\ To(o, "settled") /\ UNCHANGED found
  /\ UNCHANGED <<storeVars, txns, call, envVars>>

RemoveSearched(o) ==
  /\ Runs(o) /\ stage[o] = "search" /\ Kind(o) = "remove"
  /\ IF Matches(o) # {}
     THEN /\ found' = [found EXCEPT ![o] = First(o)]
          /\ To(o, "delete")
          /\ UNCHANGED reply
     ELSE Answer(o, Status(0)) /\ To(o, "settled") /\ UNCHANGED found
  /\ UNCHANGED <<storeVars, txns, call, envVars>>

\* get_keys reports the entries of by_key, then NULL.  The entry of an index
\* over [key, uid] is that pair, not a key: proc gets bytes made of it, of which
\* the uid is left.
IndexEntry(r) == Found(Placeholder(r.uid))

KeysSearched(o) ==
  LET left == {r \in Matches(o) :
                 \A i \in 1 .. Len(reply[o]) : reply[o][i] # IndexEntry(r)}
  IN  /\ Runs(o) /\ stage[o] = "search" /\ Kind(o) = "getKeys"
      /\ \/ (\E r \in left : Answer(o, IndexEntry(r))) /\ UNCHANGED stage
         \/ left = {} /\ Answer(o, NULL) /\ To(o, "settled")
      /\ UNCHANGED <<storeVars, txns, call, found, envVars>>

Deleted(o) ==
  /\ Runs(o) /\ stage[o] = "delete"
  /\ draft' = {r \in draft : r.uid # found[o].uid}
  /\ IF Kind(o) = "remove" THEN Answer(o, Status(1)) ELSE UNCHANGED reply
  /\ To(o, "settled")
  /\ UNCHANGED <<db, uids, draftUids, txns, call, found, envVars>>

-----------------------------------------------------------------------------
(* Endings.                                                                *)

Pending == {"search", "add", "put", "update", "delete"}

AnswerToAnyFailure(o) == IF Kind(o) \in {"put", "remove"} THEN <<Status(-1)>> ELSE <<NULL>>
AnswerSuccess(o) == <<Status(1)>>

\* onerror of the request o waits for.  The cursor of put and the delete of
\* get_expiration have none that calls back.
AnswerToFailure(o) ==
  CASE Kind(o) = "put" /\ stage[o] = "search" -> <<>>
    [] Kind(o) = "getExpiration" /\ stage[o] = "delete" -> <<>>
    [] Kind(o) \in {"put", "remove"} -> <<Status(-1)>>
    [] OTHER -> <<NULL>>

\* What a transaction did is undone.
Undone ==
  /\ draft' = db
  /\ draftUids' = uids
  /\ UNCHANGED <<db, uids>>

\* A request fails, which aborts its transaction.
Fail(o) ==
  /\ Runs(o) /\ stage[o] \in Pending
  /\ failures < MaxFailure
  /\ failures' = failures + 1
  /\ reply' = [reply EXCEPT ![o] = @ \o AnswerToFailure(o)]
  /\ txns' = Without(o)
  /\ To(o, "failed")
  /\ IF Reads(Kind(o)) THEN UNCHANGED storeVars ELSE Undone
  /\ UNCHANGED <<call, found, now, full, crashes>>

Commit(o) ==
  /\ Runs(o) /\ stage[o] = "settled"
  /\ txns' = Without(o)
  /\ To(o, "done")
  /\ IF Reads(Kind(o))
     THEN UNCHANGED storeVars
     ELSE db' = draft /\ uids' = draftUids /\ UNCHANGED <<draft, draftUids>>
  /\ UNCHANGED <<call, found, reply, envVars>>

\* The disk is full.  Nobody listens to the transaction's abort event.
CannotCommit(o) ==
  /\ Runs(o) /\ stage[o] = "settled" /\ ~Reads(Kind(o))
  /\ full < MaxFull
  /\ full' = full + 1
  /\ txns' = Without(o)
  /\ To(o, "failed")
  /\ Undone
  /\ UNCHANGED <<call, found, reply, now, failures, crashes>>

\* The worker dies with its last tab; a later one opens the database again.
Crash ==
  /\ crashes < MaxCrash
  /\ crashes' = crashes + 1
  /\ txns' = <<>>
  /\ stage' = [o \in Op |-> IF \E i \in 1 .. Len(txns) : txns[i] = o THEN "lost" ELSE stage[o]]
  /\ Undone
  /\ UNCHANGED <<call, found, reply, now, failures, full>>

Tick ==
  /\ \E t \in Time : t > now /\ now' = t
  /\ UNCHANGED <<storeVars, opVars, failures, full, crashes>>

-----------------------------------------------------------------------------

Event(o) ==
  \/ PutSearched(o) \/ Added(o) \/ Put(o)
  \/ GetSearched(o) \/ ReplicationSearched(o)
  \/ \E keep \in BOOLEAN : ExpirationSearched(o, keep)
  \/ RemoveSearched(o) \/ KeysSearched(o) \/ Deleted(o)
  \/ Commit(o)

Next ==
  \/ \E o \in Op :
       \/ \E c \in Call : Start(o, c)
       \/ Event(o)
       \/ Fail(o) \/ CannotCommit(o)
  \/ Crash
  \/ Tick

\* IndexedDB answers every request of a transaction that runs and ends it.
Fairness == \A o \in Op : WF_vars(Event(o))

Spec == Init /\ [][Next]_vars
FairSpec == Spec /\ Fairness

-----------------------------------------------------------------------------
(* Properties.                                                             *)

Reply == [status : -1 .. 1, record : Record \cup {NoRecord}]

\* Every variable has its type; what is committed are whole items.
TypeOK ==
  /\ db \subseteq Item /\ draft \subseteq Record
  /\ uids \in 0 .. MaxUid /\ draftUids \in 0 .. MaxUid
  /\ txns \in Seq(Op)
  /\ call \in [Op -> CallRecord \cup {None}]
  /\ stage \in [Op -> Pending \cup {"new", "settled", "done", "failed", "lost"}]
  /\ found \in [Op -> Record \cup {NoRecord}]
  /\ reply \in [Op -> Seq(Reply)]
  /\ now \in Time
  /\ failures \in 0 .. MaxFailure /\ full \in 0 .. MaxFull /\ crashes \in 0 .. MaxCrash

\* An item that is put twice, one after the other or at once, is stored once.
\* (With a caller that passes `absent' for a key that is just being put it is
\* not: put trusts the caller then.)
NoDuplicates ==
  Careful => \A r, s \in db : r.key = s.key /\ r.data = s.data => r = s

\* cont and proc are called once, however requests fail; get_keys reports
\* every entry once and NULL at the end.
AnsweredOnce ==
  \A o \in Op :
    /\ call[o] # None /\ Kind(o) # "getKeys" => Len(reply[o]) <= 1
    /\ \A i, j \in 1 .. Len(reply[o]) : reply[o][i] = reply[o][j] => i = j
    /\ \A i \in 1 .. Len(reply[o]) - 1 : reply[o][i] # NULL

\* The puts and removes whose transaction was aborted after they had told of a
\* success.
ToldInVain ==
  {o \in Op : /\ stage[o] = "failed" /\ Kind(o) \in {"put", "remove"}
              /\ reply[o] # <<>> /\ reply[o] # <<Status(-1)>>}

\* "cont continuation called with success or failure status": put and remove tell
\* of a failure only if their transaction was aborted, and of a success in vain
\* at most as often as the disk was full at a commit.
StatusIsTrue ==
  /\ \A o \in Op :
       /\ call[o] # None /\ Kind(o) \in {"put", "remove"}
       /\ reply[o] # <<>> /\ reply[o][1].status = -1
       => stage[o] = "failed"
  /\ Cardinality(ToldInVain) <= full

\* o is called back in this step, and not because of a failure.
Answers(o) == call[o] # None /\ reply'[o] # reply[o] /\ failures' = failures
Result(o) == reply'[o][Len(reply'[o])]

\* "will be called with NULL if nothing matches", and only then: a search that
\* started in the middle has seen the whole store in the end, although the store
\* changes between its two transactions.
NothingMissed ==
  [][\A o \in Op :
       Answers(o) /\ Kind(o) \in {"getKey", "getZero"} /\ Result(o) = NULL =>
         \A r \in db :
           IF Kind(o) = "getKey"
           THEN ~((call[o].key # None => SameKey(r, call[o])) /\ OfType(r, call[o]))
           ELSE ~(r.anonymity = 0 /\ r.type = call[o].type)]_vars

\* Every call is answered, whatever other calls are made, unless the worker
\* dies or the cursor of a put fails.
Answered ==
  \A o \in Op :
    stage[o] # "new" ~>
      \/ reply[o] # <<>>
      \/ stage[o] = "lost"
      \/ stage[o] = "failed" /\ Kind(o) = "put"

\* However puts fail or die half-way, the committed records are the
\* store of module Store: it has whole items only, each with a uid of its own,
\* and changes by one operation at a time.
Abstract == INSTANCE Store WITH store <- db
ImplementsStore == Abstract!Spec
=============================================================================
