------------------------------ MODULE Peerstore ------------------------------
(***************************************************************************)
(* The peerstore plugin (plugin_peerstore_emscripten_int.js): store,       *)
(* iterate and expire as IndexedDB transactions.  Transactions run as in   *)
(* module Datastore: in the order of creation, a writing one alone; they   *)
(* commit after their last request, and are undone when a request fails or *)
(* the disk is full.  Here cursors matter record by record, since each     *)
(* stop deletes or reports.                                                *)
(***************************************************************************)
EXTENDS Integers, Sequences, FiniteSets

CONSTANTS
  SubSystem, Peer, Key, Value,
  Time,        \* expiration times and values of the clock
  MaxId,       \* bound: the key generator of the store
  Call,        \* the calls the service may make
  Stored,      \* what may be stored from an earlier run
  Op,          \* bound: identities of calls
  MaxFailure,  \* bound: requests that fail
  MaxFull,     \* bound: transactions that cannot be committed
  MaxCrash,    \* bound: deaths of the worker
  Pointer,     \* the address of a double on the C stack
  None         \* NULL

ASSUME NoneAssumption == None \notin Op \cup SubSystem \cup Peer \cup Key
ASSUME TimeAssumption == Time \subseteq Nat /\ Pointer \in Nat \ Time
ASSUME BoundAssumption ==
  MaxId \in Nat /\ MaxFailure \in Nat /\ MaxFull \in Nat /\ MaxCrash \in Nat

Id == 1 .. MaxId
Record == [id : Id, sub_system : SubSystem, peer : Peer, key : Key, value : Value,
           expiry : Time]

\* Earlier workers have left records that the key generator has numbered.
ASSUME StoredAssumption ==
  \A S \in Stored : S \subseteq Record /\ \A r, t \in S : r.id = t.id => r = t

CallRecord ==
  [kind : {"store", "iterate", "expire"}, sub_system : SubSystem \cup {None},
   peer : Peer \cup {None}, key : Key \cup {None}, value : Value \cup {None},
   expiry : Nat, replace : BOOLEAN]

\* What the service passes; a store has a whole record.
Called(c) ==
  /\ c \in CallRecord
  /\ c.kind = "store" =>
       /\ c.sub_system \in SubSystem /\ c.peer \in Peer /\ c.key \in Key
       /\ c.value \in Value /\ c.expiry \in Time

ASSUME CallAssumption == \A c \in Call : Called(c)

VARIABLES
  db, ids,         \* committed records and key generator
  draft, draftIds, \* what the writing transaction sees
  txns,            \* calls with an open transaction, in the order of creation
  call, stage,
  visited,         \* the records the cursor of the call has stopped at
  reply,           \* the calls of cont or iter
  now, failures, full, crashes

storeVars == <<db, ids, draft, draftIds>>
opVars    == <<txns, call, stage, visited, reply>>
envVars   == <<now, failures, full, crashes>>
vars == <<storeVars, opVars, envVars>>

\* The store has a key generator.
LastId(R) == CHOOSE u \in 0 .. MaxId :
               /\ u = 0 \/ \E r \in R : r.id = u
               /\ \A r \in R : r.id <= u

Init ==
  /\ db \in Stored /\ draft = db
  /\ ids = LastId(db) /\ draftIds = ids
  /\ txns = <<>>
  /\ call = [o \in Op |-> None]
  /\ stage = [o \in Op |-> "new"]
  /\ visited = [o \in Op |-> {}]
  /\ reply = [o \in Op |-> <<>>]
  /\ now \in Time
  /\ failures = 0 /\ full = 0 /\ crashes = 0

-----------------------------------------------------------------------------

Kind(o) == call[o].kind

\* The mode of the call's transaction is 'readwrite'.
Writes(o) == Kind(o) # "iterate"

Runs(o) ==
  \E i \in 1 .. Len(txns) :
    /\ txns[i] = o
    /\ Writes(o) => i = 1
    /\ \A j \in 1 .. i - 1 : ~Writes(txns[j])

Position(o) == CHOOSE i \in 1 .. Len(txns) : txns[i] = o

Without(o) ==
  [i \in 1 .. Len(txns) - 1 |-> IF i < Position(o) THEN txns[i] ELSE txns[i + 1]]

View(o) == IF Writes(o) THEN draft ELSE db

Entry(r) == <<r.sub_system, r.peer, r.key>>

SameSubSystem(r, c) == r.sub_system = c.sub_system

\* The index by_all on the triple.
SameEntry(r, c) == Entry(r) = Entry(c)

\* The records the cursor of iterate stops at.  The range of by_subsystem is an
\* array, which no sub_system string equals.
Selected(r, c) ==
  CASE c.peer = None /\ c.key = None -> FALSE
    [] c.peer = None /\ c.key # None -> r.sub_system = c.sub_system /\ r.key = c.key
    [] OTHER -> SameEntry(r, c)

Expired(r, c) == r.expiry < c.expiry

Matches(o) ==
  {r \in View(o) :
     CASE Kind(o) = "iterate" -> Selected(r, call[o])
       [] Kind(o) = "expire" -> Expired(r, call[o])
       [] Kind(o) = "store" -> SameEntry(r, call[o])}

LeftOnlyOne(o) == IF visited[o] = {} THEN Matches(o) ELSE {}

\* What the cursor has not stopped at.
Left(o) == Matches(o) \ visited[o]

EndForgotten(o) == Matches(o) = {} /\ visited[o] = {}

\* The cursor is null.
AtEnd(o) == Left(o) = {}

CountAndOne(o) == Cardinality(visited[o]) + 1

\* The variable count of expire.
CountOf(o) == Cardinality(visited[o])

\* The record that store writes.
Fresh(u, c) ==
  [id |-> u, sub_system |-> c.sub_system, peer |-> c.peer, key |-> c.key,
   value |-> c.value, expiry |-> c.expiry]

Answer(o, x) == reply' = [reply EXCEPT ![o] = Append(@, x)]
Status(n) == [status |-> n, record |-> None]
NULL == Status(0)

\* iter_wrapper's record: the stored object has no field `subsystem', and the
\* wrapper takes the pointer for the time.
Reported(r) == [r EXCEPT !.sub_system = None, !.expiry = Pointer]

To(o, s) == stage' = [stage EXCEPT ![o] = s]

-----------------------------------------------------------------------------

\* Is there an index for the call?  iterate asks for 'by_peer', which was not
\* created (peerstore-pre.js has 'by_pid').
IndexExists(c) == ~(c.kind = "iterate" /\ c.peer # None /\ c.key = None)

\* The transaction is created and its first request placed.
Start(o, c) ==
  /\ stage[o] = "new"
  /\ call' = [call EXCEPT ![o] = IF c.kind = "expire" THEN [c EXCEPT !.expiry = now] ELSE c]
  /\ IF IndexExists(c)
     THEN /\ txns' = Append(txns, o)
          /\ To(o, IF c.kind = "store" /\ ~c.replace THEN "put" ELSE "cursor")
     ELSE To(o, "thrown") /\ UNCHANGED txns
  /\ UNCHANGED <<storeVars, visited, reply, envVars>>

\* The cursor stops at a record: it is deleted (store with REPLACE, expire) or
\* reported (iterate).
Stops(o, r) ==
  /\ Runs(o) /\ stage[o] = "cursor"
  /\ r \in Left(o)
  /\ visited' = [visited EXCEPT ![o] = @ \cup {r}]
  /\ IF Writes(o)
     THEN draft' = draft \ {r} /\ UNCHANGED reply
     ELSE Answer(o, [status |-> 1, record |-> Reported(r)]) /\ UNCHANGED draft
  /\ UNCHANGED <<db, ids, draftIds, txns, call, stage, envVars>>

\* The cursor is at its end.
Ends(o) ==
  /\ Runs(o) /\ stage[o] = "cursor"
  /\ AtEnd(o)
  /\ CASE Kind(o) = "store" -> To(o, "put") /\ UNCHANGED reply
       [] Kind(o) = "expire" -> To(o, "settled") /\ Answer(o, Status(CountOf(o)))
       [] Kind(o) = "iterate" -> To(o, "settled") /\ Answer(o, NULL)
  /\ UNCHANGED <<storeVars, txns, call, visited, envVars>>

\* The record is written.
Put(o) ==
  /\ Runs(o) /\ stage[o] = "put"
  /\ draftIds < MaxId
  /\ draftIds' = draftIds + 1
  /\ draft' = draft \cup {Fresh(draftIds + 1, call[o])}
  /\ Answer(o, Status(1))
  /\ To(o, "settled")
  /\ UNCHANGED <<db, ids, txns, call, visited, envVars>>

Commit(o) ==
  /\ Runs(o) /\ stage[o] = "settled"
  /\ txns' = Without(o)
  /\ To(o, "done")
  /\ IF Writes(o)
     THEN db' = draft /\ ids' = draftIds /\ UNCHANGED <<draft, draftIds>>
     ELSE UNCHANGED storeVars
  /\ UNCHANGED <<call, visited, reply, envVars>>

Undone ==
  /\ draft' = db
  /\ draftIds' = ids
  /\ UNCHANGED <<db, ids>>

AnswerToNoStore(o) == IF Kind(o) = "store" THEN <<>> ELSE <<Status(-1)>>

\* A request fails.  If it was a cursor's delete, the move of the cursor that
\* was placed with it fails too, so that its onerror is called in any case.
AnswerToFailure(o) == <<Status(-1)>>

Fail(o) ==
  /\ Runs(o) /\ stage[o] \in {"cursor", "put"}
  /\ failures < MaxFailure
  /\ failures' = failures + 1
  /\ reply' = [reply EXCEPT ![o] = @ \o AnswerToFailure(o)]
  /\ txns' = Without(o)
  /\ To(o, "failed")
  /\ IF Writes(o) THEN Undone ELSE UNCHANGED storeVars
  /\ UNCHANGED <<call, visited, now, full, crashes>>

\* The disk is full.  cont has been told of a success, and nobody listens to the
\* transaction's abort event.
CannotCommit(o) ==
  /\ Runs(o) /\ stage[o] = "settled" /\ Writes(o)
  /\ full < MaxFull
  /\ full' = full + 1
  /\ txns' = Without(o)
  /\ To(o, "failed")
  /\ Undone
  /\ UNCHANGED <<call, visited, reply, now, failures, crashes>>

\* The worker dies with its last tab.
Crash ==
  /\ crashes < MaxCrash
  /\ crashes' = crashes + 1
  /\ txns' = <<>>
  /\ stage' = [o \in Op |-> IF \E i \in 1 .. Len(txns) : txns[i] = o THEN "lost" ELSE stage[o]]
  /\ Undone
  /\ UNCHANGED <<call, visited, reply, now, failures, full>>

Tick ==
  /\ \E t \in Time : t > now /\ now' = t
  /\ UNCHANGED <<storeVars, opVars, failures, full, crashes>>

-----------------------------------------------------------------------------

Event(o) == (\E r \in View(o) : Stops(o, r)) \/ Ends(o) \/ Put(o) \/ Commit(o)

Next ==
  \/ \E o \in Op :
       \/ \E c \in Call : Start(o, c)
       \/ call[o] # None /\ Event(o)
       \/ Fail(o) \/ CannotCommit(o)
  \/ Crash
  \/ Tick

\* IndexedDB answers the requests of a transaction that runs and ends it.
Fairness == \A o \in Op : WF_vars(call[o] # None /\ Event(o))

Spec == Init /\ [][Next]_vars
FairSpec == Spec /\ Fairness

-----------------------------------------------------------------------------
(* Properties.                                                             *)

TypeOK ==
  /\ db \subseteq Record /\ draft \subseteq Record
  /\ ids \in 0 .. MaxId /\ draftIds \in 0 .. MaxId
  /\ txns \in Seq(Op)
  /\ stage \in [Op -> {"new", "cursor", "put", "settled", "done", "failed", "lost", "thrown"}]
  /\ visited \in [Op -> SUBSET Record]
  /\ \A o \in Op : \A i \in 1 .. Len(reply[o]) : reply[o][i].status \in -1 .. MaxId
  /\ now \in Time
  /\ failures \in 0 .. MaxFailure /\ full \in 0 .. MaxFull /\ crashes \in 0 .. MaxCrash

Started(o, kind) == call[o] # None /\ Kind(o) = kind

\* What expire is to delete, as long as nothing of it is committed.
Due(o) == {r \in db : Expired(r, call[o])}

\* "cont continuation called with the number of records expired": the count is
\* told before the commit.  It is that of the records that had expired when expire
\* was called, and the commit takes away these and no others; when there is no
\* commit (a full disk, the death of the worker) none of them goes.
CountIsTrue ==
  [][\A o \in Op :
       Started(o, "expire") /\ stage[o] = "settled" /\ stage'[o] # "settled" =>
         /\ reply[o] = <<Status(Cardinality(Due(o)))>>
         /\ db' = IF stage'[o] = "done" THEN db \ Due(o) ELSE db]_vars

\* iter is called once for every record that matches and then with NULL, the
\* store being as it was when the first one was found.
Wanted(r, c) ==
  /\ r.sub_system = c.sub_system
  /\ c.peer # None => r.peer = c.peer
  /\ c.key # None => r.key = c.key

IterateComplete ==
  \A o \in Op :
    Started(o, "iterate") /\ stage[o] = "settled" =>
      /\ visited[o] = {r \in db : Wanted(r, call[o])}
      /\ Len(reply[o]) = Cardinality(visited[o]) + 1
      /\ \A i \in 1 .. Len(reply[o]) : reply[o][i] = NULL <=> i = Len(reply[o])

\* The stores and expires whose transaction was aborted after they had told of a
\* success.
ToldInVain ==
  {o \in Op : stage[o] = "failed" /\ Writes(o) /\ reply[o] # <<Status(-1)>>}

\* A failed or finished store or expire has called back exactly once.  It has told
\* of a failure only if its transaction was aborted, and of a success in vain once
\* for every time that the disk was full at a commit, and never else.
AnsweredOnce ==
  /\ \A o \in Op :
       call[o] # None /\ Writes(o) /\ stage[o] \in {"settled", "done", "failed"} =>
         /\ Len(reply[o]) = 1
         /\ reply[o] = <<Status(-1)>> => stage[o] = "failed"
  /\ Cardinality(ToldInVain) = full

\* An iterate of a peer's records with any key, for which there is no index.
ByPeer(c) == c.kind = "iterate" /\ c.peer # None /\ c.key = None

\* Every call comes to its end, whatever others are open; only an iterate by peer
\* is one that throws.
CallsEnd ==
  \A o \in Op :
    stage[o] # "new" ~>
      \/ stage[o] \in {"done", "failed", "lost"}
      \/ stage[o] = "thrown" /\ ByPeer(call[o])

\* The committed records are the set of module Records.
Abstract == INSTANCE Records WITH records <- db
ImplementsRecords == Abstract!Spec
=============================================================================
