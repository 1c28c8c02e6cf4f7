--------------------------- MODULE DatastoreProofs ---------------------------
(***************************************************************************)
(* Theorems about Datastore, for any calls, any stores that are found and  *)
(* any number of failures, full disks and deaths of the worker.            *)
(***************************************************************************)
EXTENDS Datastore, FiniteSetTheorems, SequenceTheorems, WellFoundedInduction, TLAPS

-----------------------------------------------------------------------------
(* The invariants.                                                         *)

Stages == Pending \cup {"new", "settled", "done", "failed", "lost"}

\* The requests a call can wait for.
Fits(o) ==
  /\ stage[o] \in {"add", "put"} => Kind(o) = "put"
  /\ stage[o] = "update" => Kind(o) \in {"put", "getReplication"}
  /\ stage[o] = "delete" => Kind(o) \in {"getExpiration", "remove"}

\* Calls and their transactions.
Calls ==
  /\ call \in [Op -> CallRecord \cup {None}]
  /\ stage \in [Op -> Stages]
  /\ txns \in Seq(Op)
  /\ \A i, j \in 1 .. Len(txns) : txns[i] = txns[j] => i = j
  /\ \A i \in 1 .. Len(txns) : stage[txns[i]] \in Pending \cup {"settled"}
  /\ \A o \in Op : stage[o] # "new" => Called(call[o]) /\ Fits(o)

\* Items with a uid of their own, the last of which is u.
Items(records, u) ==
  /\ records \subseteq Item /\ u \in 0 .. MaxUid
  /\ \A r \in records : r.uid <= u
  /\ \A r, s \in records : r.uid = s.uid => r = s

\* The transaction of o writes, and depends on what it has read or written.
Underway(o) ==
  \/ stage[o] \in {"put", "update", "delete", "settled"} /\ ~Reads(Kind(o))
  \/ stage[o] = "add" /\ ~call[o].absent

Unwritten == draft = db /\ draftUids = uids

MostToDo(r) == \A s \in db : s.replication <= r.replication

\* What a call has written.
Inserted(o) ==
  /\ Kind(o) = "put" /\ uids < MaxUid /\ draftUids = uids + 1
  /\ draft = db \cup {Fresh(draftUids, call[o])}
Changed(o) ==
  /\ draftUids = uids
  /\ \E r \in db :
       \/ Kind(o) = "put" /\ draft = (db \ {r}) \cup {Merged(r, call[o])}
       \/ MostToDo(r) /\ draft = (db \ {r}) \cup {Decremented(r)}
       \/ draft = db \ {r}

\* The draft, as the transaction that is underway has left it.
Drafted(o) ==
  /\ stage[o] = "add" => Unwritten
  /\ stage[o] = "put" =>
       /\ uids < MaxUid /\ draftUids = uids + 1
       /\ draft = db \cup {Placeholder(draftUids)} /\ found[o] = Fresh(draftUids, call[o])
  /\ stage[o] = "update" =>
       /\ Unwritten
       /\ \E r \in db : IF Kind(o) = "put" THEN found[o] = Merged(r, call[o])
                        ELSE MostToDo(r) /\ found[o] = Decremented(r)
  /\ stage[o] = "delete" => Unwritten /\ found[o] \in db
  /\ stage[o] = "settled" => Unwritten \/ Inserted(o) \/ Changed(o)

\* A transaction that is underway is the first; without one nothing is drafted.
Drafts ==
  /\ Items(db, uids)
  /\ \A o \in Op : Underway(o) => 1 \in 1 .. Len(txns) /\ txns[1] = o /\ Drafted(o)
  /\ (\A o \in Op : ~Underway(o)) => Unwritten

\* What calls have found and answered.
Results ==
  /\ found \in [Op -> Record \cup {NoRecord}]
  /\ reply \in [Op -> Seq(Reply)]

StoreInv == Calls /\ Drafts /\ Results

-----------------------------------------------------------------------------
(* The record a cursor stops at first.                                     *)

\* A set of numbers has a least one, and a greatest one when it has a bound.
LEMMA Least ==
  ASSUME NEW T, T \subseteq Nat, T # {} PROVE \E x \in T : \A y \in T : x <= y
<1> DEFINE Less == {p \in Nat \X Nat : p[1] < p[2]}
<1>1. OpToRel(<, Nat) = Less
  BY Zenon DEF OpToRel
<1>2. IsWellFoundedOn(Less, Nat)
  BY <1>1, NatLessThanWellFounded, Zenon
<1>3. PICK x \in T : \A y \in T : ~(<<y, x>> \in Less)
  <2> HIDE DEF Less
  <2> QED
    BY <1>2, WFMin
<1>4. ASSUME NEW y \in T PROVE x <= y
  <2>1. x \in Nat /\ y \in Nat /\ ~(<<y, x>> \in Less)
    BY <1>3
  <2>2. ~(y < x)
    BY <2>1
  <2> QED
    BY <2>1, <2>2
<1> QED
  BY <1>4

LEMMA Greatest ==
  ASSUME NEW T, T \subseteq Nat, T # {}, NEW b \in Nat, \A x \in T : x <= b
  PROVE  \E x \in T : \A y \in T : y <= x
<1> DEFINE D == {b - x : x \in T}
<1>1. D \subseteq Nat /\ D # {}
  <2>1. \A x \in T : b - x \in Nat
    OBVIOUS
  <2> QED
    BY <2>1
<1>2. PICK d \in D : \A y \in D : d <= y
  <2> HIDE DEF D
  <2> QED
    BY <1>1, Least
<1>3. PICK x \in T : d = b - x
  OBVIOUS
<1>4. \A y \in T : b - x <= b - y
  BY <1>2, <1>3
<1> QED
  BY <1>4

\* The replications of records with uids of their own have a bound.
LEMMA ReplicationsBounded ==
  ASSUME NEW records, NEW u, Items(records, u)
  PROVE  \E b \in Nat : \A r \in records : r.replication <= b
<1> DEFINE Bounded(n) == \E b \in Nat : \A r \in records : r.uid <= n => r.replication <= b
           T == {n \in Nat : ~Bounded(n)}
<1>1. u \in Nat /\ MaxUid \in Nat /\ \A r \in records : r.uid \in Nat /\ 1 <= r.uid /\ r.uid <= u /\ r.replication \in Nat
  BY NumbersAssumption DEF Items, Item, Uid
<1>2. CASE T = {}
  <2>1. Bounded(u)
    BY <1>1, <1>2
  <2> QED
    BY <1>1, <2>1
<1>3. CASE T # {}
  <2>1. PICK n \in T : \A m \in T : n <= m
    <3>1. T \subseteq Nat
      OBVIOUS
    <3> HIDE DEF T
    <3> QED
      BY <1>3, <3>1, Least
  <2>2. n # 0
    <3>1. Bounded(0)
      BY <1>1
    <3> QED
      BY <3>1
  <2>3. n \in Nat /\ n - 1 \in Nat /\ n - 1 \notin T
    BY <2>1, <2>2
  <2>4. PICK b \in Nat : \A r \in records : r.uid <= n - 1 => r.replication <= b
    BY <2>3
  <2>5. CASE \E r \in records : r.uid = n
    <3>1. PICK r \in records : r.uid = n
      BY <2>5
    <3>2. PICK c \in Nat : b <= c /\ r.replication <= c
      <4>1. b + r.replication \in Nat /\ b <= b + r.replication
            /\ r.replication <= b + r.replication
        BY <1>1
      <4> QED
        BY <4>1
    <3>3. \A s \in records : s.uid = n => s = r
      BY <3>1 DEF Items
    <3>4. \A s \in records : s.uid <= n => s.replication <= c
      BY <1>1, <2>3, <2>4, <3>2, <3>3
    <3> QED
      BY <3>4
  <2>6. CASE ~\E r \in records : r.uid = n
    <3>1. \A s \in records : s.uid <= n => s.replication <= b
      BY <1>1, <2>3, <2>4, <2>6
    <3> QED
      BY <3>1
  <2> QED
    BY <2>5, <2>6
<1> QED
  BY <1>2, <1>3

\* When the cursor of o stops at all, it stops at the first of the matches.
LEMMA FirstMatch ==
  ASSUME NEW o \in Op, NEW records, NEW u, Items(records, u),
         Matches(o) \subseteq records, Matches(o) # {}
  PROVE  /\ First(o) \in Matches(o)
         /\ \A s \in Matches(o) : Precedes(Kind(o), First(o), s)
<1> PICK M : M = Matches(o)
  OBVIOUS
<1>1. M # {} /\ \A r \in M : /\ r \in records /\ r.uid \in Nat /\ r.uid <= MaxUid
                             /\ r.replication \in Nat /\ r.expiry \in Nat
  <2>1. \A r \in M : r \in records /\ r \in Item
    BY DEF Items
  <2>2. ASSUME NEW r \in Item
        PROVE  r.uid \in Nat /\ r.uid <= MaxUid /\ r.replication \in Nat /\ r.expiry \in Nat
    <3>1. r.uid \in 1 .. MaxUid /\ r.replication \in Nat /\ r.expiry \in Time
      BY DEF Item, Uid
    <3>2. MaxUid \in Nat /\ Time \subseteq Nat
      BY NumbersAssumption
    <3>3. r.uid \in Nat /\ r.uid <= MaxUid
      BY <3>1, <3>2
    <3>4. r.expiry \in Nat
      BY <3>1, <3>2
    <3> QED
      BY <3>1, <3>3, <3>4
  <2> QED
    BY <2>1, <2>2
<1> SUFFICES \E r \in M : \A s \in M : Precedes(Kind(o), r, s)
  BY DEF First
<1>2. CASE Kind(o) = "getReplication"
  <2> DEFINE N == {r.replication : r \in M}
  <2>1. PICK b \in Nat : \A r \in M : r.replication <= b
    BY <1>1, ReplicationsBounded
  <2>2. PICK n \in N : \A m \in N : m <= n
    <3>1. N \subseteq Nat /\ N # {} /\ \A m \in N : m <= b
      BY <1>1, <2>1
    <3> HIDE DEF N
    <3> QED
      BY <3>1, Greatest
  <2> DEFINE U == {r.uid : r \in {s \in M : s.replication = n}}
  <2>3. PICK v \in U : \A w \in U : w <= v
    <3>1. U \subseteq Nat /\ U # {} /\ \A w \in U : w <= MaxUid
      BY <1>1, <2>2
    <3> HIDE DEF U
    <3> QED
      BY <3>1, Greatest, NumbersAssumption
  <2>4. PICK r \in M : r.replication = n /\ r.uid = v
    BY <2>3
  <2>5. ASSUME NEW s \in M PROVE \/ r.replication > s.replication
                                 \/ (r.replication = s.replication /\ r.uid >= s.uid)
    <3>1. s.replication <= n /\ (s.replication = n => s.uid <= v)
      BY <2>2, <2>3
    <3>2. /\ s.replication \in Nat /\ s.uid \in Nat
          /\ r.replication \in Nat /\ r.uid \in Nat
      BY <1>1
    <3> QED
      BY <2>4, <3>1, <3>2
  <2> QED
    BY <1>2, <2>5 DEF Precedes
<1>3. CASE Kind(o) = "getExpiration"
  <2> DEFINE N == {r.expiry : r \in M}
  <2>1. PICK n \in N : \A m \in N : n <= m
    <3>1. N \subseteq Nat /\ N # {}
      BY <1>1
    <3> HIDE DEF N
    <3> QED
      BY <3>1, Least
  <2> DEFINE U == {r.uid : r \in {s \in M : s.expiry = n}}
  <2>2. PICK v \in U : \A w \in U : v <= w
    <3>1. U \subseteq Nat /\ U # {}
      BY <1>1, <2>1
    <3> HIDE DEF U
    <3> QED
      BY <3>1, Least
  <2>3. PICK r \in M : r.expiry = n /\ r.uid = v
    BY <2>2
  <2>4. ASSUME NEW s \in M PROVE \/ r.expiry < s.expiry
                                 \/ (r.expiry = s.expiry /\ r.uid <= s.uid)
    <3>1. n <= s.expiry /\ (s.expiry = n => v <= s.uid)
      BY <2>1, <2>2
    <3>2. s.expiry \in Nat /\ s.uid \in Nat /\ r.expiry \in Nat /\ r.uid \in Nat
      BY <1>1
    <3> QED
      BY <2>3, <3>1, <3>2
  <2> QED
    BY <1>3, <2>4 DEF Precedes
<1>4. CASE Kind(o) \notin {"getReplication", "getExpiration"}
  <2> DEFINE U == {r.uid : r \in M}
  <2>1. PICK v \in U : \A w \in U : v <= w
    <3>1. U \subseteq Nat /\ U # {}
      BY <1>1
    <3> HIDE DEF U
    <3> QED
      BY <3>1, Least
  <2>2. PICK r \in M : r.uid = v
    BY <2>1
  <2>3. \A s \in M : r.uid <= s.uid
    BY <2>1, <2>2
  <2> QED
    BY <1>4, <2>3 DEF Precedes
<1> QED
  BY <1>2, <1>3, <1>4

-----------------------------------------------------------------------------
(* Transactions.                                                           *)

\* The last uid of what earlier workers have left.
LEMMA LastUidFacts ==
  ASSUME NEW records \in Stored
  PROVE  LastUid(records) \in 0 .. MaxUid /\ \A r \in records : r.uid <= LastUid(records)
<1>1. \A r \in records : r.uid \in Nat /\ r.uid \in 0 .. MaxUid /\ r.uid <= MaxUid
  BY StoredAssumption, NumbersAssumption DEF Item, Uid
<1>2. \E u \in 0 .. MaxUid : /\ u = 0 \/ \E r \in records : r.uid = u
                             /\ \A r \in records : r.uid <= u
  <2>1. CASE records = {}
    BY <2>1, NumbersAssumption
  <2>2. CASE records # {}
    <3> DEFINE U == {r.uid : r \in records}
    <3>1. PICK u \in U : \A w \in U : w <= u
      <4>1. U \subseteq Nat /\ U # {} /\ \A w \in U : w <= MaxUid
        BY <1>1, <2>2
      <4> HIDE DEF U
      <4> QED
        BY <4>1, Greatest, NumbersAssumption
    <3> QED
      BY <1>1, <3>1
  <2> QED
    BY <2>1, <2>2
<1> QED
  BY <1>2 DEF LastUid

\* What is left of the transactions when the one of o ends.
LEMMA WithoutFacts ==
  ASSUME Calls, NEW o \in Op, Runs(o)
  PROVE  /\ Len(txns) \in Nat /\ Without(o) \in Seq(Op)
         /\ \E k \in 1 .. Len(txns) :
              /\ txns[k] = o
              /\ Len(Without(o)) = Len(txns) - 1
              /\ \A i \in 1 .. Len(Without(o)) :
                   Without(o)[i] = IF i < k THEN txns[i] ELSE txns[i + 1]
         /\ \A i \in 1 .. Len(Without(o)) :
              /\ Without(o)[i] # o
              /\ \E j \in 1 .. Len(txns) : Without(o)[i] = txns[j]
         /\ \A i, j \in 1 .. Len(Without(o)) : Without(o)[i] = Without(o)[j] => i = j
<1>1. PICK k \in 1 .. Len(txns) : k = Position(o) /\ txns[k] = o
  BY DEF Runs, Position
<1>2. txns \in Seq(Op) /\ Len(txns) \in Nat /\ \A i, j \in 1 .. Len(txns) : txns[i] = txns[j] => i = j
  BY DEF Calls
<1>3. PICK n \in Nat : n = Len(txns) - 1
  BY <1>1, <1>2
<1>4. PICK w : w = Without(o)
  OBVIOUS
<1>5. w = [i \in 1 .. n |-> IF i < k THEN txns[i] ELSE txns[i + 1]]
  BY <1>1, <1>3, <1>4 DEF Without
<1>6. \A i \in 1 .. n : i \in 1 .. Len(txns) /\ i + 1 \in 1 .. Len(txns)
  BY <1>2, <1>3
<1>7. w \in Seq(Op) /\ Len(w) = n
  <2>1. \A i \in 1 .. n : (IF i < k THEN txns[i] ELSE txns[i + 1]) \in Op
    BY <1>2, <1>6
  <2> QED
    BY <1>5, <2>1
<1>8. \A i \in 1 .. n : w[i] = IF i < k THEN txns[i] ELSE txns[i + 1]
  BY <1>5
<1>9. \A i \in 1 .. n : w[i] # o /\ \E j \in 1 .. Len(txns) : w[i] = txns[j]
  <2> SUFFICES ASSUME NEW i \in 1 .. n
               PROVE  w[i] # o /\ \E j \in 1 .. Len(txns) : w[i] = txns[j]
    OBVIOUS
  <2>1. CASE i < k
    BY <1>1, <1>2, <1>6, <1>8, <2>1
  <2>2. CASE ~(i < k)
    <3>1. w[i] = txns[i + 1] /\ i + 1 # k
      BY <1>8, <2>2
    <3> QED
      BY <1>1, <1>2, <1>6, <3>1
  <2> QED
    BY <2>1, <2>2
<1>10. \A i, j \in 1 .. n : w[i] = w[j] => i = j
  <2> SUFFICES ASSUME NEW i \in 1 .. n, NEW j \in 1 .. n, w[i] = w[j] PROVE i = j
    OBVIOUS
  <2>1. (IF i < k THEN i ELSE i + 1) = (IF j < k THEN j ELSE j + 1)
    BY <1>2, <1>6, <1>8
  <2> QED
    BY <2>1
<1> QED
  BY <1>1, <1>2, <1>3, <1>4, <1>7, <1>8, <1>9, <1>10

\* A call whose transaction runs.
LEMMA Running ==
  ASSUME Calls, NEW o \in Op, Runs(o)
  PROVE  /\ stage[o] \in Pending \cup {"settled"} /\ stage[o] # "new"
         /\ Called(call[o]) /\ Fits(o) /\ call[o] \in CallRecord
         /\ Len(txns) \in Nat /\ 1 \in 1 .. Len(txns)
         /\ ~Reads(Kind(o)) => txns[1] = o
         /\ Reads(Kind(o)) => txns[1] = o \/ Reads(Kind(txns[1]))
<1>1. PICK i \in 1 .. Len(txns) :
        /\ txns[i] = o
        /\ Reads(Kind(o)) \/ i = 1
        /\ \A j \in 1 .. i - 1 : Reads(Kind(txns[j]))
  BY DEF Runs
<1>2. stage[o] \in Pending \cup {"settled"}
  BY <1>1 DEF Calls
<1>3. stage[o] # "new"
  BY <1>2 DEF Pending
<1>4. Called(call[o]) /\ Fits(o) /\ call[o] \in CallRecord
  BY <1>3 DEF Calls, Called
<1>5. Len(txns) \in Nat
  BY DEF Calls
<1>6. 1 \in 1 .. Len(txns) /\ (i # 1 => 1 \in 1 .. i - 1)
  BY <1>1, <1>5
<1> QED
  BY <1>1, <1>2, <1>3, <1>4, <1>5, <1>6

\* The stage of a running call changes.
LEMMA CallsMoved ==
  ASSUME Calls, NEW o \in Op, Runs(o), call' = call, txns' = txns,
         NEW s \in Pending \cup {"settled"}, stage' = [stage EXCEPT ![o] = s], Fits(o)'
  PROVE  Calls'
<1>1. stage' \in [Op -> Stages] /\ stage'[o] = s /\ \A p \in Op \ {o} : stage'[p] = stage[p]
  BY DEF Calls, Stages
<1>2. \A i \in 1 .. Len(txns) : txns[i] \in Op /\ stage[txns[i]] \in Pending \cup {"settled"}
  BY DEF Calls
<1>3. \A i \in 1 .. Len(txns') : stage'[txns'[i]] \in Pending \cup {"settled"}
  BY <1>1, <1>2
<1>4. Called(call[o])
  BY Running
<1>5. ASSUME NEW p \in Op, stage'[p] # "new" PROVE Called(call[p])' /\ Fits(p)'
  <2>1. CASE p = o
    BY <1>4, <2>1 DEF Called
  <2>2. CASE p # o
    <3>1. stage'[p] = stage[p]
      BY <1>1, <2>2
    <3> QED
      BY <1>5, <3>1 DEF Calls, Fits, Kind, Called
  <2> QED
    BY <2>1, <2>2
<1> QED
  BY <1>1, <1>3, <1>5 DEF Calls

\* The transaction of a running call ends.
LEMMA CallsEnded ==
  ASSUME Calls, NEW o \in Op, Runs(o), call' = call, txns' = Without(o),
         NEW s \in {"done", "failed"}, stage' = [stage EXCEPT ![o] = s]
  PROVE  Calls'
<1>1. stage' \in [Op -> Stages] /\ stage'[o] = s /\ \A p \in Op \ {o} : stage'[p] = stage[p]
  BY DEF Calls, Stages
<1>2. /\ txns' \in Seq(Op)
      /\ \A i \in 1 .. Len(txns') : txns'[i] # o /\ \E j \in 1 .. Len(txns) : txns'[i] = txns[j]
      /\ \A i, j \in 1 .. Len(txns') : txns'[i] = txns'[j] => i = j
  <2>1. PICK w : w = Without(o)
    OBVIOUS
  <2>2. /\ w \in Seq(Op)
        /\ \A i \in 1 .. Len(w) : w[i] # o /\ \E j \in 1 .. Len(txns) : w[i] = txns[j]
        /\ \A i, j \in 1 .. Len(w) : w[i] = w[j] => i = j
    BY <2>1, WithoutFacts
  <2>3. txns' = w
    BY <2>1
  <2> QED
    BY <2>2, <2>3
<1>3. \A j \in 1 .. Len(txns) : txns[j] \in Op /\ stage[txns[j]] \in Pending \cup {"settled"}
  BY DEF Calls
<1>4. \A i \in 1 .. Len(txns') : stage'[txns'[i]] \in Pending \cup {"settled"}
  BY <1>1, <1>2, <1>3
<1>5. Called(call[o])
  BY Running
<1>6. ASSUME NEW p \in Op, stage'[p] # "new" PROVE Called(call[p])' /\ Fits(p)'
  <2>1. CASE p = o
    BY <1>1, <1>5, <2>1 DEF Called, Fits
  <2>2. CASE p # o
    <3>1. stage'[p] = stage[p]
      BY <1>1, <2>2
    <3> QED
      BY <1>6, <3>1 DEF Calls, Fits, Kind, Called
  <2> QED
    BY <2>1, <2>2
<1> QED
  BY <1>1, <1>2, <1>4, <1>6 DEF Calls

LEMMA CallsStarted ==
  ASSUME Calls, NEW o \in Op, NEW c \in Call, Start(o, c), now \in Time PROVE Calls'
<1>1. /\ stage[o] = "new" /\ call' = [call EXCEPT ![o] = WithTime(c)]
      /\ txns' = Append(txns, o)
      /\ stage' = [stage EXCEPT ![o] = IF c.kind = "put" /\ c.absent THEN "add" ELSE "search"]
  BY DEF Start, To
<1>2. Called(WithTime(c)) /\ WithTime(c).kind = c.kind
  <2>1. Called(c) /\ now \in Nat
    BY CallAssumption, NumbersAssumption
  <2> QED
    BY <2>1 DEF Called, CallRecord, WithTime
<1>3. /\ call' \in [Op -> CallRecord \cup {None}] /\ call'[o] = WithTime(c)
      /\ \A p \in Op \ {o} : call'[p] = call[p]
  BY <1>1, <1>2 DEF Calls, Called
<1>4. /\ stage' \in [Op -> Stages] /\ stage'[o] \in {"add", "search"}
      /\ stage'[o] = "add" => c.kind = "put"
      /\ \A p \in Op \ {o} : stage'[p] = stage[p]
  BY <1>1 DEF Calls, Stages, Pending
<1>5. /\ txns' \in Seq(Op) /\ Len(txns') = Len(txns) + 1 /\ Len(txns) \in Nat
      /\ txns'[Len(txns) + 1] = o
      /\ \A i \in 1 .. Len(txns) : txns'[i] = txns[i]
  BY <1>1, AppendProperties DEF Calls
<1>6. \A i \in 1 .. Len(txns') : i \in 1 .. Len(txns) \/ i = Len(txns) + 1
  BY <1>5
<1>7. \A i \in 1 .. Len(txns) : /\ txns[i] \in Op /\ stage[txns[i]] \in Pending \cup {"settled"}
                                /\ txns[i] # o
  BY <1>1 DEF Calls, Pending
<1>8. \A i \in 1 .. Len(txns') : stage'[txns'[i]] \in Pending \cup {"settled"}
  BY <1>4, <1>5, <1>6, <1>7 DEF Pending
<1>9. \A i, j \in 1 .. Len(txns') : txns'[i] = txns'[j] => i = j
  BY <1>5, <1>6, <1>7 DEF Calls
<1>10. ASSUME NEW p \in Op, stage'[p] # "new" PROVE Called(call[p])' /\ Fits(p)'
  <2>1. CASE p = o
    BY <1>2, <1>3, <1>4, <2>1 DEF Called, Fits, Kind
  <2>2. CASE p # o
    <3>1. stage'[p] = stage[p] /\ call'[p] = call[p]
      BY <1>3, <1>4, <2>2
    <3> QED
      BY <1>10, <3>1 DEF Calls, Fits, Kind, Called
  <2> QED
    BY <2>1, <2>2
<1> QED
  BY <1>3, <1>4, <1>5, <1>8, <1>9, <1>10 DEF Calls

\* A search wraps around.
LEMMA CallsWrapped ==
  ASSUME Calls, NEW o \in Op, Runs(o), WrapAround(o), stage' = stage PROVE Calls'
<1>1. /\ call' = [call EXCEPT ![o].next = 0] /\ txns' = Append(Without(o), o)
  BY DEF WrapAround
<1>2. /\ Called(call[o]) /\ Fits(o) /\ stage[o] \in Pending \cup {"settled"}
  BY Running
<1>3. /\ call' \in [Op -> CallRecord \cup {None}] /\ Called(call'[o]) /\ call'[o].kind = call[o].kind
      /\ \A p \in Op \ {o} : call'[p] = call[p]
  <2>1. [call[o] EXCEPT !.next = 0] \in CallRecord
    BY <1>2 DEF Called, CallRecord
  <2>2. call' = [call EXCEPT ![o] = [call[o] EXCEPT !.next = 0]]
    BY <1>1
  <2>3. call'[o] = [call[o] EXCEPT !.next = 0] /\ call' \in [Op -> CallRecord \cup {None}]
        /\ \A p \in Op \ {o} : call'[p] = call[p]
    BY <2>1, <2>2 DEF Calls
  <2> QED
    BY <1>2, <2>1, <2>3 DEF Called, CallRecord
<1>4. PICK w \in Seq(Op) : w = Without(o)
  <2>1. Without(o) \in Seq(Op)
    BY WithoutFacts
  <2> QED
    BY <2>1
<1>5. /\ \A i \in 1 .. Len(w) : w[i] # o /\ \E j \in 1 .. Len(txns) : w[i] = txns[j]
      /\ \A i, j \in 1 .. Len(w) : w[i] = w[j] => i = j
  BY <1>4, WithoutFacts
<1>6. /\ txns' \in Seq(Op) /\ Len(txns') = Len(w) + 1 /\ Len(w) \in Nat
      /\ txns'[Len(w) + 1] = o /\ \A i \in 1 .. Len(w) : txns'[i] = w[i]
  BY <1>1, <1>4, AppendProperties
<1>7. \A i \in 1 .. Len(txns') : i \in 1 .. Len(w) \/ i = Len(w) + 1
  BY <1>6
<1>8. \A j \in 1 .. Len(txns) : stage[txns[j]] \in Pending \cup {"settled"}
  BY DEF Calls
<1>9. \A i \in 1 .. Len(txns') : stage'[txns'[i]] \in Pending \cup {"settled"}
  BY <1>2, <1>5, <1>6, <1>7, <1>8
<1>10. \A i, j \in 1 .. Len(txns') : txns'[i] = txns'[j] => i = j
  BY <1>5, <1>6, <1>7
<1>11. ASSUME NEW p \in Op, stage'[p] # "new" PROVE Called(call[p])' /\ Fits(p)'
  <2>1. CASE p = o
    BY <1>2, <1>3, <2>1 DEF Called, Fits, Kind
  <2>2. CASE p # o
    BY <1>3, <1>11, <2>2 DEF Calls, Fits, Kind, Called
  <2> QED
    BY <2>1, <2>2
<1> QED
  BY <1>3, <1>6, <1>9, <1>10, <1>11 DEF Calls

LEMMA CallsLost == ASSUME Calls, Crash PROVE Calls'
<1>1. /\ txns' = <<>> /\ call' = call
      /\ stage' = [o \in Op |-> IF \E i \in 1 .. Len(txns) : txns[i] = o THEN "lost" ELSE stage[o]]
  BY DEF Crash
<1>2. txns' \in Seq(Op) /\ Len(txns') = 0
  BY <1>1
<1>3. stage' \in [Op -> Stages] /\ \A o \in Op : stage'[o] \in {"lost", stage[o]}
  BY <1>1 DEF Calls, Stages
<1>4. \A o \in Op : stage'[o] = "lost" =>
        stage[o] = "lost" \/ \E i \in 1 .. Len(txns) : txns[i] = o
  BY <1>1
<1>5. \A o \in Op : stage'[o] # "new" => stage[o] # "new"
  <2>1. \A i \in 1 .. Len(txns) : stage[txns[i]] # "new"
    BY DEF Calls, Pending
  <2> QED
    BY <1>3, <1>4, <2>1
<1>6. \A o \in Op : stage'[o] # "new" => Called(call[o])' /\ Fits(o)'
  BY <1>1, <1>3, <1>5 DEF Calls, Fits, Kind, Called
<1> QED
  BY <1>1, <1>2, <1>3, <1>6 DEF Calls

-----------------------------------------------------------------------------
(* Items and drafts.                                                       *)

\* Only the call whose transaction runs is underway.
LEMMA RunsAlone ==
  ASSUME StoreInv, NEW o \in Op, Runs(o)
  PROVE  /\ \A p \in Op \ {o} : ~Underway(p)
         /\ ~Underway(o) => Unwritten
         /\ Underway(o) => Drafted(o)
<1>1. Calls /\ Drafts
  BY DEF StoreInv
<1>2. ASSUME NEW p \in Op, p # o, Underway(p) PROVE FALSE
  <2>1. txns[1] = p
    BY <1>1, <1>2 DEF Drafts
  <2>2. Reads(Kind(p))
    BY <1>1, <1>2, <2>1, Running
  <2>3. stage[p] = "add" /\ ~call[p].absent
    BY <1>2, <2>2 DEF Underway
  <2>4. Kind(p) = "put"
    BY <1>1, <2>3 DEF Calls, Fits
  <2> QED
    BY <2>2, <2>4 DEF Reads
<1>3. ~Underway(o) => Unwritten
  BY <1>1, <1>2 DEF Drafts
<1>4. Underway(o) => Drafted(o)
  BY <1>1 DEF Drafts
<1> QED
  BY <1>2, <1>3, <1>4

\* What a step of a running call has to leave.
LEMMA DraftsMoved ==
  ASSUME StoreInv, NEW o \in Op, Runs(o),
         \A p \in Op \ {o} : call'[p] = call[p] /\ stage'[p] = stage[p],
         Items(db, uids)',
         Underway(o)' => 1 \in 1 .. Len(txns') /\ txns'[1] = o /\ Drafted(o)',
         ~Underway(o)' => Unwritten'
  PROVE  Drafts'
<1>1. \A p \in Op \ {o} : ~Underway(p)'
  BY RunsAlone DEF Underway, Kind
<1>2. \A p \in Op : Underway(p)' => 1 \in 1 .. Len(txns') /\ txns'[1] = p /\ Drafted(p)'
  BY <1>1
<1>3. (\A p \in Op : ~Underway(p)') => Unwritten'
  OBVIOUS
<1> QED
  BY <1>2, <1>3 DEF Drafts

LEMMA FreshItem ==
  ASSUME NEW c, Called(c), c.kind = "put", NEW u \in Uid
  PROVE  Fresh(u, c) \in Item
<1>1. c.priority \in Nat /\ c.replication \in Nat
  BY DEF Called, CallRecord
<1> QED
  BY <1>1 DEF Called, Fresh, Item

LEMMA MergedItem ==
  ASSUME NEW r \in Item, NEW c, Called(c), c.kind = "put"
  PROVE  Merged(r, c) \in Item /\ Merged(r, c).uid = r.uid
         /\ Merged(r, c).key = r.key /\ Merged(r, c).data = r.data
<1>1. c.priority \in Nat /\ c.replication \in Nat /\ c.expiry \in Time
  BY DEF Called, CallRecord
<1>2. r.priority + c.priority \in Nat /\ r.replication + c.replication \in Nat
  BY <1>1 DEF Item
<1>3. (IF r.expiry < c.expiry THEN c.expiry ELSE r.expiry) \in Time
  BY <1>1 DEF Item
<1> QED
  BY <1>2, <1>3 DEF Merged, Item

LEMMA DecrementedItem ==
  ASSUME NEW r \in Item
  PROVE  Decremented(r) \in Item /\ Decremented(r).uid = r.uid
         /\ Decremented(r).key = r.key /\ Decremented(r).data = r.data
<1>1. (IF r.replication > 0 THEN r.replication - 1 ELSE r.replication) \in Nat
  BY DEF Item
<1> QED
  BY <1>1 DEF Decremented, Item

LEMMA ItemRecord == Item \subseteq Record
BY NumbersAssumption DEF Item, Record

\* A record takes the place of the one with its uid, or of a placeholder.
LEMMA Replaced ==
  ASSUME NEW u, Items(db, u), NEW r \in db, NEW s \in Item, s.uid = r.uid
  PROVE  /\ Written(db, s) = (db \ {r}) \cup {s}
         /\ Items((db \ {r}) \cup {s}, u)
BY DEF Items, Written

LEMMA Removed ==
  ASSUME NEW u, Items(db, u), NEW r \in db
  PROVE  /\ {s \in db : s.uid # r.uid} = db \ {r}
         /\ Items(db \ {r}, u)
BY DEF Items

LEMMA Filled ==
  ASSUME NEW u, Items(db, u), u < MaxUid, NEW r \in Item, r.uid = u + 1
  PROVE  /\ Written(db \cup {Placeholder(u + 1)}, r) = db \cup {r}
         /\ Items(db \cup {r}, u + 1)
<1>1. u \in Nat /\ MaxUid \in Nat /\ u + 1 \in 0 .. MaxUid
  BY NumbersAssumption DEF Items
<1>2. \A s \in db : s.uid \in Nat /\ s.uid <= u /\ s.uid # u + 1 /\ s.uid <= u + 1
  <2>1. \A s \in db : s.uid \in Uid /\ s.uid <= u
    BY DEF Items, Item
  <2> QED
    BY <1>1, <2>1 DEF Uid
<1>3. Placeholder(u + 1).uid = u + 1
  BY DEF Placeholder
<1>4. Written(db \cup {Placeholder(u + 1)}, r) = db \cup {r}
  BY <1>2, <1>3 DEF Written
<1>5. Items(db \cup {r}, u + 1)
  <2>1. \A s \in db \cup {r} : s \in Item /\ s.uid <= u + 1
    BY <1>1, <1>2 DEF Items
  <2>2. \A s, t \in db \cup {r} : s.uid = t.uid => s = t
    BY <1>2 DEF Items
  <2> QED
    BY <1>1, <2>1, <2>2 DEF Items
<1> QED
  BY <1>4, <1>5

\* What a settled transaction has drafted are items.
LEMMA DraftedItems ==
  ASSUME StoreInv, NEW o \in Op, stage[o] = "settled", Drafted(o)
  PROVE  Items(draft, draftUids)
<1>1. Items(db, uids) /\ Called(call[o])
  BY DEF StoreInv, Drafts, Calls
<1>2. CASE Unwritten
  BY <1>1, <1>2 DEF Unwritten
<1>3. CASE Inserted(o)
  <2>1. uids + 1 \in Uid
    BY <1>1, <1>3, NumbersAssumption DEF Inserted, Items, Uid
  <2>2. Fresh(uids + 1, call[o]) \in Item /\ Fresh(uids + 1, call[o]).uid = uids + 1
    BY <1>1, <1>3, <2>1, FreshItem DEF Inserted, Fresh, Kind
  <2> QED
    BY <1>1, <1>3, <2>2, Filled DEF Inserted
<1>4. CASE Changed(o)
  <2>1. PICK r \in db :
          \/ Kind(o) = "put" /\ draft = (db \ {r}) \cup {Merged(r, call[o])}
          \/ draft = (db \ {r}) \cup {Decremented(r)}
          \/ draft = db \ {r}
    BY <1>4 DEF Changed
  <2>2. r \in Item /\ draftUids = uids
    BY <1>1, <1>4 DEF Items, Changed
  <2> QED
    BY <1>1, <2>1, <2>2, MergedItem, DecrementedItem, Replaced, Removed DEF Kind
<1> QED
  BY <1>2, <1>3, <1>4 DEF Drafted

\* What is not underway.
LEMMA Searching ==
  ASSUME StoreInv, NEW o \in Op, Runs(o), stage[o] = "search"
  PROVE  /\ Unwritten /\ Items(db, uids) /\ Called(call[o])
         /\ Matches(o) \subseteq db
         /\ Matches(o) # {} => /\ First(o) \in Matches(o) /\ First(o) \in db /\ First(o) \in Item
                               /\ \A s \in Matches(o) : Precedes(Kind(o), First(o), s)
<1>1. Unwritten
  BY RunsAlone DEF Underway
<1>2. Items(db, uids) /\ Called(call[o])
  BY Running DEF StoreInv, Drafts
<1>3. Matches(o) \subseteq db
  BY <1>1 DEF Matches, View, Unwritten
<1> QED
  BY <1>1, <1>2, <1>3, FirstMatch DEF Items

-----------------------------------------------------------------------------
(* The steps.                                                              *)

LEMMA AnswerTyped ==
  ASSUME Results, NEW o \in Op, NEW x \in Reply, Answer(o, x)
  PROVE  reply' \in [Op -> Seq(Reply)]
<1>1. Append(reply[o], x) \in Seq(Reply)
  BY AppendProperties DEF Results
<1> QED
  BY <1>1 DEF Results, Answer

LEMMA ReplyTypes ==
  /\ \A n \in {-1, 0, 1} : Status(n) \in Reply
  /\ NULL \in Reply
  /\ \A r \in Record \cup {NoRecord} : Found(r) \in Reply
BY DEF Status, NULL, Found, Reply

LEMMA PutSearchedKeeps ==
  ASSUME StoreInv, NEW o \in Op, PutSearched(o) PROVE StoreInv'
<1>1. /\ Runs(o) /\ stage[o] = "search" /\ Kind(o) = "put"
      /\ UNCHANGED <<db, uids, draft, draftUids, txns, call, reply>>
  BY DEF PutSearched, storeVars
<1>2. \/ /\ Matches(o) # {} /\ found' = [found EXCEPT ![o] = Merged(First(o), call[o])]
         /\ stage' = [stage EXCEPT ![o] = "update"]
      \/ found' = found /\ stage' = [stage EXCEPT ![o] = "add"]
  BY DEF PutSearched, To
<1>3. PICK s \in {"update", "add"} : stage' = [stage EXCEPT ![o] = s]
  BY <1>2
<1>4. stage'[o] = s /\ \A p \in Op \ {o} : stage'[p] = stage[p]
  BY <1>3 DEF StoreInv, Calls
<1>5. Calls'
  <2>1. Fits(o)'
    BY <1>1, <1>4 DEF Fits, Kind
  <2> QED
    BY <1>1, <1>3, <2>1, CallsMoved DEF StoreInv, Pending
<1>6. /\ Unwritten /\ Items(db, uids) /\ Called(call[o])
      /\ Matches(o) # {} => First(o) \in db /\ First(o) \in Item
  BY <1>1, Searching
<1>7. Items(db, uids)' /\ Unwritten'
  BY <1>1, <1>6 DEF Items, Unwritten
<1>8. txns'[1] = o /\ 1 \in 1 .. Len(txns')
  BY <1>1, Running DEF StoreInv, Reads
<1>9. Drafted(o)' /\ found' \in [Op -> Record \cup {NoRecord}]
  <2>1. CASE /\ Matches(o) # {} /\ found' = [found EXCEPT ![o] = Merged(First(o), call[o])]
             /\ stage' = [stage EXCEPT ![o] = "update"]
    <3>1. Merged(First(o), call[o]) \in Record
      BY <1>1, <1>6, <2>1, MergedItem, ItemRecord DEF Kind
    <3>2. found' \in [Op -> Record \cup {NoRecord}] /\ found'[o] = Merged(First(o), call[o])
      BY <2>1, <3>1 DEF StoreInv, Results
    <3>3. stage'[o] = "update"
      BY <2>1 DEF StoreInv, Calls
    <3>4. \E r \in db' : found'[o] = Merged(r, call'[o])
      BY <1>1, <1>6, <2>1, <3>2
    <3> QED
      BY <1>1, <1>7, <3>2, <3>3, <3>4 DEF Drafted, Kind
  <2>2. CASE found' = found /\ stage' = [stage EXCEPT ![o] = "add"]
    <3>1. stage'[o] = "add"
      BY <2>2 DEF StoreInv, Calls
    <3> QED
      BY <1>7, <2>2, <3>1 DEF Drafted, StoreInv, Results
  <2> QED
    BY <1>2, <2>1, <2>2
<1>10. Drafts'
  BY <1>1, <1>4, <1>7, <1>8, <1>9, DraftsMoved
<1>11. Results'
  BY <1>1, <1>9 DEF Results, StoreInv
<1> QED
  BY <1>5, <1>10, <1>11 DEF StoreInv

LEMMA AddedKeeps ==
  ASSUME StoreInv, NEW o \in Op, Added(o) PROVE StoreInv'
<1>1. /\ Runs(o) /\ stage[o] = "add" /\ draftUids < MaxUid
      /\ draftUids' = draftUids + 1 /\ draft' = draft \cup {Placeholder(draftUids + 1)}
      /\ found' = [found EXCEPT ![o] = Fresh(draftUids + 1, call[o])]
      /\ stage' = [stage EXCEPT ![o] = "put"]
      /\ UNCHANGED <<db, uids, txns, call, reply>>
  BY DEF Added, To
<1>2. stage'[o] = "put" /\ \A p \in Op \ {o} : stage'[p] = stage[p]
  BY <1>1 DEF StoreInv, Calls
<1>3. Kind(o) = "put" /\ Called(call[o])
  BY <1>1, Running DEF StoreInv, Fits
<1>4. Calls'
  <2>1. Fits(o)'
    BY <1>1, <1>2, <1>3 DEF Fits, Kind
  <2> QED
    BY <1>1, <2>1, CallsMoved DEF StoreInv, Pending
<1>5. Unwritten
  BY <1>1, RunsAlone DEF Drafted
<1>6. Items(db, uids) /\ Items(db, uids)' /\ draftUids + 1 \in Uid /\ uids < MaxUid
  <2>1. Items(db, uids)
    BY DEF StoreInv, Drafts
  <2> QED
    BY <1>1, <1>5, <2>1, NumbersAssumption DEF Items, Unwritten, Uid
<1>7. found' \in [Op -> Record \cup {NoRecord}] /\ found'[o] = Fresh(draftUids + 1, call[o])
  BY <1>1, <1>3, <1>6, FreshItem, ItemRecord DEF StoreInv, Results, Kind
<1>8. txns'[1] = o /\ 1 \in 1 .. Len(txns')
  BY <1>1, <1>3, Running DEF StoreInv, Reads
<1>9. Drafted(o)'
  BY <1>1, <1>2, <1>5, <1>6, <1>7 DEF Drafted, Unwritten
<1>10. Underway(o)'
  BY <1>1, <1>2, <1>3 DEF Underway, Reads, Kind
<1>11. Drafts'
  BY <1>1, <1>2, <1>6, <1>8, <1>9, <1>10, DraftsMoved
<1>12. Results'
  BY <1>1, <1>7 DEF Results, StoreInv
<1> QED
  BY <1>4, <1>11, <1>12 DEF StoreInv

LEMMA PutKeeps ==
  ASSUME StoreInv, NEW o \in Op, Put(o) PROVE StoreInv'
<1>1. /\ Runs(o) /\ stage[o] \in {"put", "update"}
      /\ draft' = Written(draft, found[o])
      /\ stage' = [stage EXCEPT ![o] = "settled"]
      /\ UNCHANGED <<db, uids, draftUids, txns, call, found>>
  BY DEF Put, To
<1>2. stage'[o] = "settled" /\ \A p \in Op \ {o} : stage'[p] = stage[p]
  BY <1>1 DEF StoreInv, Calls
<1>3. /\ Called(call[o]) /\ ~Reads(Kind(o)) /\ Items(db, uids)
      /\ Kind(o) \in {"put", "getReplication"} /\ (stage[o] = "put" => Kind(o) = "put")
  BY <1>1, Running DEF StoreInv, Fits, Reads, Drafts
<1>4. Calls'
  <2>1. Fits(o)'
    BY <1>2 DEF Fits
  <2> QED
    BY <1>1, <2>1, CallsMoved DEF StoreInv
<1>5. Underway(o) /\ Drafted(o)
  <2>1. Underway(o)
    BY <1>1, <1>3 DEF Underway
  <2> QED
    BY <1>1, <2>1, RunsAlone
<1>6. Drafted(o)'
  <2>1. CASE stage[o] = "put"
    <3>1. /\ uids < MaxUid /\ draftUids = uids + 1 /\ found[o] = Fresh(uids + 1, call[o])
          /\ draft = db \cup {Placeholder(uids + 1)}
      BY <1>5, <2>1 DEF Drafted
    <3>2. uids + 1 \in Uid
      BY <1>3, <3>1, NumbersAssumption DEF Items, Uid
    <3>3. Fresh(uids + 1, call[o]) \in Item /\ Fresh(uids + 1, call[o]).uid = uids + 1
      BY <1>3, <2>1, <3>2, FreshItem DEF Fresh, Kind
    <3>4. draft' = db \cup {Fresh(uids + 1, call[o])}
      BY <1>1, <1>3, <3>1, <3>3, Filled
    <3>5. Inserted(o)'
      BY <1>1, <1>3, <2>1, <3>1, <3>4 DEF Inserted, Kind
    <3> QED
      BY <1>2, <3>5 DEF Drafted
  <2>2. CASE stage[o] = "update"
    <3>1. PICK r \in db : /\ draft = db /\ draftUids = uids
                          /\ IF Kind(o) = "put" THEN found[o] = Merged(r, call[o])
                             ELSE MostToDo(r) /\ found[o] = Decremented(r)
      BY <1>5, <2>2 DEF Drafted, Unwritten
    <3>2. r \in Item
      BY <1>3 DEF Items
    <3>3. found[o] \in Item /\ found[o].uid = r.uid
      BY <1>3, <3>1, <3>2, MergedItem, DecrementedItem DEF Kind
    <3>4. draft' = (db \ {r}) \cup {found[o]}
      BY <1>1, <1>3, <3>1, <3>3, Replaced
    <3>5. /\ draftUids' = uids'
          /\ \/ Kind(o)' = "put" /\ draft' = (db' \ {r}) \cup {Merged(r, call'[o])}
             \/ MostToDo(r)' /\ draft' = (db' \ {r}) \cup {Decremented(r)}
      BY <1>1, <3>1, <3>4 DEF Kind, MostToDo
    <3>6. Changed(o)'
      BY <1>1, <3>5 DEF Changed
    <3> QED
      BY <1>2, <3>6 DEF Drafted
  <2> QED
    BY <1>1, <2>1, <2>2
<1>7. txns'[1] = o /\ 1 \in 1 .. Len(txns')
  BY <1>1, <1>3, Running DEF StoreInv
<1>8. Underway(o)' /\ Items(db, uids)'
  BY <1>1, <1>2, <1>3 DEF Underway, Kind, Items
<1>9. Drafts'
  BY <1>1, <1>2, <1>6, <1>7, <1>8, DraftsMoved
<1>10. Results'
  <2>1. PICK x : Answer(o, x) /\ x \in {Found(found[o]), Status(0), Status(1)}
    BY DEF Put
  <2>2. x \in Reply
    BY <2>1, ReplyTypes DEF StoreInv, Results
  <2>3. reply' \in [Op -> Seq(Reply)]
    BY <2>1, <2>2, AnswerTyped DEF StoreInv
  <2> QED
    BY <1>1, <2>3 DEF Results, StoreInv
<1> QED
  BY <1>4, <1>9, <1>10 DEF StoreInv

\* The cursor of o has stopped, or has found nothing.
LEMMA SearchedKeeps ==
  ASSUME StoreInv, NEW o \in Op, Runs(o), stage[o] = "search",
         UNCHANGED <<db, uids, draft, draftUids, txns, call>>,
         NEW s \in Pending \cup {"settled"}, stage' = [stage EXCEPT ![o] = s],
         Fits(o)', Drafted(o)', Results'
  PROVE  StoreInv'
<1>1. stage'[o] = s /\ \A p \in Op \ {o} : stage'[p] = stage[p]
  BY DEF StoreInv, Calls
<1>2. Calls'
  BY CallsMoved DEF StoreInv
<1>3. Unwritten' /\ Items(db, uids)'
  BY Searching DEF Unwritten, Items
<1>4. Underway(o)' => ~Reads(Kind(o))
  BY DEF Underway, Fits, Reads, Kind
<1>5. Underway(o)' => txns'[1] = o /\ 1 \in 1 .. Len(txns')
  BY <1>4, Running DEF StoreInv
<1>6. Drafts'
  BY <1>1, <1>3, <1>5, DraftsMoved
<1> QED
  BY <1>2, <1>6 DEF StoreInv

LEMMA GetSearchedKeeps ==
  ASSUME StoreInv, NEW o \in Op, GetSearched(o) PROVE StoreInv'
<1>1. /\ Runs(o) /\ stage[o] = "search" /\ Kind(o) \in {"getKey", "getZero"}
      /\ UNCHANGED <<db, uids, draft, draftUids, found>>
  BY DEF GetSearched, storeVars
<1>2. \/ \E x \in {Found(First(o)), NULL} :
           /\ (x = Found(First(o)) => Matches(o) # {} \/ x = NULL)
           /\ Answer(o, x) /\ stage' = [stage EXCEPT ![o] = "settled"]
           /\ UNCHANGED <<txns, call>>
      \/ WrapAround(o) /\ UNCHANGED <<stage, reply>>
  <2>1. CASE Matches(o) # {}
    BY <2>1 DEF GetSearched, To
  <2>2. CASE Matches(o) = {} /\ Wraps(o)
    BY <2>2 DEF GetSearched
  <2>3. CASE Matches(o) = {} /\ ~Wraps(o)
    BY <2>3 DEF GetSearched, To
  <2> QED
    BY <2>1, <2>2, <2>3
<1>3. CASE WrapAround(o) /\ UNCHANGED <<stage, reply>>
  <2>1. Calls'
    BY <1>1, <1>3, CallsWrapped DEF StoreInv
  <2>2. /\ \A p \in Op \ {o} : call'[p] = call[p] /\ stage'[p] = stage[p]
        /\ stage'[o] = "search"
    BY <1>1, <1>3 DEF StoreInv, Calls, WrapAround
  <2>3. ~Underway(o)'
    BY <2>2 DEF Underway
  <2>4. Unwritten' /\ Items(db, uids)'
    BY <1>1, Searching DEF Unwritten, Items
  <2>5. Drafts'
    BY <1>1, <2>2, <2>3, <2>4, DraftsMoved
  <2>6. Results'
    BY <1>1, <1>3 DEF StoreInv, Results
  <2> QED
    BY <2>1, <2>5, <2>6 DEF StoreInv
<1>4. ASSUME NEW x \in {Found(First(o)), NULL},
             x = Found(First(o)) => Matches(o) # {} \/ x = NULL,
             Answer(o, x), stage' = [stage EXCEPT ![o] = "settled"], UNCHANGED <<txns, call>>
      PROVE  StoreInv'
  <2>1. x \in Reply
    <3>1. Matches(o) # {} => First(o) \in Record
      BY <1>1, Searching, ItemRecord
    <3> QED
      BY <1>4, <3>1, ReplyTypes
  <2>2. Results'
    BY <1>1, <1>4, <2>1, AnswerTyped DEF StoreInv, Results
  <2>3. stage'[o] = "settled"
    BY <1>4 DEF StoreInv, Calls
  <2>4. Fits(o)' /\ Drafted(o)'
    <3>1. Unwritten
      BY <1>1, Searching
    <3> QED
      BY <1>1, <2>3, <3>1 DEF Fits, Drafted, Unwritten
  <2> QED
    BY <1>1, <1>4, <2>2, <2>4, SearchedKeeps
<1> QED
  BY <1>2, <1>3, <1>4

\* The first match of get_replication has the most to do.
LEMMA MostReplications ==
  ASSUME StoreInv, NEW o \in Op, Runs(o), stage[o] = "search", Kind(o) = "getReplication",
         Matches(o) # {}
  PROVE  MostToDo(First(o))
<1>1. Matches(o) = {r \in draft : r.key # None}
  BY DEF Matches, View, Reads, Kind
<1>2. /\ draft = db /\ db \subseteq Item
      /\ First(o) \in db /\ \A s \in Matches(o) : Precedes(Kind(o), First(o), s)
  BY Searching DEF Unwritten, Items
<1>3. Matches(o) = db
  BY <1>1, <1>2, NoneAssumption DEF Item
<1>4. ASSUME NEW s \in db PROVE s.replication <= First(o).replication
  <2>1. s.replication \in Nat /\ First(o).replication \in Nat
    BY <1>2 DEF Item
  <2>2. \/ First(o).replication > s.replication
        \/ First(o).replication = s.replication
    BY <1>2, <1>3 DEF Precedes
  <2> QED
    BY <2>1, <2>2
<1> QED
  BY <1>4 DEF MostToDo

LEMMA ReplicationSearchedKeeps ==
  ASSUME StoreInv, NEW o \in Op, ReplicationSearched(o) PROVE StoreInv'
<1>1. /\ Runs(o) /\ stage[o] = "search" /\ Kind(o) = "getReplication"
      /\ UNCHANGED <<db, uids, draft, draftUids, txns, call>>
  BY DEF ReplicationSearched, storeVars
<1>2. /\ Unwritten /\ Unwritten'
      /\ Matches(o) # {} => First(o) \in db /\ First(o) \in Item
  BY <1>1, Searching DEF Unwritten
<1>3. CASE /\ Matches(o) # {} /\ found' = [found EXCEPT ![o] = Decremented(First(o))]
           /\ stage' = [stage EXCEPT ![o] = "update"] /\ reply' = reply
  <2>1. MostToDo(First(o))
    BY <1>1, <1>3, MostReplications
  <2>2. Decremented(First(o)) \in Record
    BY <1>2, <1>3, DecrementedItem, ItemRecord
  <2>3. found' \in [Op -> Record \cup {NoRecord}] /\ found'[o] = Decremented(First(o))
    BY <1>3, <2>2 DEF StoreInv, Results
  <2>4. stage'[o] = "update"
    BY <1>3 DEF StoreInv, Calls
  <2>5. Results'
    BY <1>3, <2>3 DEF StoreInv, Results
  <2>6. Fits(o)'
    BY <1>1, <2>4 DEF Fits, Kind
  <2>7. Drafted(o)'
    <3>1. \E r \in db' : MostToDo(r)' /\ found'[o] = Decremented(r)
      BY <1>1, <1>2, <1>3, <2>1, <2>3 DEF MostToDo
    <3> QED
      BY <1>1, <1>2, <2>4, <3>1 DEF Drafted, Kind
  <2> QED
    BY <1>1, <1>3, <2>5, <2>6, <2>7, SearchedKeeps DEF Pending
<1>4. CASE Answer(o, NULL) /\ stage' = [stage EXCEPT ![o] = "settled"] /\ found' = found
  <2>1. Results'
    BY <1>4, ReplyTypes, AnswerTyped DEF StoreInv, Results
  <2>2. stage'[o] = "settled"
    BY <1>4 DEF StoreInv, Calls
  <2>3. Fits(o)' /\ Drafted(o)'
    BY <1>2, <2>2 DEF Fits, Drafted
  <2> QED
    BY <1>1, <1>4, <2>1, <2>3, SearchedKeeps
<1> QED
  BY <1>3, <1>4 DEF ReplicationSearched, To

LEMMA ExpirationSearchedKeeps ==
  ASSUME StoreInv, NEW o \in Op, NEW keep, ExpirationSearched(o, keep) PROVE StoreInv'
<1>1. /\ Runs(o) /\ stage[o] = "search" /\ Kind(o) = "getExpiration"
      /\ UNCHANGED <<db, uids, draft, draftUids, txns, call>>
  BY DEF ExpirationSearched, storeVars
<1>2. /\ Unwritten /\ Unwritten'
      /\ Matches(o) # {} => First(o) \in db /\ First(o) \in Record
  BY <1>1, Searching, ItemRecord DEF Unwritten
<1>3. CASE /\ Matches(o) # {} /\ found' = [found EXCEPT ![o] = First(o)]
           /\ Answer(o, Found(First(o)))
           /\ \E s \in {"settled", "delete"} : stage' = [stage EXCEPT ![o] = s]
  <2>1. PICK s \in {"settled", "delete"} : stage' = [stage EXCEPT ![o] = s]
    BY <1>3
  <2>2. found' \in [Op -> Record \cup {NoRecord}] /\ found'[o] = First(o)
    BY <1>2, <1>3 DEF StoreInv, Results
  <2>3. Results'
    BY <1>2, <1>3, <2>2, ReplyTypes, AnswerTyped DEF StoreInv, Results
  <2>4. stage'[o] = s
    BY <2>1 DEF StoreInv, Calls
  <2>5. Fits(o)'
    BY <1>1, <2>4 DEF Fits, Kind
  <2>6. Drafted(o)'
    BY <1>1, <1>2, <1>3, <2>2, <2>4 DEF Drafted
  <2> QED
    BY <1>1, <2>1, <2>3, <2>5, <2>6, SearchedKeeps DEF Pending
<1>4. CASE Answer(o, NULL) /\ stage' = [stage EXCEPT ![o] = "settled"] /\ found' = found
  <2>1. Results'
    BY <1>4, ReplyTypes, AnswerTyped DEF StoreInv, Results
  <2>2. stage'[o] = "settled"
    BY <1>4 DEF StoreInv, Calls
  <2>3. Fits(o)' /\ Drafted(o)'
    BY <1>2, <2>2 DEF Fits, Drafted
  <2> QED
    BY <1>1, <1>4, <2>1, <2>3, SearchedKeeps
<1> QED
  BY <1>3, <1>4 DEF ExpirationSearched, To

LEMMA RemoveSearchedKeeps ==
  ASSUME StoreInv, NEW o \in Op, RemoveSearched(o) PROVE StoreInv'
<1>1. /\ Runs(o) /\ stage[o] = "search" /\ Kind(o) = "remove"
      /\ UNCHANGED <<db, uids, draft, draftUids, txns, call>>
  BY DEF RemoveSearched, storeVars
<1>2. /\ Unwritten /\ Unwritten'
      /\ Matches(o) # {} => First(o) \in db /\ First(o) \in Record
  BY <1>1, Searching, ItemRecord DEF Unwritten
<1>3. CASE /\ Matches(o) # {} /\ found' = [found EXCEPT ![o] = First(o)]
           /\ stage' = [stage EXCEPT ![o] = "delete"] /\ reply' = reply
  <2>1. found' \in [Op -> Record \cup {NoRecord}] /\ found'[o] = First(o)
    BY <1>2, <1>3 DEF StoreInv, Results
  <2>2. Results'
    BY <1>3, <2>1 DEF StoreInv, Results
  <2>3. stage'[o] = "delete"
    BY <1>3 DEF StoreInv, Calls
  <2>4. Fits(o)' /\ Drafted(o)'
    BY <1>1, <1>2, <1>3, <2>1, <2>3 DEF Fits, Drafted, Kind
  <2> QED
    BY <1>1, <1>3, <2>2, <2>4, SearchedKeeps DEF Pending
<1>4. CASE Answer(o, Status(0)) /\ stage' = [stage EXCEPT ![o] = "settled"] /\ found' = found
  <2>1. Results'
    BY <1>4, ReplyTypes, AnswerTyped DEF StoreInv, Results
  <2>2. stage'[o] = "settled"
    BY <1>4 DEF StoreInv, Calls
  <2>3. Fits(o)' /\ Drafted(o)'
    BY <1>2, <2>2 DEF Fits, Drafted
  <2> QED
    BY <1>1, <1>4, <2>1, <2>3, SearchedKeeps
<1> QED
  BY <1>3, <1>4 DEF RemoveSearched, To

LEMMA KeysSearchedKeeps ==
  ASSUME StoreInv, NEW o \in Op, KeysSearched(o) PROVE StoreInv'
<1>1. /\ Runs(o) /\ stage[o] = "search" /\ Kind(o) = "getKeys"
      /\ UNCHANGED <<db, uids, draft, draftUids, txns, call, found>>
  BY DEF KeysSearched, storeVars
<1>2. PICK x \in Reply, s \in {"search", "settled"} :
        Answer(o, x) /\ stage' = [stage EXCEPT ![o] = s]
  <2>1. CASE \E r \in Matches(o) : Answer(o, IndexEntry(r)) /\ stage' = stage
    <3>1. PICK r \in Matches(o) : Answer(o, IndexEntry(r))
      BY <2>1
    <3>2. r \in Item
      BY <1>1, Searching DEF Items
    <3>3. Placeholder(r.uid) \in Record
      BY <3>2 DEF Item, Placeholder, Record
    <3>4. IndexEntry(r) \in Reply
      BY <3>3, ReplyTypes DEF IndexEntry
    <3>5. stage' = [stage EXCEPT ![o] = "search"]
      BY <1>1, <2>1 DEF StoreInv, Calls
    <3> QED
      BY <3>1, <3>4, <3>5
  <2>2. CASE Answer(o, NULL) /\ To(o, "settled")
    BY <2>2, ReplyTypes DEF To
  <2> QED
    BY <2>1, <2>2 DEF KeysSearched
<1>3. Results'
  BY <1>1, <1>2, AnswerTyped DEF StoreInv, Results
<1>4. stage'[o] = s
  BY <1>2 DEF StoreInv, Calls
<1>5. Fits(o)' /\ Drafted(o)'
  <2>1. Unwritten'
    BY <1>1, Searching DEF Unwritten
  <2> QED
    BY <1>2, <1>4, <2>1 DEF Fits, Drafted
<1> QED
  BY <1>1, <1>2, <1>3, <1>5, SearchedKeeps DEF Pending

LEMMA DeletedKeeps ==
  ASSUME StoreInv, NEW o \in Op, Deleted(o) PROVE StoreInv'
<1>1. /\ Runs(o) /\ stage[o] = "delete"
      /\ draft' = {r \in draft : r.uid # found[o].uid}
      /\ stage' = [stage EXCEPT ![o] = "settled"]
      /\ UNCHANGED <<db, uids, draftUids, txns, call, found>>
  BY DEF Deleted, To
<1>2. stage'[o] = "settled" /\ \A p \in Op \ {o} : stage'[p] = stage[p]
  BY <1>1 DEF StoreInv, Calls
<1>3. ~Reads(Kind(o)) /\ Items(db, uids)
  BY <1>1, Running DEF StoreInv, Fits, Reads, Drafts
<1>4. Calls'
  <2>1. Fits(o)'
    BY <1>2 DEF Fits
  <2> QED
    BY <1>1, <2>1, CallsMoved DEF StoreInv
<1>5. Unwritten /\ found[o] \in db
  <2>1. Underway(o)
    BY <1>1, <1>3 DEF Underway
  <2> QED
    BY <1>1, <2>1, RunsAlone DEF Drafted
<1>6. draft' = db' \ {found[o]}
  BY <1>1, <1>3, <1>5, Removed DEF Unwritten
<1>7. Changed(o)'
  <2>1. draftUids' = uids' /\ found[o] \in db'
    BY <1>1, <1>5 DEF Unwritten
  <2> QED
    BY <1>6, <2>1 DEF Changed
<1>8. Drafted(o)'
  BY <1>2, <1>7 DEF Drafted
<1>9. txns'[1] = o /\ 1 \in 1 .. Len(txns')
  BY <1>1, <1>3, Running DEF StoreInv
<1>10. Underway(o)' /\ Items(db, uids)'
  BY <1>1, <1>2, <1>3 DEF Underway, Kind, Items
<1>11. Drafts'
  BY <1>1, <1>2, <1>8, <1>9, <1>10, DraftsMoved
<1>12. Results'
  <2>1. CASE Answer(o, Status(1))
    BY <1>1, <2>1, ReplyTypes, AnswerTyped DEF StoreInv, Results
  <2>2. CASE reply' = reply
    BY <1>1, <2>2 DEF StoreInv, Results
  <2> QED
    BY <2>1, <2>2 DEF Deleted
<1> QED
  BY <1>4, <1>11, <1>12 DEF StoreInv

\* A transaction ends: it has no draft afterwards.
LEMMA EndedKeeps ==
  ASSUME StoreInv, NEW o \in Op, Runs(o), call' = call, txns' = Without(o),
         NEW s \in {"done", "failed"}, stage' = [stage EXCEPT ![o] = s],
         Items(db, uids)', Unwritten', Results'
  PROVE  StoreInv'
<1>1. stage'[o] = s /\ \A p \in Op \ {o} : stage'[p] = stage[p]
  BY DEF StoreInv, Calls
<1>2. Calls'
  BY CallsEnded DEF StoreInv
<1>3. ~Underway(o)'
  BY <1>1 DEF Underway
<1>4. Drafts'
  BY <1>1, <1>3, DraftsMoved
<1> QED
  BY <1>2, <1>4 DEF StoreInv

LEMMA FailKeeps ==
  ASSUME StoreInv, NEW o \in Op, Fail(o) PROVE StoreInv'
<1>1. /\ Runs(o) /\ call' = call /\ txns' = Without(o) /\ found' = found
      /\ stage' = [stage EXCEPT ![o] = "failed"]
      /\ reply' = [reply EXCEPT ![o] = @ \o AnswerToFailure(o)]
      /\ UNCHANGED <<db, uids>>
  BY DEF Fail, To, storeVars, Undone
<1>2. Items(db, uids)'
  BY <1>1 DEF StoreInv, Drafts, Items
<1>3. Unwritten'
  <2>1. CASE Reads(Kind(o)) /\ UNCHANGED storeVars
    <3>1. stage[o] # "add"
      BY <1>1, <2>1, Running DEF StoreInv, Fits, Reads
    <3>2. ~Underway(o)
      BY <2>1, <3>1 DEF Underway
    <3> QED
      BY <1>1, <2>1, <3>2, RunsAlone DEF Unwritten, storeVars
  <2>2. CASE Undone
    BY <2>2 DEF Undone, Unwritten
  <2> QED
    BY <2>1, <2>2 DEF Fail
<1>4. Results'
  <2>1. AnswerToFailure(o) \in {<<>>, <<Status(-1)>>, <<NULL>>}
    BY DEF AnswerToFailure
  <2>2. Status(-1) \in Reply /\ NULL \in Reply
    BY ReplyTypes
  <2>3. \A R : \A x \in R : <<x>> \in Seq(R) /\ <<>> \in Seq(R)
    OBVIOUS
  <2>4. AnswerToFailure(o) \in Seq(Reply)
    BY <2>1, <2>2, <2>3
  <2>5. reply[o] \o AnswerToFailure(o) \in Seq(Reply)
    BY <2>4, ConcatProperties DEF StoreInv, Results
  <2> QED
    BY <1>1, <2>5 DEF StoreInv, Results
<1> QED
  BY <1>1, <1>2, <1>3, <1>4, EndedKeeps

LEMMA CommitKeeps ==
  ASSUME StoreInv, NEW o \in Op, Commit(o) PROVE StoreInv'
<1>1. /\ Runs(o) /\ stage[o] = "settled" /\ call' = call /\ txns' = Without(o)
      /\ UNCHANGED <<found, reply>> /\ stage' = [stage EXCEPT ![o] = "done"]
  BY DEF Commit, To
<1>2. CASE Reads(Kind(o)) /\ UNCHANGED storeVars
  <2>1. ~Underway(o)
    BY <1>1, <1>2 DEF Underway
  <2>2. Unwritten'
    BY <1>1, <1>2, <2>1, RunsAlone DEF Unwritten, storeVars
  <2>3. Items(db, uids)'
    BY <1>2 DEF StoreInv, Drafts, Items, storeVars
  <2> QED
    BY <1>1, <2>2, <2>3, EndedKeeps DEF StoreInv, Results
<1>3. CASE /\ ~Reads(Kind(o))
           /\ db' = draft /\ uids' = draftUids /\ UNCHANGED <<draft, draftUids>>
  <2>1. Underway(o)
    BY <1>1, <1>3 DEF Underway
  <2>2. Items(draft, draftUids)
    BY <1>1, <2>1, RunsAlone, DraftedItems
  <2>3. Items(db, uids)' /\ Unwritten'
    BY <1>3, <2>2 DEF Items, Unwritten
  <2> QED
    BY <1>1, <2>3, EndedKeeps DEF StoreInv, Results
<1> QED
  BY <1>2, <1>3 DEF Commit

LEMMA CannotCommitKeeps ==
  ASSUME StoreInv, NEW o \in Op, CannotCommit(o) PROVE StoreInv'
<1>1. /\ Runs(o) /\ call' = call /\ txns' = Without(o) /\ Undone
      /\ UNCHANGED <<found, reply>> /\ stage' = [stage EXCEPT ![o] = "failed"]
  BY DEF CannotCommit, To
<1>2. Items(db, uids)' /\ Unwritten'
  BY <1>1 DEF StoreInv, Drafts, Items, Undone, Unwritten
<1> QED
  BY <1>1, <1>2, EndedKeeps DEF StoreInv, Results

LEMMA CrashKeeps == ASSUME StoreInv, Crash PROVE StoreInv'
<1>1. /\ Undone /\ UNCHANGED <<call, found, reply>>
      /\ stage' = [o \in Op |-> IF \E i \in 1 .. Len(txns) : txns[i] = o THEN "lost" ELSE stage[o]]
  BY DEF Crash
<1>2. Calls'
  BY CallsLost DEF StoreInv
<1>3. ASSUME NEW o \in Op PROVE ~Underway(o)'
  <2>1. CASE Underway(o)
    <3>1. 1 \in 1 .. Len(txns) /\ txns[1] = o
      BY <2>1 DEF StoreInv, Drafts
    <3>2. stage'[o] = "lost"
      BY <1>1, <3>1
    <3> QED
      BY <3>2 DEF Underway
  <2>2. CASE ~Underway(o)
    <3>1. stage'[o] = "lost" \/ (stage'[o] = stage[o] /\ call'[o] = call[o])
      BY <1>1
    <3> QED
      BY <2>2, <3>1 DEF Underway, Kind
  <2> QED
    BY <2>1, <2>2
<1>4. Items(db, uids)' /\ Unwritten'
  BY <1>1 DEF StoreInv, Drafts, Items, Undone, Unwritten
<1>5. Drafts' /\ Results'
  BY <1>1, <1>3, <1>4 DEF StoreInv, Drafts, Results
<1> QED
  BY <1>2, <1>5 DEF StoreInv

LEMMA StartKeeps ==
  ASSUME StoreInv, NEW o \in Op, NEW c \in Call, Start(o, c), now \in Time PROVE StoreInv'
<1>1. /\ UNCHANGED <<db, uids, draft, draftUids, found, reply>>
      /\ stage[o] = "new" /\ txns' = Append(txns, o)
      /\ call' = [call EXCEPT ![o] = WithTime(c)]
      /\ stage' = [stage EXCEPT ![o] = IF c.kind = "put" /\ c.absent THEN "add" ELSE "search"]
  BY DEF Start, To, storeVars
<1>2. Calls'
  BY CallsStarted DEF StoreInv
<1>3. /\ \A p \in Op \ {o} : stage'[p] = stage[p] /\ call'[p] = call[p]
      /\ stage'[o] \in {"add", "search"} /\ (stage'[o] = "add" => call'[o].absent)
  <2>1. c.kind = "put" => WithTime(c) = c
    BY DEF WithTime
  <2> QED
    BY <1>1, <2>1 DEF StoreInv, Calls
<1>4. /\ ~Underway(o) /\ ~Underway(o)'
      /\ \A p \in Op \ {o} : Underway(p)' <=> Underway(p)
  BY <1>1, <1>3 DEF Underway, Kind
<1>5. \A p \in Op \ {o} : Drafted(p) => Drafted(p)'
  <2> SUFFICES ASSUME NEW p \in Op \ {o}, Drafted(p) PROVE Drafted(p)'
    OBVIOUS
  <2>1. stage'[p] = stage[p] /\ call'[p] = call[p]
    BY <1>3
  <2> QED
    BY <1>1, <2>1 DEF Drafted, Unwritten, Inserted, Changed, MostToDo, Kind
<1>6. \A i \in 1 .. Len(txns) : i \in 1 .. Len(txns') /\ txns'[i] = txns[i]
  <2>1. txns \in Seq(Op) /\ o \in Op
    BY DEF StoreInv, Calls
  <2> QED
    BY <1>1, <2>1, AppendProperties
<1>7. Drafts'
  <2>1. Items(db, uids)' /\ (Unwritten <=> Unwritten')
    BY <1>1 DEF StoreInv, Drafts, Items, Unwritten
  <2>2. \A p \in Op : Underway(p)' => 1 \in 1 .. Len(txns') /\ txns'[1] = p /\ Drafted(p)'
    BY <1>4, <1>5, <1>6 DEF StoreInv, Drafts
  <2>3. (\A p \in Op : ~Underway(p)') => Unwritten'
    BY <1>4, <2>1 DEF StoreInv, Drafts
  <2> QED
    BY <2>1, <2>2, <2>3 DEF Drafts
<1>8. Results'
  BY <1>1 DEF StoreInv, Results
<1> QED
  BY <1>2, <1>7, <1>8 DEF StoreInv

LEMMA NothingKeeps ==
  ASSUME StoreInv, UNCHANGED <<storeVars, opVars>> PROVE StoreInv'
<1>1. UNCHANGED <<db, uids, draft, draftUids, txns, call, stage, found, reply>>
  BY DEF storeVars, opVars
<1>2. ASSUME NEW o \in Op
      PROVE  /\ Fits(o) <=> Fits(o)'
             /\ Underway(o) <=> Underway(o)'
             /\ Drafted(o) <=> Drafted(o)'
  <2>1. (Fits(o) <=> Fits(o)') /\ (Underway(o) <=> Underway(o)')
    BY <1>1 DEF Fits, Underway, Kind
  <2>2. (Unwritten <=> Unwritten') /\ (Inserted(o) <=> Inserted(o)') /\ (Changed(o) <=> Changed(o)')
    BY <1>1 DEF Unwritten, Inserted, Changed, MostToDo, Kind
  <2>3. Drafted(o) <=> Drafted(o)'
    BY <1>1, <2>2 DEF Drafted, MostToDo, Kind
  <2> QED
    BY <2>1, <2>3
<1>3. Calls'
  BY <1>1, <1>2 DEF StoreInv, Calls
<1>4. Drafts'
  BY <1>1, <1>2 DEF StoreInv, Drafts, Items, Unwritten
<1>5. Results'
  BY <1>1 DEF StoreInv, Results
<1> QED
  BY <1>3, <1>4, <1>5 DEF StoreInv

-----------------------------------------------------------------------------
(* Type correctness.                                                       *)

Environment ==
  /\ now \in Time
  /\ failures \in 0 .. MaxFailure /\ full \in 0 .. MaxFull /\ crashes \in 0 .. MaxCrash

StoreTyped == StoreInv /\ Environment

LEMMA InitKeeps == Init => StoreTyped
<1> SUFFICES ASSUME Init PROVE StoreTyped
  OBVIOUS
<1>1. /\ db \in Stored /\ draft = db /\ uids = LastUid(db) /\ draftUids = uids /\ txns = <<>>
      /\ call = [o \in Op |-> None] /\ stage = [o \in Op |-> "new"]
      /\ found = [o \in Op |-> NoRecord] /\ reply = [o \in Op |-> <<>>]
  BY DEF Init
<1>2. txns \in Seq(Op) /\ Len(txns) = 0
  BY <1>1
<1>3. Calls
  <2>1. stage \in [Op -> Stages] /\ \A o \in Op : stage[o] = "new"
    BY <1>1 DEF Stages
  <2>2. call \in [Op -> CallRecord \cup {None}]
    BY <1>1
  <2> QED
    BY <1>2, <2>1, <2>2 DEF Calls
<1>4. Items(db, uids)
  BY <1>1, LastUidFacts, StoredAssumption DEF Items
<1>5. Unwritten /\ \A o \in Op : ~Underway(o)
  BY <1>1 DEF Unwritten, Underway
<1>6. Results
  <2>1. reply \in [Op -> Seq(Reply)]
    BY <1>1
  <2> QED
    BY <1>1, <2>1 DEF Results
<1>7. Environment
  BY BoundAssumption DEF Init, Environment
<1> QED
  BY <1>3, <1>4, <1>5, <1>6, <1>7 DEF StoreTyped, StoreInv, Drafts

LEMMA EventKeeps == ASSUME StoreInv, NEW o \in Op, Event(o) PROVE StoreInv'
<1>1. CASE PutSearched(o)
  BY <1>1, PutSearchedKeeps
<1>2. CASE Added(o)
  BY <1>2, AddedKeeps
<1>3. CASE Put(o)
  BY <1>3, PutKeeps
<1>4. CASE GetSearched(o)
  BY <1>4, GetSearchedKeeps
<1>5. CASE ReplicationSearched(o)
  BY <1>5, ReplicationSearchedKeeps
<1>6. CASE \E keep \in BOOLEAN : ExpirationSearched(o, keep)
  BY <1>6, ExpirationSearchedKeeps
<1>7. CASE RemoveSearched(o)
  BY <1>7, RemoveSearchedKeeps
<1>8. CASE KeysSearched(o)
  BY <1>8, KeysSearchedKeeps
<1>9. CASE Deleted(o)
  BY <1>9, DeletedKeeps
<1>10. CASE Commit(o)
  BY <1>10, CommitKeeps
<1> QED
  BY <1>1, <1>2, <1>3, <1>4, <1>5, <1>6, <1>7, <1>8, <1>9, <1>10 DEF Event

\* The events leave the environment alone.
LEMMA EventEnvironment == ASSUME NEW o \in Op, Event(o) PROVE UNCHANGED envVars
BY DEF Event, PutSearched, Added, Put, GetSearched, ReplicationSearched, ExpirationSearched,
       RemoveSearched, KeysSearched, Deleted, Commit

LEMMA EnvironmentKeeps == ASSUME Environment, [Next]_vars PROVE Environment'
<1>1. CASE UNCHANGED envVars
  BY <1>1 DEF Environment, envVars
<1>2. ASSUME NEW o \in Op, Fail(o) PROVE Environment'
  BY <1>2, BoundAssumption DEF Environment, Fail
<1>3. ASSUME NEW o \in Op, CannotCommit(o) PROVE Environment'
  BY <1>3, BoundAssumption DEF Environment, CannotCommit
<1>4. CASE Crash
  BY <1>4, BoundAssumption DEF Environment, Crash
<1>5. CASE Tick
  BY <1>5 DEF Environment, Tick
<1>6. ASSUME NEW o \in Op, NEW c \in Call, Start(o, c) PROVE UNCHANGED envVars
  BY <1>6 DEF Start
<1>7. CASE UNCHANGED vars
  BY <1>1, <1>7 DEF vars
<1> QED
  BY <1>1, <1>2, <1>3, <1>4, <1>5, <1>6, <1>7, EventEnvironment DEF Next

LEMMA StepKeeps == ASSUME StoreTyped, [Next]_vars PROVE StoreTyped'
<1>1. StoreInv /\ now \in Time
  BY DEF StoreTyped, Environment
<1>2. ASSUME UNCHANGED vars PROVE StoreInv'
  BY <1>1, <1>2, NothingKeeps DEF vars
<1>3. ASSUME Tick PROVE StoreInv'
  BY <1>1, <1>3, NothingKeeps DEF Tick
<1>4. ASSUME Crash PROVE StoreInv'
  BY <1>1, <1>4, CrashKeeps
<1>5. ASSUME NEW o \in Op, Fail(o) \/ CannotCommit(o) PROVE StoreInv'
  BY <1>1, <1>5, FailKeeps, CannotCommitKeeps
<1>6. ASSUME NEW o \in Op, NEW c \in Call, Start(o, c) PROVE StoreInv'
  BY <1>1, <1>6, StartKeeps
<1>7. ASSUME NEW o \in Op, Event(o) PROVE StoreInv'
  BY <1>1, <1>7, EventKeeps
<1>8. StoreInv'
  BY <1>2, <1>3, <1>4, <1>5, <1>6, <1>7 DEF Next
<1> QED
  BY <1>8, EnvironmentKeeps DEF StoreTyped

\* The store, its draft and the calls stay whole, whatever fails.
THEOREM StoreTypedAlways == Spec => []StoreTyped
<1>1. Init => StoreTyped
  BY InitKeeps
<1>2. StoreTyped /\ [Next]_vars => StoreTyped'
  BY StepKeeps
<1> QED
  BY <1>1, <1>2, PTL DEF Spec

\* The draft consists of records, a placeholder among them at most.
LEMMA DraftTyped == StoreInv => draft \subseteq Record /\ draftUids \in 0 .. MaxUid
<1> SUFFICES ASSUME StoreInv PROVE draft \subseteq Record /\ draftUids \in 0 .. MaxUid
  OBVIOUS
<1>1. Items(db, uids) /\ db \subseteq Record /\ uids \in 0 .. MaxUid
  BY ItemRecord DEF StoreInv, Drafts, Items
<1>2. CASE Unwritten
  BY <1>1, <1>2 DEF Unwritten
<1>3. ASSUME NEW o \in Op, Underway(o) PROVE draft \subseteq Record /\ draftUids \in 0 .. MaxUid
  <2>1. Drafted(o)
    BY <1>3 DEF StoreInv, Drafts
  <2>2. CASE stage[o] = "put"
    <3>1. uids < MaxUid /\ draftUids = uids + 1 /\ draft = db \cup {Placeholder(draftUids)}
      BY <2>1, <2>2 DEF Drafted
    <3>2. draftUids \in 1 .. MaxUid
      BY <1>1, <3>1, NumbersAssumption
    <3>3. Placeholder(draftUids) \in Record
      BY <3>2 DEF Placeholder, Record, Uid
    <3> QED
      BY <1>1, <3>1, <3>2, <3>3
  <2>3. CASE stage[o] = "settled" /\ Inserted(o)
    <3>1. /\ Kind(o) = "put" /\ uids < MaxUid /\ draftUids = uids + 1
          /\ draft = db \cup {Fresh(draftUids, call[o])}
      BY <2>3 DEF Inserted
    <3>2. draftUids \in 1 .. MaxUid
      BY <1>1, <3>1, NumbersAssumption
    <3>3. Fresh(draftUids, call[o]) \in Item
      BY <2>3, <3>1, <3>2, FreshItem DEF StoreInv, Calls, Kind, Uid
    <3> QED
      BY <1>1, <3>1, <3>2, <3>3, ItemRecord
  <2>4. CASE stage[o] = "settled" /\ Changed(o)
    <3>1. draftUids = uids
      BY <2>4 DEF Changed
    <3>2. PICK r \in db :
             \/ Kind(o) = "put" /\ draft = (db \ {r}) \cup {Merged(r, call[o])}
             \/ MostToDo(r) /\ draft = (db \ {r}) \cup {Decremented(r)}
             \/ draft = db \ {r}
      BY <2>4 DEF Changed
    <3>3. r \in Item
      BY <1>1 DEF Items
    <3>4. Called(call[o])
      BY <2>4 DEF StoreInv, Calls
    <3>5. Decremented(r) \in Item /\ (Kind(o) = "put" => Merged(r, call[o]) \in Item)
      BY <3>3, <3>4, MergedItem, DecrementedItem DEF Kind
    <3> QED
      BY <1>1, <3>1, <3>2, <3>5, ItemRecord
  <2>5. CASE Unwritten
    BY <1>2, <2>5
  <2> QED
    BY <1>3, <2>1, <2>2, <2>3, <2>4, <2>5 DEF Underway, Drafted
<1> QED
  BY <1>2, <1>3 DEF StoreInv, Drafts

LEMMA TypedStore == StoreTyped => TypeOK
<1> SUFFICES ASSUME StoreTyped PROVE TypeOK
  OBVIOUS
<1>1. StoreInv /\ Environment
  BY DEF StoreTyped
<1>2. db \subseteq Item /\ uids \in 0 .. MaxUid
  BY <1>1 DEF StoreInv, Drafts, Items
<1>3. draft \subseteq Record /\ draftUids \in 0 .. MaxUid
  BY <1>1, DraftTyped
<1> QED
  BY <1>1, <1>2, <1>3 DEF TypeOK, StoreInv, Calls, Results, Environment, Stages

\* Every variable has its type, and what is committed are whole items: a put
\* that fails or dies half-way leaves none of its placeholders behind.
THEOREM TypeCorrect == Spec => []TypeOK
BY StoreTypedAlways, TypedStore, PTL

-----------------------------------------------------------------------------
(* The plugin implements the store.                                        *)

LEMMA StoreInit == Init => Abstract!Init
BY StoredAssumption DEF Init, Abstract!Init, Abstract!Record, Item

\* What a transaction that writes commits is one operation of the store.
LEMMA CommitImplements ==
  ASSUME StoreInv, NEW o \in Op, Commit(o), ~Reads(Kind(o)), db' # db
  PROVE  Abstract!Next
<1>1. stage[o] = "settled" /\ db' = draft /\ Runs(o)
  BY DEF Commit
<1>2. Called(call[o]) /\ Items(db, uids)
  BY <1>1 DEF StoreInv, Calls, Drafts
<1>3. Inserted(o) \/ Changed(o)
  <2>1. Drafted(o)
    BY <1>1, RunsAlone DEF Underway
  <2> QED
    BY <1>1, <2>1 DEF Drafted, Unwritten
<1>4. CASE Inserted(o)
  <2>1. /\ Kind(o) = "put" /\ uids < MaxUid /\ draftUids = uids + 1
        /\ draft = db \cup {Fresh(draftUids, call[o])}
    BY <1>4 DEF Inserted
  <2>2. draftUids \in Uid /\ \A s \in db : s.uid # draftUids
    <3>1. uids \in 0 .. MaxUid /\ MaxUid \in Nat
      BY <1>2, NumbersAssumption DEF Items
    <3>2. \A s \in db : s.uid <= uids /\ s.uid \in Nat
      BY <1>2 DEF Items, Item, Uid
    <3> QED
      BY <2>1, <3>1, <3>2 DEF Uid
  <2>3. PICK c : c = call[o]
    OBVIOUS
  <2>4. /\ c.key \in Key /\ c.data \in Data /\ c.type \in Type /\ c.expiry \in Time
        /\ c.priority \in Amount /\ c.anonymity \in Amount /\ c.replication \in Amount
    BY <1>2, <2>1, <2>3 DEF Called, Kind
  <2>5. PICK u \in Uid : u = draftUids
    BY <2>2
  <2>6. Abstract!Insert([uid |-> u, key |-> c.key, data |-> c.data, type |-> c.type,
                         priority |-> c.priority, anonymity |-> c.anonymity,
                         replication |-> c.replication, expiry |-> c.expiry])
    BY <1>1, <2>1, <2>2, <2>3, <2>5 DEF Abstract!Insert, Fresh
  <2> QED
    BY <2>4, <2>6 DEF Abstract!Next
<1>5. CASE Changed(o)
  <2>1. PICK r \in db :
           \/ Kind(o) = "put" /\ draft = (db \ {r}) \cup {Merged(r, call[o])}
           \/ MostToDo(r) /\ draft = (db \ {r}) \cup {Decremented(r)}
           \/ draft = db \ {r}
    BY <1>5 DEF Changed
  <2>2. r \in Item
    BY <1>2 DEF Items
  <2>3. CASE Kind(o) = "put" /\ draft = (db \ {r}) \cup {Merged(r, call[o])}
    <3>1. PICK c : c = call[o]
      OBVIOUS
    <3>2. c.priority \in Amount /\ c.replication \in Amount /\ c.expiry \in Time
      BY <1>2, <2>3, <3>1 DEF Called, Kind
    <3>3. Abstract!Merge(r, c.priority, c.replication, c.expiry)
      BY <1>1, <2>3, <3>1 DEF Abstract!Merge, Merged
    <3> QED
      BY <3>2, <3>3 DEF Abstract!Next
  <2>4. CASE MostToDo(r) /\ draft = (db \ {r}) \cup {Decremented(r)}
    <3>1. Decremented(r) = [r EXCEPT !.replication = IF @ > 0 THEN @ - 1 ELSE 0]
      BY <2>2 DEF Decremented, Item
    <3>2. Abstract!Replicate(r)
      BY <1>1, <2>4, <3>1 DEF Abstract!Replicate, MostToDo
    <3> QED
      BY <3>2 DEF Abstract!Next
  <2>5. CASE draft = db \ {r}
    BY <1>1, <2>5 DEF Abstract!Next, Abstract!Remove
  <2> QED
    BY <2>1, <2>3, <2>4, <2>5
<1> QED
  BY <1>3, <1>4, <1>5

LEMMA StepImplements == ASSUME StoreInv, [Next]_vars PROVE [Abstract!Next]_db
<1>1. ASSUME NEW o \in Op, Commit(o) PROVE [Abstract!Next]_db
  <2>1. CASE Reads(Kind(o))
    BY <1>1, <2>1 DEF Commit, storeVars
  <2>2. CASE ~Reads(Kind(o))
    BY <1>1, <2>2, CommitImplements
  <2> QED
    BY <2>1, <2>2
<1>2. ASSUME NEW o \in Op, Event(o) PROVE Commit(o) \/ db' = db
  BY <1>2 DEF Event, PutSearched, Added, Put, GetSearched, ReplicationSearched,
              ExpirationSearched, RemoveSearched, KeysSearched, Deleted, storeVars
<1>3. ASSUME NEW o \in Op, NEW c \in Call, Start(o, c) PROVE db' = db
  BY <1>3 DEF Start, storeVars
<1>4. ASSUME NEW o \in Op, Fail(o) \/ CannotCommit(o) PROVE db' = db
  BY <1>4 DEF Fail, CannotCommit, Undone, storeVars
<1>5. CASE Crash \/ Tick
  BY <1>5 DEF Crash, Tick, Undone, storeVars
<1>6. CASE UNCHANGED vars
  BY <1>6 DEF vars, storeVars
<1> QED
  BY <1>1, <1>2, <1>3, <1>4, <1>5, <1>6 DEF Next

\* However requests fail, the disk fills up or the worker dies, the committed
\* records change by one whole operation of the store at a time.
THEOREM DatastoreImplementsStore == Spec => ImplementsStore
<1>1. Init => Abstract!Init
  BY StoreInit
<1>2. StoreTyped /\ [Next]_vars => [Abstract!Next]_db
  BY StepImplements DEF StoreTyped
<1> QED
  BY <1>1, <1>2, StoreTypedAlways, PTL DEF Spec, ImplementsStore, Abstract!Spec

-----------------------------------------------------------------------------
(* No item is stored twice.                                                *)

\* A call that waits for a request or its end has an open transaction.
Open == \A o \in Op : stage[o] \in Pending \cup {"settled"} => \E i \in 1 .. Len(txns) : txns[i] = o

\* A put that is told that the key is absent does not search.
Searches == \A o \in Op : stage[o] = "search" /\ Kind(o) = "put" => ~call[o].absent

NotStored(o) == \A r \in db : ~SameData(r, call[o])

\* o is about to add, or has added, an item.
Adds(o) ==
  \/ stage[o] = "add" /\ ~call[o].absent
  \/ stage[o] = "put"
  \/ stage[o] = "settled" /\ Kind(o) = "put" /\ draftUids = uids + 1

\* The key of a put with `absent' is not stored, nor will be by a put before it.
KeyAbsent(o) == \A r \in db : ~SameKey(r, call[o])
KeyAwaited(o) ==
  \A i \in 1 .. Len(txns) : \A j \in 1 .. Len(txns) :
    j < i /\ txns[i] = o /\ Kind(txns[j]) = "put" => ~SameKey(call[txns[j]], call[o])

Distinct(records) == \A r, s \in records : SameData(r, s) => r = s

Unique ==
  Careful =>
    /\ Distinct(db)
    /\ \A o \in Op : Adds(o) => NotStored(o)
    /\ \A o \in Op : stage[o] = "add" /\ call[o].absent => KeyAbsent(o) /\ KeyAwaited(o)

UniqueInv == Open /\ Searches /\ Unique

LEMMA AddsUnderway == ASSUME StoreInv, NEW o \in Op, Adds(o) PROVE Underway(o)
<1>1. stage[o] = "put" => Kind(o) = "put"
  BY DEF StoreInv, Calls, Fits
<1> QED
  BY <1>1 DEF Adds, Underway, Reads

\* What a call is, apart from next.
SameCall(o) ==
  /\ call'[o].kind = call[o].kind /\ call'[o].key = call[o].key
  /\ call'[o].data = call[o].data /\ call'[o].absent = call[o].absent

\* The transactions after a step of o: its own goes on, ends or is replaced.
Proceeds(o) ==
  \/ txns' = txns
  \/ txns' = Without(o) /\ stage'[o] \notin Pending \cup {"settled"}
  \/ txns' = Append(Without(o), o)

\* The other transactions stay, in their order.
LEMMA OrderKept ==
  ASSUME Calls, NEW o \in Op, Runs(o), Proceeds(o)
  PROVE  /\ \A p \in Op \ {o} : (\E i \in 1 .. Len(txns) : txns[i] = p) =>
                                \E i \in 1 .. Len(txns') : txns'[i] = p
         /\ \A i, j \in 1 .. Len(txns') : txns'[i] # o /\ j < i =>
              \E k, l \in 1 .. Len(txns) : l < k /\ txns[k] = txns'[i] /\ txns[l] = txns'[j]
         /\ txns' # Without(o) => \E i \in 1 .. Len(txns') : txns'[i] = o
<1>1. PICK n \in Nat : n = Len(txns)
  BY DEF Calls
<1>2. PICK w \in Seq(Op) : w = Without(o)
  <2>1. Without(o) \in Seq(Op)
    BY WithoutFacts
  <2> QED
    BY <2>1
<1>3. PICK k \in 1 .. n : /\ txns[k] = o /\ Len(w) = n - 1
                          /\ \A i \in 1 .. Len(w) : w[i] = IF i < k THEN txns[i] ELSE txns[i + 1]
  BY <1>1, <1>2, WithoutFacts
<1>4. \A i \in 1 .. Len(w) : i \in 1 .. n /\ i + 1 \in 1 .. n
  BY <1>3
<1>5. ASSUME NEW p \in Op \ {o}, NEW i \in 1 .. n, txns[i] = p
      PROVE  \E j \in 1 .. Len(w) : w[j] = p
  <2>1. i # k
    BY <1>3, <1>5
  <2>2. CASE i < k
    <3>1. i \in 1 .. Len(w) /\ w[i] = p
      BY <1>3, <1>5, <2>2
    <3> QED
      BY <3>1
  <2>3. CASE i > k
    <3>1. i - 1 \in 1 .. Len(w) /\ ~(i - 1 < k) /\ i - 1 + 1 = i
      BY <1>3, <2>3
    <3>2. w[i - 1] = p
      BY <1>3, <1>5, <3>1
    <3> QED
      BY <3>1, <3>2
  <2> QED
    BY <2>1, <2>2, <2>3
<1>6. ASSUME NEW i \in 1 .. Len(w), NEW j \in 1 .. Len(w), j < i
      PROVE  \E a, b \in 1 .. n : b < a /\ txns[a] = w[i] /\ txns[b] = w[j]
  <2>1. PICK a \in 1 .. n : a = IF i < k THEN i ELSE i + 1
    BY <1>4
  <2>2. PICK b \in 1 .. n : b = IF j < k THEN j ELSE j + 1
    BY <1>4
  <2>3. b < a
    BY <1>6, <2>1, <2>2
  <2>4. txns[a] = w[i] /\ txns[b] = w[j]
    BY <1>3, <2>1, <2>2
  <2> QED
    BY <2>3, <2>4
<1>7. CASE txns' = txns
  <2>1. \E i \in 1 .. Len(txns') : txns'[i] = o
    BY <1>1, <1>3, <1>7
  <2> QED
    BY <1>7, <2>1
<1>8. CASE txns' = Without(o)
  <2>1. txns' = w
    BY <1>2, <1>8
  <2> QED
    BY <1>1, <1>5, <1>6, <1>8, <2>1
<1>9. CASE txns' = Append(Without(o), o)
  <2>1. /\ txns' = Append(w, o) /\ Len(txns') = Len(w) + 1 /\ Len(w) \in Nat
        /\ txns'[Len(w) + 1] = o /\ \A i \in 1 .. Len(w) : txns'[i] = w[i]
    BY <1>2, <1>9, AppendProperties
  <2>2. \A i \in 1 .. Len(txns') : i \in 1 .. Len(w) \/ i = Len(w) + 1
    BY <2>1
  <2>3. \A i \in 1 .. Len(w) : i \in 1 .. Len(txns')
    BY <2>1
  <2>4. Len(w) + 1 \in 1 .. Len(txns')
    BY <2>1
  <2>5. ASSUME NEW p \in Op \ {o}, \E i \in 1 .. Len(txns) : txns[i] = p
        PROVE  \E i \in 1 .. Len(txns') : txns'[i] = p
    BY <1>1, <1>5, <2>1, <2>3, <2>5
  <2>6. ASSUME NEW i \in 1 .. Len(txns'), NEW j \in 1 .. Len(txns'), txns'[i] # o, j < i
        PROVE  \E a, b \in 1 .. Len(txns) : b < a /\ txns[a] = txns'[i] /\ txns[b] = txns'[j]
    <3>1. i \in 1 .. Len(w)
      BY <2>1, <2>2, <2>6
    <3>2. j \in 1 .. Len(w)
      BY <2>1, <2>6, <3>1
    <3> QED
      BY <1>1, <1>6, <2>1, <2>6, <3>1, <3>2
  <2> QED
    BY <2>1, <2>4, <2>5, <2>6
<1> QED
  BY <1>7, <1>8, <1>9 DEF Proceeds

\* What a step of the running call o has to leave.
LEMMA UniqueMoved ==
  ASSUME StoreInv, UniqueInv, NEW o \in Op, Runs(o), Proceeds(o),
         \A p \in Op \ {o} : stage'[p] = stage[p],
         \A p \in Op : SameCall(p),
         stage'[o] = "add" => ~call[o].absent,
         stage'[o] = "search" => Kind(o) # "put",
         Careful => /\ Distinct(db)'
                    /\ Adds(o)' => NotStored(o)'
                    /\ \A r \in db' : (\E s \in db : s.key = r.key)
                                      \/ (Kind(o) = "put" /\ r.key = call[o].key)
  PROVE  UniqueInv'
<1>1. Calls
  BY DEF StoreInv
<1>2. Open'
  <2> SUFFICES ASSUME NEW p \in Op, stage'[p] \in Pending \cup {"settled"}
               PROVE  \E i \in 1 .. Len(txns') : txns'[i] = p
    BY DEF Open, Pending
  <2>1. CASE p = o
    <3>1. CASE txns' = Without(o)
      <4>1. PICK k \in 1 .. Len(txns) : txns[k] = o /\ Len(Without(o)) = Len(txns) - 1
        BY <1>1, WithoutFacts
      <4>2. Len(txns) \in Nat
        BY <1>1, WithoutFacts
      <4>3. txns' # txns
        BY <3>1, <4>1, <4>2
      <4>4. txns' # Append(Without(o), o)
        <5>1. PICK w \in Seq(Op) : w = Without(o)
          <6>1. Without(o) \in Seq(Op)
            BY <1>1, WithoutFacts
          <6> QED
            BY <6>1
        <5>2. Len(Append(w, o)) = Len(w) + 1 /\ Len(w) \in Nat
          BY <5>1, AppendProperties
        <5> QED
          BY <3>1, <5>1, <5>2
      <4> QED
        BY <2>1, <3>1, <4>3, <4>4 DEF Proceeds
    <3>2. CASE txns' # Without(o)
      BY <1>1, <2>1, <3>2, OrderKept
    <3> QED
      BY <3>1, <3>2
  <2>2. CASE p # o
    <3>1. \E i \in 1 .. Len(txns) : txns[i] = p
      BY <2>2 DEF UniqueInv, Open
    <3> QED
      BY <1>1, <2>2, <3>1, OrderKept
  <2> QED
    BY <2>1, <2>2
<1>3. Searches'
  <2> SUFFICES ASSUME NEW p \in Op, stage'[p] = "search", call'[p].kind = "put"
               PROVE  ~call'[p].absent
    BY DEF Searches, Kind
  <2> QED
    BY DEF UniqueInv, Searches, SameCall, Kind
<1>4. ASSUME NEW p \in Op \ {o} PROVE ~Adds(p)'
  <2>1. ~Underway(p)
    BY RunsAlone
  <2>2. Fits(p) \/ stage[p] = "new"
    BY <1>1 DEF Calls
  <2> QED
    BY <2>1, <2>2 DEF Adds, Underway, Fits, Kind, Reads, SameCall
<1>5. ASSUME Careful, NEW p \in Op, stage'[p] = "add", call'[p].absent
      PROVE  KeyAbsent(p)' /\ KeyAwaited(p)'
  <2>1. p # o /\ stage[p] = "add" /\ call[p].absent
    BY <1>5 DEF SameCall
  <2>2. KeyAbsent(p) /\ KeyAwaited(p)
    BY <1>5, <2>1 DEF UniqueInv, Unique
  <2>3. KeyAbsent(p)'
    <3> SUFFICES ASSUME NEW r \in db', r.key = call'[p].key PROVE FALSE
      BY DEF KeyAbsent, SameKey
    <3>1. call'[p].key = call[p].key
      BY DEF SameCall
    <3>2. CASE \E s \in db : s.key = r.key
      BY <2>2, <3>1, <3>2 DEF KeyAbsent, SameKey
    <3>3. CASE Kind(o) = "put" /\ r.key = call[o].key
      <4>1. txns[1] = o /\ 1 \in 1 .. Len(txns) /\ Len(txns) \in Nat
        BY <1>1, <3>3, Running DEF Reads
      <4>2. PICK i \in 1 .. Len(txns) : txns[i] = p
        BY <2>1 DEF UniqueInv, Open, Pending
      <4>3. 1 < i
        BY <2>1, <4>1, <4>2
      <4> QED
        BY <2>2, <3>1, <3>3, <4>1, <4>2, <4>3 DEF KeyAwaited, SameKey
    <3> QED
      BY <1>5, <3>2, <3>3
  <2>4. KeyAwaited(p)'
    <3> SUFFICES ASSUME NEW i \in 1 .. Len(txns'), NEW j \in 1 .. Len(txns'),
                        j < i, txns'[i] = p, call'[txns'[j]].kind = "put"
                 PROVE  call'[txns'[j]].key # call'[p].key
      BY DEF KeyAwaited, SameKey, Kind
    <3>1. PICK k, l \in 1 .. Len(txns) : l < k /\ txns[k] = p /\ txns[l] = txns'[j]
      BY <1>1, <2>1, OrderKept
    <3>2. txns[l] \in Op
      BY <1>1 DEF Calls
    <3>3. SameCall(p) /\ SameCall(txns[l])
      BY <3>2
    <3>4. Kind(txns[l]) = "put"
      BY <3>1, <3>3 DEF SameCall, Kind
    <3>5. call[txns[l]].key # call[p].key
      BY <2>2, <3>1, <3>4 DEF KeyAwaited, SameKey
    <3> QED
      BY <3>1, <3>3, <3>5 DEF SameCall
  <2> QED
    BY <2>3, <2>4
<1>6. Unique'
  <2>1. Careful' = Careful
    OBVIOUS
  <2> QED
    BY <1>4, <1>5 DEF Unique
<1> QED
  BY <1>2, <1>3, <1>6 DEF UniqueInv

\* A step of o that leaves the calls and the store as they are.
LEMMA UniqueQuiet ==
  ASSUME StoreInv, UniqueInv, NEW o \in Op, Runs(o), call' = call, txns' = txns, db' = db,
         \A p \in Op \ {o} : stage'[p] = stage[p],
         stage'[o] = "add" => ~call[o].absent,
         stage'[o] = "search" => Kind(o) # "put",
         Careful /\ Adds(o)' => Adds(o) \/ NotStored(o)
  PROVE  UniqueInv'
<1>1. Proceeds(o) /\ \A p \in Op : SameCall(p)
  BY DEF Proceeds, SameCall
<1>2. Careful => /\ Distinct(db)'
                 /\ Adds(o)' => NotStored(o)'
                 /\ \A r \in db' : \E s \in db : s.key = r.key
  BY DEF UniqueInv, Unique, Distinct, NotStored
<1> QED
  BY <1>1, <1>2, UniqueMoved

LEMMA PutSearchedUnique ==
  ASSUME StoreInv, UniqueInv, NEW o \in Op, PutSearched(o) PROVE UniqueInv'
<1>1. /\ Runs(o) /\ stage[o] = "search" /\ Kind(o) = "put" /\ UNCHANGED storeVars
      /\ UNCHANGED <<txns, call>>
      /\ stage' = [stage EXCEPT ![o] = IF Matches(o) # {} THEN "update" ELSE "add"]
  BY DEF PutSearched, To
<1>2. stage'[o] \in {"update", "add"} /\ (stage'[o] = "add" => Matches(o) = {})
      /\ \A p \in Op \ {o} : stage'[p] = stage[p]
  BY <1>1 DEF StoreInv, Calls
<1>3. ~call[o].absent
  BY <1>1 DEF UniqueInv, Searches
<1>4. View(o) = db
  BY <1>1, RunsAlone DEF Underway, Unwritten, View
<1>5. Matches(o) = {} => NotStored(o)
  BY <1>1, <1>4 DEF Matches, NotStored, Kind
<1>6. Adds(o)' => stage'[o] = "add"
  BY <1>2 DEF Adds
<1> QED
  BY <1>1, <1>2, <1>3, <1>5, <1>6, UniqueQuiet DEF storeVars

LEMMA AddedUnique ==
  ASSUME StoreInv, UniqueInv, NEW o \in Op, Added(o) PROVE UniqueInv'
<1>1. /\ Runs(o) /\ stage[o] = "add" /\ UNCHANGED <<db, txns, call>>
      /\ stage' = [stage EXCEPT ![o] = "put"]
  BY DEF Added, To
<1>2. stage'[o] = "put" /\ \A p \in Op \ {o} : stage'[p] = stage[p]
  BY <1>1 DEF StoreInv, Calls
<1>3. Careful => NotStored(o)
  <2> SUFFICES ASSUME Careful PROVE NotStored(o)
    OBVIOUS
  <2>1. CASE call[o].absent
    <3>1. KeyAbsent(o)
      BY <1>1, <2>1 DEF UniqueInv, Unique
    <3> QED
      BY <3>1 DEF KeyAbsent, NotStored, SameKey, SameData
  <2>2. CASE ~call[o].absent
    BY <1>1, <2>2 DEF UniqueInv, Unique, Adds
  <2> QED
    BY <2>1, <2>2
<1> QED
  BY <1>1, <1>2, <1>3, UniqueQuiet

LEMMA PutUnique ==
  ASSUME StoreInv, UniqueInv, NEW o \in Op, Put(o) PROVE UniqueInv'
<1>1. /\ Runs(o) /\ stage[o] \in {"put", "update"} /\ UNCHANGED <<db, uids, draftUids, txns, call>>
      /\ stage' = [stage EXCEPT ![o] = "settled"]
  BY DEF Put, To
<1>2. stage'[o] = "settled" /\ \A p \in Op \ {o} : stage'[p] = stage[p]
  BY <1>1 DEF StoreInv, Calls
<1>3. Adds(o)' => Adds(o)
  <2>1. CASE stage[o] = "put"
    BY <2>1 DEF Adds
  <2>2. CASE stage[o] = "update"
    <3>1. Reads(Kind(o)) \/ draftUids = uids
      BY <1>1, <2>2, RunsAlone DEF Underway, Drafted, Unwritten
    <3>2. ~Reads(Kind(o))
      BY <1>1, <2>2, Running DEF StoreInv, Fits, Reads
    <3>3. draftUids' # uids' + 1
      BY <1>1, <3>1, <3>2 DEF StoreInv, Drafts, Items
    <3> QED
      BY <1>2, <3>3 DEF Adds
  <2> QED
    BY <1>1, <2>1, <2>2
<1> QED
  BY <1>1, <1>2, <1>3, UniqueQuiet

LEMMA SearchedUnique ==
  ASSUME StoreInv, UniqueInv, NEW o \in Op, Runs(o), Kind(o) # "put", call' = call, txns' = txns,
         db' = db, NEW s \in {"search", "settled", "update", "delete"},
         stage' = [stage EXCEPT ![o] = s]
  PROVE  UniqueInv'
<1>1. stage'[o] = s /\ \A p \in Op \ {o} : stage'[p] = stage[p]
  BY DEF StoreInv, Calls
<1>2. ~Adds(o)'
  BY <1>1 DEF Adds, Kind
<1> QED
  BY <1>1, <1>2, UniqueQuiet

LEMMA GetSearchedUnique ==
  ASSUME StoreInv, UniqueInv, NEW o \in Op, GetSearched(o) PROVE UniqueInv'
<1>1. Runs(o) /\ stage[o] = "search" /\ Kind(o) \in {"getKey", "getZero"} /\ db' = db
  BY DEF GetSearched, storeVars
<1>2. CASE To(o, "settled") /\ UNCHANGED <<txns, call>>
  BY <1>1, <1>2, SearchedUnique DEF To
<1>3. CASE WrapAround(o) /\ UNCHANGED <<stage, reply>>
  <2>1. call' = [call EXCEPT ![o].next = 0] /\ txns' = Append(Without(o), o) /\ stage' = stage
    BY <1>3 DEF WrapAround
  <2>2. \A p \in Op : SameCall(p)
    <3>1. call[o] \in CallRecord
      BY <1>1, Running DEF StoreInv
    <3>2. call \in [Op -> CallRecord \cup {None}]
      BY DEF StoreInv, Calls
    <3>3. call' = [call EXCEPT ![o] = [call[o] EXCEPT !.next = 0]]
      BY <2>1
    <3>4. call'[o] = [call[o] EXCEPT !.next = 0] /\ \A p \in Op \ {o} : call'[p] = call[p]
      BY <3>2, <3>3
    <3> QED
      BY <3>1, <3>4 DEF SameCall, CallRecord
  <2>3. ~Adds(o)'
    BY <1>1, <2>1 DEF Adds
  <2>4. Careful => Distinct(db)' /\ \A r \in db' : \E s \in db : s.key = r.key
    BY <1>1 DEF UniqueInv, Unique, Distinct
  <2>5. Proceeds(o)
    BY <2>1 DEF Proceeds
  <2> QED
    BY <1>1, <2>1, <2>2, <2>3, <2>4, <2>5, UniqueMoved
<1>4. \/ To(o, "settled") /\ UNCHANGED <<txns, call>>
      \/ WrapAround(o) /\ UNCHANGED <<stage, reply>>
  BY DEF GetSearched
<1> QED
  BY <1>2, <1>3, <1>4

LEMMA OtherSearchedUnique ==
  ASSUME StoreInv, UniqueInv, NEW o \in Op,
         \/ ReplicationSearched(o) \/ RemoveSearched(o) \/ KeysSearched(o)
         \/ \E keep \in BOOLEAN : ExpirationSearched(o, keep)
  PROVE  UniqueInv'
<1>1. CASE ReplicationSearched(o)
  BY <1>1, SearchedUnique DEF ReplicationSearched, To, storeVars
<1>2. CASE RemoveSearched(o)
  BY <1>2, SearchedUnique DEF RemoveSearched, To, storeVars
<1>3. CASE KeysSearched(o)
  <2>1. /\ Runs(o) /\ Kind(o) = "getKeys" /\ stage[o] = "search" /\ UNCHANGED <<call, txns, db>>
        /\ stage' = stage \/ To(o, "settled")
    BY <1>3 DEF KeysSearched, storeVars
  <2>2. stage' = stage => stage' = [stage EXCEPT ![o] = "search"]
    BY <2>1 DEF StoreInv, Calls
  <2> QED
    BY <2>1, <2>2, SearchedUnique DEF To
<1>4. ASSUME NEW keep \in BOOLEAN, ExpirationSearched(o, keep) PROVE UniqueInv'
  <2>1. /\ Runs(o) /\ Kind(o) = "getExpiration" /\ UNCHANGED <<call, txns, db>>
        /\ To(o, "settled") \/ To(o, "delete")
    BY <1>4 DEF ExpirationSearched, storeVars
  <2> QED
    BY <2>1, SearchedUnique DEF To
<1> QED
  BY <1>1, <1>2, <1>3, <1>4

LEMMA DeletedUnique ==
  ASSUME StoreInv, UniqueInv, NEW o \in Op, Deleted(o) PROVE UniqueInv'
<1>1. /\ Runs(o) /\ stage[o] = "delete" /\ UNCHANGED <<db, txns, call>>
      /\ stage' = [stage EXCEPT ![o] = "settled"]
  BY DEF Deleted, To
<1>2. Kind(o) # "put"
  BY <1>1, Running DEF StoreInv, Fits
<1> QED
  BY <1>1, <1>2, SearchedUnique

\* The transaction of o ends without a change to the store.
LEMMA UniqueEnded ==
  ASSUME StoreInv, UniqueInv, NEW o \in Op, Runs(o), call' = call, txns' = Without(o), db' = db,
         NEW s \in {"done", "failed"}, stage' = [stage EXCEPT ![o] = s]
  PROVE  UniqueInv'
<1>1. stage'[o] = s /\ \A p \in Op \ {o} : stage'[p] = stage[p]
  BY DEF StoreInv, Calls
<1>2. Proceeds(o) /\ \A p \in Op : SameCall(p)
  BY <1>1 DEF Proceeds, SameCall, Pending
<1>3. ~Adds(o)'
  BY <1>1 DEF Adds
<1>4. Careful => Distinct(db)' /\ \A r \in db' : \E x \in db : x.key = r.key
  BY DEF UniqueInv, Unique, Distinct
<1> QED
  BY <1>1, <1>2, <1>3, <1>4, UniqueMoved

LEMMA FailedUnique ==
  ASSUME StoreInv, UniqueInv, NEW o \in Op, Fail(o) \/ CannotCommit(o) PROVE UniqueInv'
<1>1. Runs(o) /\ call' = call /\ txns' = Without(o) /\ db' = db /\ To(o, "failed")
  BY DEF Fail, CannotCommit, Undone, storeVars
<1> QED
  BY <1>1, UniqueEnded DEF To

LEMMA CommitUnique ==
  ASSUME StoreInv, UniqueInv, NEW o \in Op, Commit(o) PROVE UniqueInv'
<1>1. /\ Runs(o) /\ stage[o] = "settled" /\ txns' = Without(o) /\ call' = call
      /\ stage' = [stage EXCEPT ![o] = "done"]
      /\ IF Reads(Kind(o)) THEN db' = db ELSE db' = draft
  BY DEF Commit, To, storeVars
<1>2. CASE db' = db
  BY <1>1, <1>2, UniqueEnded
<1>3. CASE ~Reads(Kind(o)) /\ (Inserted(o) \/ Changed(o))
  <2>1. db' = draft /\ (Careful => Distinct(db))
    BY <1>1, <1>3 DEF UniqueInv, Unique
  <2>2. stage'[o] = "done" /\ \A p \in Op \ {o} : stage'[p] = stage[p]
    BY <1>1 DEF StoreInv, Calls
  <2>3. Proceeds(o) /\ \A p \in Op : SameCall(p)
    BY <1>1, <2>2 DEF Proceeds, SameCall, Pending
  <2>4. ~Adds(o)'
    BY <2>2 DEF Adds
  <2>5. ASSUME Careful
        PROVE  Distinct(db') /\ \A r \in db' : (\E s \in db : s.key = r.key)
                                              \/ (Kind(o) = "put" /\ r.key = call[o].key)
    <3>1. CASE Inserted(o)
      <4>1. Kind(o) = "put" /\ draft = db \cup {Fresh(draftUids, call[o])} /\ Adds(o)
        BY <1>1, <3>1 DEF Inserted, Adds
      <4>2. NotStored(o)
        BY <2>5, <4>1 DEF UniqueInv, Unique
      <4>3. PICK n : n = Fresh(draftUids, call[o])
        OBVIOUS
      <4>4. n.key = call[o].key /\ n.data = call[o].data
        BY <4>3 DEF Fresh
      <4>5. db' = db \cup {n}
        BY <2>1, <4>1, <4>3
      <4> QED
        BY <2>1, <2>5, <4>1, <4>2, <4>4, <4>5 DEF NotStored, Distinct, SameData
    <3>2. CASE Changed(o)
      <4>1. PICK r \in db :
               \/ Kind(o) = "put" /\ draft = (db \ {r}) \cup {Merged(r, call[o])}
               \/ MostToDo(r) /\ draft = (db \ {r}) \cup {Decremented(r)}
               \/ draft = db \ {r}
        BY <3>2 DEF Changed
      <4>2. r \in Item /\ Called(call[o])
        BY <1>1 DEF StoreInv, Drafts, Items, Calls
      <4>3. CASE draft = db \ {r}
        BY <2>1, <2>5, <4>3 DEF Distinct
      <4>4. ASSUME NEW n, n.key = r.key, n.data = r.data, draft = (db \ {r}) \cup {n}
            PROVE  Distinct(db') /\ \A x \in db' : \E s \in db : s.key = x.key
        <5>1. db' = (db \ {r}) \cup {n}
          BY <2>1, <4>4
        <5>2. ASSUME NEW x \in db', NEW y \in db', SameData(x, y) PROVE x = y
          BY <2>1, <2>5, <4>4, <5>1, <5>2 DEF Distinct, SameData
        <5>3. \A x \in db' : \E s \in db : s.key = x.key
          BY <4>4, <5>1
        <5> QED
          BY <5>2, <5>3 DEF Distinct
      <4>5. /\ Decremented(r).key = r.key /\ Decremented(r).data = r.data
            /\ Kind(o) = "put" => Merged(r, call[o]).key = r.key /\ Merged(r, call[o]).data = r.data
        BY <4>2, DecrementedItem, MergedItem DEF Kind
      <4> QED
        BY <4>1, <4>3, <4>4, <4>5
    <3> QED
      BY <1>3, <3>1, <3>2
  <2> QED
    BY <1>1, <2>2, <2>3, <2>4, <2>5, UniqueMoved
<1>4. Reads(Kind(o)) \/ Unwritten \/ Inserted(o) \/ Changed(o)
  BY <1>1, RunsAlone DEF Underway, Drafted
<1> QED
  BY <1>1, <1>2, <1>3, <1>4 DEF Unwritten

LEMMA CrashUnique == ASSUME StoreInv, UniqueInv, Crash PROVE UniqueInv'
<1>1. /\ db' = db /\ call' = call
      /\ stage' = [o \in Op |-> IF \E i \in 1 .. Len(txns) : txns[i] = o THEN "lost" ELSE stage[o]]
  BY DEF Crash, Undone
<1>2. \A o \in Op : stage'[o] \notin Pending \cup {"settled"}
  BY <1>1 DEF UniqueInv, Open, Pending
<1>3. Open' /\ Searches'
  BY <1>2 DEF Open, Searches, Pending
<1>4. Unique'
  BY <1>1, <1>2 DEF UniqueInv, Unique, Distinct, Adds, Pending
<1> QED
  BY <1>3, <1>4 DEF UniqueInv

LEMMA StartUnique ==
  ASSUME StoreInv, UniqueInv, NEW o \in Op, NEW c \in Call, Start(o, c) PROVE UniqueInv'
<1>1. /\ stage[o] = "new" /\ UNCHANGED storeVars
      /\ call' = [call EXCEPT ![o] = WithTime(c)]
      /\ txns' = Append(txns, o)
      /\ stage' = [stage EXCEPT ![o] = IF c.kind = "put" /\ c.absent THEN "add" ELSE "search"]
  BY DEF Start, To
<1>2. /\ call \in [Op -> CallRecord \cup {None}] /\ stage \in [Op -> Stages] /\ txns \in Seq(Op)
      /\ \A i \in 1 .. Len(txns) : txns[i] \in Op /\ stage[txns[i]] \in Pending \cup {"settled"}
  BY DEF StoreInv, Calls
<1>3. /\ call'[o] = WithTime(c) /\ \A p \in Op \ {o} : call'[p] = call[p] /\ stage'[p] = stage[p]
      /\ stage'[o] = IF c.kind = "put" /\ c.absent THEN "add" ELSE "search"
  BY <1>1, <1>2
<1>4. c.kind = "put" => WithTime(c) = c
  BY DEF WithTime
<1>5. /\ Len(txns') = Len(txns) + 1 /\ Len(txns) \in Nat /\ txns'[Len(txns) + 1] = o
      /\ \A i \in 1 .. Len(txns) : txns'[i] = txns[i]
  BY <1>1, <1>2, AppendProperties
<1>6. \A i \in 1 .. Len(txns) : i \in 1 .. Len(txns') /\ txns[i] # o
  BY <1>1, <1>2, <1>5 DEF Pending
<1>7. \A i \in 1 .. Len(txns') : i \in 1 .. Len(txns) \/ i = Len(txns) + 1
  BY <1>5
<1>8. Open'
  <2>1. Len(txns) + 1 \in 1 .. Len(txns')
    BY <1>5
  <2>2. ASSUME NEW p \in Op, stage'[p] \in Pending \cup {"settled"}
        PROVE  \E i \in 1 .. Len(txns') : txns'[i] = p
    <3>1. CASE p = o
      BY <1>5, <2>1, <3>1
    <3>2. CASE p # o
      <4>1. PICK i \in 1 .. Len(txns) : txns[i] = p
        BY <1>3, <2>2, <3>2 DEF UniqueInv, Open
      <4> QED
        BY <1>5, <1>6, <4>1
    <3> QED
      BY <3>1, <3>2
  <2> QED
    BY <2>2 DEF Open
<1>9. Searches'
  <2>1. ASSUME NEW p \in Op, stage'[p] = "search", call'[p].kind = "put" PROVE ~call'[p].absent
    <3>1. CASE p = o
      <4>1. WithTime(c).kind = c.kind
        <5>1. c \in CallRecord
          BY CallAssumption DEF Called
        <5> QED
          BY <5>1 DEF WithTime, CallRecord
      <4>2. c.kind = "put" /\ ~(c.kind = "put" /\ c.absent)
        BY <1>3, <2>1, <3>1, <4>1
      <4> QED
        BY <1>3, <1>4, <3>1, <4>2
    <3>2. CASE p # o
      BY <1>3, <2>1, <3>2 DEF UniqueInv, Searches, Kind
    <3> QED
      BY <3>1, <3>2
  <2> QED
    BY <2>1 DEF Searches, Kind
<1>10. ASSUME Careful, NEW p \in Op, stage'[p] = "add", call'[p].absent
       PROVE  KeyAbsent(p)' /\ KeyAwaited(p)'
  <2>1. CASE p = o
    <3>1. c.kind = "put" /\ c.absent /\ call'[o] = c
      BY <1>3, <1>4, <1>10, <2>1
    <3>2. /\ \A r \in db : ~SameKey(r, c)
          /\ \A i \in 1 .. Len(txns) : Kind(txns[i]) = "put" => ~SameKey(call[txns[i]], c)
      BY <1>10, <3>1 DEF Start
    <3>3. KeyAbsent(p)'
      BY <1>1, <2>1, <3>1, <3>2 DEF KeyAbsent, storeVars
    <3>4. ASSUME NEW i \in 1 .. Len(txns'), NEW j \in 1 .. Len(txns'),
                 j < i, txns'[i] = p, call'[txns'[j]].kind = "put"
          PROVE  ~SameKey(call'[txns'[j]], call'[p])
      <4>1. j \in 1 .. Len(txns)
        BY <1>5, <3>4
      <4>2. txns'[j] = txns[j] /\ call'[txns[j]] = call[txns[j]]
        BY <1>2, <1>3, <1>5, <1>6, <4>1
      <4> QED
        BY <2>1, <3>1, <3>2, <3>4, <4>1, <4>2 DEF Kind
    <3> QED
      BY <3>3, <3>4 DEF KeyAwaited, Kind
  <2>2. CASE p # o
    <3>1. stage[p] = "add" /\ call'[p] = call[p] /\ call[p].absent
      BY <1>3, <1>10, <2>2
    <3>2. KeyAbsent(p) /\ KeyAwaited(p)
      BY <1>10, <3>1 DEF UniqueInv, Unique
    <3>3. KeyAbsent(p)'
      BY <1>1, <3>1, <3>2 DEF KeyAbsent, storeVars
    <3>4. ASSUME NEW i \in 1 .. Len(txns'), NEW j \in 1 .. Len(txns'),
                 j < i, txns'[i] = p, call'[txns'[j]].kind = "put"
          PROVE  ~SameKey(call'[txns'[j]], call'[p])
      <4>1. i \in 1 .. Len(txns)
        BY <1>5, <1>7, <2>2, <3>4
      <4>2. j \in 1 .. Len(txns)
        BY <1>5, <3>4, <4>1
      <4>3. txns'[i] = txns[i] /\ txns'[j] = txns[j] /\ call'[txns[j]] = call[txns[j]]
        BY <1>2, <1>3, <1>5, <1>6, <4>1, <4>2
      <4> QED
        BY <3>1, <3>2, <3>4, <4>1, <4>2, <4>3 DEF KeyAwaited, Kind
    <3> QED
      BY <3>3, <3>4 DEF KeyAwaited, Kind
  <2> QED
    BY <2>1, <2>2
<1>11. ASSUME NEW p \in Op, Adds(p)' PROVE Adds(p) /\ call'[p] = call[p]
  <2>1. p # o
    BY <1>3, <1>4, <1>11 DEF Adds
  <2> QED
    BY <1>1, <1>3, <1>11, <2>1 DEF Adds, Kind, storeVars
<1>12. Unique'
  <2> SUFFICES ASSUME Careful
               PROVE  Distinct(db)' /\ \A p \in Op : Adds(p)' => NotStored(p)'
    BY <1>10 DEF Unique
  <2>1. db' = db
    BY <1>1 DEF storeVars
  <2>2. Distinct(db) /\ \A p \in Op : Adds(p) => NotStored(p)
    BY DEF UniqueInv, Unique
  <2> QED
    BY <1>11, <2>1, <2>2 DEF Distinct, NotStored
<1> QED
  BY <1>8, <1>9, <1>12 DEF UniqueInv

LEMMA UnchangedUnique == ASSUME UniqueInv, UNCHANGED <<storeVars, opVars>> PROVE UniqueInv'
<1>1. UNCHANGED <<db, uids, draftUids, txns, call, stage>>
  BY DEF storeVars, opVars
<1>2. Open' /\ Searches'
  BY <1>1 DEF UniqueInv, Open, Searches, Kind
<1>3. ASSUME NEW o \in Op
      PROVE  /\ Adds(o) <=> Adds(o)'
             /\ NotStored(o) <=> NotStored(o)'
             /\ KeyAbsent(o) <=> KeyAbsent(o)'
             /\ KeyAwaited(o) <=> KeyAwaited(o)'
  <2>1. (Adds(o) <=> Adds(o)') /\ (NotStored(o) <=> NotStored(o)')
    BY <1>1 DEF Adds, NotStored, Kind
  <2>2. (KeyAbsent(o) <=> KeyAbsent(o)') /\ (KeyAwaited(o) <=> KeyAwaited(o)')
    BY <1>1 DEF KeyAbsent, KeyAwaited, Kind
  <2> QED
    BY <2>1, <2>2
<1>4. Unique'
  BY <1>1, <1>3 DEF UniqueInv, Unique, Distinct
<1> QED
  BY <1>2, <1>4 DEF UniqueInv

LEMMA UniqueStep == ASSUME StoreTyped, UniqueInv, [Next]_vars PROVE UniqueInv'
<1>1. StoreInv
  BY DEF StoreTyped
<1>2. ASSUME UNCHANGED vars \/ Tick PROVE UniqueInv'
  BY <1>2, UnchangedUnique DEF vars, Tick
<1>3. ASSUME Crash PROVE UniqueInv'
  BY <1>1, <1>3, CrashUnique
<1>4. ASSUME NEW o \in Op, Fail(o) \/ CannotCommit(o) PROVE UniqueInv'
  BY <1>1, <1>4, FailedUnique
<1>5. ASSUME NEW o \in Op, NEW c \in Call, Start(o, c) PROVE UniqueInv'
  BY <1>1, <1>5, StartUnique
<1>6. ASSUME NEW o \in Op, Event(o) PROVE UniqueInv'
  <2>1. ASSUME PutSearched(o) \/ Added(o) \/ Put(o) PROVE UniqueInv'
    BY <1>1, <2>1, PutSearchedUnique, AddedUnique, PutUnique
  <2>2. ASSUME \/ ReplicationSearched(o) \/ RemoveSearched(o) \/ KeysSearched(o)
               \/ \E keep \in BOOLEAN : ExpirationSearched(o, keep)
        PROVE  UniqueInv'
    BY <1>1, <2>2, OtherSearchedUnique
  <2>3. ASSUME GetSearched(o) \/ Deleted(o) \/ Commit(o) PROVE UniqueInv'
    BY <1>1, <2>3, GetSearchedUnique, DeletedUnique, CommitUnique
  <2> QED
    BY <1>6, <2>1, <2>2, <2>3 DEF Event
<1> QED
  BY <1>2, <1>3, <1>4, <1>5, <1>6 DEF Next

LEMMA InitUnique == Init => UniqueInv
<1> SUFFICES ASSUME Init PROVE UniqueInv
  OBVIOUS
<1>1. db \in Stored /\ \A o \in Op : stage[o] = "new"
  BY DEF Init
<1>2. Open /\ Searches
  BY <1>1 DEF Open, Searches, Pending
<1>3. Unique
  BY <1>1, StoredAssumption DEF Unique, Distinct, Adds
<1> QED
  BY <1>2, <1>3 DEF UniqueInv

\* An item that is put twice is stored once, whatever other calls are made
\* between the two requests of a put, as long as `absent' is not claimed for a
\* key that is just being put.
THEOREM ItemsUnique == Spec => []NoDuplicates
<1>1. Init => UniqueInv
  BY InitUnique
<1>2. StoreTyped /\ UniqueInv /\ [Next]_vars => UniqueInv'
  BY UniqueStep
<1>3. UniqueInv => NoDuplicates
  BY DEF UniqueInv, Unique, Distinct, SameData, NoDuplicates
<1> QED
  BY <1>1, <1>2, <1>3, StoreTypedAlways, PTL DEF Spec

-----------------------------------------------------------------------------
(* Every call is called back once, and truthfully.                         *)

\* What put or remove has called back with.
StatusGiven(o) ==
  /\ stage[o] \in Pending => reply[o] = <<>>
  /\ stage[o] \in {"settled", "done"} => \E n \in {0, 1} : reply[o] = <<Status(n)>>
  /\ stage[o] = "lost" => reply[o] = <<>> \/ \E n \in {0, 1} : reply[o] = <<Status(n)>>
  /\ stage[o] = "failed" => \/ reply[o] = <<>> \/ reply[o] = <<Status(-1)>>
                            \/ (full > 0 /\ \E n \in {0, 1} : reply[o] = <<Status(n)>>)

\* What get_key and the other searches for one item have.
ItemGiven(o) ==
  /\ stage[o] \in {"search", "update"} => reply[o] = <<>>
  /\ Len(reply[o]) <= 1

\* What get_keys has.
KeysGiven(o) ==
  /\ \A i, j \in 1 .. Len(reply[o]) : reply[o][i] = reply[o][j] => i = j
  /\ \A i \in 1 .. Len(reply[o]) - 1 : reply[o][i] # NULL
  /\ stage[o] = "search" => \A i \in 1 .. Len(reply[o]) : reply[o][i] # NULL

Given(o) ==
  /\ stage[o] = "new" => reply[o] = <<>>
  /\ stage[o] # "new" =>
       /\ Kind(o) \in {"put", "remove"} => StatusGiven(o)
       /\ Kind(o) \notin {"put", "remove", "getKeys"} => ItemGiven(o)
       /\ Kind(o) = "getKeys" => KeysGiven(o)

AllGiven == \A o \in Op : Given(o)

\* A step of o leaves the other calls as they are.
LEMMA GivenMoved ==
  ASSUME StoreTyped, AllGiven, NEW o \in Op,
         \A p \in Op \ {o} : /\ call'[p] = call[p] /\ stage'[p] = stage[p]
                             /\ reply'[p] = reply[p],
         full' = full \/ full' = full + 1, Given(o)'
  PROVE  AllGiven'
<1>1. full > 0 => full' > 0
  BY BoundAssumption DEF StoreTyped, Environment
<1>2. ASSUME NEW p \in Op \ {o} PROVE Given(p)'
  <2>1. Given(p) /\ call'[p] = call[p] /\ stage'[p] = stage[p] /\ reply'[p] = reply[p]
    BY DEF AllGiven
  <2>2. (StatusGiven(p) => StatusGiven(p)') /\ (ItemGiven(p) => ItemGiven(p)')
        /\ (KeysGiven(p) => KeysGiven(p)')
    <3>1. StatusGiven(p) => StatusGiven(p)'
      BY <1>1, <2>1 DEF StatusGiven
    <3>2. ItemGiven(p) => ItemGiven(p)'
      BY <2>1 DEF ItemGiven
    <3>3. KeysGiven(p) => KeysGiven(p)'
      BY <2>1 DEF KeysGiven
    <3> QED
      BY <3>1, <3>2, <3>3
  <2> QED
    BY <2>1, <2>2 DEF Given, Kind
<1> QED
  BY <1>2 DEF AllGiven

\* What a call that is not get_keys waits for, it has not been called back for;
\* but for get_expiration, which deletes after its answer.
LEMMA NotYetAnswered ==
  ASSUME StoreTyped, AllGiven, NEW o \in Op, Runs(o), Kind(o) # "getKeys",
         stage[o] \in Pending, stage[o] = "delete" => Kind(o) = "remove"
  PROVE  reply[o] = <<>>
<1>1. Given(o) /\ Fits(o) /\ stage[o] # "new"
  BY Running DEF AllGiven, StoreTyped, StoreInv
<1>2. CASE Kind(o) \in {"put", "remove"}
  BY <1>1, <1>2 DEF Given, StatusGiven
<1>3. CASE Kind(o) \notin {"put", "remove"}
  <2>1. stage[o] \in {"search", "update"}
    BY <1>1, <1>3 DEF Fits, Pending
  <2> QED
    BY <1>1, <1>3, <2>1 DEF Given, ItemGiven
<1> QED
  BY <1>2, <1>3

\* The one answer is given.
LEMMA AnsweredNow ==
  ASSUME StoreTyped, AllGiven, NEW o \in Op, Runs(o), Kind(o) # "getKeys",
         stage[o] \in Pending, stage[o] = "delete" => Kind(o) = "remove",
         NEW x, Answer(o, x), call' = call, full' = full,
         NEW s \in {"settled", "delete"}, To(o, s),
         Kind(o) \in {"put", "remove"} => s = "settled" /\ \E n \in {0, 1} : x = Status(n)
  PROVE  AllGiven'
<1>1. reply[o] = <<>>
  BY NotYetAnswered
<1>2. /\ reply'[o] = Append(reply[o], x) /\ \A p \in Op \ {o} : reply'[p] = reply[p]
      /\ stage'[o] = s /\ \A p \in Op \ {o} : stage'[p] = stage[p]
  BY DEF Answer, To, StoreTyped, StoreInv, Calls, Results
<1>3. reply'[o] = <<x>> /\ Len(reply'[o]) = 1
  BY <1>1, <1>2
<1>4. ASSUME Kind(o) \in {"put", "remove"} PROVE Given(o)'
  BY <1>2, <1>3, <1>4 DEF Given, StatusGiven, Kind, Pending
<1>5. ASSUME Kind(o) \notin {"put", "remove", "getKeys"} PROVE Given(o)'
  BY <1>2, <1>3, <1>5 DEF Given, ItemGiven, Kind
<1> QED
  BY <1>2, <1>4, <1>5, GivenMoved

\* A step without an answer.
LEMMA NotAnswered ==
  ASSUME StoreTyped, AllGiven, NEW o \in Op, Runs(o), Kind(o) # "getKeys",
         stage[o] \in Pending, stage[o] = "delete" => Kind(o) = "remove",
         reply' = reply, \A p \in Op \ {o} : call'[p] = call[p],
         call'[o].kind = call[o].kind, full' = full,
         NEW s \in Pending, To(o, s)
  PROVE  AllGiven'
<1>1. reply[o] = <<>>
  BY NotYetAnswered
<1>2. stage'[o] = s /\ \A p \in Op \ {o} : stage'[p] = stage[p]
  BY DEF To, StoreTyped, StoreInv, Calls
<1>3. reply'[o] = <<>> /\ Len(reply'[o]) = 0
  BY <1>1
<1>4. Given(o)'
  BY <1>2, <1>3 DEF Given, StatusGiven, ItemGiven, Kind, Pending
<1> QED
  BY <1>2, <1>4, GivenMoved

LEMMA PutGiven == ASSUME StoreTyped, AllGiven, NEW o \in Op, Put(o) PROVE AllGiven'
<1>1. /\ Runs(o) /\ stage[o] \in {"put", "update"} /\ To(o, "settled") /\ call' = call
      /\ full' = full
      /\ Answer(o, CASE Kind(o) = "getReplication" -> Found(found[o])
                     [] stage[o] = "put" -> Status(1)
                     [] OTHER -> Status(0))
  BY DEF Put, envVars
<1>2. Kind(o) \in {"put", "getReplication"}
  BY <1>1, Running DEF Fits, StoreTyped, StoreInv
<1>3. PICK x : /\ Answer(o, x)
               /\ Kind(o) \in {"put", "remove"} => \E n \in {0, 1} : x = Status(n)
  BY <1>1, <1>2
<1>4. stage[o] \in Pending /\ stage[o] # "delete"
  BY <1>1 DEF Pending
<1> QED
  BY <1>1, <1>2, <1>3, <1>4, AnsweredNow

LEMMA SearchedGiven ==
  ASSUME StoreTyped, AllGiven, NEW o \in Op,
         \/ PutSearched(o) \/ GetSearched(o) \/ ReplicationSearched(o) \/ RemoveSearched(o)
         \/ \E keep \in BOOLEAN : ExpirationSearched(o, keep)
  PROVE  AllGiven'
<1>1. Runs(o) /\ Kind(o) # "getKeys" /\ stage[o] = "search" /\ full' = full
  BY DEF PutSearched, GetSearched, ReplicationSearched, RemoveSearched, ExpirationSearched, envVars
<1>2. stage[o] \in Pending /\ stage[o] # "delete"
  BY <1>1 DEF Pending
<1>3. ASSUME NEW x, NEW s \in {"settled", "delete"}, Answer(o, x), To(o, s), call' = call,
             Kind(o) \in {"put", "remove"} => s = "settled" /\ \E n \in {0, 1} : x = Status(n)
      PROVE  AllGiven'
  BY <1>1, <1>2, <1>3, AnsweredNow
<1>4. ASSUME NEW s \in Pending, To(o, s), reply' = reply, call' = call PROVE AllGiven'
  BY <1>1, <1>2, <1>4, NotAnswered
<1>5. CASE PutSearched(o)
  <2>1. (To(o, "update") \/ To(o, "add")) /\ reply' = reply /\ call' = call
    BY <1>5 DEF PutSearched
  <2> QED
    BY <1>4, <2>1 DEF Pending
<1>6. CASE GetSearched(o)
  <2>1. CASE WrapAround(o) /\ UNCHANGED <<stage, reply>>
    <3>1. /\ call' = [call EXCEPT ![o] = [call[o] EXCEPT !.next = 0]] /\ stage' = stage
          /\ call[o] \in CallRecord /\ call \in [Op -> CallRecord \cup {None}]
      BY <1>1, <2>1, Running DEF WrapAround, StoreTyped, StoreInv, Calls
    <3>2. call'[o].kind = call[o].kind /\ \A p \in Op \ {o} : call'[p] = call[p]
      BY <3>1 DEF CallRecord
    <3>3. To(o, "search")
      BY <1>1, <3>1 DEF To, StoreTyped, StoreInv, Calls
    <3> QED
      BY <1>1, <1>2, <2>1, <3>2, <3>3, NotAnswered
  <2>2. CASE /\ \E x : Answer(o, x)
             /\ To(o, "settled") /\ call' = call /\ Kind(o) \in {"getKey", "getZero"}
    BY <1>3, <2>2
  <2> QED
    BY <1>6, <2>1, <2>2 DEF GetSearched
<1>7. CASE ReplicationSearched(o)
  <2>1. /\ Kind(o) = "getReplication" /\ call' = call
        /\ \/ To(o, "update") /\ reply' = reply
           \/ Answer(o, NULL) /\ To(o, "settled")
    BY <1>7 DEF ReplicationSearched
  <2> QED
    BY <1>3, <1>4, <2>1 DEF Pending
<1>8. CASE RemoveSearched(o)
  <2>1. /\ Kind(o) = "remove" /\ call' = call
        /\ \/ To(o, "delete") /\ reply' = reply
           \/ Answer(o, Status(0)) /\ To(o, "settled")
    BY <1>8 DEF RemoveSearched
  <2> QED
    BY <1>3, <1>4, <2>1 DEF Pending
<1>9. ASSUME NEW keep \in BOOLEAN, ExpirationSearched(o, keep) PROVE AllGiven'
  <2>1. /\ Kind(o) = "getExpiration" /\ call' = call
        /\ \/ Answer(o, Found(First(o))) /\ (To(o, "settled") \/ To(o, "delete"))
           \/ Answer(o, NULL) /\ To(o, "settled")
    BY <1>9 DEF ExpirationSearched
  <2> QED
    BY <1>3, <2>1
<1> QED
  BY <1>5, <1>6, <1>7, <1>8, <1>9

LEMMA AddedGiven == ASSUME StoreTyped, AllGiven, NEW o \in Op, Added(o) PROVE AllGiven'
<1>1. /\ Runs(o) /\ stage[o] = "add" /\ To(o, "put") /\ call' = call /\ reply' = reply
      /\ full' = full
  BY DEF Added, envVars
<1>2. Kind(o) = "put"
  BY <1>1, Running DEF Fits, StoreTyped, StoreInv
<1> QED
  BY <1>1, <1>2, NotAnswered DEF Pending

\* The entries of by_key are no NULL.
LEMMA EntriesNotNull == \A r : IndexEntry(r) # NULL
BY DEF IndexEntry, Found, Status, NULL

LEMMA KeysSearchedGiven ==
  ASSUME StoreTyped, AllGiven, NEW o \in Op, KeysSearched(o) PROVE AllGiven'
<1>1. /\ Runs(o) /\ stage[o] = "search" /\ Kind(o) = "getKeys" /\ call' = call /\ full' = full
  BY DEF KeysSearched, envVars
<1>2. KeysGiven(o)
  BY <1>1 DEF AllGiven, Given
<1>3. PICK s : s = reply[o]
  OBVIOUS
<1>4. s \in Seq(Reply) /\ Len(s) \in Nat
  BY <1>3 DEF StoreTyped, StoreInv, Results
<1>5. PICK x : /\ Answer(o, x)
               /\ \/ stage' = stage /\ x # NULL /\ \A i \in 1 .. Len(s) : s[i] # x
                  \/ To(o, "settled") /\ x = NULL
  BY <1>3, EntriesNotNull DEF KeysSearched
<1>6. /\ reply'[o] = Append(s, x) /\ \A p \in Op \ {o} : reply'[p] = reply[p]
  BY <1>3, <1>5 DEF Answer, StoreTyped, StoreInv, Results
<1>7. /\ stage'[o] \in {"search", "settled"} /\ \A p \in Op \ {o} : stage'[p] = stage[p]
      /\ stage'[o] = "search" => x # NULL
      /\ \A i \in 1 .. Len(s) : s[i] # x /\ s[i] # NULL
  <2>1. \A i \in 1 .. Len(s) : s[i] # NULL
    BY <1>1, <1>2, <1>3 DEF KeysGiven
  <2>2. stage \in [Op -> Stages]
    BY DEF StoreTyped, StoreInv, Calls
  <2>3. CASE stage' = stage /\ x # NULL /\ \A i \in 1 .. Len(s) : s[i] # x
    BY <1>1, <2>1, <2>3
  <2>4. CASE To(o, "settled") /\ x = NULL
    BY <2>1, <2>2, <2>4 DEF To
  <2> QED
    BY <1>5, <2>3, <2>4
<1>8. PICK t : t = Append(s, x)
  OBVIOUS
<1>9. /\ Len(t) = Len(s) + 1 /\ t[Len(s) + 1] = x
      /\ \A i \in 1 .. Len(s) : t[i] = s[i]
      /\ \A i \in 1 .. Len(t) : i \in 1 .. Len(s) \/ i = Len(s) + 1
      /\ \A i \in 1 .. Len(t) - 1 : i \in 1 .. Len(s)
  <2>1. Len(t) = Len(s) + 1 /\ t[Len(s) + 1] = x /\ \A i \in 1 .. Len(s) : t[i] = s[i]
    BY <1>4, <1>8
  <2> QED
    BY <1>4, <2>1
<1>10. \A i, j \in 1 .. Len(s) : s[i] = s[j] => i = j
  BY <1>2, <1>3 DEF KeysGiven
<1>11. \A i, j \in 1 .. Len(t) : t[i] = t[j] => i = j
  BY <1>7, <1>9, <1>10
<1>12. \A i \in 1 .. Len(t) - 1 : t[i] # NULL
  BY <1>7, <1>9
<1>13. stage'[o] = "search" => \A i \in 1 .. Len(t) : t[i] # NULL
  BY <1>7, <1>9
<1>14. KeysGiven(o)'
  BY <1>6, <1>8, <1>11, <1>12, <1>13 DEF KeysGiven, NULL, Status, NoRecord, Placeholder
<1>15. Given(o)'
  BY <1>1, <1>7, <1>14 DEF Given, Kind
<1> QED
  BY <1>1, <1>6, <1>7, <1>15, GivenMoved

LEMMA DeletedGiven == ASSUME StoreTyped, AllGiven, NEW o \in Op, Deleted(o) PROVE AllGiven'
<1>1. /\ Runs(o) /\ stage[o] = "delete" /\ To(o, "settled") /\ call' = call /\ full' = full
      /\ IF Kind(o) = "remove" THEN Answer(o, Status(1)) ELSE reply' = reply
  BY DEF Deleted, envVars
<1>2. CASE Kind(o) = "remove"
  BY <1>1, <1>2, AnsweredNow DEF Pending
<1>3. CASE Kind(o) # "remove"
  <2>1. Kind(o) = "getExpiration"
    BY <1>1, <1>3, Running DEF Fits, StoreTyped, StoreInv
  <2>2. stage'[o] = "settled" /\ \A p \in Op \ {o} : stage'[p] = stage[p]
    BY <1>1 DEF To, StoreTyped, StoreInv, Calls
  <2>3. Len(reply[o]) <= 1
    BY <1>1, <2>1 DEF AllGiven, Given, ItemGiven
  <2>4. Given(o)'
    BY <1>1, <1>3, <2>1, <2>2, <2>3 DEF Given, ItemGiven, Kind
  <2> QED
    BY <1>1, <1>3, <2>2, <2>4, GivenMoved
<1> QED
  BY <1>2, <1>3

LEMMA CommitGiven == ASSUME StoreTyped, AllGiven, NEW o \in Op, Commit(o) PROVE AllGiven'
<1>1. /\ stage[o] = "settled" /\ To(o, "done") /\ UNCHANGED <<call, reply, full>>
  BY DEF Commit, envVars
<1>2. stage'[o] = "done" /\ \A p \in Op \ {o} : stage'[p] = stage[p]
  BY <1>1 DEF To, StoreTyped, StoreInv, Calls
<1>3. Given(o)
  BY DEF AllGiven
<1>4. Given(o)'
  <2>1. StatusGiven(o) => StatusGiven(o)'
    BY <1>1, <1>2 DEF StatusGiven, Pending
  <2>2. (ItemGiven(o) => ItemGiven(o)') /\ (KeysGiven(o) => KeysGiven(o)')
    BY <1>1, <1>2 DEF ItemGiven, KeysGiven
  <2> QED
    BY <1>1, <1>2, <1>3, <2>1, <2>2 DEF Given, Kind
<1> QED
  BY <1>1, <1>2, <1>4, GivenMoved

LEMMA CannotCommitGiven ==
  ASSUME StoreTyped, AllGiven, NEW o \in Op, CannotCommit(o) PROVE AllGiven'
<1>1. /\ stage[o] = "settled" /\ To(o, "failed") /\ UNCHANGED <<call, reply>> /\ full' = full + 1
  BY DEF CannotCommit
<1>2. stage'[o] = "failed" /\ \A p \in Op \ {o} : stage'[p] = stage[p]
  BY <1>1 DEF To, StoreTyped, StoreInv, Calls
<1>3. full' > 0
  BY <1>1, BoundAssumption DEF StoreTyped, Environment
<1>4. Given(o)
  BY DEF AllGiven
<1>5. Given(o)'
  <2>1. StatusGiven(o) => StatusGiven(o)'
    BY <1>1, <1>2, <1>3 DEF StatusGiven, Pending
  <2>2. (ItemGiven(o) => ItemGiven(o)') /\ (KeysGiven(o) => KeysGiven(o)')
    BY <1>1, <1>2 DEF ItemGiven, KeysGiven
  <2> QED
    BY <1>1, <1>2, <1>4, <2>1, <2>2 DEF Given, Kind
<1> QED
  BY <1>1, <1>2, <1>5, GivenMoved

LEMMA FailGiven == ASSUME StoreTyped, AllGiven, NEW o \in Op, Fail(o) PROVE AllGiven'
<1>1. /\ Runs(o) /\ stage[o] \in Pending /\ To(o, "failed") /\ UNCHANGED <<call, full>>
      /\ reply' = [reply EXCEPT ![o] = @ \o AnswerToFailure(o)]
  BY DEF Fail
<1>2. /\ stage'[o] = "failed" /\ \A p \in Op \ {o} : stage'[p] = stage[p]
      /\ reply'[o] = reply[o] \o AnswerToFailure(o)
      /\ \A p \in Op \ {o} : reply'[p] = reply[p]
  BY <1>1 DEF To, StoreTyped, StoreInv, Calls, Results
<1>3. PICK s : s = reply[o]
  OBVIOUS
<1>4. s \in Seq(Reply) /\ Len(s) \in Nat
  BY <1>3 DEF StoreTyped, StoreInv, Results
<1>5. Fits(o) /\ Given(o) /\ stage[o] # "new"
  BY <1>1, Running DEF StoreTyped, StoreInv, AllGiven
<1>6. CASE Kind(o) \in {"put", "remove"}
  <2>1. s = <<>>
    BY <1>1, <1>3, <1>5, <1>6 DEF Given, StatusGiven
  <2>2. AnswerToFailure(o) = <<>> \/ AnswerToFailure(o) = <<Status(-1)>>
    BY <1>6 DEF AnswerToFailure
  <2>3. reply'[o] = <<>> \/ reply'[o] = <<Status(-1)>>
    BY <1>2, <1>3, <2>1, <2>2
  <2>4. StatusGiven(o)'
    BY <1>2, <2>3 DEF StatusGiven, Pending, Status, NoRecord, Placeholder
  <2> QED
    BY <1>1, <1>2, <1>6, <2>4, GivenMoved DEF Given, Kind
<1>7. CASE Kind(o) \notin {"put", "remove", "getKeys"}
  <2>1. Len(reply'[o]) <= 1
    <3>1. CASE stage[o] \in {"search", "update"}
      <4>1. s = <<>>
        BY <1>3, <1>5, <1>7, <3>1 DEF Given, ItemGiven
      <4>2. AnswerToFailure(o) = <<NULL>>
        BY <1>7, <3>1 DEF AnswerToFailure
      <4> QED
        BY <1>2, <1>3, <4>1, <4>2
    <3>2. CASE stage[o] = "delete"
      <4>1. AnswerToFailure(o) = <<>> /\ Len(s) <= 1
        BY <1>3, <1>5, <1>7, <3>2 DEF Given, ItemGiven, AnswerToFailure, Fits
      <4>2. reply'[o] = s
        BY <1>2, <1>3, <1>4, <4>1, ConcatEmptySeq
      <4> QED
        BY <4>1, <4>2
    <3> QED
      BY <1>1, <1>5, <1>7, <3>1, <3>2 DEF Pending, Fits
  <2> QED
    BY <1>1, <1>2, <1>7, <2>1, GivenMoved DEF Given, ItemGiven, Kind
<1>8. CASE Kind(o) = "getKeys"
  <2>1. stage[o] = "search"
    BY <1>1, <1>5, <1>8 DEF Pending, Fits
  <2>2. AnswerToFailure(o) = <<NULL>>
    BY <1>8, <2>1 DEF AnswerToFailure
  <2>3. PICK x : x = NULL
    OBVIOUS
  <2>4. PICK t : t = s \o <<x>>
    OBVIOUS
  <2>5. /\ Len(t) = Len(s) + 1 /\ t[Len(s) + 1] = x
        /\ \A i \in 1 .. Len(s) : t[i] = s[i]
        /\ \A i \in 1 .. Len(t) : i \in 1 .. Len(s) \/ i = Len(s) + 1
        /\ \A i \in 1 .. Len(t) - 1 : i \in 1 .. Len(s)
    <3>1. Len(t) = Len(s) + 1 /\ t[Len(s) + 1] = x /\ \A i \in 1 .. Len(s) : t[i] = s[i]
      BY <1>4, <2>4
    <3> QED
      BY <1>4, <3>1
  <2>6. /\ \A i, j \in 1 .. Len(s) : s[i] = s[j] => i = j
        /\ \A i \in 1 .. Len(s) : s[i] # x
    BY <1>3, <1>5, <1>8, <2>1, <2>3 DEF Given, KeysGiven
  <2>7. \A i, j \in 1 .. Len(t) : t[i] = t[j] => i = j
    BY <2>5, <2>6
  <2>8. \A i \in 1 .. Len(t) - 1 : t[i] # x
    BY <2>5, <2>6
  <2>9. reply'[o] = t /\ NULL' = x
    BY <1>2, <1>3, <2>2, <2>3, <2>4 DEF NULL, Status, NoRecord, Placeholder
  <2>10. KeysGiven(o)'
    BY <1>2, <2>7, <2>8, <2>9 DEF KeysGiven
  <2> QED
    BY <1>1, <1>2, <1>8, <2>10, GivenMoved DEF Given, Kind
<1> QED
  BY <1>6, <1>7, <1>8

LEMMA StartGiven ==
  ASSUME StoreTyped, AllGiven, NEW o \in Op, NEW c \in Call, Start(o, c) PROVE AllGiven'
<1>1. /\ stage[o] = "new" /\ UNCHANGED <<reply, full>>
      /\ call' = [call EXCEPT ![o] = WithTime(c)]
      /\ stage' = [stage EXCEPT ![o] = IF c.kind = "put" /\ c.absent THEN "add" ELSE "search"]
  BY DEF Start, To, envVars
<1>2. /\ stage'[o] \in {"add", "search"} /\ call'[o] = WithTime(c)
      /\ \A p \in Op \ {o} : stage'[p] = stage[p] /\ call'[p] = call[p]
      /\ stage'[o] = "add" => c.kind = "put"
  BY <1>1 DEF StoreTyped, StoreInv, Calls
<1>3. reply'[o] = <<>> /\ Len(reply'[o]) = 0
  BY <1>1 DEF AllGiven, Given
<1>4. Given(o)'
  <2>1. StatusGiven(o)' /\ ItemGiven(o)'
    BY <1>2, <1>3 DEF StatusGiven, ItemGiven, Pending
  <2>2. KeysGiven(o)'
    BY <1>3 DEF KeysGiven
  <2> QED
    BY <1>2, <1>3, <2>1, <2>2 DEF Given
<1> QED
  BY <1>1, <1>2, <1>4, GivenMoved

LEMMA CrashGiven == ASSUME StoreTyped, AllGiven, Crash PROVE AllGiven'
<1>1. /\ UNCHANGED <<call, reply, full>>
      /\ stage' = [o \in Op |-> IF \E i \in 1 .. Len(txns) : txns[i] = o THEN "lost" ELSE stage[o]]
  BY DEF Crash
<1>2. ASSUME NEW o \in Op PROVE Given(o)'
  <2>1. Given(o)
    BY DEF AllGiven
  <2>2. CASE stage'[o] = stage[o]
    <3>1. StatusGiven(o) => StatusGiven(o)'
      BY <1>1, <2>2 DEF StatusGiven
    <3>2. (ItemGiven(o) => ItemGiven(o)') /\ (KeysGiven(o) => KeysGiven(o)')
      BY <1>1, <2>2 DEF ItemGiven, KeysGiven
    <3> QED
      BY <1>1, <2>1, <2>2, <3>1, <3>2 DEF Given, Kind
  <2>3. CASE stage'[o] = "lost" /\ \E i \in 1 .. Len(txns) : txns[i] = o
    <3>1. stage[o] \in Pending \cup {"settled"} /\ stage[o] # "new"
      BY <2>3 DEF StoreTyped, StoreInv, Calls, Pending
    <3>2. StatusGiven(o) => StatusGiven(o)'
      BY <1>1, <2>3, <3>1 DEF StatusGiven, Pending
    <3>3. (ItemGiven(o) => ItemGiven(o)') /\ (KeysGiven(o) => KeysGiven(o)')
      BY <1>1, <2>3 DEF ItemGiven, KeysGiven
    <3> QED
      BY <1>1, <2>1, <2>3, <3>1, <3>2, <3>3 DEF Given, Kind
  <2> QED
    BY <1>1, <2>2, <2>3
<1> QED
  BY <1>2 DEF AllGiven

LEMMA UnchangedGiven ==
  ASSUME AllGiven, UNCHANGED <<storeVars, opVars, full>> PROVE AllGiven'
<1>1. UNCHANGED <<call, stage, reply, full>>
  BY DEF opVars
<1>2. ASSUME NEW o \in Op PROVE Given(o)'
  <2>1. Given(o)
    BY DEF AllGiven
  <2>2. StatusGiven(o) => StatusGiven(o)'
    BY <1>1 DEF StatusGiven
  <2>3. (ItemGiven(o) => ItemGiven(o)') /\ (KeysGiven(o) => KeysGiven(o)')
    BY <1>1 DEF ItemGiven, KeysGiven
  <2> QED
    BY <1>1, <2>1, <2>2, <2>3 DEF Given, Kind
<1> QED
  BY <1>2 DEF AllGiven

LEMMA GivenStep == ASSUME StoreTyped, AllGiven, [Next]_vars PROVE AllGiven'
<1>1. ASSUME UNCHANGED vars \/ Tick PROVE AllGiven'
  BY <1>1, UnchangedGiven DEF vars, Tick, envVars
<1>2. ASSUME Crash PROVE AllGiven'
  BY <1>2, CrashGiven
<1>3. ASSUME NEW o \in Op, Fail(o) \/ CannotCommit(o) PROVE AllGiven'
  BY <1>3, FailGiven, CannotCommitGiven
<1>4. ASSUME NEW o \in Op, NEW c \in Call, Start(o, c) PROVE AllGiven'
  BY <1>4, StartGiven
<1>5. ASSUME NEW o \in Op, Event(o) PROVE AllGiven'
  <2>1. ASSUME \/ PutSearched(o) \/ GetSearched(o) \/ ReplicationSearched(o) \/ RemoveSearched(o)
               \/ \E keep \in BOOLEAN : ExpirationSearched(o, keep)
        PROVE  AllGiven'
    BY <2>1, SearchedGiven
  <2>2. ASSUME \/ Added(o) \/ Put(o) \/ KeysSearched(o) \/ Deleted(o) \/ Commit(o) PROVE AllGiven'
    BY <2>2, AddedGiven, PutGiven, KeysSearchedGiven, DeletedGiven, CommitGiven
  <2> QED
    BY <1>5, <2>1, <2>2 DEF Event
<1> QED
  BY <1>1, <1>2, <1>3, <1>4, <1>5 DEF Next

THEOREM GivenAlways == Spec => []AllGiven
<1>1. Init => AllGiven
  BY DEF Init, AllGiven, Given
<1>2. StoreTyped /\ AllGiven /\ [Next]_vars => AllGiven'
  BY GivenStep
<1> QED
  BY <1>1, <1>2, StoreTypedAlways, PTL DEF Spec

LEMMA OnceGiven == ASSUME StoreTyped, AllGiven PROVE AnsweredOnce
<1> SUFFICES ASSUME NEW o \in Op
             PROVE  /\ call[o] # None /\ Kind(o) # "getKeys" => Len(reply[o]) <= 1
                    /\ \A i, j \in 1 .. Len(reply[o]) : reply[o][i] = reply[o][j] => i = j
                    /\ \A i \in 1 .. Len(reply[o]) - 1 : reply[o][i] # NULL
  BY DEF AnsweredOnce
<1>1. Given(o)
  BY DEF AllGiven
<1>2. PICK s : s = reply[o]
  OBVIOUS
<1>3. s \in Seq(Reply) /\ Len(s) \in Nat
  BY <1>2 DEF StoreTyped, StoreInv, Results
<1>4. CASE stage[o] # "new" /\ Kind(o) = "getKeys"
  BY <1>1, <1>4 DEF Given, KeysGiven
<1>5. CASE stage[o] = "new" \/ Kind(o) # "getKeys"
  <2>1. Len(s) <= 1
    <3>1. CASE stage[o] = "new"
      BY <1>1, <1>2, <3>1 DEF Given
    <3>2. CASE stage[o] # "new" /\ Kind(o) \in {"put", "remove"}
      <4>1. s = <<>> \/ \E x : s = <<x>>
        <5>1. stage[o] \in Pending \cup {"settled", "done", "failed", "lost"}
          BY <3>2 DEF StoreTyped, StoreInv, Calls, Stages
        <5>2. StatusGiven(o)
          BY <1>1, <3>2 DEF Given
        <5> QED
          BY <1>2, <5>1, <5>2 DEF StatusGiven
      <4>2. CASE s = <<>>
        BY <4>2
      <4>3. ASSUME NEW x, s = <<x>> PROVE Len(s) <= 1
        BY <4>3
      <4> QED
        BY <4>1, <4>2, <4>3
    <3>3. CASE stage[o] # "new" /\ Kind(o) \notin {"put", "remove", "getKeys"}
      BY <1>1, <1>2, <3>3 DEF Given, ItemGiven
    <3> QED
      BY <1>5, <3>1, <3>2, <3>3
  <2>2. /\ \A i, j \in 1 .. Len(s) : i = j
        /\ \A i \in 1 .. Len(s) - 1 : FALSE
    BY <1>3, <2>1
  <2> QED
    BY <1>2, <2>1, <2>2
<1> QED
  BY <1>4, <1>5

LEMMA FailuresTold ==
  ASSUME StoreTyped, AllGiven, NEW o \in Op, Kind(o) \in {"put", "remove"}, reply[o] # <<>>,
         reply[o][1].status = -1
  PROVE  stage[o] = "failed"
<1>1. stage[o] # "new" /\ StatusGiven(o)
  BY DEF AllGiven, Given
<1>2. stage[o] \in {"settled", "done", "lost", "failed"}
  BY <1>1 DEF StatusGiven, StoreTyped, StoreInv, Calls, Stages
<1>3. CASE stage[o] # "failed"
  <2>1. PICK n \in {0, 1} : reply[o] = <<Status(n)>>
    BY <1>1, <1>2, <1>3 DEF StatusGiven
  <2>2. reply[o][1] = Status(n)
    BY <2>1
  <2> QED
    BY <2>1, <2>2 DEF Status
<1> QED
  BY <1>3

\* A failing request tells put and remove of it, a commit on a full disk does not,
\* and nothing else makes a failed call.
InVain == IsFiniteSet(ToldInVain) /\ Cardinality(ToldInVain) <= full

LEMMA NotMoreInVain ==
  ASSUME InVain, ToldInVain' \subseteq ToldInVain, full' = full, full \in Nat
  PROVE  InVain'
<1>1. IsFiniteSet(ToldInVain') /\ Cardinality(ToldInVain') <= Cardinality(ToldInVain)
  BY FS_Subset DEF InVain
<1>2. Cardinality(ToldInVain') \in Nat /\ Cardinality(ToldInVain) \in Nat
  BY <1>1, FS_CardinalityType DEF InVain
<1> QED
  BY <1>1, <1>2 DEF InVain

\* A step that fails no call.
LEMMA NoneFails ==
  ASSUME InVain, UNCHANGED <<full>>, full \in Nat,
         \A o \in Op : stage'[o] = "failed" =>
            stage[o] = "failed" /\ call'[o] = call[o] /\ reply'[o] = reply[o]
  PROVE  InVain'
<1>1. ToldInVain' \subseteq ToldInVain
  BY DEF ToldInVain, Kind, Status, NoRecord, Placeholder
<1> QED
  BY <1>1, NotMoreInVain

\* An event moves its call on to another stage than "failed".
LEMMA EventVain ==
  ASSUME StoreTyped, InVain, full \in Nat, NEW o \in Op, Event(o) PROVE InVain'
<1>1. stage[o] \in Pending \cup {"settled"} /\ UNCHANGED <<full>>
  BY DEF Event, PutSearched, Added, Put, GetSearched, ReplicationSearched,
         ExpirationSearched, RemoveSearched, KeysSearched, Deleted, Commit, Pending, envVars
<1>2. stage' = stage \/ \E s \in Pending \cup {"settled", "done"} : To(o, s)
  BY DEF Event, PutSearched, Added, Put, GetSearched, ReplicationSearched,
         ExpirationSearched, RemoveSearched, KeysSearched, Deleted, Commit, Pending
<1>3. reply' = reply \/ \E x : Answer(o, x)
  BY DEF Event, PutSearched, Added, Put, GetSearched, ReplicationSearched,
         ExpirationSearched, RemoveSearched, KeysSearched, Deleted, Commit, opVars, storeVars
<1>4. call' = call \/ WrapAround(o)
  BY DEF Event, PutSearched, Added, Put, GetSearched, ReplicationSearched,
         ExpirationSearched, RemoveSearched, KeysSearched, Deleted, Commit, opVars, storeVars
<1>5. /\ stage'[o] # "failed"
      /\ \A p \in Op \ {o} : /\ stage'[p] = stage[p] /\ reply'[p] = reply[p]
                              /\ call'[p] = call[p]
  BY <1>1, <1>2, <1>3, <1>4
     DEF To, Answer, WrapAround, Pending, StoreTyped, StoreInv, Calls, Results
<1> QED
  BY <1>1, <1>5, NoneFails

LEMMA VainKept ==
  ASSUME StoreTyped, AllGiven, InVain, full \in Nat, [Next]_vars PROVE InVain'
<1>1. stage \in [Op -> Stages] /\ reply \in [Op -> Seq(Reply)]
  BY DEF StoreTyped, StoreInv, Calls, Results
<1>2. ASSUME NEW o \in Op, NEW c \in Call, Start(o, c) PROVE InVain'
  <2>1. /\ stage[o] = "new" /\ UNCHANGED <<full, reply>>
        /\ call' = [call EXCEPT ![o] = WithTime(c)]
        /\ stage' = [stage EXCEPT ![o] = IF c.kind = "put" /\ c.absent THEN "add" ELSE "search"]
    BY <1>2 DEF Start, To, envVars
  <2> QED
    BY <1>1, <2>1, NoneFails DEF StoreTyped, StoreInv, Calls
<1>3. ASSUME NEW o \in Op, Fail(o) PROVE InVain'
  <2>1. /\ Runs(o) /\ stage[o] \in Pending /\ UNCHANGED <<call, full>>
        /\ stage' = [stage EXCEPT ![o] = "failed"]
        /\ reply' = [reply EXCEPT ![o] = @ \o AnswerToFailure(o)]
    BY <1>3 DEF Fail, To
  <2>2. Kind(o) \in {"put", "remove"} => reply'[o] = <<>> \/ reply'[o] = <<Status(-1)>>
    <3>1. Kind(o) \in {"put", "remove"} => reply[o] = <<>>
      BY <2>1 DEF AllGiven, Given, StatusGiven, Pending
    <3>2. Kind(o) \in {"put", "remove"} =>
            AnswerToFailure(o) = <<>> \/ AnswerToFailure(o) = <<Status(-1)>>
      BY DEF AnswerToFailure
    <3>3. reply'[o] = reply[o] \o AnswerToFailure(o)
      BY <1>1, <2>1
    <3>4. <<>> \o <<Status(-1)>> = <<Status(-1)>> /\ <<>> \o <<>> = <<>>
      OBVIOUS
    <3> QED
      BY <3>1, <3>2, <3>3, <3>4
  <2>3. ToldInVain' \subseteq ToldInVain
    <3>1. ASSUME NEW p \in ToldInVain' PROVE p \in ToldInVain
      <4>1. p # o
        BY <2>1, <2>2, <3>1 DEF ToldInVain, Kind, Status, NoRecord, Placeholder
      <4>2. stage'[p] = stage[p] /\ reply'[p] = reply[p] /\ call' = call
        BY <1>1, <2>1, <3>1, <4>1 DEF ToldInVain
      <4> QED
        BY <3>1, <4>2 DEF ToldInVain, Kind, Status, NoRecord, Placeholder
    <3> QED
      BY <3>1
  <2> QED
    BY <2>1, <2>3, NotMoreInVain
<1>4. ASSUME NEW o \in Op, CannotCommit(o) PROVE InVain'
  <2>1. /\ UNCHANGED <<call, reply>> /\ full' = full + 1
        /\ stage' = [stage EXCEPT ![o] = "failed"]
    BY <1>4 DEF CannotCommit, To
  <2>2. ToldInVain' \subseteq ToldInVain \cup {o}
    BY <1>1, <2>1 DEF ToldInVain, Kind, Status, NoRecord, Placeholder
  <2>3. PICK more : more = ToldInVain \cup {o}
    OBVIOUS
  <2>4. IsFiniteSet(more) /\ Cardinality(more) <= Cardinality(ToldInVain) + 1
    <3>1. CASE o \in ToldInVain
      <4>1. more = ToldInVain
        BY <2>3, <3>1
      <4> QED
        BY <4>1, FS_CardinalityType DEF InVain
    <3>2. CASE o \notin ToldInVain
      <4>1. IsFiniteSet(ToldInVain)
        BY DEF InVain
      <4>2. IsFiniteSet(more) /\ Cardinality(more) = Cardinality(ToldInVain) + 1
        BY <2>3, <3>2, <4>1, FS_AddElement
      <4>3. Cardinality(ToldInVain) \in Nat
        BY <4>1, FS_CardinalityType
      <4> QED
        BY <4>2, <4>3
    <3> QED
      BY <3>1, <3>2
  <2>5. IsFiniteSet(ToldInVain') /\ Cardinality(ToldInVain') <= Cardinality(more)
    BY <2>2, <2>3, <2>4, FS_Subset
  <2>6. /\ Cardinality(ToldInVain') \in Nat /\ Cardinality(more) \in Nat
        /\ Cardinality(ToldInVain) \in Nat
    BY <2>4, <2>5, FS_CardinalityType DEF InVain
  <2> QED
    BY <2>1, <2>4, <2>5, <2>6 DEF InVain
<1>5. CASE Crash
  <2>1. /\ UNCHANGED <<call, reply, full>>
        /\ stage' = [o \in Op |-> IF \E i \in 1 .. Len(txns) : txns[i] = o THEN "lost" ELSE stage[o]]
    BY <1>5 DEF Crash
  <2> QED
    BY <2>1, NoneFails
<1>6. CASE Tick \/ UNCHANGED vars
  BY <1>6, NoneFails DEF Tick, vars, opVars, envVars
<1>7. ASSUME NEW o \in Op, Event(o) PROVE InVain'
  BY <1>7, EventVain
<1> QED
  BY <1>2, <1>3, <1>4, <1>5, <1>6, <1>7 DEF Next

\* However requests fail and transactions abort, cont and proc are called once;
\* get_keys reports each entry once and NULL at the end.
THEOREM CalledBackOnce == Spec => []AnsweredOnce
BY StoreTypedAlways, GivenAlways, OnceGiven, PTL

\* Put and remove tell of a failure only if their transaction was aborted, and of a
\* success in vain at most as often as the disk was full at a commit.
THEOREM StatusTrue == Spec => []StatusIsTrue
<1>1. Init => InVain
  <2> SUFFICES ASSUME Init PROVE InVain
    OBVIOUS
  <2>1. ToldInVain = {} /\ full = 0
    BY DEF Init, ToldInVain
  <2> QED
    BY <2>1, FS_EmptySet DEF InVain
<1>2. StoreTyped /\ AllGiven /\ InVain /\ [Next]_vars => InVain'
  BY VainKept, BoundAssumption DEF StoreTyped, Environment
<1>3. StoreTyped /\ AllGiven /\ InVain => StatusIsTrue
  BY FailuresTold DEF StatusIsTrue, InVain
<1> QED
  BY <1>1, <1>2, <1>3, StoreTypedAlways, GivenAlways, PTL DEF Spec

-----------------------------------------------------------------------------
(* Nothing is missed.                                                      *)

\* Only a search calls back with NULL in a call of get_key or get_zero without
\* a failure; it has then seen the whole store.
LEMMA MissesNothing ==
  ASSUME StoreTyped, [Next]_vars, NEW o \in Op, Answers(o), Kind(o) \in {"getKey", "getZero"},
         Result(o) = NULL, NEW r \in db
  PROVE  IF Kind(o) = "getKey"
         THEN ~((call[o].key # None => SameKey(r, call[o])) /\ OfType(r, call[o]))
         ELSE ~(r.anonymity = 0 /\ r.type = call[o].type)
<1>1. reply'[o] # reply[o] /\ failures' = failures /\ reply \in [Op -> Seq(Reply)]
  BY DEF Answers, StoreTyped, StoreInv, Results
<1>2. GetSearched(o)
  <2>1. \A p \in Op : ~Fail(p)
    BY <1>1 DEF Fail, StoreTyped, Environment
  <2>2. ~UNCHANGED vars /\ ~Tick /\ ~Crash
    BY <1>1 DEF vars, opVars, Tick, Crash
  <2>3. \A p \in Op : /\ ~CannotCommit(p) /\ ~Commit(p) /\ ~Added(p) /\ ~PutSearched(p)
                      /\ \A c \in Call : ~Start(p, c)
    BY <1>1 DEF CannotCommit, Commit, Added, PutSearched, Start
  <2>4. ASSUME NEW p \in Op, Event(p) PROVE GetSearched(o)
    <3>1. CASE p = o
      <4>1. /\ ~ReplicationSearched(o) /\ ~RemoveSearched(o) /\ ~KeysSearched(o)
            /\ \A keep \in BOOLEAN : ~ExpirationSearched(o, keep)
        BY DEF ReplicationSearched, RemoveSearched, KeysSearched, ExpirationSearched
      <4>2. ~Put(o) /\ ~Deleted(o)
        <5>1. Runs(o) => Fits(o)
          BY Running DEF StoreTyped, StoreInv
        <5> QED
          BY <5>1 DEF Put, Deleted, Fits
      <4> QED
        BY <2>3, <2>4, <3>1, <4>1, <4>2 DEF Event
    <3>2. CASE p # o
      <4>1. \A x : ~Answer(p, x)
        BY <1>1, <3>2 DEF Answer
      <4>2. reply' # reply
        BY <1>1
      <4>3. /\ ~Put(p) /\ ~Deleted(p) /\ ~GetSearched(p) /\ ~ReplicationSearched(p)
            /\ ~RemoveSearched(p) /\ ~KeysSearched(p)
            /\ \A keep \in BOOLEAN : ~ExpirationSearched(p, keep)
        BY <4>1, <4>2 DEF Put, Deleted, GetSearched, ReplicationSearched, RemoveSearched,
                          KeysSearched, ExpirationSearched
      <4> QED
        BY <2>3, <2>4, <4>3 DEF Event
    <3> QED
      BY <3>1, <3>2
  <2> QED
    BY <2>1, <2>2, <2>3, <2>4 DEF Next
<1>3. Matches(o) = {} /\ ~Wraps(o)
  <2>1. CASE Matches(o) # {}
    <3>1. Answer(o, Found(First(o)))
      BY <1>2, <2>1 DEF GetSearched
    <3>2. PICK s \in Seq(Reply) : s = reply[o]
      BY <1>1
    <3>3. reply'[o] = Append(s, Found(First(o)))
      BY <1>1, <3>1, <3>2 DEF Answer
    <3>4. reply'[o][Len(reply'[o])] = Found(First(o))
      BY <3>2, <3>3, AppendProperties
    <3>5. Found(First(o)).status # NULL.status
      BY DEF Found, NULL, Status
    <3> QED
      BY <3>4, <3>5 DEF Result
  <2>2. CASE Matches(o) = {} /\ Wraps(o)
    BY <1>1, <1>2, <2>2 DEF GetSearched
  <2> QED
    BY <2>1, <2>2
<1>4. call[o].next = 0
  BY <1>3 DEF Wraps
<1>5. View(o) = db
  BY DEF View, Reads
<1>6. r.uid \in Nat /\ r.uid >= 0 /\ r.key \in Key /\ r.key # None
  BY NoneAssumption DEF StoreTyped, StoreInv, Drafts, Items, Item, Uid
<1>7. CASE Kind(o) = "getKey"
  BY <1>3, <1>4, <1>5, <1>6, <1>7 DEF Matches, Kind, SameKey
<1>8. CASE Kind(o) = "getZero"
  BY <1>3, <1>4, <1>5, <1>6, <1>8 DEF Matches, Kind
<1> QED
  BY <1>7, <1>8

\* get_key and get_zero call back with NULL only when nothing in the whole store
\* matches, whatever was written between the two transactions of a search.
THEOREM NullIsTrue == Spec => NothingMissed
<1>1. StoreTyped /\ [Next]_vars =>
        [\A o \in Op :
           Answers(o) /\ Kind(o) \in {"getKey", "getZero"} /\ Result(o) = NULL =>
             \A r \in db :
               IF Kind(o) = "getKey"
               THEN ~((call[o].key # None => SameKey(r, call[o])) /\ OfType(r, call[o]))
               ELSE ~(r.anonymity = 0 /\ r.type = call[o].type)]_vars
  BY MissesNothing
<1> QED
  BY <1>1, StoreTypedAlways, PTL DEF Spec, NothingMissed

=============================================================================
