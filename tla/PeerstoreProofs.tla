--------------------------- MODULE PeerstoreProofs ---------------------------
(***************************************************************************)
(* Theorems about Peerstore, for any calls, any records that are found and *)
(* any number of failures, full disks and deaths of the worker.            *)
(***************************************************************************)
EXTENDS Peerstore, FiniteSetTheorems, SequenceTheorems, WellFoundedInduction, TLAPS

-----------------------------------------------------------------------------
(* The invariant.                                                          *)

Open == {"cursor", "put", "settled"}
Stages == Open \cup {"new", "done", "failed", "lost", "thrown"}

\* Calls and their transactions.
Calls ==
  /\ call \in [Op -> CallRecord \cup {None}]
  /\ stage \in [Op -> Stages]
  /\ txns \in Seq(Op)
  /\ \A i, j \in 1 .. Len(txns) : txns[i] = txns[j] => i = j
  /\ \A i \in 1 .. Len(txns) : stage[txns[i]] \in Open
  /\ \A o \in Op : stage[o] # "new" =>
       /\ Called(call[o])
       /\ Kind(o) = "expire" => call[o].expiry \in Time
       /\ stage[o] # "thrown" => IndexExists(call[o])
       /\ stage[o] = "put" => Kind(o) = "store"
       /\ stage[o] = "cursor" /\ Kind(o) = "store" => call[o].replace

\* Records with an id of their own, the last of which is u.
Numbered(R, u) ==
  /\ R \subseteq Record /\ u \in 0 .. MaxId
  /\ \A r \in R : r.id <= u
  /\ \A r, s \in R : r.id = s.id => r = s

\* The committed records that the cursor of o has to stop at.
Targets(o) ==
  {r \in db : \/ Kind(o) = "iterate" /\ Selected(r, call[o])
              \/ Kind(o) = "expire" /\ Expired(r, call[o])
              \/ Kind(o) = "store" /\ call[o].replace /\ SameEntry(r, call[o])}

\* The call depends on what it has seen of the records.
Underway(o) ==
  \/ stage[o] \in Open /\ visited[o] # {}
  \/ stage[o] = "put" /\ call[o].replace
  \/ stage[o] = "settled"

Unwritten == draft = db /\ draftIds = ids

\* What a call that is underway has stopped at and written.
Done(o) ==
  /\ visited[o] \subseteq Targets(o)
  /\ stage[o] # "cursor" => visited[o] = Targets(o)
  /\ Kind(o) = "expire" \/ (Kind(o) = "store" /\ stage[o] # "settled") =>
       draft = db \ visited[o] /\ draftIds = ids
  /\ Kind(o) = "store" /\ stage[o] = "settled" =>
       /\ ids < MaxId /\ draftIds = ids + 1
       /\ draft = (db \ visited[o]) \cup {Fresh(draftIds, call[o])}

\* A call that is underway runs; without a writing one nothing is drafted.
Drafts ==
  /\ Numbered(db, ids)
  /\ \A o \in Op : Underway(o) => Runs(o) /\ Done(o)
  /\ (\A o \in Op : Underway(o) => ~Writes(o)) => Unwritten

\* The iterator has been called for as many records as the cursor has stopped at.
Reporting(q, n) ==
  /\ n \in Nat /\ Len(q) = n
  /\ \A i \in 1 .. n : q[i].status = 1 /\ q[i] # NULL

Reply == [status : -1 .. MaxId, record : {None} \cup {Reported(r) : r \in Record}]

\* What call o has answered.
Answered(o) ==
  /\ IsFiniteSet(visited[o])
  /\ stage[o] = "new" => reply[o] = <<>>
  /\ stage[o] \in {"cursor", "put"} /\ Writes(o) => reply[o] = <<>>
  /\ stage[o] = "settled" /\ Writes(o) =>
       reply[o] = <<Status(IF Kind(o) = "expire" THEN Cardinality(visited[o]) ELSE 1)>>
  /\ stage[o] = "done" /\ Writes(o) =>
       \E n \in 0 .. MaxId : reply[o] = <<Status(n)>>
  /\ stage[o] = "failed" /\ Writes(o) =>
       \E n \in -1 .. MaxId : reply[o] = <<Status(n)>>
  /\ stage[o] = "cursor" /\ ~Writes(o) => Reporting(reply[o], Cardinality(visited[o]))
  /\ stage[o] = "settled" /\ ~Writes(o) =>
       \E q \in Seq(Reply) : Reporting(q, Cardinality(visited[o])) /\ reply[o] = Append(q, NULL)

StoreInv ==
  /\ Calls
  /\ Drafts
  /\ visited \in [Op -> SUBSET Record]
  /\ \A o \in Op : stage[o] = "new" => visited[o] = {}

Answers == reply \in [Op -> Seq(Reply)] /\ \A o \in Op : Answered(o)
IInv == StoreInv /\ Answers

Environment ==
  /\ now \in Time
  /\ failures \in 0 .. MaxFailure /\ full \in 0 .. MaxFull /\ crashes \in 0 .. MaxCrash

\* Every success told in vain was told on a full disk.
InVain == IsFiniteSet(ToldInVain) /\ Cardinality(ToldInVain) = full

-----------------------------------------------------------------------------
(* Transactions.                                                           *)

LEMMA LeastNatural ==
  ASSUME NEW T, T \subseteq Nat, T # {} PROVE \E x \in T : \A y \in T : x <= y
<1> DEFINE Less == {p \in Nat \X Nat : p[1] < p[2]}
<1>1. OpToRel(<, Nat) = Less
  BY Zenon DEF OpToRel
<1>2. IsWellFoundedOn(Less, Nat)
  BY <1>1, NatLessThanWellFounded, Zenon
<1>3. PICK x \in T : \A y \in T : ~(<<y, x>> \in Less)
  <2> HIDE DEF Less
  <2> QED
    BY <1>2, WFMin
<1>4. ASSUME NEW y \in T PROVE x <= y
  <2>1. x \in Nat /\ y \in Nat /\ ~(y < x)
    BY <1>3
  <2> QED
    BY <2>1
<1> QED
  BY <1>4

\* The last id of the records that are found.
LEMMA LastIdFacts ==
  ASSUME NEW R \in Stored
  PROVE  LastId(R) \in 0 .. MaxId /\ \A r \in R : r.id <= LastId(R)
<1> DEFINE Bound(n) == n \in 0 .. MaxId /\ \A r \in R : r.id <= n
           B == {n \in Nat : Bound(n)}
<1>1. \A r \in R : r.id \in Nat /\ 1 <= r.id /\ r.id <= MaxId
  BY StoredAssumption, BoundAssumption DEF Record, Id
<1>2. PICK n \in B : \A m \in B : n <= m
  <2>1. MaxId \in B
    BY <1>1, BoundAssumption
  <2>2. B \subseteq Nat /\ B # {}
    BY <2>1
  <2> HIDE DEF B
  <2> QED
    BY <2>2, LeastNatural
<1>3. n = 0 \/ \E r \in R : r.id = n
  <2> SUFFICES ASSUME n # 0, \A r \in R : r.id # n PROVE FALSE
    OBVIOUS
  <2>1. n \in Nat /\ n - 1 \in Nat /\ n <= MaxId
    BY BoundAssumption
  <2>2. \A r \in R : r.id <= n - 1
    BY <1>1, <2>1
  <2>3. n - 1 \in B
    BY <2>1, <2>2, BoundAssumption
  <2> QED
    BY <1>2, <2>1, <2>3
<1>4. \E u \in 0 .. MaxId : /\ u = 0 \/ \E r \in R : r.id = u
                            /\ \A r \in R : r.id <= u
  BY <1>3
<1> QED
  BY <1>4 DEF LastId

\* What is left of the transactions when the one of o ends.
LEMMA WithoutFacts ==
  ASSUME Calls, NEW o \in Op, Runs(o)
  PROVE  \E k \in 1 .. Len(txns), w \in Seq(Op) :
           /\ w = Without(o) /\ txns[k] = o /\ Len(w) = Len(txns) - 1
           /\ \A i \in 1 .. Len(w) : /\ i \in 1 .. Len(txns) /\ i + 1 \in 1 .. Len(txns)
                                    /\ w[i] = IF i < k THEN txns[i] ELSE txns[i + 1]
           /\ \A i \in 1 .. Len(txns) : txns[i] = o => i = k
<1>1. PICK k \in 1 .. Len(txns) : k = Position(o) /\ txns[k] = o
  BY DEF Runs, Position
<1>2. /\ txns \in Seq(Op) /\ Len(txns) \in Nat
      /\ \A i, j \in 1 .. Len(txns) : txns[i] = txns[j] => i = j
  BY DEF Calls
<1>3. PICK n \in Nat : n = Len(txns) - 1
  BY <1>1, <1>2
<1>4. PICK w : w = Without(o)
  OBVIOUS
<1>5. w = [i \in 1 .. n |-> IF i < k THEN txns[i] ELSE txns[i + 1]]
  BY <1>1, <1>3, <1>4 DEF Without
<1>6. \A i \in 1 .. n : i \in 1 .. Len(txns) /\ i + 1 \in 1 .. Len(txns)
  BY <1>2, <1>3
<1>7. w \in Seq(Op) /\ Len(w) = n
  <2>1. \A i \in 1 .. n : (IF i < k THEN txns[i] ELSE txns[i + 1]) \in Op
    BY <1>2, <1>6
  <2> QED
    BY <1>5, <2>1
<1> QED
  BY <1>1, <1>2, <1>3, <1>4, <1>5, <1>6, <1>7

LEMMA EndedOrder ==
  ASSUME Calls, NEW o \in Op, Runs(o), txns' = Without(o)
  PROVE  /\ txns' \in Seq(Op)
         /\ \A i \in 1 .. Len(txns') : txns'[i] # o /\ \E j \in 1 .. Len(txns) : txns'[i] = txns[j]
         /\ \A i, j \in 1 .. Len(txns') : txns'[i] = txns'[j] => i = j
<1>1. PICK k \in 1 .. Len(txns), w \in Seq(Op) :
        /\ w = Without(o) /\ txns[k] = o /\ Len(w) = Len(txns) - 1
        /\ \A i \in 1 .. Len(w) : /\ i \in 1 .. Len(txns) /\ i + 1 \in 1 .. Len(txns)
                                 /\ w[i] = IF i < k THEN txns[i] ELSE txns[i + 1]
        /\ \A i \in 1 .. Len(txns) : txns[i] = o => i = k
  BY WithoutFacts
<1>2. \A i \in 1 .. Len(w) : w[i] # o /\ \E j \in 1 .. Len(txns) : w[i] = txns[j]
  <2> SUFFICES ASSUME NEW i \in 1 .. Len(w)
               PROVE  w[i] # o /\ \E j \in 1 .. Len(txns) : w[i] = txns[j]
    OBVIOUS
  <2>1. CASE i < k
    BY <1>1, <2>1
  <2>2. CASE ~(i < k)
    <3>1. w[i] = txns[i + 1] /\ i + 1 # k /\ i + 1 \in 1 .. Len(txns)
      BY <1>1, <2>2
    <3> QED
      BY <1>1, <3>1
  <2> QED
    BY <2>1, <2>2
<1>3. \A i, j \in 1 .. Len(w) : w[i] = w[j] => i = j
  <2> SUFFICES ASSUME NEW i \in 1 .. Len(w), NEW j \in 1 .. Len(w), w[i] = w[j] PROVE i = j
    OBVIOUS
  <2>1. (IF i < k THEN i ELSE i + 1) = (IF j < k THEN j ELSE j + 1)
    BY <1>1 DEF Calls
  <2> QED
    BY <2>1
<1> QED
  BY <1>1, <1>2, <1>3

\* The others run on when a transaction ends,
LEMMA RunsOn ==
  ASSUME Calls, NEW o \in Op, Runs(o), txns' = Without(o), NEW p \in Op \ {o}, Runs(p),
         call' = call
  PROVE  Runs(p)'
<1>1. PICK k \in 1 .. Len(txns), w \in Seq(Op) :
        /\ w = Without(o) /\ txns[k] = o /\ Len(w) = Len(txns) - 1
        /\ \A i \in 1 .. Len(w) : /\ i \in 1 .. Len(txns) /\ i + 1 \in 1 .. Len(txns)
                                 /\ w[i] = IF i < k THEN txns[i] ELSE txns[i + 1]
        /\ \A i \in 1 .. Len(txns) : txns[i] = o => i = k
  BY WithoutFacts
<1>2. PICK i \in 1 .. Len(txns) : /\ txns[i] = p
                                  /\ Writes(p) => i = 1
                                  /\ \A j \in 1 .. i - 1 : ~Writes(txns[j])
  BY DEF Runs
<1>3. i # k /\ txns' = w /\ Len(txns) \in Nat
  BY <1>1, <1>2 DEF Calls
<1>4. PICK m \in 1 .. Len(w) : m = IF i < k THEN i ELSE i - 1
  BY <1>1, <1>2, <1>3
<1>5. w[m] = p
  <2>1. CASE i < k
    BY <1>1, <1>2, <1>4, <2>1
  <2>2. CASE i > k
    <3>1. ~(m < k) /\ m + 1 = i
      BY <1>4, <2>2
    <3> QED
      BY <1>1, <1>2, <3>1
  <2> QED
    BY <1>3, <2>1, <2>2
<1>6. Writes(p) => m = 1
  BY <1>2, <1>3, <1>4
<1>7. ASSUME NEW j \in 1 .. m - 1 PROVE ~Writes(w[j])
  <2>1. j \in 1 .. Len(w)
    BY <1>4
  <2>2. CASE j < k
    <3>1. w[j] = txns[j] /\ j \in 1 .. i - 1
      BY <1>1, <1>4, <2>1, <2>2
    <3> QED
      BY <1>2, <3>1
  <2>3. CASE ~(j < k)
    <3>1. w[j] = txns[j + 1]
      BY <1>1, <2>1, <2>3
    <3>2. j + 1 \in 1 .. i - 1
      BY <1>4, <2>3
    <3> QED
      BY <1>2, <3>1, <3>2
  <2> QED
    BY <2>2, <2>3
<1> QED
  BY <1>3, <1>5, <1>6, <1>7 DEF Runs, Writes, Kind

\* or when one begins.
LEMMA RunsStill ==
  ASSUME Calls, NEW o \in Op, stage[o] = "new", txns' = Append(txns, o), NEW p \in Op, Runs(p),
         \A q \in Op \ {o} : call'[q] = call[q]
  PROVE  Runs(p)'
<1>1. PICK i \in 1 .. Len(txns) : /\ txns[i] = p
                                  /\ Writes(p) => i = 1
                                  /\ \A j \in 1 .. i - 1 : ~Writes(txns[j])
  BY DEF Runs
<1>2. /\ Len(txns') = Len(txns) + 1 /\ Len(txns) \in Nat
      /\ \A j \in 1 .. Len(txns) : txns'[j] = txns[j]
  BY AppendProperties DEF Calls
<1>3. \A j \in 1 .. Len(txns) : txns[j] \in Op \ {o}
  BY DEF Calls, Open
<1>4. p # o /\ i \in 1 .. Len(txns') /\ \A j \in 1 .. i - 1 : j \in 1 .. Len(txns)
  BY <1>1, <1>2, <1>3
<1>5. \A j \in 1 .. i - 1 : call'[txns'[j]].kind = "iterate"
  BY <1>1, <1>2, <1>3, <1>4 DEF Writes, Kind
<1>6. call'[p].kind # "iterate" => i = 1
  BY <1>1, <1>4 DEF Writes, Kind
<1> QED
  BY <1>1, <1>2, <1>4, <1>5, <1>6 DEF Runs, Writes, Kind

\* A call whose transaction runs.
LEMMA Running ==
  ASSUME Calls, NEW o \in Op, Runs(o)
  PROVE  /\ stage[o] \in Open /\ Called(call[o]) /\ IndexExists(call[o])
         /\ Kind(o) \in {"store", "iterate", "expire"}
         /\ Len(txns) \in Nat /\ 1 \in 1 .. Len(txns)
         /\ Writes(o) => txns[1] = o
<1>1. PICK i \in 1 .. Len(txns) : /\ txns[i] = o
                                  /\ Writes(o) => i = 1
  BY DEF Runs
<1>2. stage[o] \in Open /\ Len(txns) \in Nat
  BY <1>1 DEF Calls
<1>3. stage[o] # "new" /\ stage[o] # "thrown"
  BY <1>2 DEF Open
<1> QED
  BY <1>1, <1>2, <1>3 DEF Calls, Called, CallRecord, Kind

\* A writing transaction runs alone.
LEMMA RunsAlone ==
  ASSUME Calls, NEW o \in Op, NEW p \in Op, Runs(o), Runs(p), p # o
  PROVE  ~Writes(o) /\ ~Writes(p)
<1>1. ASSUME NEW q \in Op, NEW r \in Op, Runs(q), Runs(r), q # r PROVE ~Writes(q)
  <2>1. PICK i \in 1 .. Len(txns) : /\ txns[i] = r
                                    /\ \A j \in 1 .. i - 1 : ~Writes(txns[j])
    BY <1>1 DEF Runs
  <2>2. Writes(q) => txns[1] = q /\ i # 1 /\ 1 \in 1 .. i - 1
    BY <1>1, <2>1, Running
  <2> QED
    BY <2>1, <2>2
<1> QED
  BY <1>1

-----------------------------------------------------------------------------
(* Calls.                                                                  *)

\* The stage of a running call changes.
LEMMA CallsMoved ==
  ASSUME Calls, NEW o \in Op, Runs(o), UNCHANGED <<call, txns>>,
         NEW s \in {"put", "settled"}, s = "put" => Kind(o) = "store",
         stage' = [stage EXCEPT ![o] = s]
  PROVE  Calls'
<1>1. stage' \in [Op -> Stages] /\ stage'[o] = s /\ \A p \in Op \ {o} : stage'[p] = stage[p]
  BY DEF Calls, Stages, Open
<1>2. \A i \in 1 .. Len(txns) : txns[i] \in Op /\ stage[txns[i]] \in Open
  BY DEF Calls
<1>3. \A i \in 1 .. Len(txns') : stage'[txns'[i]] \in Open
  BY <1>1, <1>2 DEF Open
<1>4. stage[o] # "new" /\ stage[o] # "thrown"
  BY Running DEF Open
<1> QED
  BY <1>1, <1>3, <1>4 DEF Calls, Kind

\* The transaction of a running call ends.
LEMMA CallsEnded ==
  ASSUME Calls, NEW o \in Op, Runs(o), call' = call, txns' = Without(o),
         NEW s \in {"done", "failed"}, stage' = [stage EXCEPT ![o] = s]
  PROVE  Calls'
<1>1. stage' \in [Op -> Stages] /\ stage'[o] = s /\ \A p \in Op \ {o} : stage'[p] = stage[p]
  BY DEF Calls, Stages, Open
<1>2. PICK w : w = txns'
  OBVIOUS
<1>3. /\ w \in Seq(Op)
      /\ \A i \in 1 .. Len(w) : w[i] # o /\ \E j \in 1 .. Len(txns) : w[i] = txns[j]
      /\ \A i, j \in 1 .. Len(w) : w[i] = w[j] => i = j
  BY <1>2, EndedOrder
<1>4. \A j \in 1 .. Len(txns) : txns[j] \in Op /\ stage[txns[j]] \in Open
  BY DEF Calls
<1>5. \A i \in 1 .. Len(w) : stage'[w[i]] \in Open
  BY <1>1, <1>3, <1>4
<1>6. stage[o] # "new" /\ stage[o] # "thrown"
  BY Running DEF Open
<1> QED
  BY <1>1, <1>2, <1>3, <1>5, <1>6 DEF Calls, Kind

LEMMA CallsStarted ==
  ASSUME Calls, NEW o \in Op, NEW c \in Call, Start(o, c), now \in Time PROVE Calls'
<1> DEFINE d == IF c.kind = "expire" THEN [c EXCEPT !.expiry = now] ELSE c
<1>1. /\ stage[o] = "new" /\ call' = [call EXCEPT ![o] = d]
      /\ IF IndexExists(c)
         THEN /\ txns' = Append(txns, o)
              /\ stage' = [stage EXCEPT ![o] =
                             IF c.kind = "store" /\ ~c.replace THEN "put" ELSE "cursor"]
         ELSE stage' = [stage EXCEPT ![o] = "thrown"] /\ txns' = txns
  BY DEF Start, To
<1>2. /\ Called(d) /\ d.kind = c.kind /\ d.replace = c.replace
      /\ IndexExists(d) <=> IndexExists(c)
      /\ d.kind = "expire" => d.expiry \in Time
  <2>1. Called(c) /\ now \in Nat
    BY CallAssumption, TimeAssumption
  <2>2. c \in CallRecord
    BY <2>1 DEF Called
  <2>3. CASE c.kind = "expire"
    BY <2>1, <2>2, <2>3 DEF Called, CallRecord, IndexExists
  <2>4. CASE c.kind # "expire"
    BY <2>1, <2>4
  <2> QED
    BY <2>3, <2>4
<1>3. /\ call' \in [Op -> CallRecord \cup {None}] /\ call'[o] = d
      /\ \A p \in Op \ {o} : call'[p] = call[p]
  BY <1>1, <1>2 DEF Calls, Called
<1> HIDE DEF d
<1>4. /\ stage' \in [Op -> Stages] /\ stage'[o] \in {"put", "cursor", "thrown"}
      /\ stage'[o] # "thrown" => IndexExists(c)
      /\ stage'[o] = "put" => c.kind = "store"
      /\ stage'[o] = "cursor" /\ c.kind = "store" => c.replace
      /\ \A p \in Op \ {o} : stage'[p] = stage[p]
  BY <1>1 DEF Calls, Stages, Open
<1>5. \A i \in 1 .. Len(txns) : txns[i] \in Op \ {o} /\ stage[txns[i]] \in Open
  BY <1>1 DEF Calls, Open
<1>6. /\ txns' \in Seq(Op)
      /\ \A i \in 1 .. Len(txns') : stage'[txns'[i]] \in Open
      /\ \A i, j \in 1 .. Len(txns') : txns'[i] = txns'[j] => i = j
  <2>1. CASE IndexExists(c)
    <3>1. /\ txns' \in Seq(Op) /\ Len(txns') = Len(txns) + 1 /\ Len(txns) \in Nat
          /\ txns'[Len(txns) + 1] = o
          /\ \A i \in 1 .. Len(txns) : txns'[i] = txns[i]
      <4>1. txns' = Append(txns, o) /\ txns \in Seq(Op)
        BY <1>1, <2>1 DEF Calls
      <4> QED
        BY <4>1, AppendProperties
    <3>2. \A i \in 1 .. Len(txns') : i \in 1 .. Len(txns) \/ i = Len(txns) + 1
      BY <3>1
    <3>3. stage'[o] \in Open
      BY <1>1, <2>1 DEF Calls, Open
    <3>4. \A i \in 1 .. Len(txns') : stage'[txns'[i]] \in Open
      BY <1>4, <1>5, <3>1, <3>2, <3>3
    <3>5. \A i, j \in 1 .. Len(txns') : txns'[i] = txns'[j] => i = j
      BY <1>5, <3>1, <3>2 DEF Calls
    <3> QED
      BY <3>1, <3>4, <3>5
  <2>2. CASE ~IndexExists(c)
    BY <1>1, <1>4, <1>5, <2>2 DEF Calls
  <2> QED
    BY <2>1, <2>2
<1>7. ASSUME NEW p \in Op, stage'[p] # "new"
      PROVE  /\ Called(call'[p])
             /\ call'[p].kind = "expire" => call'[p].expiry \in Time
             /\ stage'[p] # "thrown" => IndexExists(call'[p])
             /\ stage'[p] = "put" => call'[p].kind = "store"
             /\ stage'[p] = "cursor" /\ call'[p].kind = "store" => call'[p].replace
  <2>1. CASE p = o
    BY <1>2, <1>3, <1>4, <2>1
  <2>2. CASE p # o
    BY <1>3, <1>4, <1>7, <2>2 DEF Calls, Kind
  <2> QED
    BY <2>1, <2>2
<1> QED
  BY <1>3, <1>4, <1>6, <1>7 DEF Calls, Kind

LEMMA CallsLost == ASSUME Calls, Crash PROVE Calls'
<1>1. /\ txns' = <<>> /\ call' = call
      /\ stage' = [o \in Op |-> IF \E i \in 1 .. Len(txns) : txns[i] = o THEN "lost" ELSE stage[o]]
  BY DEF Crash
<1>2. txns' \in Seq(Op) /\ Len(txns') = 0
  BY <1>1
<1>3. stage' \in [Op -> Stages] /\ \A o \in Op : stage'[o] \in {"lost", stage[o]}
  BY <1>1 DEF Calls, Stages
<1>4. \A o \in Op : stage'[o] = "lost" =>
        stage[o] = "lost" \/ \E i \in 1 .. Len(txns) : txns[i] = o
  BY <1>1
<1>5. \A i \in 1 .. Len(txns) : stage[txns[i]] # "new" /\ stage[txns[i]] # "thrown"
  BY DEF Calls, Open
<1>6. ASSUME NEW o \in Op, stage'[o] # "new"
      PROVE  /\ Called(call[o])
             /\ Kind(o) = "expire" => call[o].expiry \in Time
             /\ stage'[o] # "thrown" => IndexExists(call[o])
             /\ stage'[o] = "put" => Kind(o) = "store"
             /\ stage'[o] = "cursor" /\ Kind(o) = "store" => call[o].replace
  <2>1. stage[o] # "new" /\ (stage'[o] # "thrown" => stage[o] # "thrown")
    BY <1>3, <1>4, <1>5, <1>6
  <2> QED
    BY <1>3, <2>1 DEF Calls
<1> QED
  BY <1>1, <1>2, <1>3, <1>6 DEF Calls, Kind

-----------------------------------------------------------------------------
(* Drafts.                                                                 *)

\* A step of a running call touches what no other call depends on.
LEMMA DraftsMoved ==
  ASSUME StoreInv, NEW o \in Op, Runs(o), UNCHANGED <<db, ids, call, txns>>,
         \A p \in Op \ {o} : stage'[p] = stage[p] /\ visited'[p] = visited[p],
         Writes(o) \/ UNCHANGED <<draft, draftIds>>,
         Underway(o)' => Done(o)',
         Writes(o) => Underway(o)' \/ Unwritten'
  PROVE  Drafts'
<1>1. Calls /\ Drafts
  BY DEF StoreInv
<1>2. ASSUME NEW p \in Op, p # o, Underway(p)' PROVE Underway(p) /\ Runs(p)' /\ Done(p)'
  <2>1. Underway(p)
    BY <1>2 DEF Underway
  <2>2. Runs(p) /\ Done(p)
    BY <1>1, <2>1 DEF Drafts
  <2>3. ~Writes(p)
    BY <1>1, <1>2, <2>2, RunsAlone
  <2>4. Runs(p)'
    BY <2>2 DEF Runs, Writes, Kind
  <2>5. Done(p)'
    BY <1>2, <2>2, <2>3 DEF Done, Targets, Writes, Kind
  <2> QED
    BY <2>1, <2>4, <2>5
<1>3. Runs(o)'
  BY DEF Runs, Writes, Kind
<1>4. Numbered(db, ids)'
  BY <1>1 DEF Drafts, Numbered
<1>5. ASSUME \A p \in Op : Underway(p)' => ~Writes(p)' PROVE Unwritten'
  <2>1. CASE Writes(o)
    BY <1>5, <2>1 DEF Writes, Kind
  <2>2. CASE ~Writes(o)
    <3>1. \A p \in Op : Underway(p) => ~Writes(p)
      BY <1>5, <2>2 DEF Underway, Writes, Kind
    <3> QED
      BY <1>1, <2>2, <3>1 DEF Drafts, Unwritten
  <2> QED
    BY <2>1, <2>2
<1> QED
  BY <1>2, <1>3, <1>4, <1>5 DEF Drafts

\* A transaction ends.
LEMMA DraftsEnded ==
  ASSUME StoreInv, NEW o \in Op, Runs(o), call' = call, txns' = Without(o),
         visited' = visited, NEW s \in {"done", "failed"}, stage' = [stage EXCEPT ![o] = s],
         Numbered(db, ids)', IF Writes(o) THEN Unwritten' ELSE UNCHANGED storeVars
  PROVE  Drafts'
<1>1. Calls /\ Drafts
  BY DEF StoreInv
<1>2. ~Underway(o)' /\ \A p \in Op \ {o} : stage'[p] = stage[p]
  <2>1. stage'[o] = s /\ \A p \in Op \ {o} : stage'[p] = stage[p]
    BY <1>1 DEF Calls
  <2> QED
    BY <2>1 DEF Underway, Open
<1>3. ASSUME NEW p \in Op, Underway(p)'
      PROVE  p # o /\ Underway(p) /\ Runs(p) /\ Done(p) /\ ~Writes(o) /\ ~Writes(p) /\ Runs(p)'
  <2>1. p # o
    BY <1>2, <1>3
  <2>2. Underway(p)
    BY <1>2, <1>3, <2>1 DEF Underway
  <2>3. Runs(p) /\ Done(p)
    BY <1>1, <2>2 DEF Drafts
  <2>4. ~Writes(o) /\ ~Writes(p)
    BY <1>1, <2>1, <2>3, RunsAlone
  <2>5. Runs(p)'
    BY <1>1, <2>1, <2>3, RunsOn
  <2> QED
    BY <2>1, <2>2, <2>3, <2>4, <2>5
<1>4. ASSUME NEW p \in Op, Underway(p)' PROVE Runs(p)' /\ Done(p)'
  <2>1. Done(p) /\ ~Writes(p) /\ stage'[p] = stage[p] /\ UNCHANGED storeVars /\ Runs(p)'
    BY <1>2, <1>3, <1>4
  <2> QED
    BY <2>1 DEF Done, Targets, Writes, Kind, storeVars
<1>5. ASSUME \A p \in Op : Underway(p)' => ~Writes(p)' PROVE Unwritten'
  <2>1. CASE Writes(o)
    BY <2>1
  <2>2. CASE ~Writes(o)
    <3>1. \A p \in Op \ {o} : Underway(p) => Underway(p)'
      BY <1>2 DEF Underway
    <3>2. \A p \in Op : Underway(p) => ~Writes(p)
      BY <1>5, <2>2, <3>1 DEF Writes, Kind
    <3> QED
      BY <1>1, <2>2, <3>2 DEF Drafts, Unwritten, storeVars
  <2> QED
    BY <2>1, <2>2
<1> QED
  BY <1>4, <1>5 DEF Drafts

\* When nothing has been seen or written by it, a running call finds the store as it is.
LEMMA NothingSeen ==
  ASSUME StoreInv, NEW o \in Op, Runs(o), ~Underway(o), Writes(o) PROVE Unwritten
<1>1. \A p \in Op : Underway(p) => ~Writes(p)
  BY RunsAlone DEF StoreInv, Drafts
<1> QED
  BY <1>1 DEF StoreInv, Drafts

\* The cursor of o has the records before it that it has not stopped at.
LEMMA CursorSees ==
  ASSUME StoreInv, NEW o \in Op, Runs(o), stage[o] = "cursor"
  PROVE  /\ visited[o] \subseteq Targets(o) /\ Left(o) = Targets(o) \ visited[o]
         /\ Writes(o) => draft = db \ visited[o] /\ draftIds = ids
<1>1. Kind(o) \in {"store", "iterate", "expire"} /\ (Kind(o) = "store" => call[o].replace)
  BY Running DEF StoreInv, Calls
<1>2. visited[o] \subseteq Targets(o)
  <2>1. CASE visited[o] = {}
    BY <2>1
  <2>2. CASE visited[o] # {}
    BY <2>2 DEF Underway, Open, StoreInv, Drafts, Done
  <2> QED
    BY <2>1, <2>2
<1>3. ASSUME Writes(o) PROVE draft = db \ visited[o] /\ draftIds = ids
  <2>1. CASE visited[o] = {}
    <3>1. ~Underway(o)
      BY <2>1 DEF Underway
    <3> QED
      BY <1>3, <2>1, <3>1, NothingSeen DEF Unwritten
  <2>2. CASE visited[o] # {}
    <3>1. Done(o)
      BY <2>2 DEF Underway, Open, StoreInv, Drafts
    <3> QED
      BY <1>1, <1>3, <3>1 DEF Done, Writes
  <2> QED
    BY <2>1, <2>2
<1>4. CASE Kind(o) = "expire"
  <2>1. Matches(o) = {r \in draft : Expired(r, call[o])}
    BY <1>4 DEF Matches, View, Writes
  <2>2. Targets(o) = {r \in db : Expired(r, call[o])}
    BY <1>4 DEF Targets
  <2> QED
    BY <1>2, <1>3, <1>4, <2>1, <2>2 DEF Left, Writes
<1>5. CASE Kind(o) = "store"
  <2>1. Matches(o) = {r \in draft : SameEntry(r, call[o])}
    BY <1>5 DEF Matches, View, Writes
  <2>2. Targets(o) = {r \in db : SameEntry(r, call[o])}
    BY <1>1, <1>5 DEF Targets
  <2> QED
    BY <1>2, <1>3, <1>5, <2>1, <2>2 DEF Left, Writes
<1>6. CASE Kind(o) = "iterate"
  <2>1. Matches(o) = {r \in db : Selected(r, call[o])}
    BY <1>6 DEF Matches, View, Writes
  <2>2. Targets(o) = {r \in db : Selected(r, call[o])}
    BY <1>6 DEF Targets
  <2> QED
    BY <1>2, <1>6, <2>1, <2>2 DEF Left, Writes
<1> QED
  BY <1>1, <1>4, <1>5, <1>6

\* Before a put, what was to be replaced is gone.
LEMMA PutSees ==
  ASSUME StoreInv, NEW o \in Op, Runs(o), stage[o] = "put"
  PROVE  /\ Kind(o) = "store" /\ visited[o] = Targets(o)
         /\ draft = db \ visited[o] /\ draftIds = ids
<1>1. Kind(o) = "store"
  BY DEF StoreInv, Calls
<1>2. CASE Underway(o)
  BY <1>1, <1>2 DEF StoreInv, Drafts, Done
<1>3. CASE ~Underway(o)
  <2>1. ~call[o].replace /\ visited[o] = {}
    BY <1>3 DEF Underway, Open
  <2>2. Targets(o) = {}
    BY <1>1, <2>1 DEF Targets
  <2>3. Unwritten
    BY <1>1, <1>3, NothingSeen DEF Writes
  <2> QED
    BY <1>1, <2>1, <2>2, <2>3 DEF Unwritten
<1> QED
  BY <1>2, <1>3

LEMMA StopsKeeps ==
  ASSUME StoreInv, NEW o \in Op, NEW r, Stops(o, r) PROVE StoreInv'
<1>1. /\ Runs(o) /\ stage[o] = "cursor" /\ r \in Left(o)
      /\ visited' = [visited EXCEPT ![o] = @ \cup {r}]
      /\ IF Writes(o) THEN draft' = draft \ {r} ELSE draft' = draft
      /\ UNCHANGED <<db, ids, draftIds, txns, call, stage>>
  BY DEF Stops
<1>2. /\ visited[o] \subseteq Targets(o) /\ Left(o) = Targets(o) \ visited[o]
      /\ Writes(o) => draft = db \ visited[o] /\ draftIds = ids
  BY <1>1, CursorSees
<1>3. r \in Targets(o) /\ r \in Record
  BY <1>1, <1>2 DEF Targets, StoreInv, Drafts, Numbered
<1>4. /\ visited' \in [Op -> SUBSET Record] /\ visited'[o] = visited[o] \cup {r}
      /\ \A p \in Op \ {o} : visited'[p] = visited[p]
  BY <1>1, <1>3 DEF StoreInv
<1>5. Done(o)' /\ Underway(o)'
  <2>1. Targets(o)' = Targets(o) /\ Kind(o)' = Kind(o)
    BY <1>1 DEF Targets, Kind
  <2>2. Writes(o) => draft' = db' \ visited'[o] /\ draftIds' = ids'
    BY <1>1, <1>2, <1>4
  <2>3. Kind(o) \in {"expire", "store"} => Writes(o)
    BY DEF Writes
  <2> QED
    BY <1>1, <1>2, <1>3, <1>4, <2>1, <2>2, <2>3 DEF Done, Underway, Open
<1>6. Calls'
  BY <1>1 DEF StoreInv, Calls, Kind
<1>7. Drafts'
  BY <1>1, <1>4, <1>5, DraftsMoved
<1>8. \A p \in Op : stage'[p] = "new" => visited'[p] = {}
  BY <1>1, <1>4 DEF StoreInv
<1> QED
  BY <1>4, <1>6, <1>7, <1>8 DEF StoreInv

LEMMA EndsKeeps ==
  ASSUME StoreInv, NEW o \in Op, Ends(o) PROVE StoreInv'
<1>1. /\ Runs(o) /\ stage[o] = "cursor" /\ AtEnd(o)
      /\ UNCHANGED <<storeVars, txns, call, visited>>
  BY DEF Ends
<1>2. Kind(o) \in {"store", "iterate", "expire"}
  BY <1>1, Running DEF StoreInv
<1>3. PICK t \in {"put", "settled"} :
        stage' = [stage EXCEPT ![o] = t] /\ (t = "put" <=> Kind(o) = "store")
  BY <1>2 DEF Ends, To
<1>4. /\ visited[o] = Targets(o)
      /\ Writes(o) => draft = db \ visited[o] /\ draftIds = ids
  BY <1>1, CursorSees DEF AtEnd
<1>5. stage'[o] = t /\ \A p \in Op \ {o} : stage'[p] = stage[p]
  BY <1>3 DEF StoreInv, Calls
<1>6. Done(o)' /\ Underway(o)'
  <2>1. Targets(o)' = Targets(o) /\ Kind(o)' = Kind(o)
    BY <1>1 DEF Targets, Kind, storeVars
  <2>2. Kind(o) = "store" => call'[o].replace
    BY <1>1 DEF StoreInv, Calls
  <2>3. Kind(o) \in {"expire", "store"} => Writes(o)
    BY DEF Writes
  <2>4. Underway(o)'
    BY <1>2, <1>3, <1>5, <2>2 DEF Underway
  <2> QED
    BY <1>1, <1>3, <1>4, <1>5, <2>1, <2>3, <2>4 DEF Done, storeVars
<1>7. Calls'
  BY <1>1, <1>3, CallsMoved DEF StoreInv
<1>8. Drafts'
  BY <1>1, <1>5, <1>6, DraftsMoved DEF storeVars
<1>9. \A p \in Op : stage'[p] = "new" => visited'[p] = {}
  BY <1>1, <1>5 DEF StoreInv
<1> QED
  BY <1>1, <1>7, <1>8, <1>9 DEF StoreInv

LEMMA PutKeeps ==
  ASSUME StoreInv, NEW o \in Op, Put(o) PROVE StoreInv'
<1>1. /\ Runs(o) /\ stage[o] = "put" /\ draftIds < MaxId
      /\ draftIds' = draftIds + 1
      /\ draft' = draft \cup {Fresh(draftIds + 1, call[o])}
      /\ stage' = [stage EXCEPT ![o] = "settled"]
      /\ UNCHANGED <<db, ids, txns, call, visited>>
  BY DEF Put, To
<1>2. /\ Kind(o) = "store" /\ visited[o] = Targets(o)
      /\ draft = db \ visited[o] /\ draftIds = ids
  BY <1>1, PutSees
<1>3. stage'[o] = "settled" /\ \A p \in Op \ {o} : stage'[p] = stage[p]
  BY <1>1 DEF StoreInv, Calls
<1>4. Done(o)' /\ Underway(o)'
  <2>1. Targets(o)' = Targets(o) /\ Kind(o)' = "store"
    BY <1>1, <1>2 DEF Targets, Kind
  <2>2. /\ ids' < MaxId /\ draftIds' = ids' + 1
        /\ draft' = (db' \ visited'[o]) \cup {Fresh(draftIds', call'[o])}
    BY <1>1, <1>2 DEF Fresh
  <2> QED
    BY <1>1, <1>2, <1>3, <2>1, <2>2 DEF Done, Underway
<1>5. Calls'
  BY <1>1, CallsMoved DEF StoreInv
<1>6. Writes(o)
  BY <1>2 DEF Writes
<1>7. Drafts'
  BY <1>1, <1>3, <1>4, <1>6, DraftsMoved
<1> QED
  BY <1>1, <1>5, <1>7 DEF StoreInv

\* What a writing call commits.
LEMMA CommitFacts ==
  ASSUME StoreInv, NEW o \in Op, Runs(o), stage[o] = "settled"
  PROVE  /\ Done(o) /\ visited[o] = Targets(o) /\ Called(call[o])
         /\ Kind(o) \in {"store", "iterate", "expire"}
         /\ Kind(o) = "expire" => call[o].expiry \in Time
         /\ Writes(o) => Numbered(draft, draftIds)
<1>1. Done(o)
  BY DEF StoreInv, Drafts, Underway
<1>2. Called(call[o]) /\ Kind(o) \in {"store", "iterate", "expire"}
      /\ (Kind(o) = "expire" => call[o].expiry \in Time)
  BY Running DEF StoreInv, Calls
<1>3. Numbered(db, ids) /\ visited[o] = Targets(o)
  BY <1>1 DEF StoreInv, Drafts, Done
<1>4. CASE Kind(o) = "expire"
  BY <1>1, <1>2, <1>3, <1>4 DEF Done, Numbered
<1>5. CASE Kind(o) = "store"
  <2> DEFINE f == Fresh(draftIds, call[o])
  <2>1. /\ draft = (db \ visited[o]) \cup {f}
        /\ ids < MaxId /\ draftIds = ids + 1
    BY <1>1, <1>5 DEF Done
  <2>2. ids \in Nat /\ draftIds \in 1 .. MaxId /\ MaxId \in Nat /\ ids < draftIds
    BY <1>3, <2>1, BoundAssumption DEF Numbered
  <2>3. f \in Record /\ f.id = draftIds
    BY <1>2, <1>5, <2>2 DEF Called, Kind, Fresh, Record, Id
  <2>4. \A r \in db : r.id \in Nat /\ r.id <= ids /\ r.id # draftIds
    BY <1>3, <2>2 DEF Numbered, Record, Id
  <2> HIDE DEF f
  <2>5. \A r \in draft : r.id <= draftIds
    BY <2>1, <2>2, <2>3, <2>4
  <2>6. \A r, t \in draft : r.id = t.id => r = t
    BY <1>3, <2>1, <2>3, <2>4 DEF Numbered
  <2>7. draft \subseteq Record
    BY <1>3, <2>1, <2>3 DEF Numbered
  <2> QED
    BY <1>1, <1>2, <1>3, <2>2, <2>5, <2>6, <2>7 DEF Numbered
<1>6. CASE Kind(o) = "iterate"
  BY <1>1, <1>2, <1>3, <1>6 DEF Writes
<1> QED
  BY <1>2, <1>4, <1>5, <1>6

LEMMA CommitKeeps ==
  ASSUME StoreInv, NEW o \in Op, Commit(o) PROVE StoreInv'
<1>1. /\ Runs(o) /\ stage[o] = "settled" /\ txns' = Without(o)
      /\ stage' = [stage EXCEPT ![o] = "done"]
      /\ IF Writes(o)
         THEN db' = draft /\ ids' = draftIds /\ UNCHANGED <<draft, draftIds>>
         ELSE UNCHANGED storeVars
      /\ UNCHANGED <<call, visited>>
  BY DEF Commit, To
<1>2. Numbered(db, ids)' /\ (Writes(o) => Unwritten')
  <2>1. CASE Writes(o)
    BY <1>1, <2>1, CommitFacts DEF Numbered, Unwritten
  <2>2. CASE ~Writes(o)
    BY <1>1, <2>2 DEF StoreInv, Drafts, Numbered, storeVars
  <2> QED
    BY <2>1, <2>2
<1>3. Calls'
  BY <1>1, CallsEnded DEF StoreInv
<1>4. Drafts'
  BY <1>1, <1>2, DraftsEnded
<1>5. \A p \in Op : stage'[p] = "new" => visited'[p] = {}
  BY <1>1 DEF StoreInv, Calls
<1> QED
  BY <1>1, <1>3, <1>4, <1>5 DEF StoreInv

\* A transaction is aborted.
LEMMA AbortKeeps ==
  ASSUME StoreInv, NEW o \in Op, Fail(o) \/ CannotCommit(o) PROVE StoreInv'
<1>1. /\ Runs(o) /\ txns' = Without(o) /\ stage' = [stage EXCEPT ![o] = "failed"]
      /\ IF Writes(o) THEN Undone ELSE UNCHANGED storeVars
      /\ UNCHANGED <<call, visited>>
  BY DEF Fail, CannotCommit, To
<1>2. Numbered(db, ids)' /\ (Writes(o) => Unwritten')
  BY <1>1 DEF StoreInv, Drafts, Numbered, storeVars, Undone, Unwritten
<1>3. Calls'
  BY <1>1, CallsEnded DEF StoreInv
<1>4. Drafts'
  BY <1>1, <1>2, DraftsEnded
<1>5. \A p \in Op : stage'[p] = "new" => visited'[p] = {}
  BY <1>1 DEF StoreInv, Calls
<1> QED
  BY <1>1, <1>3, <1>4, <1>5 DEF StoreInv

LEMMA CrashKeeps == ASSUME StoreInv, Crash PROVE StoreInv'
<1>1. /\ Undone /\ UNCHANGED <<call, visited>>
      /\ stage' = [o \in Op |-> IF \E i \in 1 .. Len(txns) : txns[i] = o THEN "lost" ELSE stage[o]]
  BY DEF Crash
<1>2. \A o \in Op : stage'[o] # "lost" =>
        stage'[o] = stage[o] /\ ~\E i \in 1 .. Len(txns) : txns[i] = o
  BY <1>1
<1>3. ASSUME NEW o \in Op, Underway(o)' PROVE FALSE
  <2>1. stage'[o] # "lost"
    BY <1>3 DEF Underway, Open
  <2>2. Underway(o)
    BY <1>1, <1>2, <1>3, <2>1 DEF Underway
  <2>3. Runs(o)
    BY <2>2 DEF StoreInv, Drafts
  <2> QED
    BY <1>2, <2>1, <2>3 DEF Runs
<1>4. Unwritten' /\ Numbered(db, ids)'
  BY <1>1 DEF StoreInv, Drafts, Undone, Unwritten, Numbered
<1>5. Drafts'
  BY <1>3, <1>4 DEF Drafts
<1>6. Calls'
  BY CallsLost DEF StoreInv
<1>7. \A p \in Op : stage'[p] = "new" => visited'[p] = {}
  BY <1>1 DEF StoreInv
<1> QED
  BY <1>1, <1>5, <1>6, <1>7 DEF StoreInv

LEMMA StartKeeps ==
  ASSUME StoreInv, NEW o \in Op, NEW c \in Call, Start(o, c), now \in Time PROVE StoreInv'
<1>1. /\ stage[o] = "new" /\ visited[o] = {} /\ txns' \in {txns, Append(txns, o)}
      /\ stage' = [stage EXCEPT ![o] = IF ~IndexExists(c) THEN "thrown"
                                        ELSE IF c.kind = "store" /\ ~c.replace THEN "put"
                                        ELSE "cursor"]
      /\ \E d : d.replace = c.replace /\ call' = [call EXCEPT ![o] = d]
      /\ UNCHANGED <<storeVars, visited>>
  <2>1. [c EXCEPT !.expiry = now].replace = c.replace
    BY CallAssumption DEF Called, CallRecord
  <2> QED
    BY <2>1 DEF Start, To, StoreInv
<1>2. /\ \A p \in Op \ {o} : stage'[p] = stage[p] /\ call'[p] = call[p]
      /\ stage'[o] \in {"thrown", "put", "cursor"}
      /\ stage'[o] = "put" => ~call'[o].replace
  BY <1>1 DEF StoreInv, Calls
<1>3. ~Underway(o)'
  BY <1>1, <1>2 DEF Underway, Open
<1>4. ASSUME NEW p \in Op, p # o, Underway(p)' PROVE Runs(p)' /\ Done(p)'
  <2>1. Underway(p)
    BY <1>1, <1>2, <1>4 DEF Underway
  <2>2. Runs(p) /\ Done(p)
    BY <2>1 DEF StoreInv, Drafts
  <2>3. Done(p)'
    BY <1>1, <1>2, <1>4, <2>2 DEF Done, Targets, Kind, storeVars
  <2>4. \A i \in 1 .. Len(txns) : txns[i] \in Op \ {o}
    BY <1>1 DEF StoreInv, Calls, Open
  <2>5. Runs(p)'
    <3>1. CASE txns' = txns
      BY <1>2, <2>2, <2>4, <3>1 DEF Runs, Writes, Kind, StoreInv, Calls
    <3>2. CASE txns' = Append(txns, o)
      BY <1>1, <1>2, <2>2, <3>2, RunsStill DEF StoreInv
    <3> QED
      BY <1>1, <3>1, <3>2
  <2> QED
    BY <2>3, <2>5
<1>5. ASSUME \A p \in Op : Underway(p)' => ~Writes(p)' PROVE Unwritten'
  <2>1. ~Underway(o)
    BY <1>1 DEF Underway, Open
  <2>2. \A p \in Op : Underway(p) => ~Writes(p)
    BY <1>1, <1>2, <1>5, <2>1 DEF Underway, Writes, Kind
  <2> QED
    BY <1>1, <2>2 DEF StoreInv, Drafts, Unwritten, storeVars
<1>6. Drafts'
  BY <1>1, <1>3, <1>4, <1>5 DEF StoreInv, Drafts, Numbered, storeVars
<1>7. Calls'
  BY CallsStarted DEF StoreInv
<1>8. \A p \in Op : stage'[p] = "new" => visited'[p] = {}
  BY <1>1, <1>2 DEF StoreInv
<1> QED
  BY <1>1, <1>6, <1>7, <1>8 DEF StoreInv

LEMMA NothingKeeps ==
  ASSUME StoreInv, UNCHANGED <<storeVars, txns, call, stage, visited>> PROVE StoreInv'
<1>1. Calls'
  BY DEF StoreInv, Calls, Kind
<1>2. ASSUME NEW o \in Op
      PROVE  /\ Underway(o)' <=> Underway(o)
             /\ Runs(o)' <=> Runs(o)
             /\ Done(o) => Done(o)'
             /\ Writes(o)' <=> Writes(o)
  <2>1. Underway(o)' <=> Underway(o)
    BY DEF Underway
  <2>2. (Runs(o)' <=> Runs(o)) /\ (Writes(o)' <=> Writes(o))
    BY DEF Runs, Writes, Kind
  <2>3. Done(o) => Done(o)'
    BY DEF Done, Targets, Kind, storeVars
  <2> QED
    BY <2>1, <2>2, <2>3
<1>3. Numbered(db, ids)' /\ (Unwritten => Unwritten')
  BY DEF StoreInv, Drafts, Numbered, Unwritten, storeVars
<1>4. Drafts'
  BY <1>2, <1>3 DEF StoreInv, Drafts
<1> QED
  BY <1>1, <1>4 DEF StoreInv

LEMMA InitKeeps == Init => StoreInv /\ Environment
<1> SUFFICES ASSUME Init PROVE StoreInv /\ Environment
  OBVIOUS
<1>1. /\ txns = <<>> /\ call = [o \in Op |-> None] /\ stage = [o \in Op |-> "new"]
      /\ visited = [o \in Op |-> {}] /\ db \in Stored /\ draft = db
      /\ ids = LastId(db) /\ draftIds = ids
  BY DEF Init
<1>2. Calls
  <2>1. txns \in Seq(Op) /\ Len(txns) = 0
    BY <1>1
  <2> QED
    BY <1>1, <2>1 DEF Calls, Stages
<1>3. Numbered(db, ids)
  BY <1>1, LastIdFacts, StoredAssumption DEF Numbered
<1>4. Drafts
  BY <1>1, <1>3 DEF Drafts, Underway, Unwritten, Open
<1>5. visited \in [Op -> SUBSET Record]
  BY <1>1
<1>6. Environment
  BY BoundAssumption DEF Init, Environment
<1> QED
  BY <1>1, <1>2, <1>4, <1>5, <1>6 DEF StoreInv

LEMMA EventKeeps == ASSUME StoreInv, NEW o \in Op, Event(o) PROVE StoreInv'
<1>1. CASE \E r \in View(o) : Stops(o, r)
  BY <1>1, StopsKeeps
<1>2. CASE Ends(o)
  BY <1>2, EndsKeeps
<1>3. CASE Put(o)
  BY <1>3, PutKeeps
<1>4. CASE Commit(o)
  BY <1>4, CommitKeeps
<1> QED
  BY <1>1, <1>2, <1>3, <1>4 DEF Event

LEMMA EnvironmentKeeps == ASSUME Environment, [Next]_vars PROVE Environment'
<1>1. ASSUME NEW o \in Op, Event(o) \/ \E c \in Call : Start(o, c) PROVE UNCHANGED envVars
  BY <1>1 DEF Event, Stops, Ends, Put, Commit, Start, envVars
<1>2. ASSUME NEW o \in Op, Fail(o) \/ CannotCommit(o) PROVE Environment'
  BY <1>2, BoundAssumption DEF Fail, CannotCommit, Environment
<1>3. CASE Crash
  BY <1>3, BoundAssumption DEF Crash, Environment
<1>4. CASE Tick
  BY <1>4 DEF Tick, Environment
<1>5. UNCHANGED envVars => Environment'
  BY DEF envVars, Environment
<1>6. UNCHANGED vars => UNCHANGED envVars
  BY DEF vars
<1> QED
  BY <1>1, <1>2, <1>3, <1>4, <1>5, <1>6 DEF Next

LEMMA StepKeeps == ASSUME StoreInv, Environment, [Next]_vars PROVE StoreInv'
<1>1. now \in Time
  BY DEF Environment
<1>2. ASSUME NEW o \in Op, NEW c \in Call, Start(o, c) PROVE StoreInv'
  BY <1>1, <1>2, StartKeeps
<1>3. ASSUME NEW o \in Op, Event(o) PROVE StoreInv'
  BY <1>3, EventKeeps
<1>4. ASSUME NEW o \in Op, Fail(o) \/ CannotCommit(o) PROVE StoreInv'
  BY <1>4, AbortKeeps
<1>5. CASE Crash
  BY <1>5, CrashKeeps
<1>6. CASE Tick \/ UNCHANGED vars
  <2>1. UNCHANGED <<storeVars, txns, call, stage, visited>>
    BY <1>6 DEF Tick, vars, opVars
  <2> QED
    BY <2>1, NothingKeeps
<1> QED
  BY <1>2, <1>3, <1>4, <1>5, <1>6 DEF Next

LEMMA StoreAlways == Spec => [](StoreInv /\ Environment)
<1>1. Init => StoreInv /\ Environment
  BY InitKeeps
<1>2. StoreInv /\ Environment /\ [Next]_vars => (StoreInv /\ Environment)'
  BY StepKeeps, EnvironmentKeeps
<1> QED
  BY <1>1, <1>2, PTL DEF Spec

-----------------------------------------------------------------------------
(* What a commit makes of the records is one operation of module Records.  *)

LEMMA CommitImplements ==
  ASSUME StoreInv, NEW o \in Op, Commit(o) PROVE [Abstract!Next]_db
<1>1. /\ Runs(o) /\ stage[o] = "settled"
      /\ IF Writes(o) THEN db' = draft ELSE db' = db
  BY DEF Commit, storeVars
<1>2. /\ Done(o) /\ visited[o] = Targets(o) /\ Called(call[o])
      /\ Kind(o) \in {"store", "iterate", "expire"}
      /\ Kind(o) = "expire" => call[o].expiry \in Time
      /\ Numbered(db, ids)
  BY <1>1, CommitFacts DEF StoreInv, Drafts
<1>3. CASE Kind(o) = "iterate"
  BY <1>1, <1>3 DEF Writes
<1>4. CASE Kind(o) = "expire"
  <2>1. db' = db \ Targets(o)
    BY <1>1, <1>2, <1>4 DEF Done, Writes
  <2>2. \A r \in db : r.expiry \in Nat
    BY <1>2, TimeAssumption DEF Numbered, Record
  <2>3. call[o].expiry \in Time /\ call[o].expiry \in Nat
    BY <1>2, <1>4, TimeAssumption
  <2>4. \A r \in db : r \in Targets(o) <=> ~(r.expiry >= call[o].expiry)
    BY <1>4, <2>2, <2>3 DEF Targets, Expired
  <2>5. db' = {r \in db : r.expiry >= call[o].expiry}
    BY <2>1, <2>4
  <2> QED
    BY <2>3, <2>5 DEF Abstract!Next, Abstract!Expire
<1>5. CASE Kind(o) = "store"
  <2> DEFINE f == Fresh(draftIds, call[o])
  <2>1. /\ db' = (db \ Targets(o)) \cup {f}
        /\ ids < MaxId /\ draftIds = ids + 1 /\ ids \in Nat /\ MaxId \in Nat
    BY <1>1, <1>2, <1>5, BoundAssumption DEF Done, Writes, Numbered
  <2>2. /\ f \in Record /\ f.id = draftIds
        /\ f.sub_system = call[o].sub_system /\ f.peer = call[o].peer /\ f.key = call[o].key
    BY <1>2, <1>5, <2>1 DEF Called, Kind, Fresh, Record, Id
  <2>3. f \in Abstract!Record
    BY <2>2 DEF Abstract!Record, Record
  <2> HIDE DEF f
  <2>4. \A r \in db : r.id # f.id
    BY <1>2, <2>1, <2>2 DEF Numbered, Record, Id
  <2>5. CASE call[o].replace
    <3>1. \A r \in db : r \in Targets(o) <=> Abstract!SameEntry(r, f)
      BY <1>5, <2>2, <2>5 DEF Targets, SameEntry, Entry, Abstract!SameEntry
    <3>2. db' = {r \in db : ~Abstract!SameEntry(r, f)} \cup {f}
      BY <2>1, <3>1
    <3>3. Abstract!Replace(f)
      BY <2>4, <3>2 DEF Abstract!Replace
    <3> QED
      BY <2>3, <3>3 DEF Abstract!Next
  <2>6. CASE ~call[o].replace
    <3>1. Targets(o) = {}
      BY <1>5, <2>6 DEF Targets
    <3>2. Abstract!Add(f)
      BY <2>1, <2>4, <3>1 DEF Abstract!Add
    <3> QED
      BY <2>3, <3>2 DEF Abstract!Next
  <2> QED
    BY <2>5, <2>6
<1> QED
  BY <1>2, <1>3, <1>4, <1>5

LEMMA StepImplements == ASSUME StoreInv, [Next]_vars PROVE [Abstract!Next]_db
<1>1. ASSUME NEW o \in Op, Event(o), ~Commit(o) PROVE db' = db
  BY <1>1 DEF Event, Stops, Ends, Put, storeVars
<1>2. ASSUME NEW o \in Op, Fail(o) \/ CannotCommit(o) \/ \E c \in Call : Start(o, c)
      PROVE  db' = db
  BY <1>2 DEF Fail, CannotCommit, Start, Undone, storeVars
<1>3. Crash \/ Tick \/ UNCHANGED vars => db' = db
  BY DEF Crash, Tick, Undone, vars, storeVars
<1> QED
  BY <1>1, <1>2, <1>3, CommitImplements DEF Next

\* The peerstore is a set of records that whole operations change, one at a time,
\* whatever transactions overlap, fail or are cut short
\* (plugin_peerstore_emscripten_int.js).
THEOREM PeerstoreImplementsRecords == Spec => ImplementsRecords
<1>1. Init => Abstract!Init
  BY StoredAssumption DEF Init, Abstract!Init, Abstract!Record, Record
<1>2. StoreInv /\ [Next]_vars => [Abstract!Next]_db
  BY StepImplements
<1> QED
  BY <1>1, <1>2, StoreAlways, PTL DEF Spec, ImplementsRecords, Abstract!Spec

-----------------------------------------------------------------------------
(* Answers.                                                                *)

\* There are no more records than ids.
LEMMA FewRecords ==
  ASSUME NEW R, NEW u, Numbered(R, u), NEW V, V \subseteq R
  PROVE  IsFiniteSet(V) /\ Cardinality(V) \in 0 .. MaxId
<1> DEFINE f == [r \in V |-> r.id]
<1>1. \A r \in V : r.id \in 1 .. MaxId
  BY DEF Numbered, Record, Id
<1>2. \A r, t \in V : r.id = t.id => r = t
  BY DEF Numbered
<1>3. f \in [V -> 1 .. MaxId] /\ \A r, t \in V : f[r] = f[t] => r = t
  BY <1>1, <1>2
<1>4. f \in Injection(V, 1 .. MaxId)
  <2> HIDE DEF f
  <2>1. IsInjective(f)
    BY <1>3 DEF IsInjective
  <2> QED
    BY <1>3, <2>1 DEF Injection
<1>5. MaxId \in Nat /\ IsFiniteSet(1 .. MaxId) /\ Cardinality(1 .. MaxId) = MaxId
  <2>1. MaxId \in Nat
    BY BoundAssumption
  <2>2. IsFiniteSet(1 .. MaxId) /\ Cardinality(1 .. MaxId) = IF 1 > MaxId THEN 0 ELSE MaxId - 1 + 1
    BY <2>1, FS_Interval
  <2> QED
    BY <2>1, <2>2
<1>6. IsFiniteSet(V) /\ Cardinality(V) <= Cardinality(1 .. MaxId)
  <2> HIDE DEF f
  <2> QED
    BY <1>4, <1>5, FS_Injection
<1>7. Cardinality(V) \in Nat
  BY <1>6, FS_CardinalityType
<1> QED
  BY <1>5, <1>6, <1>7

\* What has been answered is known by the call's own state.
LEMMA AnswerKept ==
  ASSUME NEW o \in Op, Answered(o), call'[o] = call[o], stage'[o] = stage[o],
         visited'[o] = visited[o], reply'[o] = reply[o]
  PROVE  Answered(o)'
BY DEF Answered, Writes, Kind

LEMMA AnswerAppended ==
  ASSUME reply \in [Op -> Seq(Reply)], NEW o \in Op, NEW x \in Reply, Answer(o, x)
  PROVE  /\ reply' \in [Op -> Seq(Reply)] /\ reply'[o] = Append(reply[o], x)
         /\ \A p \in Op \ {o} : reply'[p] = reply[p]
BY DEF Answer

LEMMA Statuses ==
  ASSUME NEW n \in -1 .. MaxId PROVE Status(n) \in Reply /\ Status(n).status = n
BY DEF Status, Reply

LEMMA ReportingMore ==
  ASSUME NEW q \in Seq(Reply), NEW n \in Nat, Reporting(q, n), NEW x, x.status = 1
  PROVE  Reporting(Append(q, x), n + 1)
<1>1. /\ Len(q) = n /\ Len(Append(q, x)) = n + 1 /\ Append(q, x)[n + 1] = x
      /\ \A i \in 1 .. n : Append(q, x)[i] = q[i]
  BY DEF Reporting
<1>2. x # NULL
  BY DEF NULL, Status
<1> PICK r : r = Append(q, x)
  OBVIOUS
<1>3. ASSUME NEW i \in 1 .. n + 1 PROVE r[i].status = 1 /\ r[i] # NULL
  <2>1. CASE i \in 1 .. n
    BY <1>1, <2>1 DEF Reporting
  <2>2. CASE i = n + 1
    BY <1>1, <1>2, <2>2
  <2>3. i \in 1 .. n \/ i = n + 1
    OBVIOUS
  <2> QED
    BY <2>1, <2>2, <2>3
<1> QED
  BY <1>1, <1>3 DEF Reporting

LEMMA StopsAnswers ==
  ASSUME StoreInv, Answers, NEW o \in Op, NEW r, Stops(o, r) PROVE Answers'
<1>1. /\ Runs(o) /\ stage[o] = "cursor" /\ r \in Left(o)
      /\ visited' = [visited EXCEPT ![o] = @ \cup {r}]
      /\ IF Writes(o) THEN reply' = reply ELSE Answer(o, [status |-> 1, record |-> Reported(r)])
      /\ UNCHANGED <<call, stage>>
  BY DEF Stops
<1>2. r \in Targets(o) /\ r \notin visited[o]
  BY <1>1, CursorSees
<1>3. r \in Record /\ 1 \in -1 .. MaxId
  <2>1. r \in Record
    BY <1>2 DEF Targets, StoreInv, Drafts, Numbered
  <2>2. 1 \in -1 .. MaxId
    BY <2>1, BoundAssumption DEF Record, Id
  <2> QED
    BY <2>1, <2>2
<1>4. /\ visited'[o] = visited[o] \cup {r}
      /\ \A p \in Op \ {o} : visited'[p] = visited[p]
  BY <1>1 DEF StoreInv
<1>5. /\ IsFiniteSet(visited'[o]) /\ Cardinality(visited[o]) \in Nat
      /\ Cardinality(visited'[o]) = Cardinality(visited[o]) + 1
  <2>1. IsFiniteSet(visited[o])
    BY DEF Answers, Answered
  <2> QED
    BY <1>2, <1>4, <2>1, FS_AddElement, FS_CardinalityType
<1>6. CASE Writes(o)
  <2>1. Answered(o)'
    BY <1>1, <1>5, <1>6 DEF Answers, Answered, Writes, Kind
  <2> QED
    BY <1>1, <1>4, <1>6, <2>1, AnswerKept DEF Answers
<1>7. CASE ~Writes(o)
  <2> DEFINE x == [status |-> 1, record |-> Reported(r)]
  <2>1. x \in Reply /\ x.status = 1
    BY <1>3 DEF Reply
  <2> HIDE DEF x
  <2>2. /\ reply' \in [Op -> Seq(Reply)] /\ reply'[o] = Append(reply[o], x)
        /\ \A p \in Op \ {o} : reply'[p] = reply[p]
    <3>1. Answer(o, x) /\ reply \in [Op -> Seq(Reply)]
      BY <1>1, <1>7 DEF Answers, x
    <3> QED
      BY <2>1, <3>1, AnswerAppended
  <2>3. Reporting(reply[o], Cardinality(visited[o])) /\ reply[o] \in Seq(Reply)
    BY <1>1, <1>7 DEF Answers, Answered
  <2>4. Reporting(reply'[o], Cardinality(visited'[o]))
    BY <1>5, <2>1, <2>2, <2>3, ReportingMore
  <2>5. Answered(o)'
    BY <1>1, <1>5, <1>7, <2>4 DEF Answered, Writes, Kind
  <2> QED
    BY <1>1, <1>4, <2>2, <2>5, AnswerKept DEF Answers
<1> QED
  BY <1>6, <1>7

LEMMA EndsAnswers ==
  ASSUME StoreInv, Answers, NEW o \in Op, Ends(o) PROVE Answers'
<1>1. /\ Runs(o) /\ stage[o] = "cursor" /\ UNCHANGED <<call, visited>>
      /\ stage \in [Op -> Stages] /\ reply \in [Op -> Seq(Reply)]
  BY DEF Ends, StoreInv, Calls, Answers
<1>2. Kind(o) \in {"store", "iterate", "expire"}
  BY <1>1, Running DEF StoreInv
<1>3. CASE Kind(o) = "store"
  <2>1. stage' = [stage EXCEPT ![o] = "put"] /\ reply' = reply
    BY <1>3 DEF Ends, To
  <2>2. stage'[o] = "put" /\ \A p \in Op \ {o} : stage'[p] = stage[p]
    BY <1>1, <2>1
  <2>3. Answered(o)'
    BY <1>1, <1>3, <2>1, <2>2 DEF Answers, Answered, Writes, Kind
  <2> QED
    BY <1>1, <2>1, <2>2, <2>3, AnswerKept DEF Answers
<1>4. CASE Kind(o) # "store"
  <2> DEFINE x == IF Kind(o) = "expire" THEN Status(CountOf(o)) ELSE NULL
  <2>1. stage' = [stage EXCEPT ![o] = "settled"] /\ Answer(o, x)
    BY <1>2, <1>4 DEF Ends, To
  <2>2. stage'[o] = "settled" /\ \A p \in Op \ {o} : stage'[p] = stage[p]
    BY <1>1, <2>1
  <2>3. x \in Reply
    <3>1. CountOf(o) \in 0 .. MaxId
      <4>1. Numbered(db, ids) /\ visited[o] \subseteq db
        BY <1>1, CursorSees DEF StoreInv, Drafts, Targets
      <4> QED
        BY <4>1, FewRecords DEF CountOf
    <3>2. CountOf(o) \in -1 .. MaxId /\ 0 \in -1 .. MaxId
      BY <3>1, BoundAssumption
    <3> QED
      BY <3>2, Statuses DEF NULL
  <2>4. Kind(o) = "expire" => x = Status(Cardinality(visited[o]))
    BY DEF CountOf
  <2>5. Kind(o) = "iterate" => x = NULL
    OBVIOUS
  <2> HIDE DEF x
  <2>6. /\ reply' \in [Op -> Seq(Reply)] /\ reply'[o] = Append(reply[o], x)
        /\ \A p \in Op \ {o} : reply'[p] = reply[p]
    BY <1>1, <2>1, <2>3, AnswerAppended
  <2>7. Answered(o)'
    <3>1. /\ Answered(o) /\ Kind(o)' = Kind(o) /\ Writes(o)' = Writes(o)
          /\ visited'[o] = visited[o]
      BY <1>1 DEF Answers, Kind, Writes
    <3>2. CASE Kind(o) = "expire"
      <4>1. Writes(o) /\ reply[o] = <<>>
        BY <1>1, <3>1, <3>2 DEF Answered, Writes
      <4>2. reply'[o] = <<Status(Cardinality(visited[o]))>>
        BY <2>4, <2>6, <3>2, <4>1
      <4>3. Status(Cardinality(visited[o]))' = Status(Cardinality(visited[o]))
        BY <3>1
      <4> QED
        BY <2>2, <3>1, <3>2, <4>1, <4>2, <4>3 DEF Answered
    <3>3. CASE Kind(o) = "iterate"
      <4>1. ~Writes(o) /\ Reporting(reply[o], Cardinality(visited[o]))
        BY <1>1, <3>1, <3>3 DEF Answered, Writes
      <4>2. reply'[o] = Append(reply[o], NULL)
        BY <2>5, <2>6, <3>3
      <4>3. \E q \in Seq(Reply) : Reporting(q, Cardinality(visited'[o])) /\ reply'[o] = Append(q, NULL)
        BY <1>1, <3>1, <4>1, <4>2
      <4> QED
        BY <2>2, <3>1, <4>1, <4>3 DEF Answered
    <3> QED
      BY <1>2, <1>4, <3>2, <3>3
  <2> QED
    BY <1>1, <2>2, <2>6, <2>7, AnswerKept DEF Answers
<1> QED
  BY <1>3, <1>4

LEMMA PutAnswers ==
  ASSUME StoreInv, Answers, NEW o \in Op, Put(o) PROVE Answers'
<1>1. /\ Runs(o) /\ stage[o] = "put" /\ draftIds < MaxId /\ Answer(o, Status(1))
      /\ stage' = [stage EXCEPT ![o] = "settled"] /\ UNCHANGED <<call, visited>>
      /\ stage \in [Op -> Stages] /\ reply \in [Op -> Seq(Reply)]
  BY DEF Put, To, StoreInv, Calls, Answers
<1>2. Kind(o) = "store" /\ Writes(o) /\ draftIds \in Nat
  BY <1>1, PutSees DEF Writes, StoreInv, Drafts, Numbered
<1>3. 1 \in -1 .. MaxId
  BY <1>1, <1>2, BoundAssumption
<1>4. Status(1) \in Reply
  BY <1>3, Statuses
<1>5. /\ reply' \in [Op -> Seq(Reply)] /\ reply'[o] = Append(reply[o], Status(1))
      /\ \A p \in Op \ {o} : reply'[p] = reply[p]
  BY <1>1, <1>4, AnswerAppended
<1>6. stage'[o] = "settled" /\ \A p \in Op \ {o} : stage'[p] = stage[p]
  BY <1>1
<1>7. reply'[o] = <<Status(1)>>
  <2>1. reply[o] = <<>>
    BY <1>1, <1>2 DEF Answers, Answered
  <2> QED
    BY <1>5, <2>1
<1>8. Answered(o)'
  BY <1>1, <1>2, <1>6, <1>7 DEF Answers, Answered, Writes, Kind
<1> QED
  BY <1>1, <1>5, <1>6, <1>8, AnswerKept DEF Answers

\* A writing call that waits for its commit has told of a success.
LEMMA SettledStatus ==
  ASSUME StoreInv, Answers, NEW o \in Op, Runs(o), stage[o] = "settled", Writes(o)
  PROVE  \E n \in 0 .. MaxId : reply[o] = <<Status(n)>>
<1>1. Numbered(db, ids) /\ visited[o] \subseteq db
  BY CommitFacts DEF StoreInv, Drafts, Targets
<1>2. Cardinality(visited[o]) \in 0 .. MaxId
  BY <1>1, FewRecords
<1>3. reply[o] = <<Status(IF Kind(o) = "expire" THEN Cardinality(visited[o]) ELSE 1)>>
  BY DEF Answers, Answered
<1>4. CASE Kind(o) = "expire"
  BY <1>2, <1>3, <1>4
<1>5. CASE Kind(o) # "expire"
  <2>1. Kind(o) = "store" /\ Done(o) /\ ids \in Nat
    BY <1>1, <1>5, CommitFacts DEF Writes, Numbered
  <2>2. 1 \in 0 .. MaxId
    BY <2>1, BoundAssumption DEF Done
  <2> QED
    BY <1>3, <1>5, <2>2
<1> QED
  BY <1>4, <1>5

\* The call is over, with or without its commit.
LEMMA EndedAnswers ==
  ASSUME StoreInv, Answers, NEW o \in Op, Commit(o) \/ CannotCommit(o) PROVE Answers'
<1>1. /\ Runs(o) /\ stage[o] = "settled" /\ UNCHANGED <<call, visited, reply>>
      /\ stage \in [Op -> Stages]
      /\ \/ stage' = [stage EXCEPT ![o] = "done"]
         \/ stage' = [stage EXCEPT ![o] = "failed"] /\ Writes(o)
  BY DEF Commit, CannotCommit, To, StoreInv, Calls
<1>2. /\ stage'[o] \in {"done", "failed"} /\ (stage'[o] = "failed" => Writes(o))
      /\ \A p \in Op \ {o} : stage'[p] = stage[p]
  BY <1>1
<1>3. Answered(o)'
  <2>1. Answered(o) /\ Writes(o)' = Writes(o) /\ reply'[o] = reply[o] /\ visited'[o] = visited[o]
    BY <1>1 DEF Answers, Writes, Kind
  <2>2. Writes(o)' => \E n \in 0 .. MaxId : reply'[o] = <<Status(n)>>
    BY <1>1, <2>1, SettledStatus
  <2>3. IsFiniteSet(visited'[o])
    BY <2>1 DEF Answered
  <2>4. \A n \in 0 .. MaxId : n \in -1 .. MaxId
    BY BoundAssumption
  <2> QED
    BY <1>2, <2>2, <2>3, <2>4 DEF Answered, Status
<1> QED
  BY <1>1, <1>2, <1>3, AnswerKept DEF Answers

LEMMA FailAnswers ==
  ASSUME StoreInv, Answers, NEW o \in Op, Fail(o) PROVE Answers'
<1>1. /\ Runs(o) /\ stage[o] \in {"cursor", "put"} /\ UNCHANGED <<call, visited>>
      /\ stage' = [stage EXCEPT ![o] = "failed"] /\ stage \in [Op -> Stages]
      /\ reply' = [reply EXCEPT ![o] = @ \o <<Status(-1)>>] /\ reply \in [Op -> Seq(Reply)]
  BY DEF Fail, AnswerToFailure, To, StoreInv, Calls, Answers
<1>2. stage'[o] = "failed" /\ \A p \in Op \ {o} : stage'[p] = stage[p]
  BY <1>1
<1>3. Status(-1) \in Reply
  BY BoundAssumption, Statuses
<1>4. /\ reply' \in [Op -> Seq(Reply)] /\ reply'[o] = reply[o] \o <<Status(-1)>>
      /\ \A p \in Op \ {o} : reply'[p] = reply[p]
  <2>1. <<Status(-1)>> \in Seq(Reply) /\ reply[o] \in Seq(Reply)
    BY <1>1, <1>3
  <2>2. reply[o] \o <<Status(-1)>> \in Seq(Reply)
    BY <2>1
  <2> QED
    BY <1>1, <2>2
<1>5. Answered(o)'
  <2>1. Writes(o) => reply'[o] = <<Status(-1)>>
    <3>1. Writes(o) => reply[o] = <<>>
      BY <1>1 DEF Answers, Answered
    <3>2. <<>> \o <<Status(-1)>> = <<Status(-1)>>
      BY <1>3, ConcatEmptySeq
    <3> QED
      BY <1>4, <3>1, <3>2
  <2>2. Writes(o)' = Writes(o) /\ IsFiniteSet(visited'[o])
    BY <1>1 DEF Answers, Answered, Writes, Kind
  <2>3. -1 \in -1 .. MaxId
    BY BoundAssumption
  <2> QED
    BY <1>2, <2>1, <2>2, <2>3 DEF Answered, Status
<1> QED
  BY <1>1, <1>2, <1>4, <1>5, AnswerKept DEF Answers

LEMMA CrashAnswers == ASSUME StoreInv, Answers, Crash PROVE Answers'
<1>1. /\ UNCHANGED <<call, visited, reply>>
      /\ stage' = [o \in Op |-> IF \E i \in 1 .. Len(txns) : txns[i] = o THEN "lost" ELSE stage[o]]
  BY DEF Crash
<1>2. ASSUME NEW o \in Op PROVE Answered(o)'
  <2>1. CASE stage'[o] = stage[o]
    BY <1>1, <2>1, AnswerKept DEF Answers
  <2>2. CASE stage'[o] = "lost"
    BY <1>1, <2>2 DEF Answers, Answered
  <2> QED
    BY <1>1, <2>1, <2>2
<1> QED
  BY <1>1, <1>2 DEF Answers

LEMMA StartAnswers ==
  ASSUME StoreInv, Answers, now \in Time, NEW o \in Op, NEW c \in Call, Start(o, c)
  PROVE  Answers'
<1>1. /\ stage[o] = "new" /\ UNCHANGED <<visited, reply>>
      /\ \E k : call' = [call EXCEPT ![o] = k]
      /\ \E t \in {"put", "cursor", "thrown"} : stage' = [stage EXCEPT ![o] = t]
      /\ call \in [Op -> CallRecord \cup {None}] /\ stage \in [Op -> Stages]
  BY DEF Start, To, StoreInv, Calls
<1>2. /\ stage'[o] \in {"put", "cursor", "thrown"}
      /\ \A p \in Op \ {o} : stage'[p] = stage[p] /\ call'[p] = call[p]
  BY <1>1
<1>3. reply'[o] = <<>> /\ visited'[o] = {}
  BY <1>1 DEF StoreInv, Answers, Answered
<1>4. stage'[o] = "put" => Writes(o)'
  <2>1. Calls'
    BY StartKeeps DEF StoreInv
  <2> QED
    BY <2>1 DEF Calls, Writes, Kind
<1>5. Answered(o)'
  <2>1. IsFiniteSet(visited'[o]) /\ Cardinality(visited'[o]) = 0
    BY <1>3, FS_EmptySet
  <2>2. Reporting(reply'[o], Cardinality(visited'[o]))
    BY <1>3, <2>1 DEF Reporting
  <2> QED
    BY <1>2, <1>3, <1>4, <2>1, <2>2 DEF Answered
<1> QED
  BY <1>1, <1>2, <1>5, AnswerKept DEF Answers

LEMMA InitAnswers == Init => Answers
<1> SUFFICES ASSUME Init PROVE Answers
  OBVIOUS
<1>1. ASSUME NEW o \in Op PROVE Answered(o)
  <2>1. stage[o] = "new" /\ reply[o] = <<>> /\ visited[o] = {}
    BY DEF Init
  <2> QED
    BY <2>1, FS_EmptySet DEF Answered
<1> QED
  BY <1>1 DEF Init, Answers

LEMMA StepAnswers == ASSUME IInv, Environment, [Next]_vars PROVE Answers'
<1>1. StoreInv /\ Answers /\ now \in Time
  BY DEF IInv, Environment
<1>2. ASSUME NEW o \in Op, NEW c \in Call, Start(o, c) PROVE Answers'
  BY <1>1, <1>2, StartAnswers
<1>3. ASSUME NEW o \in Op, Event(o) PROVE Answers'
  BY <1>1, <1>3, StopsAnswers, EndsAnswers, PutAnswers, EndedAnswers DEF Event
<1>4. ASSUME NEW o \in Op, Fail(o) \/ CannotCommit(o) PROVE Answers'
  BY <1>1, <1>4, FailAnswers, EndedAnswers
<1>5. CASE Crash
  BY <1>1, <1>5, CrashAnswers
<1>6. CASE Tick \/ UNCHANGED vars
  <2>1. UNCHANGED <<call, stage, visited, reply>>
    BY <1>6 DEF Tick, vars, opVars
  <2> QED
    BY <1>1, <2>1, AnswerKept DEF Answers
<1> QED
  BY <1>2, <1>3, <1>4, <1>5, <1>6 DEF Next

LEMMA AnswersAlways == Spec => [](IInv /\ Environment)
<1>1. Init => IInv /\ Environment
  BY InitKeeps, InitAnswers DEF IInv
<1>2. IInv /\ Environment /\ [Next]_vars => (IInv /\ Environment)'
  BY StepKeeps, StepAnswers, EnvironmentKeeps DEF IInv
<1> QED
  BY <1>1, <1>2, PTL DEF Spec

-----------------------------------------------------------------------------
(* Theorems about the calls.                                               *)

\* An event or an abort moves its own call alone, which is open.
LEMMA Moves ==
  ASSUME StoreInv, NEW o \in Op, Event(o) \/ Fail(o) \/ CannotCommit(o)
  PROVE  /\ stage[o] \in Open /\ call' = call
         /\ \A p \in Op \ {o} : stage'[p] = stage[p]
<1>1. stage \in [Op -> Stages]
  BY DEF StoreInv, Calls
<1>2. CASE \E r : Stops(o, r)
  BY <1>2 DEF Stops, Open
<1>3. CASE Ends(o)
  <2>1. Kind(o) \in {"store", "iterate", "expire"}
    BY <1>3, Running DEF Ends, StoreInv
  <2>2. \E t : stage' = [stage EXCEPT ![o] = t]
    BY <1>3, <2>1 DEF Ends, To
  <2> QED
    BY <1>1, <1>3, <2>2 DEF Ends, Open
<1>4. CASE Put(o)
  BY <1>1, <1>4 DEF Put, To, Open
<1>5. CASE Commit(o)
  BY <1>1, <1>5 DEF Commit, To, Open
<1>6. CASE Fail(o) \/ CannotCommit(o)
  BY <1>1, <1>6 DEF Fail, CannotCommit, To, Open
<1> QED
  BY <1>2, <1>3, <1>4, <1>5, <1>6 DEF Event

\* Every operation keeps the types of Peerstore; no status is beyond the ids.
THEOREM TypeCorrect == Spec => []TypeOK
<1>1. IInv /\ Environment => TypeOK
  <2> SUFFICES ASSUME IInv, Environment PROVE TypeOK
    OBVIOUS
  <2>1. /\ db \subseteq Record /\ ids \in 0 .. MaxId /\ txns \in Seq(Op)
        /\ stage \in [Op -> Stages] /\ visited \in [Op -> SUBSET Record]
    BY DEF IInv, StoreInv, Calls, Drafts, Numbered
  <2>2. draft \subseteq Record /\ draftIds \in 0 .. MaxId
    <3>1. CASE \A o \in Op : Underway(o) => ~Writes(o)
      BY <2>1, <3>1 DEF IInv, StoreInv, Drafts, Unwritten
    <3>2. CASE \E o \in Op : Underway(o) /\ Writes(o)
      <4> PICK o \in Op : Underway(o) /\ Writes(o)
        BY <3>2
      <4>1. Runs(o) /\ Done(o)
        BY DEF IInv, StoreInv, Drafts
      <4>2. CASE stage[o] = "settled"
        BY <4>1, <4>2, CommitFacts DEF IInv, Numbered
      <4>3. CASE stage[o] # "settled"
        <5>1. Kind(o) \in {"store", "expire"}
          BY <4>1, Running DEF IInv, StoreInv, Writes
        <5> QED
          BY <2>1, <4>1, <4>3, <5>1 DEF Done
      <4> QED
        BY <4>2, <4>3
    <3> QED
      BY <3>1, <3>2
  <2>3. ASSUME NEW o \in Op, NEW i \in 1 .. Len(reply[o]) PROVE reply[o][i].status \in -1 .. MaxId
    <3>1. reply[o] \in Seq(Reply)
      BY DEF IInv, Answers
    <3>2. reply[o][i] \in Reply
      BY <3>1
    <3> QED
      BY <3>2 DEF Reply
  <2> QED
    BY <2>1, <2>2, <2>3 DEF TypeOK, Stages, Open, Environment
<1> QED
  BY <1>1, AnswersAlways, PTL

\* What a step does to the calls that have failed: a failing request tells its
\* caller, a commit on a full disk does not, nothing else makes a failed call.
LEMMA VainKept == ASSUME IInv, InVain, full \in Nat, [Next]_vars PROVE InVain'
<1> DEFINE Vain(o) == stage[o] = "failed" /\ Writes(o) /\ reply[o] # <<Status(-1)>>
<1>1. ToldInVain = {o \in Op : Vain(o)} /\ ToldInVain' = {o \in Op : Vain(o)'}
  BY DEF ToldInVain
<1>2. StoreInv /\ Answers /\ stage \in [Op -> Stages] /\ reply \in [Op -> Seq(Reply)]
  BY DEF IInv, StoreInv, Calls, Answers
<1>3. ASSUME full' = full, \A o \in Op : Vain(o)' <=> Vain(o) PROVE InVain'
  BY <1>1, <1>3 DEF InVain
<1>4. ASSUME NEW o \in Op, NEW c \in Call, Start(o, c) PROVE InVain'
  <2>1. /\ stage[o] = "new" /\ UNCHANGED <<full, reply>>
        /\ \E k : call' = [call EXCEPT ![o] = k]
        /\ \E t \in {"put", "cursor", "thrown"} : stage' = [stage EXCEPT ![o] = t]
    BY <1>4 DEF Start, To, envVars
  <2>2. /\ stage'[o] # "failed"
        /\ \A p \in Op \ {o} : stage'[p] = stage[p] /\ call'[p] = call[p]
    BY <1>2, <2>1 DEF StoreInv, Calls
  <2> QED
    BY <1>3, <2>1, <2>2 DEF Writes, Kind
<1>5. ASSUME NEW o \in Op, Event(o) PROVE InVain'
  <2>1. /\ stage[o] \in Open /\ call' = call /\ full' = full
        /\ \A p \in Op \ {o} : stage'[p] = stage[p]
    BY <1>2, <1>5, Moves DEF Event, Stops, Ends, Put, Commit, envVars
  <2>2. /\ stage' = stage \/ \E t \in {"put", "settled", "done"} : stage' = [stage EXCEPT ![o] = t]
        /\ reply' = reply \/ \E x : reply' = [reply EXCEPT ![o] = Append(@, x)]
    <3>1. CASE \E r : Stops(o, r)
      BY <3>1 DEF Stops, Answer
    <3>2. CASE Ends(o)
      <4>1. Kind(o) \in {"store", "iterate", "expire"}
        BY <1>2, <3>2, Running DEF Ends, StoreInv
      <4> QED
        BY <3>2, <4>1 DEF Ends, To, Answer
    <3>3. CASE Put(o)
      BY <3>3 DEF Put, To, Answer
    <3>4. CASE Commit(o)
      BY <3>4 DEF Commit, To
    <3> QED
      BY <1>5, <3>1, <3>2, <3>3, <3>4 DEF Event
  <2>3. stage'[o] # "failed" /\ \A p \in Op \ {o} : reply'[p] = reply[p]
    BY <1>2, <2>1, <2>2 DEF Open
  <2> QED
    BY <1>3, <2>1, <2>2, <2>3 DEF Writes, Kind, Open
<1>6. ASSUME NEW o \in Op, Fail(o) PROVE InVain'
  <2>1. /\ stage[o] \in {"cursor", "put"} /\ call' = call /\ full' = full
        /\ \A p \in Op \ {o} : stage'[p] = stage[p]
    BY <1>2, <1>6, Moves DEF Fail
  <2>2. reply' = [reply EXCEPT ![o] = @ \o <<Status(-1)>>]
    BY <1>6 DEF Fail, AnswerToFailure
  <2>3. Writes(o) => reply'[o] = <<Status(-1)>>
    <3>1. Writes(o) => reply[o] = <<>>
      BY <1>2, <2>1 DEF Answers, Answered
    <3>2. Status(-1) \in Reply
      BY BoundAssumption, Statuses
    <3>3. <<>> \o <<Status(-1)>> = <<Status(-1)>>
      BY <3>2, ConcatEmptySeq
    <3> QED
      BY <1>2, <2>2, <3>1, <3>3
  <2>4. \A p \in Op \ {o} : reply'[p] = reply[p]
    BY <1>2, <2>2
  <2> QED
    BY <1>3, <2>1, <2>3, <2>4 DEF Writes, Kind
<1>7. ASSUME NEW o \in Op, CannotCommit(o) PROVE InVain'
  <2>1. /\ Runs(o) /\ stage[o] = "settled" /\ Writes(o) /\ UNCHANGED <<call, reply>>
        /\ full' = full + 1 /\ stage' = [stage EXCEPT ![o] = "failed"]
    BY <1>7 DEF CannotCommit, To
  <2>2. reply[o] # <<Status(-1)>>
    BY <1>2, <2>1, SettledStatus, BoundAssumption DEF Status
  <2>3. ToldInVain' = ToldInVain \cup {o} /\ o \notin ToldInVain
    BY <1>1, <1>2, <2>1, <2>2 DEF Writes, Kind
  <2>4. IsFiniteSet(ToldInVain') /\ Cardinality(ToldInVain') = Cardinality(ToldInVain) + 1
    BY <2>3, FS_AddElement DEF InVain
  <2> QED
    BY <2>1, <2>4 DEF InVain
<1>8. CASE Crash
  <2>1. /\ UNCHANGED <<call, reply, full>>
        /\ stage' = [o \in Op |-> IF \E i \in 1 .. Len(txns) : txns[i] = o THEN "lost" ELSE stage[o]]
    BY <1>8 DEF Crash
  <2>2. \A i \in 1 .. Len(txns) : stage[txns[i]] # "failed"
    BY <1>2 DEF StoreInv, Calls, Open
  <2>3. \A o \in Op : stage'[o] = "failed" <=> stage[o] = "failed"
    BY <2>1, <2>2
  <2> QED
    BY <1>3, <2>1, <2>3 DEF Writes, Kind
<1>9. CASE Tick \/ UNCHANGED vars
  <2>1. UNCHANGED <<call, stage, reply, full>>
    BY <1>9 DEF Tick, vars, opVars, envVars
  <2> QED
    BY <1>3, <2>1 DEF Writes, Kind
<1> QED
  BY <1>4, <1>5, <1>6, <1>7, <1>8, <1>9 DEF Next

\* A store or an expire calls cont once when it is over; it tells of a failure only if
\* nothing of it is kept, and of a success that is not kept exactly as often as the
\* disk was full at a commit (plugin_peerstore_emscripten_int.js).
THEOREM CalledBackOnce == Spec => []AnsweredOnce
<1>1. Init => InVain
  <2> SUFFICES ASSUME Init PROVE InVain
    OBVIOUS
  <2>1. ToldInVain = {} /\ full = 0
    BY DEF Init, ToldInVain
  <2> QED
    BY <2>1, FS_EmptySet DEF InVain
<1>2. IInv /\ Environment /\ InVain /\ [Next]_vars => InVain'
  BY VainKept, BoundAssumption DEF Environment
<1>3. IInv /\ InVain => AnsweredOnce
  <2> SUFFICES ASSUME IInv, InVain, NEW o \in Op, Writes(o),
                      stage[o] \in {"settled", "done", "failed"}
               PROVE  /\ Len(reply[o]) = 1
                      /\ reply[o] = <<Status(-1)>> => stage[o] = "failed"
    BY DEF AnsweredOnce, InVain
  <2>1. Answered(o)
    BY DEF IInv, Answers
  <2>2. CASE stage[o] = "failed"
    BY <2>1, <2>2 DEF Answered
  <2>3. CASE stage[o] \in {"settled", "done"}
    <3>1. PICK n \in Nat : reply[o] = <<Status(n)>>
      <4>1. Cardinality(visited[o]) \in Nat
        BY <2>1, FS_CardinalityType DEF Answered
      <4> QED
        BY <2>1, <2>3, <4>1, BoundAssumption DEF Answered
    <3>2. Status(n) # Status(-1)
      BY DEF Status
    <3> QED
      BY <2>3, <3>1, <3>2
  <2> QED
    BY <2>2, <2>3
<1> QED
  BY <1>1, <1>2, <1>3, AnswersAlways, PTL DEF Spec

\* The count that expire passes to cont is that of the records which had expired when
\* it was called; its commit takes away these, and without a commit all of them stay,
\* whatever else is open.
THEOREM CountTrue == Spec => CountIsTrue
<1> DEFINE Counts ==
      \A o \in Op : Started(o, "expire") /\ stage[o] = "settled" /\ stage'[o] # "settled" =>
        /\ reply[o] = <<Status(Cardinality(Due(o)))>>
        /\ db' = IF stage'[o] = "done" THEN db \ Due(o) ELSE db
<1>1. IInv /\ [Next]_vars => Counts
  <2> SUFFICES ASSUME IInv, [Next]_vars, NEW o \in Op,
                      Kind(o) = "expire", stage[o] = "settled", stage'[o] # "settled"
               PROVE  /\ reply[o] = <<Status(Cardinality(Due(o)))>>
                      /\ db' = IF stage'[o] = "done" THEN db \ Due(o) ELSE db
    BY DEF Started
  <2>1. Runs(o) /\ Writes(o) /\ stage \in [Op -> Stages]
    BY DEF IInv, StoreInv, Calls, Drafts, Underway, Writes
  <2>2. visited[o] = Due(o) /\ draft = db \ Due(o)
    BY <2>1, CommitFacts DEF IInv, Done, Targets, Due
  <2>3. reply[o] = <<Status(Cardinality(Due(o)))>>
    BY <2>1, <2>2 DEF IInv, Answers, Answered
  <2>4. Commit(o) \/ CannotCommit(o) \/ Crash
    <3>1. ASSUME NEW p \in Op, p # o,
                 Event(p) \/ Fail(p) \/ CannotCommit(p) \/ \E c \in Call : Start(p, c)
          PROVE  stage'[o] = stage[o]
      <4>1. CASE Event(p) \/ Fail(p) \/ CannotCommit(p)
        BY <3>1, <4>1, Moves DEF IInv
      <4>2. CASE \E c \in Call : Start(p, c)
        BY <2>1, <3>1, <4>2 DEF Start, To
      <4> QED
        BY <3>1, <4>1, <4>2
    <3>2. ~(Ends(o) \/ Put(o) \/ Fail(o) \/ \E c \in Call : Start(o, c))
      BY DEF Ends, Put, Fail, Start
    <3>3. ASSUME NEW r, Stops(o, r) PROVE FALSE
      BY <3>3 DEF Stops
    <3>4. Tick \/ UNCHANGED vars => stage' = stage
      BY DEF Tick, vars, opVars
    <3> QED
      BY <3>1, <3>2, <3>3, <3>4 DEF Next, Event
  <2>5. CASE Commit(o)
    BY <2>1, <2>2, <2>3, <2>5 DEF Commit, To
  <2>6. CASE CannotCommit(o)
    BY <2>1, <2>3, <2>6 DEF CannotCommit, Undone, To
  <2>7. CASE Crash
    <3>1. stage'[o] # "done" /\ db' = db
      BY <2>1, <2>7 DEF Crash, Undone
    <3> QED
      BY <2>3, <3>1
  <2> QED
    BY <2>4, <2>5, <2>6, <2>7
<1>2. Counts => [Counts]_vars
  OBVIOUS
<1> QED
  BY <1>1, AnswersAlways, PTL DEF Spec, CountIsTrue

\* An iterate that names a peer or a key reports every record that matches, once
\* each, and NULL after the last; the one by sub_system alone does not.
THEOREM IteratesComplete ==
  ASSUME \A c \in Call : c.kind = "iterate" => c.peer # None \/ c.key # None
  PROVE  Spec => []IterateComplete
<1> DEFINE Named == \A o \in Op :
             stage[o] # "new" /\ Kind(o) = "iterate" => call[o].peer # None \/ call[o].key # None
<1>1. Init => Named
  BY DEF Init
<1>2. ASSUME IInv, Named, [Next]_vars PROVE Named'
  <2>1. ASSUME NEW o \in Op, NEW c \in Call, Start(o, c) PROVE Named'
    <3>1. /\ \E t : stage' = [stage EXCEPT ![o] = t]
          /\ call' = [call EXCEPT ![o] = IF c.kind = "expire" THEN [c EXCEPT !.expiry = now] ELSE c]
          /\ call \in [Op -> CallRecord \cup {None}] /\ stage \in [Op -> Stages]
      BY <2>1, <1>2 DEF Start, To, IInv, StoreInv, Calls
    <3>2. \A p \in Op \ {o} : stage'[p] = stage[p] /\ call'[p] = call[p]
      BY <3>1
    <3>3. c.kind = "expire" => call'[o].kind = "expire"
      BY <3>1, CallAssumption DEF Called, CallRecord
    <3>4. c.kind # "expire" => call'[o] = c
      BY <3>1
    <3> QED
      BY <1>2, <3>2, <3>3, <3>4 DEF Kind
  <2>2. ASSUME NEW o \in Op, Event(o) \/ Fail(o) \/ CannotCommit(o) PROVE Named'
    <3>1. stage[o] # "new" /\ call' = call /\ \A p \in Op \ {o} : stage'[p] = stage[p]
      BY <1>2, <2>2, Moves DEF IInv, Open
    <3> QED
      BY <1>2, <3>1 DEF Kind
  <2>3. CASE Crash
    <3>1. \A o \in Op : stage'[o] = stage[o] \/ \E i \in 1 .. Len(txns) : txns[i] = o
      BY <2>3 DEF Crash
    <3>2. \A o \in Op : stage'[o] # "new" => stage[o] # "new"
      BY <1>2, <3>1 DEF IInv, StoreInv, Calls, Open
    <3> QED
      BY <1>2, <2>3, <3>2 DEF Crash, Kind
  <2>4. CASE Tick \/ UNCHANGED vars
    BY <1>2, <2>4 DEF Tick, vars, opVars, Kind
  <2> QED
    BY <1>2, <2>1, <2>2, <2>3, <2>4 DEF Next
<1>3. ASSUME IInv, Named PROVE IterateComplete
  <2> SUFFICES ASSUME NEW o \in Op, Kind(o) = "iterate", stage[o] = "settled"
               PROVE  /\ visited[o] = {r \in db : Wanted(r, call[o])}
                      /\ Len(reply[o]) = Cardinality(visited[o]) + 1
                      /\ \A i \in 1 .. Len(reply[o]) : reply[o][i] = NULL <=> i = Len(reply[o])
    BY DEF IterateComplete, Started
  <2>1. visited[o] = {r \in db : Wanted(r, call[o])}
    <3>1. visited[o] = Targets(o)
      BY <1>3 DEF IInv, StoreInv, Drafts, Underway, Done
    <3>2. visited[o] = {r \in db : Selected(r, call[o])}
      BY <3>1 DEF Targets
    <3>3. call[o].key # None
      BY <1>3 DEF IInv, StoreInv, Calls, IndexExists, Kind
    <3>4. \A r \in db : Selected(r, call[o]) <=> Wanted(r, call[o])
      BY <3>3 DEF Selected, Wanted, SameEntry, Entry
    <3> QED
      BY <3>2, <3>4
  <2>2. PICK q \in Seq(Reply) :
          Reporting(q, Cardinality(visited[o])) /\ reply[o] = Append(q, NULL)
    BY <1>3 DEF IInv, Answers, Answered, Writes
  <2> PICK n \in Nat : n = Cardinality(visited[o])
    BY <2>2 DEF Reporting
  <2>3. /\ Len(q) = n /\ Len(reply[o]) = n + 1 /\ reply[o][n + 1] = NULL
        /\ \A i \in 1 .. n : reply[o][i] # NULL
    BY <2>2 DEF Reporting
  <2>4. ASSUME NEW i \in 1 .. n + 1 PROVE reply[o][i] = NULL <=> i = n + 1
    <3>1. (i \in 1 .. n /\ i # n + 1) \/ i = n + 1
      OBVIOUS
    <3> QED
      BY <2>3, <3>1
  <2> QED
    BY <2>1, <2>3, <2>4
<1> QED
  BY <1>1, <1>2, <1>3, AnswersAlways, PTL DEF Spec
=============================================================================
