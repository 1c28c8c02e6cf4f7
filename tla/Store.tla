-------------------------------- MODULE Store --------------------------------
(***************************************************************************)
(* What the datastore plugin promises: a set of records that changes by    *)
(* one whole operation at a time.  Module Datastore implements it with     *)
(* IndexedDB transactions of several requests each.                        *)
(***************************************************************************)
EXTENDS Naturals

CONSTANTS Key, Data, Type, Uid, Amount, Time

VARIABLE store

Record == [uid : Uid, key : Key, data : Data, type : Type, priority : Nat,
           anonymity : Amount, replication : Nat, expiry : Time]

SameContent(r, s) == r.key = s.key /\ r.data = s.data

\* A new item, whatever is stored already.
Insert(r) ==
  /\ \A s \in store : s.uid # r.uid
  /\ store' = store \cup {r}

\* The item is stored already: its priority and replication are added up and
\* the later expiration counts.
Merge(r, priority, replication, expiry) ==
  /\ r \in store
  /\ store' = (store \ {r}) \cup
       {[r EXCEPT !.priority = @ + priority, !.replication = @ + replication,
                  !.expiry = IF @ < expiry THEN expiry ELSE @]}

\* One more copy of the item was sent out.  It was the one with the most
\* replications left to do.
Replicate(r) ==
  /\ r \in store
  /\ \A s \in store : s.replication <= r.replication
  /\ store' = (store \ {r}) \cup
       {[r EXCEPT !.replication = IF @ > 0 THEN @ - 1 ELSE 0]}

Remove(r) ==
  /\ r \in store
  /\ store' = store \ {r}

\* What was stored before.
Init ==
  /\ store \subseteq Record
  /\ \A r, s \in store : r.uid = s.uid => r = s

Next ==
  \/ \E u \in Uid, k \in Key, d \in Data, t \in Type, p, a, n \in Amount, e \in Time :
       Insert([uid |-> u, key |-> k, data |-> d, type |-> t, priority |-> p,
               anonymity |-> a, replication |-> n, expiry |-> e])
  \/ \E r \in store :
       \/ \E p, n \in Amount, e \in Time : Merge(r, p, n, e)
       \/ Replicate(r)
       \/ Remove(r)

Spec == Init /\ [][Next]_store
=============================================================================
