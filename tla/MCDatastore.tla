----------------------------- MODULE MCDatastore -----------------------------
(* Instances of Datastore for TLC: the calls the service may make. *)
EXTENDS Datastore

NoCall == [kind |-> "getKeys", key |-> None, data |-> None, type |-> 0,
           absent |-> FALSE, next |-> 0, priority |-> 0, anonymity |-> 0,
           replication |-> 0, expiry |-> 0]

PutCalls(K, D, A, R, E) ==
  {[NoCall EXCEPT !.kind = "put", !.key = k, !.data = d, !.type = 1, !.absent = a,
                  !.priority = 1, !.anonymity = 0, !.replication = n, !.expiry = e] :
     k \in K, d \in D, a \in A, n \in R, e \in E}

RemoveCalls(K, D) ==
  {[NoCall EXCEPT !.kind = "remove", !.key = k, !.data = d] : k \in K, d \in D}

\* Every operation; searches for a key and for the start of the store.
Calls ==
  PutCalls(Key, Data, BOOLEAN, {1}, Time) \cup RemoveCalls(Key, Data)
    \cup {[NoCall EXCEPT !.kind = g] : g \in {"getReplication", "getExpiration", "getKeys"}}
    \cup {[NoCall EXCEPT !.kind = "getKey", !.key = k, !.next = 2] : k \in Key \cup {None}}
    \cup {[NoCall EXCEPT !.kind = "getZero", !.type = 1, !.next = 2]}

ItemOf(u, d, n, e) ==
  [uid |-> u, key |-> CHOOSE k \in Key : TRUE, data |-> d, type |-> 1, priority |-> 1,
   anonymity |-> 0, replication |-> n, expiry |-> e]

\* Nothing; one item that has expired or will; two, one to be replicated.
Stores ==
  LET d == CHOOSE e \in Data : TRUE
  IN  {{}} \cup {{ItemOf(1, d, 0, e)} : e \in Time}
        \cup {{ItemOf(1, d, 0, 1), ItemOf(2, f, 1, 2)} : f \in Data \ {d}}
=============================================================================
