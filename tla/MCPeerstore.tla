----------------------------- MODULE MCPeerstore -----------------------------
(* Instances of Peerstore for TLC: the calls the service may make. *)
EXTENDS Peerstore, TLC

ExpireCall == [kind |-> "expire", sub_system |-> None, peer |-> None, key |-> None,
               value |-> None, expiry |-> 0, replace |-> FALSE]

StoreCalls ==
  [kind : {"store"}, sub_system : SubSystem, peer : Peer, key : Key, value : Value,
   expiry : Time, replace : BOOLEAN]

IterateCalls(P, K) ==
  {[ExpireCall EXCEPT !.kind = "iterate", !.sub_system = s, !.peer = p, !.key = k] :
     s \in SubSystem, p \in P, k \in K}

\* Every operation; iterate for a key, an entry or a peer.
Calls ==
  StoreCalls \cup {ExpireCall} \cup IterateCalls(Peer \cup {None}, Key)
    \cup IterateCalls(Peer, {None})
BySubSystemCalls == StoreCalls \cup IterateCalls({None}, {None})

Stored1(u, p, e) ==
  [id |-> u, sub_system |-> CHOOSE s \in SubSystem : TRUE, peer |-> p,
   key |-> CHOOSE k \in Key : TRUE, value |-> CHOOSE v \in Value : TRUE, expiry |-> e]

\* Nothing; two records of the same or of different peers, one to expire.
Stores ==
  {{}} \cup {{Stored1(1, p, 1), Stored1(2, q, 2)} : p, q \in Peer}

Symmetry == Permutations(Op)
=============================================================================
