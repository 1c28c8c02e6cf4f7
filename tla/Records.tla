------------------------------- MODULE Records -------------------------------
(***************************************************************************)
(* What the peerstore plugin promises: a set of records that is changed by *)
(* one whole operation at a time.  Module Peerstore implements it.         *)
(***************************************************************************)
EXTENDS Naturals

CONSTANTS Id, SubSystem, Peer, Key, Value, Time

VARIABLE records

Record == [id : Id, sub_system : SubSystem, peer : Peer, key : Key, value : Value,
           expiry : Time]

SameEntry(r, s) == r.sub_system = s.sub_system /\ r.peer = s.peer /\ r.key = s.key

\* "One key can store multiple values."
Add(r) ==
  /\ \A s \in records : s.id # r.id
  /\ records' = records \cup {r}

\* The record replaces all values of its key.
Replace(r) ==
  /\ \A s \in records : s.id # r.id
  /\ records' = {s \in records : ~SameEntry(s, r)} \cup {r}

\* "Delete expired records (expiry < now)"
Expire(now) == records' = {r \in records : r.expiry >= now}

\* What was stored before.
Init ==
  /\ records \subseteq Record
  /\ \A r, s \in records : r.id = s.id => r = s

Next ==
  \/ \E r \in Record : Add(r) \/ Replace(r)
  \/ \E now \in Time : Expire(now)

Spec == Init /\ [][Next]_records
=============================================================================
