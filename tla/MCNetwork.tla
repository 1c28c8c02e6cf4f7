------------------------------ MODULE MCNetwork ------------------------------
(* Small instances of Network for TLC. *)
EXTENDS Network, TLC

\* Descriptors, timer ids and ports are interchangeable names.
Symmetry == Permutations(Desc) \cup Permutations(Timer) \cup Permutations(Port)
=============================================================================
