-------------------------------- MODULE Stream --------------------------------
(***************************************************************************)
(* What the socket layer promises the C code on top of it: each direction  *)
(* of a connection is a reliable byte stream.  Bytes come out in the order *)
(* they went in, each once and in pieces of any size, and end of file is   *)
(* reported only when the writer has closed and nothing is left to read.   *)
(* It says nothing of messages, queues, browser ports or tasks.            *)
(***************************************************************************)
EXTENDS Naturals

CONSTANTS
  Port,     \* the directions of connections
  MaxByte   \* bound: bytes written to one of them

VARIABLES
  sent,     \* bytes written so far
  hungup,   \* the writer has closed
  got,      \* bytes read so far
  eof       \* the reader was told that the stream has ended

vars == <<sent, hungup, got, eof>>

TypeOK ==
  /\ sent \in [Port -> Nat]
  /\ hungup \in [Port -> BOOLEAN]
  /\ got \in [Port -> Nat]
  /\ eof \in [Port -> BOOLEAN]

Init ==
  /\ sent = [p \in Port |-> 0]
  /\ hungup = [p \in Port |-> FALSE]
  /\ got = [p \in Port |-> 0]
  /\ eof = [p \in Port |-> FALSE]

Write(p, n) ==
  /\ ~hungup[p]
  /\ sent' = [sent EXCEPT ![p] = @ + n]
  /\ UNCHANGED <<hungup, got, eof>>

Hangup(p) ==
  /\ hungup' = [hungup EXCEPT ![p] = TRUE]
  /\ UNCHANGED <<sent, got, eof>>

\* The next n bytes, none of which the reader had before.
Read(p, n) ==
  /\ got[p] + n <= sent[p]
  /\ ~eof[p]
  /\ got' = [got EXCEPT ![p] = @ + n]
  /\ UNCHANGED <<sent, hungup, eof>>

End(p) ==
  /\ hungup[p]
  /\ got[p] = sent[p]
  /\ eof' = [eof EXCEPT ![p] = TRUE]
  /\ UNCHANGED <<sent, hungup, got>>

Next ==
  \E p \in Port :
    \/ \E n \in 1 .. MaxByte : Write(p, n) \/ Read(p, n)
    \/ Hangup(p)
    \/ End(p)

Spec == Init /\ [][Next]_vars
=============================================================================
