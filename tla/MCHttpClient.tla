----------------------------- MODULE MCHttpClient -----------------------------
(* Instances of HttpClient for TLC: two peers, one of which has two addresses. *)
EXTENDS HttpClient, TLC

CONSTANTS a, b, c
Peers == {{a, b}, {c}}
=============================================================================
