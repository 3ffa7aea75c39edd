--------------------------- MODULE MCRequestLocks ---------------------------
(* Requests of one event for TLC: a plain handler h1 and notices n1, n2. *)
EXTENDS RequestLocks

CONSTANTS h1, n1, n2
============================================================================
