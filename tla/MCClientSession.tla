-------------------------- MODULE MCClientSession --------------------------
(* A small instance of ClientSession for TLC: two tabs and two calls.       *)
EXTENDS ClientSession

CONSTANTS t1, t2, c1, c2
============================================================================
