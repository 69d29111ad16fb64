----------------------------- MODULE MCTaskViews -----------------------------
(* A small instance of TaskViews for TLC.                                   *)
EXTENDS TaskViews

CONSTANTS t1, t2
==============================================================================
