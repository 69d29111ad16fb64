---------------------------- MODULE MCSourceImport ----------------------------
(* Small instances of SourceImport for TLC: of three sources, two have the  *)
(* same fields.                                                             *)
EXTENDS SourceImport

CONSTANTS a, b, c

MCFields == [s \in Sources |-> IF s = c THEN {"day", "amount"} ELSE {"date", "value"}]
===============================================================================
