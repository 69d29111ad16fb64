------------------------- MODULE MCKnowledgeLedger -------------------------
(* Small instances of KnowledgeLedger for TLC.                              *)
EXTENDS KnowledgeLedger, TLC

CONSTANTS a, b, c1, c2, s1, e1, e2

Symmetry == Permutations(Ids) \cup Permutations(Clients) \cup Permutations(Sources)
            \cup Permutations(Evidence)
============================================================================
