--------------------------- MODULE MCAnalysisCycle ---------------------------
(* Small instances of AnalysisCycle for TLC. *)
EXTENDS AnalysisCycle

CONSTANTS p1, p2, other

\* Two calls a planner may choose: one the local policy also knows.
MCAgentCalls == {"compare_periods", other}
==============================================================================
