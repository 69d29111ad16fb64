---------------------------- MODULE MCCodexTurns ----------------------------
(* Small instances of CodexTurns for TLC.                                   *)
EXTENDS CodexTurns

CONSTANTS s1, s2
=============================================================================
