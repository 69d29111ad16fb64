----------------------------- MODULE MCAssistants -----------------------------
(* Small instances of Assistants for TLC.                                   *)
EXTENDS Assistants, TLC
==============================================================================
