------------------------------- MODULE RunLog -------------------------------
(****************************************************************************)
(* What a client may rely on in a persisted analysis run: events are only   *)
(* appended; a terminal event is followed by the matching status and        *)
(* nothing else, except that a run whose completed status could not be      *)
(* saved may still turn out failed; a terminal status is final.             *)
(****************************************************************************)
EXTENDS Naturals, Sequences

CONSTANT Kinds      \* event kinds that do not end a run

StatusOf == [k \in {"run.completed", "run.failed", "run.interrupted"} |->
    CASE k = "run.completed" -> "completed"
      [] k = "run.failed" -> "failed"
      [] OTHER -> "interrupted"]
Terminal == DOMAIN StatusOf

VARIABLES log, status

Ended == log # <<>> /\ log[Len(log)] \in Terminal

Init == log = <<>> /\ status = "absent"

Start ==
    /\ status = "absent"
    /\ log' = <<"run.started">> /\ status' = "running"

Report(kind) ==
    /\ status = "running" /\ ~Ended
    /\ log' = Append(log, kind) /\ UNCHANGED status

Revoke ==
    /\ status = "running" /\ Ended /\ log[Len(log)] = "run.completed"
    /\ log' = Append(log, "run.failed") /\ UNCHANGED status

Close ==
    /\ status = "running" /\ Ended
    /\ status' = StatusOf[log[Len(log)]] /\ UNCHANGED log

Next == Start \/ (\E k \in Kinds \cup Terminal : Report(k)) \/ Revoke \/ Close

Spec == Init /\ [][Next]_<<log, status>>
==============================================================================
