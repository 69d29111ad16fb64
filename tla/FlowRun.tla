------------------------------- MODULE FlowRun -------------------------------
(****************************************************************************)
(* The lifecycle of one persisted analysis run.  A thread creates the run,  *)
(* executes its script, and ends it as completed, interrupted or failed; a  *)
(* client may cancel it meanwhile.  Every event, graph revision and status  *)
(* is a write of its own, so the thread can fail or die between any two.    *)
(*                                                                          *)
(* The engine's list of events equals the persisted log at every step, for  *)
(* the run has one writer, and so does its copy of the graph: the model     *)
(* keeps each once.  An event's number stands for its message ID.           *)
(****************************************************************************)
EXTENDS FlowScript, FiniteSets, FiniteSetsExt

CONSTANTS
    Inputs,     \* what a run may be started with
    MaxWaits,   \* bound: how often the planner of a connected cycle waits
    MaxErrors,  \* bound: tool and cycle failures
    MaxFaults,  \* bound: database errors
    MaxCrashes  \* bound: deaths of the process (0 or 1)

VARIABLES
    inputs,     \* the inputs of the run
    log,        \* the run_events rows
    status,     \* the status column of the runs row
    graph,      \* the elements of the persisted evidence graph
    phase,      \* what the thread does next
    at,         \* which operation of the script comes next
    control,    \* the cancel flag is registered for clients to set
    cancelAt,   \* the operation that came next when a client set it, or 0
    errors, faults

vars == <<inputs, log, status, graph, phase, at, control, cancelAt, errors, faults>>

Phases == {"idle", "starting", "script", "toolFailed", "stepFailed", "completing", "failing",
           "failed", "cancelling", "interrupted", "closing", "ended", "crashed"}
RunStatuses == {"absent", "running", "completed", "failed", "interrupted"}

EndKinds == {"run.completed", "run.failed", "run.interrupted"}
Event == [kind: Reports \cup EndKinds, ref: Ref, cause: Nat]

Scripts == [in \in Inputs |-> Script(in)]
script == Scripts[inputs]

ASSUME InputsOK == \A in \in Inputs : InputOK(in)

Latest == log[Len(log)]
Here(do) == phase = "script" /\ at <= Len(script) /\ script[at].do = do
------------------------------------------------------------------------------
Init ==
    /\ inputs \in Inputs /\ log = <<>> /\ status = "absent" /\ graph = {}
    /\ phase = "idle" /\ at = 1 /\ control = FALSE /\ cancelAt = 0
    /\ errors = 0 /\ faults = 0

Calls(ref) == {i \in DOMAIN log : log[i].kind = "tool.started" /\ log[i].ref = ref}

\* Mutant: the first call of a step is kept for all its answers.
CauseFirst(kind, ref) ==
    IF kind \in Answers /\ Calls(ref) # {} THEN Min(Calls(ref)) ELSE Len(log)

\* The answer to a tool call is caused by the latest call of its step, any
\* other event by the one before it.
Cause(kind, ref) ==
    IF kind \in Answers /\ Calls(ref) # {} THEN Max(Calls(ref)) ELSE Len(log)

\* emit
Emits(kind, ref) ==
    log' = Append(log, [kind |-> kind, ref |-> ref, cause |-> Cause(kind, ref)])

Goto(step) == phase' = step /\ UNCHANGED at
Advance == at' = at + 1 /\ UNCHANGED phase

\* The first event creates the run with it, in one transaction.
Start ==
    /\ phase = "idle"
    /\ log' = <<[kind |-> "run.started", ref |-> None, cause |-> 0]>>
    /\ status' = "running"
    /\ Goto("starting")
    /\ UNCHANGED <<inputs, graph, control, cancelAt, errors, faults>>

\* _start_streamed_run's observer of the first event
Register ==
    /\ phase = "starting"
    /\ control' = TRUE
    /\ Goto("script")
    /\ UNCHANGED <<inputs, log, status, graph, cancelAt, errors, faults>>

\* WorkbenchService.cancel_run
Cancel ==
    /\ control /\ cancelAt = 0
    /\ cancelAt' = at
    /\ UNCHANGED <<inputs, log, status, graph, phase, at, control, errors, faults>>

EmitNext ==
    /\ Here("emit")
    /\ Emits(script[at].kind, script[at].ref)
    /\ Advance
    /\ UNCHANGED <<inputs, status, graph, control, cancelAt, errors, faults>>

\* Mutant: the graph is saved when all of it is known.
SaveGraphLater ==
    /\ Here("save")
    /\ Advance
    /\ UNCHANGED <<inputs, log, status, graph, control, cancelAt, errors, faults>>

\* EvidenceGraph refuses a second node of the same name and an edge without
\* its ends; update_node an unknown node.
Accepts(op) ==
    CASE op.kind = "node" -> op.ref \notin graph
      [] OTHER -> op.ends \subseteq graph

SaveGraph ==
    /\ Here("save")
    /\ IF Accepts(script[at])
       THEN graph' = graph \cup {script[at].ref} /\ Advance
       ELSE Goto("failing") /\ UNCHANGED graph
    /\ UNCHANGED <<inputs, log, status, control, cancelAt, errors, faults>>

SaveOther ==
    /\ Here("store")
    /\ Advance
    /\ UNCHANGED <<inputs, log, status, graph, control, cancelAt, errors, faults>>

\* Mutant: the flag is looked at only before the first tool.
CheckCancelledOnce ==
    /\ Here("poll")
    /\ IF cancelAt > 0 /\ graph = {} THEN Goto("cancelling") ELSE Advance
    /\ UNCHANGED <<inputs, log, status, graph, control, cancelAt, errors, faults>>

\* check_cancelled
CheckCancelled ==
    /\ Here("poll")
    /\ IF cancelAt > 0 THEN Goto("cancelling") ELSE Advance
    /\ UNCHANGED <<inputs, log, status, graph, control, cancelAt, errors, faults>>

ToolReturns ==
    /\ Here("invoke")
    /\ Advance
    /\ UNCHANGED <<inputs, log, status, graph, control, cancelAt, errors, faults>>

\* Mutant: a failed tool is not reported before the run fails.
ToolRaisesSilently ==
    /\ Here("invoke") /\ errors < MaxErrors
    /\ Goto("failing")
    /\ errors' = errors + 1
    /\ UNCHANGED <<inputs, log, status, graph, control, cancelAt, faults>>

ToolRaises ==
    /\ Here("invoke") /\ errors < MaxErrors
    /\ Goto("toolFailed")
    /\ errors' = errors + 1
    /\ UNCHANGED <<inputs, log, status, graph, control, cancelAt, faults>>

\* _run_tool's handler
ReportTool ==
    /\ phase \in {"toolFailed", "stepFailed"}
    /\ IF phase = "toolFailed" THEN Emits("tool.failed", script[at].ref) /\ Goto("stepFailed")
       ELSE Emits("step.failed", script[at].ref) /\ Goto("failing")
    /\ UNCHANGED <<inputs, status, graph, control, cancelAt, errors, faults>>

\* The planner of a connected cycle reports that it waits, and goes on.
Waits == Cardinality({i \in DOMAIN log : log[i].kind = "planner.waiting"})
PlannerReports ==
    /\ Here("cycle") /\ inputs.runner = "connected"
    /\ \/ Waits < MaxWaits /\ Emits("planner.waiting", script[at].ref)
       \/ Latest.kind = "planner.waiting" /\ Emits("planner.resumed", script[at].ref)
    /\ UNCHANGED <<inputs, status, graph, phase, at, control, cancelAt, errors, faults>>

CycleCompletes ==
    /\ Here("cycle") /\ Latest.kind # "planner.waiting"
    /\ Advance
    /\ UNCHANGED <<inputs, log, status, graph, control, cancelAt, errors, faults>>

\* A cycle that ends in any other way fails the run; one whose planner waits
\* may have been checkpointed, when its attempts ran out.
CycleStops ==
    /\ Here("cycle") /\ errors < MaxErrors
    /\ \/ UNCHANGED log
       \/ Latest.kind = "planner.waiting" /\ Emits("cycle.checkpointed", script[at].ref)
    /\ Goto("failing")
    /\ errors' = errors + 1
    /\ UNCHANGED <<inputs, status, graph, control, cancelAt, faults>>

RaiseNext ==
    /\ Here("raise")
    /\ Goto("failing")
    /\ UNCHANGED <<inputs, log, status, graph, control, cancelAt, errors, faults>>

Complete ==
    /\ phase = "script" /\ at > Len(script)
    /\ Emits("run.completed", None)
    /\ Goto("completing")
    /\ UNCHANGED <<inputs, status, graph, control, cancelAt, errors, faults>>

\* The handlers of FlowCancelled and of any other exception
Interrupt ==
    /\ phase = "cancelling"
    /\ Emits("run.interrupted", None)
    /\ Goto("interrupted")
    /\ UNCHANGED <<inputs, status, graph, control, cancelAt, errors, faults>>

Fail ==
    /\ phase = "failing"
    /\ Emits("run.failed", None)
    /\ Goto("failed")
    /\ UNCHANGED <<inputs, status, graph, control, cancelAt, errors, faults>>

\* Mutant: the handler marks every run that it ends as failed.
SaveStatusFailed ==
    /\ phase \in {"completing", "failed", "interrupted"}
    /\ status' = IF phase = "completing" THEN "completed" ELSE "failed"
    /\ Goto("closing")
    /\ UNCHANGED <<inputs, log, graph, control, cancelAt, errors, faults>>

\* Mutant: the handler returns without saving the status.
SaveStatusCompleted ==
    /\ phase \in {"completing", "failed", "interrupted"}
    /\ status' = IF phase = "completing" THEN "completed" ELSE status
    /\ Goto("closing")
    /\ UNCHANGED <<inputs, log, graph, control, cancelAt, errors, faults>>

\* save_run
SaveStatus ==
    /\ phase \in {"completing", "failed", "interrupted"}
    /\ status' = IF phase = "completing" THEN "completed" ELSE phase
    /\ Goto("closing")
    /\ UNCHANGED <<inputs, log, graph, control, cancelAt, errors, faults>>

\* execute's finally
Close ==
    /\ phase = "closing"
    /\ control' = FALSE
    /\ Goto("ended")
    /\ UNCHANGED <<inputs, log, status, graph, cancelAt, errors, faults>>

\* A database error is an exception of the write that meets it; in a handler
\* nothing catches it.
Writes ==
    \/ Here("emit") \/ Here("save") \/ Here("store") \/ Here("cycle")
    \/ phase = "script" /\ at > Len(script)
    \/ phase \in {"toolFailed", "stepFailed", "completing"}

WriteRaises ==
    /\ faults < MaxFaults
    /\ \/ Writes /\ Goto("failing")
       \/ phase \in {"failing", "failed", "cancelling", "interrupted"} /\ Goto("closing")
    /\ faults' = faults + 1
    /\ UNCHANGED <<inputs, log, status, graph, control, cancelAt, errors>>

\* The process dies; no later one takes the run up.
Crash ==
    /\ MaxCrashes > 0 /\ phase \notin {"idle", "ended", "crashed"}
    /\ Goto("crashed")
    /\ control' = FALSE
    /\ UNCHANGED <<inputs, log, status, graph, cancelAt, errors, faults>>

Step ==
    \/ Register \/ EmitNext \/ SaveGraph \/ SaveOther \/ CheckCancelled
    \/ ToolReturns \/ ReportTool \/ CycleCompletes \/ RaiseNext \/ Complete
    \/ Interrupt \/ Fail \/ SaveStatus \/ Close

Next ==
    \/ Start \/ Step \/ Cancel \/ ToolRaises \/ CycleStops \/ PlannerReports
    \/ WriteRaises \/ Crash

Spec == Init /\ [][Next]_vars

\* The thread keeps running: whatever its next operation is, it is executed,
\* and a planner that waits is asked again a bounded number of times.
FairSpec == Spec /\ WF_vars(Step \/ PlannerReports)
------------------------------------------------------------------------------
TypeOK ==
    /\ inputs \in Inputs
    /\ log \in Seq(Event) /\ status \in RunStatuses /\ graph \subseteq Ref
    /\ phase \in Phases /\ at \in Nat \ {0}
    /\ control \in BOOLEAN /\ cancelAt \in Nat
    /\ errors \in Nat /\ faults \in Nat

\* The persisted log and status are those of a well-formed run, whatever
\* fails between two writes.
RL == INSTANCE RunLog WITH
    Kinds <- Reports, log <- [i \in DOMAIN log |-> log[i].kind]
Implements == RL!Spec

\* A client that has seen an event finds the graph element it announces: the
\* graph is saved before the event, and what it holds is never dropped.
AnnouncedIsPersisted == \A i \in DOMAIN log :
    log[i].kind \in Announcements => log[i].ref \in graph

\* Every answer is caused by a call of its own step, and no two answers share
\* one: a step that calls its tool again is not confused with the first call.
AnswersMatchCalls == \A i \in DOMAIN log : log[i].kind \in Answers =>
    /\ log[i].cause < i
    /\ log[log[i].cause].kind = "tool.started" /\ log[log[i].cause].ref = log[i].ref
    /\ \A j \in DOMAIN log : log[j].kind \in Answers /\ log[j].cause = log[i].cause => j = i

\* A run that has ended, with no database error, has answered all its calls.
EndedRunHasNoOpenCall ==
    status \in {"completed", "failed", "interrupted"} /\ faults = 0 =>
        \A i \in DOMAIN log : log[i].kind = "tool.started" =>
            \E j \in DOMAIN log : log[j].kind \in Answers /\ log[j].cause = i

\* A tool starts only after the tools its step depends on have completed.
DependenciesFirst == \A i \in DOMAIN log, k \in DOMAIN inputs.steps :
    log[i].kind = "step.started" /\ log[i].ref = Id(inputs.steps[k].id) =>
        \A need \in inputs.steps[k].needs : \E j \in 1..i :
            log[j].kind = "step.completed" /\ log[j].ref = Id(need)

\* The log tells which tool ran when, and with what result: calls and answers
\* pair up, all of them in the end, and no tool runs ahead of what it needs.
CallsPairUp == AnswersMatchCalls /\ EndedRunHasNoOpenCall /\ DependenciesFirst

\* A cancel that the engine still looks at stops the run: it never completes.
CancelStops ==
    cancelAt > 0 /\ status = "completed" =>
        \A i \in cancelAt..Len(script) : script[i].do # "poll"

\* The assertions on the graphs the engine builds fail for no other inputs:
\* without these, a failed run has met a tool, cycle or database error.
FailsOnlyWhenAmbiguous ==
    status = "failed" /\ Unambiguous(inputs) => errors > 0 \/ faults > 0

\* A run whose writes succeed and whose process lives reaches a final status.
RunEnds == status = "running" ~>
    status \in {"completed", "failed", "interrupted"} \/ faults > 0 \/ phase = "crashed"
==============================================================================
