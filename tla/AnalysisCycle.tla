---------------------------- MODULE AnalysisCycle ----------------------------
(****************************************************************************)
(* One persisted analysis cycle and the processes that drive it: the web    *)
(* server's run thread, the MCP server and the CLI all open the same        *)
(* workspace database and the same artifact directory.  A driver decides a  *)
(* round, runs its tool, writes the tool's artifact, records the execution  *)
(* and saves the advanced cycle; each of these touches the disk on its own, *)
(* so a driver may die, or another one may run, between any two of them.    *)
(*                                                                          *)
(* A call is a tool together with its arguments.  Artifacts are named by    *)
(* the digest of what the tool computed from locked snapshots, so a call    *)
(* always yields the same artifact: the call itself names it here.          *)
(****************************************************************************)
EXTENDS Naturals, Sequences, SequencesExt

CONSTANTS
    Procs,          \* processes that may drive the cycle
    StartModes,     \* runners that may start it: "demo", "connected"
    MaxRounds,      \* MAX_CYCLE_ROUNDS
    AgentCalls,     \* calls a connected planner may choose
    Anomalous,      \* calls whose artifact reports at least one anomaly
    HasDocuments,   \* the task has documents
    HasDimensions,  \* the table has a dimension column
    MaxCrashes,     \* bound: how often a process dies
    MaxFaults       \* bound: how often a tool or a file write raises

Finish == "finish"
DemoCalls == {"detect_anomalies", "detect_change_points", "compare_periods",
              "analyze_text", "segment_rank"}
Calls == DemoCalls \cup AgentCalls

ASSUME ConstantsOK ==
    /\ StartModes \subseteq {"demo", "connected"}
    /\ MaxRounds \in Nat \ {0}
    /\ Finish \notin AgentCalls
    /\ HasDocuments \in BOOLEAN /\ HasDimensions \in BOOLEAN
    /\ MaxCrashes \in Nat /\ MaxFaults \in Nat

VARIABLES
    cycle,      \* the analysis_cycles row: status and completed rounds
    exec,       \* the analysis_round_executions rows, by round number
    files,      \* the artifact directory: each artifact absent, torn or full
    checkpoint, \* an analysis_cycle_checkpoints row exists
    pc,         \* per process: what its driver does next ("idle": no driver)
    mode,       \* per process: which driver it runs
    mem,        \* per process: its copy of the cycle
    dec,        \* per process: the decision of the round in progress
    faults,     \* tool and file errors so far
    crashes     \* process deaths so far

store == <<cycle, exec, files, checkpoint>>
vars == <<cycle, exec, files, checkpoint, pc, mode, mem, dec, faults, crashes>>

Decision == [by: {"demo", "connected"}, call: Calls \cup {Finish}, prior: SUBSET Calls]
Statuses == {"absent", "running", "waiting_for_planner", "completed", "failed", "interrupted"}
Cycle == [status: Statuses, rounds: Seq(Decision)]
Modes == {"demo", "resume", "connected"}
Steps == {"idle", "resuming", "decide", "lookup", "tool", "check", "create", "write",
          "record", "insert", "complete", "fail", "wait", "checkpoint"}

NoCycle == [status |-> "absent", rounds |-> <<>>]
NewCycle == [status |-> "running", rounds |-> <<>>]
NoDecision == [by |-> "demo", call |-> Finish, prior |-> {}]

ArtifactRefs(c) == {c.rounds[i].call : i \in DOMAIN c.rounds} \ {Finish}
Round(c) == Len(c.rounds) + 1
CanContinue(c) == c.status = "running" /\ Len(c.rounds) < MaxRounds

\* Mutant: the last allowed round leaves the cycle running.
CompletedOffByOne(c, d) ==
    [status |-> IF d.call = Finish \/ Len(c.rounds) >= MaxRounds
                THEN "completed" ELSE "running",
     rounds |-> Append(c.rounds, d)]

\* AnalysisCycle.complete_round
Completed(c, d) ==
    [status |-> IF d.call = Finish \/ Len(c.rounds) + 1 >= MaxRounds
                THEN "completed" ELSE "running",
     rounds |-> Append(c.rounds, d)]

\* validate_round_decision, with complete_round's check of the references
Valid(c, d) ==
    /\ d.prior \subseteq ArtifactRefs(c)
    /\ d.call # Finish /\ c.rounds # <<>> =>
          /\ d.prior # {}
          /\ d.call # c.rounds[Len(c.rounds)].call

\* Mutant: the second round avoids an artifact that is already on disk.
DemoCallByFiles(c) ==
    CASE Round(c) = 1 -> "detect_anomalies"
      [] Round(c) = 2 -> IF files["detect_change_points"] = "absent"
                         THEN "detect_change_points" ELSE "compare_periods"
      [] OTHER -> "analyze_text"

\* DemoCycleRunner._decide: the tool is chosen from the previous artifact
DemoCall(c) ==
    CASE Round(c) = 1 -> "detect_anomalies"
      [] Round(c) = 2 -> IF c.rounds[1].call \in Anomalous
                         THEN "detect_change_points" ELSE "compare_periods"
      [] OTHER -> IF HasDocuments THEN "analyze_text"
                  ELSE IF HasDimensions THEN "segment_rank" ELSE Finish

DemoDecision(c) ==
    [by |-> "demo", call |-> DemoCall(c),
     prior |-> IF c.rounds = <<>> THEN {} ELSE {c.rounds[Len(c.rounds)].call} \ {Finish}]

AgentDecisions(c) ==
    [by: {"connected"}, call: AgentCalls \cup {Finish}, prior: SUBSET ArtifactRefs(c)]
------------------------------------------------------------------------------
Init ==
    /\ cycle = NoCycle /\ exec = <<>> /\ checkpoint = FALSE
    /\ files = [a \in Calls |-> "absent"]
    /\ pc = [p \in Procs |-> "idle"] /\ mode = [p \in Procs |-> "demo"]
    /\ mem = [p \in Procs |-> NoCycle] /\ dec = [p \in Procs |-> NoDecision]
    /\ faults = 0 /\ crashes = 0

Goto(p, step) == pc' = [pc EXCEPT ![p] = step]

\* The driver ends, returning or raising; what it held in memory is gone.
Leave(p) ==
    /\ Goto(p, "idle")
    /\ mem' = [mem EXCEPT ![p] = NoCycle]
    /\ dec' = [dec EXCEPT ![p] = NoDecision]

\* DemoCycleRunner.run and ConnectedCycleRunner.run up to the first decision
Run(p) ==
    /\ pc[p] = "idle" /\ cycle.status = "absent"
    /\ \E m \in StartModes : mode' = [mode EXCEPT ![p] = m]
    /\ cycle' = NewCycle
    /\ mem' = [mem EXCEPT ![p] = NewCycle]
    /\ Goto(p, "decide")
    /\ UNCHANGED <<exec, files, checkpoint, dec, faults, crashes>>

\* DemoCycleRunner.resume reads the cycle ...
ResumeRead(p) ==
    /\ pc[p] = "idle"
    /\ cycle.status \in {"interrupted", "waiting_for_planner", "running"}
    /\ mem' = [mem EXCEPT ![p] = [cycle EXCEPT !.status = "running"]]
    /\ mode' = [mode EXCEPT ![p] = "resume"]
    /\ Goto(p, "resuming")
    /\ UNCHANGED <<store, dec, faults, crashes>>

\* ... and saves it back as running.
ResumeSave(p) ==
    /\ pc[p] = "resuming"
    /\ cycle' = mem[p]
    /\ Goto(p, "decide")
    /\ UNCHANGED <<exec, files, checkpoint, mode, mem, dec, faults, crashes>>

\* A decision enters the round: finish completes it, a tool call is looked
\* up first by the demo driver and run at once by the connected one.
Adopt(p, d) ==
    /\ dec' = [dec EXCEPT ![p] = d]
    /\ Goto(p, IF d.call = Finish THEN "complete"
               ELSE IF mode[p] = "connected" THEN "tool" ELSE "lookup")
    /\ UNCHANGED mem

\* The top of DemoCycleRunner._drive's loop.  The second round opens the
\* first round's artifact; a torn one raises.
DecideDemo(p) ==
    LET c == mem[p]  d == DemoDecision(c) IN
    /\ pc[p] = "decide" /\ mode[p] # "connected"
    /\ IF ~CanContinue(c) THEN Leave(p)
       ELSE IF Valid(c, d) /\ (Round(c) = 2 => files[c.rounds[1].call] = "full")
            THEN Adopt(p, d)
            ELSE Leave(p)
    /\ UNCHANGED <<store, mode, faults, crashes>>

\* The top of ConnectedCycleRunner.run's loop: the planner answers with a valid
\* decision, its retries run out, or an oversized answer raises.
DecideConnected(p) ==
    LET c == mem[p] IN
    /\ pc[p] = "decide" /\ mode[p] = "connected"
    /\ IF ~CanContinue(c) THEN Leave(p)
       ELSE \/ \E d \in AgentDecisions(c) : Valid(c, d) /\ Adopt(p, d)
            \/ Goto(p, "wait") /\ UNCHANGED <<mem, dec>>
            \/ Leave(p)
    /\ UNCHANGED <<store, mode, faults, crashes>>

\* Mutant: the driver never looks for a recorded execution.
LookupNever(p) ==
    /\ pc[p] = "lookup"
    /\ Goto(p, "tool")
    /\ UNCHANGED <<mem, dec, store, mode, faults, crashes>>

\* get_cycle_execution: replay a recorded round, or go on to run the tool
Lookup(p) ==
    LET r == Round(mem[p]) IN
    /\ pc[p] = "lookup"
    /\ IF r \notin DOMAIN exec THEN Goto(p, "tool") /\ UNCHANGED <<mem, dec>>
       ELSE IF exec[r] = dec[p] THEN Goto(p, "complete") /\ UNCHANGED <<mem, dec>>
       ELSE Leave(p)
    /\ UNCHANGED <<store, mode, faults, crashes>>

\* What an exception out of the tool does: the demo driver will save the
\* cycle as failed, the connected one lets it escape.
Raise(p) ==
    IF mode[p] = "connected" THEN Leave(p)
    ELSE Goto(p, "fail") /\ UNCHANGED <<mem, dec>>

RunTool(p) ==
    /\ pc[p] = "tool"
    /\ Goto(p, "check")
    /\ UNCHANGED <<store, mode, mem, dec, faults, crashes>>

ToolFails(p) ==
    /\ pc[p] = "tool" /\ faults < MaxFaults
    /\ Raise(p)
    /\ faults' = faults + 1
    /\ UNCHANGED <<store, mode, crashes>>

\* Mutant: an artifact already on disk is taken for the right one.
CompareNever(p) == Goto(p, "record") /\ UNCHANGED <<mem, dec>>

\* An artifact already on disk must have the same bytes.
Compare(p) ==
    IF files[dec[p].call] = "full" THEN Goto(p, "record") /\ UNCHANGED <<mem, dec>>
    ELSE Raise(p)

\* ArtifactStore.save: target.exists()
CheckFile(p) ==
    /\ pc[p] = "check"
    /\ IF files[dec[p].call] = "absent" THEN Goto(p, "create") /\ UNCHANGED <<mem, dec>>
       ELSE Compare(p)
    /\ UNCHANGED <<store, mode, faults, crashes>>

\* ArtifactStore.save: os.open(O_CREAT | O_EXCL) makes an empty file
CreateFile(p) ==
    /\ pc[p] = "create"
    /\ IF files[dec[p].call] = "absent"
       THEN /\ files' = [files EXCEPT ![dec[p].call] = "torn"]
            /\ Goto(p, "write") /\ UNCHANGED <<mem, dec>>
       ELSE Compare(p) /\ UNCHANGED files
    /\ UNCHANGED <<cycle, exec, checkpoint, mode, faults, crashes>>

\* Mutant: the round is completed without recording its execution.
WriteFileUnrecorded(p) ==
    /\ pc[p] = "write"
    /\ files' = [files EXCEPT ![dec[p].call] = "full"]
    /\ Goto(p, "complete")
    /\ UNCHANGED <<cycle, exec, checkpoint, mode, mem, dec, faults, crashes>>

\* ArtifactStore.save: handle.write
WriteFile(p) ==
    /\ pc[p] = "write"
    /\ files' = [files EXCEPT ![dec[p].call] = "full"]
    /\ Goto(p, "record")
    /\ UNCHANGED <<cycle, exec, checkpoint, mode, mem, dec, faults, crashes>>

WriteFails(p) ==
    /\ pc[p] = "write" /\ faults < MaxFaults
    /\ Raise(p)
    /\ faults' = faults + 1
    /\ UNCHANGED <<store, mode, crashes>>

\* Mutant: any row already there will do.
RecordReadAny(p) ==
    /\ pc[p] = "record"
    /\ Goto(p, IF Round(mem[p]) \in DOMAIN exec THEN "complete" ELSE "insert")
    /\ UNCHANGED <<mem, dec, store, mode, faults, crashes>>

\* save_cycle_execution reads the row: the same one is kept, another one
\* raises, and a missing one is inserted next.
RecordRead(p) ==
    LET r == Round(mem[p]) IN
    /\ pc[p] = "record"
    /\ IF r \notin DOMAIN exec THEN Goto(p, "insert") /\ UNCHANGED <<mem, dec>>
       ELSE IF exec[r] = dec[p] THEN Goto(p, "complete") /\ UNCHANGED <<mem, dec>>
       ELSE Leave(p)
    /\ UNCHANGED <<store, mode, faults, crashes>>

\* Mutant: the insert replaces a row that another process wrote.
RecordReplace(p) ==
    LET r == Round(mem[p]) IN
    /\ pc[p] = "insert"
    /\ exec' = [i \in DOMAIN exec \cup {r} |-> IF i = r THEN dec[p] ELSE exec[i]]
    /\ Goto(p, "complete")
    /\ UNCHANGED <<mem, dec, cycle, files, checkpoint, mode, faults, crashes>>

\* The insert fails on its primary key when another process came first.
RecordInsert(p) ==
    LET r == Round(mem[p]) IN
    /\ pc[p] = "insert"
    /\ IF r \in DOMAIN exec
       THEN Leave(p) /\ UNCHANGED exec
       ELSE /\ exec' = [i \in DOMAIN exec \cup {r} |-> IF i = r THEN dec[p] ELSE exec[i]]
            /\ Goto(p, "complete") /\ UNCHANGED <<mem, dec>>
    /\ UNCHANGED <<cycle, files, checkpoint, mode, faults, crashes>>

\* complete_round, then save_analysis_cycle over whatever is there
CompleteRound(p) ==
    LET c == Completed(mem[p], dec[p]) IN
    /\ pc[p] = "complete"
    /\ cycle' = c
    /\ mem' = [mem EXCEPT ![p] = c]
    /\ dec' = [dec EXCEPT ![p] = NoDecision]
    /\ Goto(p, "decide")
    /\ UNCHANGED <<exec, files, checkpoint, mode, faults, crashes>>

\* run(interrupt_after_tool_round): stop between the execution and the round
InterruptRound(p) ==
    /\ pc[p] = "complete" /\ mode[p] = "demo" /\ dec[p].call # Finish
    /\ cycle' = [mem[p] EXCEPT !.status = "interrupted"]
    /\ Leave(p)
    /\ UNCHANGED <<exec, files, checkpoint, mode, faults, crashes>>

\* The demo driver's handler of a tool exception
SaveFailed(p) ==
    /\ pc[p] = "fail"
    /\ cycle' = [mem[p] EXCEPT !.status = "failed"]
    /\ Leave(p)
    /\ UNCHANGED <<exec, files, checkpoint, mode, faults, crashes>>

\* Mutant: the driver returns without saving its checkpoint.
SaveWaitingOnly(p) ==
    /\ pc[p] = "wait"
    /\ cycle' = [mem[p] EXCEPT !.status = "waiting_for_planner"]
    /\ Leave(p)
    /\ UNCHANGED <<exec, files, checkpoint, mode, faults, crashes>>

\* The connected driver gives up waiting: first the status ...
SaveWaiting(p) ==
    /\ pc[p] = "wait"
    /\ cycle' = [mem[p] EXCEPT !.status = "waiting_for_planner"]
    /\ Goto(p, "checkpoint")
    /\ UNCHANGED <<exec, files, checkpoint, mode, mem, dec, faults, crashes>>

\* ... then the checkpoint.
SaveCheckpoint(p) ==
    /\ pc[p] = "checkpoint"
    /\ checkpoint' = TRUE
    /\ Leave(p)
    /\ UNCHANGED <<cycle, exec, files, mode, faults, crashes>>

\* The process dies, or a store call raises out of the driver; the database
\* and the files stay as they are.
Crash(p) ==
    /\ pc[p] # "idle" /\ crashes < MaxCrashes
    /\ Leave(p)
    /\ crashes' = crashes + 1
    /\ UNCHANGED <<store, mode, faults>>

Step(p) ==
    \/ ResumeSave(p) \/ DecideDemo(p) \/ DecideConnected(p) \/ Lookup(p) \/ RunTool(p)
    \/ CheckFile(p) \/ CreateFile(p) \/ WriteFile(p) \/ RecordRead(p) \/ RecordInsert(p)
    \/ CompleteRound(p) \/ SaveFailed(p) \/ SaveWaiting(p) \/ SaveCheckpoint(p)

Next == \E p \in Procs :
    Run(p) \/ ResumeRead(p) \/ Step(p) \/ InterruptRound(p)
    \/ ToolFails(p) \/ WriteFails(p) \/ Crash(p)

Spec == Init /\ [][Next]_vars

\* A live driver keeps executing its next statement.
FairSpec == Spec /\ \A p \in Procs : WF_vars(Step(p))
------------------------------------------------------------------------------
TypeOK ==
    /\ cycle \in Cycle
    /\ DOMAIN exec \subseteq Nat /\ exec \in [DOMAIN exec -> Decision]
    /\ files \in [Calls -> {"absent", "torn", "full"}]
    /\ checkpoint \in BOOLEAN
    /\ pc \in [Procs -> Steps] /\ mode \in [Procs -> Modes]
    /\ mem \in [Procs -> Cycle] /\ dec \in [Procs -> Decision]
    /\ faults \in Nat /\ crashes \in Nat

\* Every tool round of a copy of the cycle is the recorded execution of it.
Backed(c, executions) == \A r \in DOMAIN c.rounds :
    c.rounds[r].call # Finish => r \in DOMAIN executions /\ executions[r] = c.rounds[r]

\* However drivers interleave and die, the persisted cycle claims no tool
\* round without the persisted execution of exactly that decision: the row
\* is saved after save_cycle_execution, or from a copy that was.
RoundsBackedByExecutions == Backed(cycle, exec)

\* An execution record always points at a complete artifact on disk, though
\* another driver, or a dead one, may have left that file half written.
RecordedArtifactsFull == \A r \in DOMAIN exec : files[exec[r].call] = "full"

\* What the cycle claims rests on records, and the records on whole files,
\* whichever drivers run and die.
RecordsHold == RoundsBackedByExecutions /\ RecordedArtifactsFull

\* A recorded execution is never changed or lost, even when two processes
\* both found the round empty before they wrote it.
ExecutionsImmutable ==
    [][\A r \in DOMAIN exec : r \in DOMAIN exec' /\ exec'[r] = exec[r]]_vars

\* A driver that finds its round already executed has decided the same call:
\* the decision is derived from persisted state only, so a resume replays the
\* execution instead of refusing it.
ReplayMatches == \A p \in Procs :
    pc[p] = "lookup" /\ Round(mem[p]) \in DOMAIN exec => exec[Round(mem[p])] = dec[p]

\* With one driver at a time, no tool runs for a round whose execution is
\* already persisted, however often the cycle was interrupted and resumed.
NoReexecution == \A p \in Procs : pc[p] = "tool" => Round(mem[p]) \notin DOMAIN exec

\* A resumed demo cycle meets its recorded rounds again and replays them: its
\* policy decides as it did before the interruption, and runs nothing twice.
ResumeReplays == ReplayMatches /\ NoReexecution

\* Drivers of one cycle overwrite each other's saves, and a planner and the
\* local policy choose differently, yet no two copies of the cycle, in memory
\* or on disk, ever hold different tool calls for the same round.
Agree(c, d) == \A r \in DOMAIN c.rounds \cap DOMAIN d.rounds :
    Finish \in {c.rounds[r].call, d.rounds[r].call} \/ c.rounds[r] = d.rounds[r]
DriversAgree == \A p, q \in Procs : Agree(mem[p], mem[q]) /\ Agree(mem[p], cycle)

\* A connected driver that has gone, and did not die, leaves a waiting cycle
\* with its checkpoint.
WaitingIsCheckpointed ==
    /\ cycle.status = "waiting_for_planner" /\ crashes = 0
    /\ \A p \in Procs : pc[p] = "idle"
    => checkpoint

\* Once nothing fails any more and no artifact is torn, a resumed cycle runs
\* to completion, whatever interrupted it before.
ResumeCompletes == \A p \in Procs :
    /\ pc[p] = "resuming" /\ crashes = MaxCrashes /\ faults = MaxFaults
    /\ \A a \in Calls : files[a] # "torn"
    ~> cycle.status = "completed"

\* The design asks that every interrupted run stays resumable: a cycle fails
\* only if a tool or a file write failed.
FailsOnlyOnFault == cycle.status = "failed" => faults > 0
==============================================================================
