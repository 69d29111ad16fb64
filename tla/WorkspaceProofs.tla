--------------------------- MODULE WorkspaceProofs ---------------------------
(****************************************************************************)
(* What the workspace store keeps for several processes, of any number, and *)
(* whatever crashes or fails: the cycles of a run (AnalysisCycle) and the   *)
(* histories of the knowledge (KnowledgeLedger).                            *)
(****************************************************************************)
EXTENDS AnalysisCycle, KnowledgeLedger, TLAPS

(****************************************************************************)
(* AnalysisCycle, for any planner and any round limit.  First what is       *)
(* committed only grows; then that a run waits only with its checkpoint     *)
(* stored, and that the demonstration's driver replays its decisions.       *)
(****************************************************************************)

\* The rounds of a cycle are a sequence of decisions, and each is one.
LEMMA RoundsType ==
    ASSUME NEW c \in Cycle
    PROVE  /\ c.status \in Statuses
           /\ c.rounds \in Seq(Decision) /\ Len(c.rounds) \in Nat
           /\ DOMAIN c.rounds = 1..Len(c.rounds)
           /\ \A i \in DOMAIN c.rounds : c.rounds[i] \in Decision
           /\ c.rounds # <<>> => Len(c.rounds) \in DOMAIN c.rounds
BY DEF Cycle

\* A decision is one of a planner's, and what it calls is a tool or the end.
LEMMA DecisionType ==
    ASSUME NEW d \in Decision
    PROVE  d.call \in Calls \cup {Finish} /\ d.prior \subseteq Calls
BY DEF Decision

(* What a driver decides is a decision, of the round after its last one. *)
LEMMA DecidedType ==
    ASSUME NEW c \in Cycle
    PROVE  /\ Round(c) \in Nat \ {0}
           /\ DemoDecision(c) \in Decision
           /\ AgentDecisions(c) \subseteq Decision
<1>1. Round(c) \in Nat \ {0}
  BY RoundsType DEF Round
<1>2. ArtifactRefs(c) \subseteq Calls
  BY RoundsType, DecisionType DEF ArtifactRefs
<1>3. DemoCall(c) \in Calls \cup {Finish}
  BY DEF DemoCall, Calls, DemoCalls
<1>4. (IF c.rounds = <<>> THEN {} ELSE {c.rounds[Len(c.rounds)].call} \ {Finish}) \in SUBSET Calls
  <2>1. CASE c.rounds = <<>>  BY <2>1
  <2>2. CASE c.rounds # <<>>
    <3>1. c.rounds[Len(c.rounds)].call \in Calls \cup {Finish}
      BY <2>2, RoundsType, DecisionType
    <3> QED  BY <2>2, <3>1
  <2> QED  BY <2>1, <2>2
<1>5. DemoDecision(c) \in Decision
  BY <1>3, <1>4 DEF DemoDecision, Decision
<1>6. AgentDecisions(c) \subseteq Decision
  BY <1>2 DEF AgentDecisions, Decision, Calls
<1> QED  BY <1>1, <1>5, <1>6

\* A copy stays a cycle when a round completes.
LEMMA CompletedType ==
    ASSUME NEW c \in Cycle, NEW d \in Decision
    PROVE  /\ Completed(c, d) \in Cycle
           /\ Completed(c, d).rounds = Append(c.rounds, d)
BY DEF Completed, Cycle, Statuses

\* So it does when only its status changes.
LEMMA StatusType ==
    ASSUME NEW c \in Cycle, NEW s \in Statuses
    PROVE  [c EXCEPT !.status = s] \in Cycle /\ [c EXCEPT !.status = s].rounds = c.rounds
BY DEF Cycle

\* The values before anything is decided are of their types.
LEMMA NoneType == NoCycle \in Cycle /\ NewCycle \in Cycle /\ NoDecision \in Decision
BY DEF NoCycle, NewCycle, NoDecision, Cycle, Decision, Statuses

(****************************************************************************)
(* The variables keep their types.                                          *)
(****************************************************************************)
LEMMA InitTypeOK == Init => TypeOK
<1> SUFFICES ASSUME Init PROVE TypeOK
  OBVIOUS
<1>1. DOMAIN exec = {} /\ exec \in [DOMAIN exec -> Decision]
  BY DEF Init
<1> QED  BY <1>1, NoneType DEF Init, TypeOK, Steps, Modes

\* A driver that leaves keeps the types.
LEMMA LeaveType ==
    ASSUME TypeOK, NEW p \in Procs, Leave(p)
    PROVE  /\ pc' \in [Procs -> Steps] /\ mem' \in [Procs -> Cycle]
           /\ dec' \in [Procs -> Decision]
BY NoneType DEF Leave, Goto, TypeOK, Steps

(* A driver whose cycle and decision stay put moves to a known step. *)
LEMMA GotoType ==
    ASSUME TypeOK, NEW p \in Procs, NEW step \in Steps, Goto(p, step)
    PROVE  pc' \in [Procs -> Steps]
BY DEF Goto, TypeOK

\* A driver that adopts a decision keeps them.
LEMMA AdoptType ==
    ASSUME TypeOK, NEW p \in Procs, NEW d \in Decision, Adopt(p, d)
    PROVE  /\ pc' \in [Procs -> Steps] /\ mem' \in [Procs -> Cycle]
           /\ dec' \in [Procs -> Decision]
BY DEF Adopt, Goto, TypeOK, Steps

\* A driver that meets an error keeps them.
LEMMA RaiseType ==
    ASSUME TypeOK, NEW p \in Procs, Raise(p)
    PROVE  /\ pc' \in [Procs -> Steps] /\ mem' \in [Procs -> Cycle]
           /\ dec' \in [Procs -> Decision]
BY LeaveType DEF Raise, Goto, TypeOK, Steps

\* A driver that compares artifacts keeps them.
LEMMA CompareType ==
    ASSUME TypeOK, NEW p \in Procs, Compare(p)
    PROVE  /\ pc' \in [Procs -> Steps] /\ mem' \in [Procs -> Cycle]
           /\ dec' \in [Procs -> Decision]
BY RaiseType DEF Compare, Goto, TypeOK, Steps

\* Every step keeps the types.
LEMMA StepTypeOK == TypeOK /\ [Next]_vars => TypeOK'
<1> SUFFICES ASSUME TypeOK, [Next]_vars PROVE TypeOK'
  OBVIOUS
<1>0. CASE UNCHANGED vars
  BY <1>0 DEF vars, TypeOK
<1>1. ASSUME NEW p \in Procs, Run(p) PROVE TypeOK'
  <2>1. PICK m \in StartModes : mode' = [mode EXCEPT ![p] = m]
    BY <1>1 DEF Run
  <2>2. m \in Modes
    BY ConstantsOK DEF Modes
  <2> QED  BY <1>1, <2>1, <2>2, NoneType DEF Run, Goto, TypeOK, Steps
<1>2. ASSUME NEW p \in Procs, ResumeRead(p) PROVE TypeOK'
  BY <1>2, StatusType DEF ResumeRead, Goto, store, TypeOK, Steps, Modes, Statuses
<1>3. ASSUME NEW p \in Procs, ResumeSave(p) PROVE TypeOK'
  BY <1>3 DEF ResumeSave, Goto, TypeOK, Steps
<1>4. ASSUME NEW p \in Procs, DecideDemo(p) PROVE TypeOK'
  <2>1. mem[p] \in Cycle /\ DemoDecision(mem[p]) \in Decision
    BY DecidedType DEF TypeOK
  <2>2. Leave(p) \/ Adopt(p, DemoDecision(mem[p]))
    BY <1>4 DEF DecideDemo
  <2> QED  BY <1>4, <2>1, <2>2, LeaveType, AdoptType DEF DecideDemo, store, TypeOK
<1>5. ASSUME NEW p \in Procs, DecideConnected(p) PROVE TypeOK'
  <2>1. mem[p] \in Cycle /\ AgentDecisions(mem[p]) \subseteq Decision
    BY DecidedType DEF TypeOK
  <2>2. \/ Leave(p)
        \/ \E d \in AgentDecisions(mem[p]) : Adopt(p, d)
        \/ Goto(p, "wait") /\ UNCHANGED <<mem, dec>>
    BY <1>5 DEF DecideConnected
  <2>3. /\ pc' \in [Procs -> Steps] /\ mem' \in [Procs -> Cycle]
        /\ dec' \in [Procs -> Decision]
    BY <2>1, <2>2, LeaveType, AdoptType DEF Goto, TypeOK, Steps
  <2> QED  BY <1>5, <2>3 DEF DecideConnected, store, TypeOK
<1>6. ASSUME NEW p \in Procs, Lookup(p) PROVE TypeOK'
  BY <1>6, LeaveType DEF Lookup, Goto, store, TypeOK, Steps
<1>7. ASSUME NEW p \in Procs, RunTool(p) PROVE TypeOK'
  BY <1>7 DEF RunTool, Goto, store, TypeOK, Steps
<1>8. ASSUME NEW p \in Procs, ToolFails(p) PROVE TypeOK'
  BY <1>8, RaiseType DEF ToolFails, store, TypeOK
<1>9. ASSUME NEW p \in Procs, CheckFile(p) PROVE TypeOK'
  BY <1>9, CompareType DEF CheckFile, Goto, store, TypeOK, Steps
<1>10. ASSUME NEW p \in Procs, CreateFile(p) PROVE TypeOK'
  BY <1>10, CompareType DEF CreateFile, Goto, TypeOK, Steps
<1>11. ASSUME NEW p \in Procs, WriteFile(p) PROVE TypeOK'
  BY <1>11 DEF WriteFile, Goto, TypeOK, Steps
<1>12. ASSUME NEW p \in Procs, WriteFails(p) PROVE TypeOK'
  BY <1>12, RaiseType DEF WriteFails, store, TypeOK
<1>13. ASSUME NEW p \in Procs, RecordRead(p) PROVE TypeOK'
  BY <1>13, LeaveType DEF RecordRead, Goto, store, TypeOK, Steps
<1>14. ASSUME NEW p \in Procs, RecordInsert(p) PROVE TypeOK'
  <2>1. Round(mem[p]) \in Nat /\ dec[p] \in Decision
    BY DecidedType DEF TypeOK
  <2>2. DOMAIN exec' \subseteq Nat /\ exec' \in [DOMAIN exec' -> Decision]
    BY <1>14, <2>1 DEF RecordInsert, TypeOK
  <2> QED  BY <1>14, <2>2, LeaveType DEF RecordInsert, Goto, TypeOK, Steps
<1>15. ASSUME NEW p \in Procs, CompleteRound(p) PROVE TypeOK'
  <2>1. Completed(mem[p], dec[p]) \in Cycle
    BY CompletedType DEF TypeOK
  <2> QED  BY <1>15, <2>1, NoneType DEF CompleteRound, Goto, TypeOK, Steps
<1>16. ASSUME NEW p \in Procs, InterruptRound(p) PROVE TypeOK'
  <2>1. [mem[p] EXCEPT !.status = "interrupted"] \in Cycle
    BY StatusType DEF TypeOK, Statuses
  <2> QED  BY <1>16, <2>1, LeaveType DEF InterruptRound, TypeOK
<1>17. ASSUME NEW p \in Procs, SaveFailed(p) PROVE TypeOK'
  <2>1. [mem[p] EXCEPT !.status = "failed"] \in Cycle
    BY StatusType DEF TypeOK, Statuses
  <2> QED  BY <1>17, <2>1, LeaveType DEF SaveFailed, TypeOK
<1>18. ASSUME NEW p \in Procs, SaveWaiting(p) PROVE TypeOK'
  <2>1. [mem[p] EXCEPT !.status = "waiting_for_planner"] \in Cycle
    BY StatusType DEF TypeOK, Statuses
  <2> QED  BY <1>18, <2>1 DEF SaveWaiting, Goto, TypeOK, Steps
<1>19. ASSUME NEW p \in Procs, SaveCheckpoint(p) PROVE TypeOK'
  BY <1>19, LeaveType DEF SaveCheckpoint, TypeOK
<1>20. ASSUME NEW p \in Procs, Crash(p) PROVE TypeOK'
  BY <1>20, LeaveType DEF Crash, store, TypeOK
<1> QED
  BY <1>0, <1>1, <1>2, <1>3, <1>4, <1>5, <1>6, <1>7, <1>8, <1>9, <1>10, <1>11,
     <1>12, <1>13, <1>14, <1>15, <1>16, <1>17, <1>18, <1>19, <1>20 DEF Next, Step

(* The cycle, its executions and every driver's copy keep their types,      *)
(* whatever the planner answers and whoever dies.                           *)
THEOREM TypeCorrect == Spec => []TypeOK
BY InitTypeOK, StepTypeOK, PTL DEF Spec

(****************************************************************************)
(* The inductive invariant.  The persisted cycle is saved from a driver's   *)
(* copy, so every copy must be backed by executions too; a driver completes *)
(* a tool round only from a recorded execution; it records an execution     *)
(* only when the artifact is whole.                                         *)
(****************************************************************************)
RecordsBeforeCompleting(p) ==
    pc[p] = "complete" /\ dec[p].call # Finish =>
        Round(mem[p]) \in DOMAIN exec /\ exec[Round(mem[p])] = dec[p]

HasArtifact(p) == pc[p] \in {"record", "insert"} => files[dec[p].call] = "full"

HasCall(p) ==
    pc[p] \in {"lookup", "tool", "check", "create", "write", "record", "insert"} =>
        dec[p].call # Finish

Driver(p) ==
    Backed(mem[p], exec) /\ RecordsBeforeCompleting(p) /\ HasArtifact(p) /\ HasCall(p)

ToolsRecorded == \A r \in DOMAIN exec : exec[r].call \in Calls

Inv ==
    /\ TypeOK
    /\ RoundsBackedByExecutions
    /\ RecordedArtifactsFull /\ ToolsRecorded
    /\ \A p \in Procs : Driver(p)

(* Copies backed by the same executions agree on their tool rounds. *)
LEMMA InvAgree == Inv => DriversAgree
BY DEF Inv, Driver, Backed, Agree, DriversAgree, RoundsBackedByExecutions

(* Completing a recorded round, or a finish, keeps a copy backed. *)
LEMMA CompletedBacked ==
    ASSUME NEW c \in Cycle, NEW d \in Decision, NEW e, Backed(c, e),
           d.call # Finish => Round(c) \in DOMAIN e /\ e[Round(c)] = d
    PROVE  Backed(Completed(c, d), e)
<1>1. Completed(c, d).rounds = Append(c.rounds, d) /\ c.rounds \in Seq(Decision)
  BY CompletedType, RoundsType
<1>2. /\ DOMAIN Append(c.rounds, d) = 1..Len(c.rounds) + 1
      /\ Append(c.rounds, d)[Len(c.rounds) + 1] = d
      /\ \A i \in 1..Len(c.rounds) : Append(c.rounds, d)[i] = c.rounds[i]
      /\ DOMAIN c.rounds = 1..Len(c.rounds) /\ Len(c.rounds) \in Nat
  BY <1>1
<1>3. \A r \in 1..Len(c.rounds) + 1 : r \in 1..Len(c.rounds) \/ r = Len(c.rounds) + 1
  BY <1>2
<1> QED  BY <1>1, <1>2, <1>3 DEF Backed, Round

\* Changing the status keeps a copy backed.
LEMMA StatusBacked ==
    ASSUME NEW c \in Cycle, NEW s \in Statuses, NEW e, Backed(c, e)
    PROVE  Backed([c EXCEPT !.status = s], e)
BY StatusType DEF Backed

\* A cycle without rounds is backed by whatever is recorded.
LEMMA NoneBacked == ASSUME NEW e PROVE Backed(NoCycle, e) /\ Backed(NewCycle, e)
BY DEF Backed, NoCycle, NewCycle

(* Executions only grow, so what they back stays backed. *)
Grows(e, f) == \A r \in DOMAIN e : r \in DOMAIN f /\ f[r] = e[r]

\* More executions back whatever fewer did.
LEMMA GrowsBacked ==
    ASSUME NEW c, NEW e, NEW f, Grows(e, f), Backed(c, e)
    PROVE  Backed(c, f)
BY DEF Grows, Backed

\* Every step keeps each recorded execution as it is.
LEMMA StepGrows == ASSUME [Next]_vars PROVE Grows(exec, exec')
<1>1. (\E p \in Procs : RecordInsert(p)) \/ exec' = exec
  BY DEF Next, Step, vars, store, Run, ResumeRead, ResumeSave, DecideDemo, DecideConnected,
     Lookup, RunTool, ToolFails, CheckFile, CreateFile, WriteFile, WriteFails, RecordRead,
     CompleteRound, InterruptRound, SaveFailed, SaveWaiting, SaveCheckpoint, Crash
<1>2. ASSUME NEW p \in Procs, RecordInsert(p) PROVE Grows(exec, exec')
  BY <1>2 DEF RecordInsert, Grows
<1> QED  BY <1>1, <1>2 DEF Grows

(* An artifact is never removed or torn again once it is whole. *)
FilesKeep == \A a \in Calls : files[a] = "full" => files'[a] = "full"

\* Every step keeps a whole artifact whole.
LEMMA StepFilesKeep == ASSUME TypeOK, [Next]_vars PROVE FilesKeep
<1>1. (\E p \in Procs : CreateFile(p) \/ WriteFile(p)) \/ files' = files
  BY DEF Next, Step, vars, store, Run, ResumeRead, ResumeSave, DecideDemo, DecideConnected,
     Lookup, RunTool, ToolFails, CheckFile, WriteFails, RecordRead, RecordInsert,
     CompleteRound, InterruptRound, SaveFailed, SaveWaiting, SaveCheckpoint, Crash
<1>2. ASSUME NEW p \in Procs, CreateFile(p) PROVE FilesKeep
  BY <1>2 DEF CreateFile, FilesKeep, TypeOK
<1>3. ASSUME NEW p \in Procs, WriteFile(p) PROVE FilesKeep
  BY <1>3 DEF WriteFile, FilesKeep, TypeOK
<1> QED  BY <1>1, <1>2, <1>3 DEF FilesKeep

(****************************************************************************)
(* Each part of the invariant, step by step.                                *)
(****************************************************************************)
LEMMA InitInv == Init => Inv
<1> SUFFICES ASSUME Init PROVE Inv
  OBVIOUS
<1>1. TypeOK
  BY InitTypeOK
<1>2. DOMAIN exec = {}
  BY DEF Init
<1>3. ASSUME NEW p \in Procs PROVE Driver(p)
  BY NoneBacked DEF Init, Driver, RecordsBeforeCompleting, HasArtifact, HasCall
<1> QED
  BY <1>1, <1>2, <1>3, NoneBacked
  DEF Init, Inv, RoundsBackedByExecutions, RecordedArtifactsFull, ToolsRecorded

\* Every step keeps recorded executions those of tools with whole artifacts.
LEMMA StepRecorded ==
    ASSUME Inv, [Next]_vars PROVE RecordedArtifactsFull' /\ ToolsRecorded'
<1>1. FilesKeep /\ TypeOK
  BY StepFilesKeep DEF Inv
<1>2. (\E p \in Procs : RecordInsert(p)) \/ exec' = exec
  BY DEF Next, Step, vars, store, Run, ResumeRead, ResumeSave, DecideDemo, DecideConnected,
     Lookup, RunTool, ToolFails, CheckFile, CreateFile, WriteFile, WriteFails, RecordRead,
     CompleteRound, InterruptRound, SaveFailed, SaveWaiting, SaveCheckpoint, Crash
<1>3. ASSUME NEW p \in Procs, RecordInsert(p)
      PROVE  RecordedArtifactsFull' /\ ToolsRecorded'
  <2>0. pc[p] = "insert" /\ dec[p] \in Decision /\ HasArtifact(p) /\ HasCall(p)
    BY <1>3 DEF RecordInsert, Inv, TypeOK, Driver
  <2>1. dec[p].call \in Calls /\ files[dec[p].call] = "full"
    BY <2>0, DecisionType DEF HasArtifact, HasCall
  <2>2. \A r \in DOMAIN exec' : exec'[r] = dec[p] \/ (r \in DOMAIN exec /\ exec'[r] = exec[r])
    BY <1>3 DEF RecordInsert
  <2>3. files' = files
    BY <1>3 DEF RecordInsert
  <2> QED  BY <2>1, <2>2, <2>3 DEF Inv, RecordedArtifactsFull, ToolsRecorded
<1>4. CASE exec' = exec
  BY <1>1, <1>4 DEF Inv, FilesKeep, RecordedArtifactsFull, ToolsRecorded
<1> QED  BY <1>2, <1>3, <1>4

\* Every step keeps the stored cycle backed by executions.
LEMMA StepRoundsBacked ==
    ASSUME Inv, [Next]_vars PROVE RoundsBackedByExecutions'
<1>1. Grows(exec, exec') /\ TypeOK /\ Backed(cycle, exec')
  BY StepGrows, GrowsBacked DEF Inv, RoundsBackedByExecutions
<1>2. \A p \in Procs : mem[p] \in Cycle /\ Backed(mem[p], exec')
  BY <1>1, GrowsBacked DEF Inv, Driver, TypeOK
<1>3. ASSUME NEW p \in Procs, CompleteRound(p) PROVE Backed(cycle', exec')
  <2>1. Backed(Completed(mem[p], dec[p]), exec)
    BY <1>3, CompletedBacked DEF CompleteRound, Inv, TypeOK, Driver, RecordsBeforeCompleting
  <2> QED  BY <1>3, <2>1 DEF CompleteRound
<1>4. ASSUME NEW p \in Procs, NEW s \in Statuses, cycle' = [mem[p] EXCEPT !.status = s]
      PROVE  Backed(cycle', exec')
  BY <1>2, <1>4, StatusBacked
<1>5. \/ cycle' \in {cycle, NewCycle}
      \/ \E p \in Procs : CompleteRound(p)
      \/ \E p \in Procs : cycle' = mem[p]
      \/ \E p \in Procs : cycle' = [mem[p] EXCEPT !.status = "interrupted"]
      \/ \E p \in Procs : cycle' = [mem[p] EXCEPT !.status = "failed"]
      \/ \E p \in Procs : cycle' = [mem[p] EXCEPT !.status = "waiting_for_planner"]
  BY DEF Next, Step, vars, store, Run, ResumeRead, ResumeSave, DecideDemo, DecideConnected,
     Lookup, RunTool, ToolFails, CheckFile, CreateFile, WriteFile, WriteFails, RecordRead,
     RecordInsert, InterruptRound, SaveFailed, SaveWaiting, SaveCheckpoint, Crash
<1>6. Backed(cycle', exec')
  BY <1>1, <1>2, <1>3, <1>4, <1>5, NoneBacked DEF Statuses
<1> QED  BY <1>6 DEF RoundsBackedByExecutions

(* A driver that has left carries nothing. *)
LEMMA LeaveDriver ==
    ASSUME TypeOK, NEW p \in Procs, Leave(p) PROVE Driver(p)'
<1>1. pc'[p] = "idle" /\ mem'[p] = NoCycle
  BY DEF Leave, Goto, TypeOK
<1>2. Backed(mem'[p], exec')
  BY <1>1, NoneBacked
<1> QED  BY <1>1, <1>2 DEF Driver, RecordsBeforeCompleting, HasArtifact, HasCall

(* A driver whose copy and decision stay is sound after any step of its own *)
(* or another's, if its program counter is.                                 *)
LEMMA StayDriver ==
    ASSUME Inv, [Next]_vars, NEW p \in Procs, mem'[p] = mem[p], dec'[p] = dec[p],
           \/ pc'[p] = pc[p]
           \/ pc'[p] \notin {"complete", "record", "insert", "lookup", "tool", "check",
                             "create", "write"}
           \/ pc'[p] \in {"tool", "check", "create", "write"} /\ HasCall(p)'
           \/ pc'[p] \in {"record", "insert"} /\ HasCall(p)' /\ HasArtifact(p)'
           \/ pc'[p] = "complete" /\ RecordsBeforeCompleting(p)'
    PROVE  Driver(p)'
<1>1. /\ Grows(exec, exec') /\ FilesKeep /\ TypeOK /\ Driver(p)
  BY StepGrows, StepFilesKeep DEF Inv
<1>2. Backed(mem'[p], exec')
  BY <1>1, GrowsBacked DEF Driver
<1>3. CASE pc'[p] = pc[p]
  <2>1. RecordsBeforeCompleting(p)' /\ HasCall(p)'
    BY <1>1, <1>3 DEF Driver, RecordsBeforeCompleting, HasCall, Grows
  <2>2. HasArtifact(p)'
    <3>1. pc[p] \in {"record", "insert"} => dec[p].call \in Calls
      BY <1>1, DecisionType DEF Driver, HasCall, TypeOK
    <3> QED  BY <1>1, <1>3, <3>1 DEF Driver, HasArtifact, FilesKeep
  <2> QED  BY <1>2, <2>1, <2>2 DEF Driver
<1>4. CASE pc'[p] # pc[p]
  BY <1>2, <1>4 DEF Driver, RecordsBeforeCompleting, HasArtifact, HasCall
<1> QED  BY <1>3, <1>4

(* An action of one driver leaves the others' memory alone. *)
Others(p) == \A q \in Procs \ {p} :
    pc'[q] = pc[q] /\ mem'[q] = mem[q] /\ dec'[q] = dec[q]

\* A step of one driver leaves alone what the others hold.
LEMMA ActorOthers ==
    ASSUME TypeOK, NEW p \in Procs,
           \/ Run(p) \/ ResumeRead(p) \/ Step(p) \/ InterruptRound(p)
           \/ ToolFails(p) \/ WriteFails(p) \/ Crash(p)
    PROVE  Others(p)
<1>1. CASE Leave(p)
  BY <1>1 DEF Leave, Goto, Others, TypeOK
<1>2. ASSUME NEW d, Adopt(p, d) PROVE Others(p)
  BY <1>2 DEF Adopt, Goto, Others, TypeOK
<1>3. CASE Raise(p)
  BY <1>1, <1>3 DEF Raise, Goto, Others, TypeOK
<1>4. CASE Compare(p)
  BY <1>3, <1>4 DEF Compare, Goto, Others, TypeOK
<1>5. CASE Run(p) \/ ResumeRead(p) \/ ToolFails(p) \/ WriteFails(p) \/ Crash(p)
           \/ InterruptRound(p)
  BY <1>1, <1>3, <1>5
  DEF Run, ResumeRead, ToolFails, WriteFails, Crash, InterruptRound, Goto, Others, TypeOK
<1>6. CASE ResumeSave(p) \/ DecideDemo(p) \/ DecideConnected(p) \/ Lookup(p)
  BY <1>1, <1>2, <1>6
  DEF ResumeSave, DecideDemo, DecideConnected, Lookup, Goto, Others, TypeOK
<1>7. CASE RunTool(p) \/ CheckFile(p) \/ CreateFile(p) \/ WriteFile(p)
  BY <1>4, <1>7 DEF RunTool, CheckFile, CreateFile, WriteFile, Goto, Others, TypeOK
<1>8. CASE RecordRead(p) \/ RecordInsert(p) \/ CompleteRound(p) \/ SaveFailed(p)
           \/ SaveWaiting(p) \/ SaveCheckpoint(p)
  BY <1>1, <1>8
  DEF RecordRead, RecordInsert, CompleteRound, SaveFailed, SaveWaiting, SaveCheckpoint,
      Goto, Others, TypeOK
<1> QED  BY <1>5, <1>6, <1>7, <1>8 DEF Step

\* A driver that adopts a decision keeps its own invariant.
LEMMA AdoptDriver ==
    ASSUME Inv, [Next]_vars, NEW p \in Procs, NEW d \in Decision, Adopt(p, d)
    PROVE  Driver(p)'
<1>1. /\ mem'[p] = mem[p] /\ dec'[p] = d
      /\ pc'[p] = IF d.call = Finish THEN "complete"
                  ELSE IF mode[p] = "connected" THEN "tool" ELSE "lookup"
  BY DEF Adopt, Goto, Inv, TypeOK
<1>2. Backed(mem'[p], exec')
  BY <1>1, StepGrows, GrowsBacked DEF Inv, Driver
<1> QED  BY <1>1, <1>2 DEF Driver, RecordsBeforeCompleting, HasArtifact, HasCall

(* A driver that moves on with its copy and decision. *)
LEMMA GotoStays ==
    ASSUME TypeOK, NEW p \in Procs, NEW step, Goto(p, step), UNCHANGED <<mem, dec>>
    PROVE  pc'[p] = step /\ mem'[p] = mem[p] /\ dec'[p] = dec[p]
BY DEF Goto, TypeOK

\* A driver that meets an error keeps its copy backed.
LEMMA RaiseDriver ==
    ASSUME Inv, [Next]_vars, NEW p \in Procs, Raise(p) PROVE Driver(p)'
<1>1. TypeOK
  BY DEF Inv
<1>2. CASE Leave(p)
  BY <1>1, <1>2, LeaveDriver
<1>3. CASE Goto(p, "fail") /\ UNCHANGED <<mem, dec>>
  <2>1. pc'[p] = "fail" /\ mem'[p] = mem[p] /\ dec'[p] = dec[p]
    BY <1>1, <1>3, GotoStays
  <2> QED  BY <2>1, StayDriver
<1> QED  BY <1>2, <1>3 DEF Raise

\* A driver records only when it has found the artifact whole.
LEMMA CompareDriver ==
    ASSUME Inv, [Next]_vars, NEW p \in Procs, Compare(p), pc[p] \in {"check", "create"},
           files' = files
    PROVE  Driver(p)'
<1>1. TypeOK /\ HasCall(p)
  BY DEF Inv, Driver
<1>2. CASE files[dec[p].call] = "full"
  <2>1. pc'[p] = "record" /\ mem'[p] = mem[p] /\ dec'[p] = dec[p]
    BY <1>1, <1>2, GotoStays DEF Compare
  <2>2. HasCall(p)' /\ HasArtifact(p)'
    BY <1>1, <1>2, <2>1 DEF HasCall, HasArtifact
  <2> QED  BY <2>1, <2>2, StayDriver
<1>3. CASE Raise(p)
  BY <1>3, RaiseDriver
<1> QED  BY <1>2, <1>3 DEF Compare

\* A step of a driver keeps its own invariant.
LEMMA StepDriver ==
    ASSUME Inv, [Next]_vars, NEW p \in Procs,
           \/ Run(p) \/ ResumeRead(p) \/ Step(p) \/ InterruptRound(p)
           \/ ToolFails(p) \/ WriteFails(p) \/ Crash(p)
    PROVE  Driver(p)'
<1>0. TypeOK /\ Driver(p) /\ HasCall(p) /\ Grows(exec, exec')
  BY StepGrows DEF Inv, Driver
<1>1. CASE Run(p)
  <2>1. pc'[p] = "decide" /\ mem'[p] = NewCycle
    BY <1>0, <1>1 DEF Run, Goto, TypeOK
  <2>2. Backed(mem'[p], exec')
    BY <2>1, NoneBacked
  <2> QED  BY <2>1, <2>2 DEF Driver, RecordsBeforeCompleting, HasArtifact, HasCall
<1>2. CASE ResumeRead(p)
  <2>1. pc'[p] = "resuming" /\ mem'[p] = [cycle EXCEPT !.status = "running"]
    BY <1>0, <1>2 DEF ResumeRead, Goto, TypeOK
  <2>2. Backed(mem'[p], exec')
    <3>1. cycle \in Cycle /\ Backed(cycle, exec')
      BY <1>0, GrowsBacked DEF Inv, TypeOK, RoundsBackedByExecutions
    <3> QED  BY <2>1, <3>1, StatusBacked DEF Statuses
  <2> QED  BY <2>1, <2>2 DEF Driver, RecordsBeforeCompleting, HasArtifact, HasCall
<1>3. CASE ResumeSave(p)
  <2>1. pc'[p] = "decide" /\ mem'[p] = mem[p] /\ dec'[p] = dec[p]
    BY <1>0, <1>3, GotoStays DEF ResumeSave
  <2> QED  BY <2>1, StayDriver
<1>4. CASE DecideDemo(p)
  <2>1. DemoDecision(mem[p]) \in Decision
    BY <1>0, DecidedType DEF TypeOK
  <2>2. Leave(p) \/ Adopt(p, DemoDecision(mem[p]))
    BY <1>4 DEF DecideDemo
  <2> QED  BY <1>0, <2>1, <2>2, LeaveDriver, AdoptDriver
<1>5. CASE DecideConnected(p)
  <2>1. AgentDecisions(mem[p]) \subseteq Decision
    BY <1>0, DecidedType DEF TypeOK
  <2>2. \/ Leave(p)
        \/ \E d \in AgentDecisions(mem[p]) : Adopt(p, d)
        \/ Goto(p, "wait") /\ UNCHANGED <<mem, dec>>
    BY <1>5 DEF DecideConnected
  <2>3. CASE Goto(p, "wait") /\ UNCHANGED <<mem, dec>>
    <3>1. pc'[p] = "wait" /\ mem'[p] = mem[p] /\ dec'[p] = dec[p]
      BY <1>0, <2>3, GotoStays
    <3> QED  BY <3>1, StayDriver
  <2> QED  BY <1>0, <2>1, <2>2, <2>3, LeaveDriver, AdoptDriver
<1>6. CASE Lookup(p)
  <2>1. CASE Leave(p)
    BY <1>0, <2>1, LeaveDriver
  <2>2. CASE Goto(p, "tool") /\ UNCHANGED <<mem, dec>>
    <3>1. pc'[p] = "tool" /\ mem'[p] = mem[p] /\ dec'[p] = dec[p]
      BY <1>0, <2>2, GotoStays
    <3>2. HasCall(p)'
      BY <1>0, <1>6, <3>1 DEF Lookup, HasCall
    <3> QED  BY <3>1, <3>2, StayDriver
  <2>3. CASE /\ Round(mem[p]) \in DOMAIN exec /\ exec[Round(mem[p])] = dec[p]
             /\ Goto(p, "complete") /\ UNCHANGED <<mem, dec>>
    <3>1. pc'[p] = "complete" /\ mem'[p] = mem[p] /\ dec'[p] = dec[p]
      BY <1>0, <2>3, GotoStays
    <3>2. RecordsBeforeCompleting(p)'
      BY <1>0, <2>3, <3>1 DEF RecordsBeforeCompleting, Grows, Round
    <3> QED  BY <3>1, <3>2, StayDriver
  <2> QED  BY <1>6, <2>1, <2>2, <2>3 DEF Lookup
<1>7. CASE RunTool(p)
  <2>1. pc'[p] = "check" /\ mem'[p] = mem[p] /\ dec'[p] = dec[p]
    BY <1>0, <1>7, GotoStays DEF RunTool
  <2>2. HasCall(p)'
    BY <1>0, <1>7, <2>1 DEF RunTool, HasCall
  <2> QED  BY <2>1, <2>2, StayDriver
<1>8. CASE ToolFails(p) \/ WriteFails(p)
  BY <1>8, RaiseDriver DEF ToolFails, WriteFails
<1>9. CASE CheckFile(p)
  <2>1. CASE Goto(p, "create") /\ UNCHANGED <<mem, dec>>
    <3>1. pc'[p] = "create" /\ mem'[p] = mem[p] /\ dec'[p] = dec[p]
      BY <1>0, <2>1, GotoStays
    <3>2. HasCall(p)'
      BY <1>0, <1>9, <3>1 DEF CheckFile, HasCall
    <3> QED  BY <3>1, <3>2, StayDriver
  <2>2. CASE Compare(p)
    BY <1>9, <2>2, CompareDriver DEF CheckFile, store
  <2> QED  BY <1>9, <2>1, <2>2 DEF CheckFile
<1>10. CASE CreateFile(p)
  <2>1. CASE Goto(p, "write") /\ UNCHANGED <<mem, dec>>
    <3>1. pc'[p] = "write" /\ mem'[p] = mem[p] /\ dec'[p] = dec[p]
      BY <1>0, <2>1, GotoStays
    <3>2. HasCall(p)'
      BY <1>0, <1>10, <3>1 DEF CreateFile, HasCall
    <3> QED  BY <3>1, <3>2, StayDriver
  <2>2. CASE Compare(p) /\ UNCHANGED files
    BY <1>10, <2>2, CompareDriver DEF CreateFile
  <2> QED  BY <1>10, <2>1, <2>2 DEF CreateFile
<1>11. CASE WriteFile(p)
  <2>1. pc'[p] = "record" /\ mem'[p] = mem[p] /\ dec'[p] = dec[p] /\ dec[p].call # Finish
    BY <1>0, <1>11, GotoStays DEF WriteFile, HasCall
  <2>2. dec[p].call \in Calls
    BY <1>0, <2>1, DecisionType DEF TypeOK
  <2>3. HasCall(p)' /\ HasArtifact(p)'
    BY <1>0, <1>11, <2>1, <2>2 DEF WriteFile, HasCall, HasArtifact, TypeOK
  <2> QED  BY <2>1, <2>3, StayDriver
<1>12. CASE RecordRead(p)
  <2>1. CASE Leave(p)
    BY <1>0, <2>1, LeaveDriver
  <2>2. CASE Goto(p, "insert") /\ UNCHANGED <<mem, dec>>
    <3>1. /\ pc'[p] = "insert" /\ mem'[p] = mem[p] /\ dec'[p] = dec[p] /\ pc[p] = "record"
          /\ files' = files
      BY <1>0, <1>12, <2>2, GotoStays DEF RecordRead, store
    <3>2. HasCall(p)' /\ HasArtifact(p)'
      BY <1>0, <3>1 DEF Driver, HasCall, HasArtifact
    <3> QED  BY <3>1, <3>2, StayDriver
  <2>3. CASE /\ Round(mem[p]) \in DOMAIN exec /\ exec[Round(mem[p])] = dec[p]
             /\ Goto(p, "complete") /\ UNCHANGED <<mem, dec>>
    <3>1. pc'[p] = "complete" /\ mem'[p] = mem[p] /\ dec'[p] = dec[p]
      BY <1>0, <2>3, GotoStays
    <3>2. RecordsBeforeCompleting(p)'
      BY <1>0, <2>3, <3>1 DEF RecordsBeforeCompleting, Grows, Round
    <3> QED  BY <3>1, <3>2, StayDriver
  <2> QED  BY <1>12, <2>1, <2>2, <2>3 DEF RecordRead
<1>13. CASE RecordInsert(p)
  <2>1. CASE Leave(p)
    BY <1>0, <2>1, LeaveDriver
  <2>2. CASE /\ exec' = [i \in DOMAIN exec \cup {Round(mem[p])} |->
                           IF i = Round(mem[p]) THEN dec[p] ELSE exec[i]]
             /\ Goto(p, "complete") /\ UNCHANGED <<mem, dec>>
    <3>1. pc'[p] = "complete" /\ mem'[p] = mem[p] /\ dec'[p] = dec[p]
      BY <1>0, <2>2, GotoStays
    <3>2. Round(mem[p]) \in DOMAIN exec' /\ exec'[Round(mem[p])] = dec[p]
      BY <2>2
    <3>3. RecordsBeforeCompleting(p)'
      BY <3>1, <3>2 DEF RecordsBeforeCompleting, Round
    <3> QED  BY <3>1, <3>3, StayDriver
  <2> QED  BY <1>13, <2>1, <2>2 DEF RecordInsert
<1>14. CASE CompleteRound(p)
  <2>1. pc'[p] = "decide" /\ mem'[p] = Completed(mem[p], dec[p])
    BY <1>0, <1>14 DEF CompleteRound, Goto, TypeOK
  <2>2. Backed(Completed(mem[p], dec[p]), exec)
    BY <1>0, <1>14, CompletedBacked DEF CompleteRound, TypeOK, Driver, RecordsBeforeCompleting
  <2>3. Backed(mem'[p], exec')
    BY <1>0, <2>1, <2>2, GrowsBacked
  <2> QED  BY <2>1, <2>3 DEF Driver, RecordsBeforeCompleting, HasArtifact, HasCall
<1>15. CASE InterruptRound(p) \/ SaveFailed(p) \/ SaveCheckpoint(p) \/ Crash(p)
  BY <1>0, <1>15, LeaveDriver DEF InterruptRound, SaveFailed, SaveCheckpoint, Crash
<1>16. CASE SaveWaiting(p)
  <2>1. pc'[p] = "checkpoint" /\ mem'[p] = mem[p] /\ dec'[p] = dec[p]
    BY <1>0, <1>16, GotoStays DEF SaveWaiting
  <2> QED  BY <2>1, StayDriver
<1> QED
  BY <1>1, <1>2, <1>3, <1>4, <1>5, <1>6, <1>7, <1>8, <1>9, <1>10, <1>11, <1>12, <1>13,
     <1>14, <1>15, <1>16 DEF Step

\* Every step keeps the inductive invariant.
LEMMA StepInv == Inv /\ [Next]_vars => Inv'
<1> SUFFICES ASSUME Inv, [Next]_vars PROVE Inv'
  OBVIOUS
<1>1. TypeOK /\ TypeOK'
  BY StepTypeOK DEF Inv
<1>2. ASSUME NEW q \in Procs PROVE Driver(q)'
  <2>1. CASE UNCHANGED vars
    BY <2>1, StayDriver DEF vars
  <2>2. ASSUME NEW p \in Procs,
               \/ Run(p) \/ ResumeRead(p) \/ Step(p) \/ InterruptRound(p)
               \/ ToolFails(p) \/ WriteFails(p) \/ Crash(p)
        PROVE  Driver(q)'
    <3>1. CASE q = p
      BY <2>2, <3>1, StepDriver
    <3>2. CASE q # p
      <4>1. pc'[q] = pc[q] /\ mem'[q] = mem[q] /\ dec'[q] = dec[q]
        BY <1>1, <2>2, <3>2, ActorOthers DEF Others
      <4> QED  BY <4>1, StayDriver
    <3> QED  BY <3>1, <3>2
  <2> QED  BY <2>1, <2>2 DEF Next
<1> QED  BY <1>1, <1>2, StepRecorded, StepRoundsBacked DEF Inv

\* So it always holds.
LEMMA Invariance == Spec => []Inv
BY InitInv, StepInv, PTL DEF Spec

(* The persisted cycle claims no tool round without its execution record,   *)
(* and no record points at a torn artifact, however many processes drive    *)
(* the cycle and wherever they die.                                         *)
THEOREM RecordsAlwaysHold == Spec => []RecordsHold
<1>1. Inv => RecordsHold
  BY DEF Inv, RecordsHold
<1> QED  BY <1>1, Invariance, PTL

(* No two drivers, nor a driver and the database, ever hold different tool  *)
(* calls for one round: the executions arbitrate between all of them.       *)
THEOREM DriversAlwaysAgree == Spec => []DriversAgree
BY InvAgree, Invariance, PTL

(* Recorded executions are immutable: the primary key decides a race that   *)
(* the read before the insert leaves open.                                  *)
THEOREM ExecutionsNeverChange == Spec => ExecutionsImmutable
<1>1. [Next]_vars =>
          [\A r \in DOMAIN exec : r \in DOMAIN exec' /\ exec'[r] = exec[r]]_vars
  BY StepGrows DEF Grows
<1> QED  BY <1>1, PTL DEF Spec, ExecutionsImmutable

(****************************************************************************)
(* A waiting cycle is saved in two steps.  Between them the driver that     *)
(* waits is still there, or it has died.                                    *)
(****************************************************************************)
Waits ==
    /\ \A p \in Procs : pc[p] = "resuming" => mem[p].status = "running"
    /\ cycle.status = "waiting_for_planner" /\ crashes = 0
         => checkpoint \/ \E p \in Procs : pc[p] = "checkpoint"

\* A step of one driver is a crash, saves the checkpoint, leaves the cycle not
\* waiting or ends at its own checkpoint, or leaves things as they are.
LEMMA StepWaits == TypeOK /\ Waits /\ [Next]_vars => Waits'
<1> SUFFICES ASSUME TypeOK, Waits, [Next]_vars PROVE Waits'
  OBVIOUS
<1>1. CASE UNCHANGED vars
  BY <1>1 DEF vars, Waits
<1>2. ASSUME NEW p \in Procs,
             \/ Run(p) \/ ResumeRead(p) \/ Step(p) \/ InterruptRound(p)
             \/ ToolFails(p) \/ WriteFails(p) \/ Crash(p)
      PROVE  Waits'
  <2>1. Others(p) /\ mem \in [Procs -> Cycle] /\ pc \in [Procs -> Steps] /\ cycle \in Cycle /\ crashes \in Nat
    BY <1>2, ActorOthers DEF TypeOK
  <2>2. ASSUME NEW l, Goto(p, l) PROVE pc'[p] = l
    BY <2>1, <2>2 DEF Goto
  <2>3. pc'[p] = "resuming" => mem'[p].status = "running"
    <3>1. CASE ResumeRead(p)
      BY <2>1, <3>1 DEF ResumeRead, Cycle
    <3>2. CASE ~ResumeRead(p)
      <4>1. ASSUME Leave(p) \/ (\E d : Adopt(p, d)) \/ Raise(p) \/ Compare(p) PROVE pc'[p] # "resuming"
        BY <2>2, <4>1 DEF Leave, Adopt, Raise, Compare
      <4>2. pc'[p] # "resuming"
        BY <1>2, <2>2, <3>2, <4>1
        DEF Step, Run, ResumeSave, DecideDemo, DecideConnected, Lookup, RunTool, ToolFails, CheckFile, CreateFile,
            WriteFile, WriteFails, RecordRead, RecordInsert, CompleteRound, InterruptRound, SaveFailed,
            SaveWaiting, SaveCheckpoint, Crash
      <4> QED  BY <4>2
    <3> QED  BY <3>1, <3>2
  <2>4. \A q \in Procs : pc'[q] = "resuming" => mem'[q].status = "running"
    BY <2>1, <2>3 DEF Waits, Others
  <2>5. CASE Crash(p)
    BY <2>1, <2>4, <2>5 DEF Crash, Waits
  <2>6. CASE SaveCheckpoint(p)
    BY <2>4, <2>6 DEF SaveCheckpoint, Waits
  <2>7. CASE SaveWaiting(p)
    BY <2>2, <2>4, <2>7 DEF SaveWaiting, Waits
  <2>8. CASE Run(p) \/ ResumeSave(p) \/ CompleteRound(p) \/ InterruptRound(p) \/ SaveFailed(p)
    <3>1. cycle'.status # "waiting_for_planner"
      <4>1. CASE Run(p)
        BY <4>1 DEF Run, NewCycle
      <4>2. CASE ResumeSave(p)
        BY <4>2 DEF ResumeSave, Waits
      <4>3. CASE CompleteRound(p)
        BY <4>3 DEF CompleteRound, Completed
      <4>4. CASE InterruptRound(p) \/ SaveFailed(p)
        BY <2>1, <4>4 DEF InterruptRound, SaveFailed, Cycle
      <4> QED  BY <2>8, <4>1, <4>2, <4>3, <4>4
    <3> QED  BY <2>4, <3>1 DEF Waits
  <2>9. CASE \/ ResumeRead(p) \/ DecideDemo(p) \/ DecideConnected(p) \/ Lookup(p) \/ RunTool(p) \/ ToolFails(p)
             \/ CheckFile(p) \/ CreateFile(p) \/ WriteFile(p) \/ WriteFails(p) \/ RecordRead(p) \/ RecordInsert(p)
    <3>1. UNCHANGED <<cycle, checkpoint, crashes>> /\ pc[p] # "checkpoint"
      BY <2>9 DEF ResumeRead, DecideDemo, DecideConnected, Lookup, RunTool, ToolFails, CheckFile, CreateFile,
                  WriteFile, WriteFails, RecordRead, RecordInsert, store
    <3> QED  BY <2>1, <2>4, <3>1 DEF Waits, Others
  <2> QED  BY <1>2, <2>5, <2>6, <2>7, <2>8, <2>9 DEF Step
<1> QED  BY <1>1, <1>2 DEF Next

(* A connected driver that gives up waiting and does not die leaves both    *)
(* the status and the checkpoint, whatever the others do in between         *)
(* (ConnectedCycleRunner.run).                                              *)
THEOREM WaitingAlwaysCheckpointed == Spec => []WaitingIsCheckpointed
<1>1. Init => Waits
  BY DEF Init, Waits, NoCycle
<1>2. Waits => WaitingIsCheckpointed
  BY DEF Waits, WaitingIsCheckpointed
<1> QED  BY <1>1, <1>2, StepWaits, TypeCorrect, PTL DEF Spec

(****************************************************************************)
(* Replay.  What the local policy decides is a function of the rounds, and  *)
(* with one driver the rounds in memory are those on disk.  So the one      *)
(* execution that may be recorded ahead of the rounds is the one that the   *)
(* policy decides on again.  It is not so with a planner, which may choose  *)
(* differently, nor with two drivers, of which one may be behind.           *)
(****************************************************************************)
OneDemoDriver == StartModes \subseteq {"demo"} /\ \A p, q \in Procs : p = q

\* The decision depends on the rounds only.
LEMMA SameDecision ==
    ASSUME NEW c, NEW d, c.rounds = d.rounds
    PROVE  DemoDecision(c) = DemoDecision(d) /\ Round(c) = Round(d)
BY DEF DemoDecision, DemoCall, Round

Executing == {"tool", "check", "create", "write", "record", "insert"}
Decided == Executing \cup {"lookup", "complete"}

Policy(p) ==
    /\ mode[p] # "connected"
    /\ pc[p] \notin {"wait", "checkpoint"}
    /\ pc[p] # "idle" => mem[p].rounds = cycle.rounds
    /\ pc[p] \in Decided => dec[p] = DemoDecision(mem[p])
    /\ pc[p] \in Executing => Round(mem[p]) \notin DOMAIN exec

\* At most the round in progress is recorded ahead of the rounds.
LastRecord ==
    /\ DOMAIN exec \subseteq 1..Round(cycle)
    /\ Round(cycle) \in DOMAIN exec => exec[Round(cycle)] = DemoDecision(cycle)

\* A cycle that is not started has no rounds.
NotStarted == cycle.status = "absent" => cycle.rounds = <<>>

Replays ==
    /\ OneDemoDriver /\ TypeOK /\ Waits
    /\ NotStarted /\ LastRecord /\ \A p \in Procs : Policy(p)

\* While the rounds and the records stay, so does what is recorded ahead.
LEMMA LastStays ==
    ASSUME LastRecord, cycle'.rounds = cycle.rounds, exec' = exec
    PROVE  LastRecord'
<1>1. DemoDecision(cycle') = DemoDecision(cycle) /\ Round(cycle') = Round(cycle)
  BY SameDecision
<1>2. DemoDecision(cycle)' = DemoDecision(cycle') /\ Round(cycle)' = Round(cycle')
  BY DEF DemoDecision, DemoCall, Round
<1> QED  BY <1>1, <1>2 DEF LastRecord

\* A driver that leaves has nothing to replay.
LEMMA LeavePolicy ==
    ASSUME TypeOK, NEW p \in Procs, Policy(p), Leave(p), mode' = mode
    PROVE  Policy(p)'
<1>1. pc'[p] = "idle"
  BY DEF Leave, Goto, TypeOK
<1> QED  BY <1>1 DEF Policy, Decided, Executing

\* A driver that goes on with its decision, the records and the rounds as they were.
LEMMA GotoPolicy ==
    ASSUME TypeOK, NEW p \in Procs, Policy(p), NEW step, Goto(p, step),
           UNCHANGED <<mem, dec, mode, exec>>, cycle'.rounds = cycle.rounds,
           pc[p] # "idle", step \notin {"wait", "checkpoint"},
           step \in Decided => pc[p] \in Decided,
           step \in Executing => pc[p] \in Executing \/ Round(mem[p]) \notin DOMAIN exec
    PROVE  Policy(p)'
<1>1. pc'[p] = step /\ mem'[p] = mem[p] /\ dec'[p] = dec[p]
  BY GotoStays
<1>2. DemoDecision(mem[p])' = DemoDecision(mem[p]) /\ Round(mem[p])' = Round(mem[p])
  BY <1>1 DEF DemoDecision, DemoCall, Round
<1> QED  BY <1>1, <1>2 DEF Policy

\* The rounds on disk change only when one is completed.
LEMMA RoundsStay ==
    ASSUME TypeOK, NotStarted, Waits, NEW p \in Procs, Policy(p),
           \/ Run(p) \/ ResumeRead(p) \/ Step(p) \/ InterruptRound(p)
           \/ ToolFails(p) \/ WriteFails(p) \/ Crash(p)
    PROVE  NotStarted' /\ (CompleteRound(p) \/ cycle'.rounds = cycle.rounds)
<1>1. mem[p] \in Cycle /\ cycle \in Cycle
  BY DEF TypeOK
<1>2. CASE Run(p)
  BY <1>2 DEF Run, NewCycle, NotStarted
<1>3. CASE ResumeSave(p)
  BY <1>3 DEF ResumeSave, NotStarted, Waits, Policy
<1>4. CASE CompleteRound(p)
  BY <1>4 DEF CompleteRound, Completed, NotStarted
<1>5. CASE InterruptRound(p) \/ SaveFailed(p) \/ SaveWaiting(p)
  BY <1>1, <1>5 DEF InterruptRound, SaveFailed, SaveWaiting, NotStarted, Policy, Cycle
<1>6. CASE \/ ResumeRead(p) \/ DecideDemo(p) \/ DecideConnected(p) \/ Lookup(p) \/ RunTool(p) \/ ToolFails(p)
           \/ CheckFile(p) \/ CreateFile(p) \/ WriteFile(p) \/ WriteFails(p) \/ RecordRead(p) \/ RecordInsert(p)
           \/ SaveCheckpoint(p) \/ Crash(p)
  <2>1. cycle' = cycle
    BY <1>6 DEF ResumeRead, DecideDemo, DecideConnected, Lookup, RunTool, ToolFails, CheckFile, CreateFile,
                WriteFile, WriteFails, RecordRead, RecordInsert, SaveCheckpoint, Crash, store
  <2> QED  BY <2>1 DEF NotStarted
<1> QED  BY <1>2, <1>3, <1>4, <1>5, <1>6 DEF Step

\* The steps of the one driver.
LEMMA StepReplays ==
    ASSUME Replays, NEW p \in Procs,
           \/ Run(p) \/ ResumeRead(p) \/ Step(p) \/ InterruptRound(p)
           \/ ToolFails(p) \/ WriteFails(p) \/ Crash(p)
    PROVE  LastRecord' /\ Policy(p)'
<1>1. /\ TypeOK /\ LastRecord /\ Policy(p) /\ mem[p] \in Cycle /\ cycle \in Cycle /\ dec[p] \in Decision
      /\ StartModes \subseteq {"demo"}
  BY DEF Replays, TypeOK, OneDemoDriver
<1>2. CompleteRound(p) \/ cycle'.rounds = cycle.rounds
  BY RoundsStay DEF Replays
<1>3. ASSUME exec' = exec, ~CompleteRound(p) PROVE LastRecord'
  BY <1>1, <1>2, <1>3, LastStays
<1>4. CASE Run(p)
  <2>1. /\ pc'[p] = "decide" /\ mem'[p] = NewCycle /\ cycle' = NewCycle /\ exec' = exec
        /\ mode' = [mode EXCEPT ![p] = "demo"]
    BY <1>1, <1>4 DEF Run, Goto, TypeOK
  <2>2. mode'[p] = "demo"
    BY <1>1, <2>1 DEF TypeOK
  <2>3. LastRecord'
    BY <1>3, <1>4, <2>1 DEF Run, CompleteRound
  <2> QED  BY <2>1, <2>2, <2>3 DEF Policy, Decided, Executing
<1>5. CASE ResumeRead(p)
  <2>1. /\ pc'[p] = "resuming" /\ mem'[p] = [cycle EXCEPT !.status = "running"] /\ mode'[p] = "resume"
        /\ cycle' = cycle /\ exec' = exec
    BY <1>1, <1>5 DEF ResumeRead, Goto, TypeOK, store
  <2>2. mem'[p].rounds = cycle.rounds
    BY <1>1, <2>1 DEF Cycle
  <2>3. LastRecord'
    BY <1>3, <1>5, <2>1 DEF ResumeRead, CompleteRound
  <2> QED  BY <2>1, <2>2, <2>3 DEF Policy, Decided, Executing
<1>6. CASE Leave(p) /\ mode' = mode /\ exec' = exec
  <2>1. ~CompleteRound(p)
    BY <1>1, <1>6 DEF Leave, CompleteRound, Goto, TypeOK
  <2> QED  BY <1>1, <1>3, <1>6, <2>1, LeavePolicy
<1>7. ASSUME NEW step \in Steps, Goto(p, step), UNCHANGED <<mem, dec, mode, exec>>,
             pc[p] # "idle", step \notin {"wait", "checkpoint", "decide"},
             step \in Decided => pc[p] \in Decided,
             step \in Executing => pc[p] \in Executing \/ Round(mem[p]) \notin DOMAIN exec
      PROVE  LastRecord' /\ Policy(p)'
  <2>1. ~CompleteRound(p)
    <3>1. pc'[p] = step
      BY <1>1, <1>7, GotoStays
    <3> QED  BY <1>1, <1>7, <3>1 DEF CompleteRound, Goto, TypeOK
  <2>2. cycle'.rounds = cycle.rounds /\ LastRecord'
    BY <1>2, <1>3, <1>7, <2>1
  <2> QED  BY <1>1, <1>7, <2>2, GotoPolicy
<1>8. CASE ResumeSave(p)
  <2>1. ~CompleteRound(p) /\ Goto(p, "decide") /\ UNCHANGED <<mem, dec, mode, exec>> /\ pc[p] = "resuming"
    BY <1>8 DEF ResumeSave, CompleteRound
  <2>2. cycle'.rounds = cycle.rounds /\ LastRecord'
    BY <1>2, <1>3, <2>1
  <2> QED  BY <1>1, <2>1, <2>2, GotoPolicy DEF Decided, Executing
<1>9. CASE DecideDemo(p)
  <2> DEFINE d == DemoDecision(mem[p])
  <2>1. UNCHANGED <<mode, exec, cycle>> /\ pc[p] = "decide" /\ (Leave(p) \/ Adopt(p, d))
    BY <1>9 DEF DecideDemo, store
  <2>2. CASE Adopt(p, d)
    <3>1. /\ dec'[p] = d /\ mem'[p] = mem[p] /\ mode'[p] # "connected"
          /\ pc'[p] \in {"complete", "lookup"}
      BY <1>1, <2>1, <2>2 DEF Adopt, Goto, TypeOK, Policy
    <3>2. DemoDecision(mem[p])' = d
      BY <3>1 DEF DemoDecision, DemoCall, Round
    <3>3. Policy(p)'
      BY <1>1, <2>1, <3>1, <3>2 DEF Policy, Decided, Executing
    <3>4. LastRecord'
      BY <1>1, <2>1, LastStays
    <3> QED  BY <3>3, <3>4
  <2> QED  BY <1>6, <2>1, <2>2
<1>10. ~DecideConnected(p) /\ ~SaveWaiting(p) /\ ~SaveCheckpoint(p)
  BY <1>1 DEF DecideConnected, SaveWaiting, SaveCheckpoint, Policy
<1>11. CASE Lookup(p)
  <2>1. UNCHANGED <<mode, exec>> /\ pc[p] = "lookup"
    BY <1>11 DEF Lookup, store
  <2>2. \/ Leave(p)
        \/ Goto(p, "complete") /\ UNCHANGED <<mem, dec>>
        \/ Goto(p, "tool") /\ UNCHANGED <<mem, dec>> /\ Round(mem[p]) \notin DOMAIN exec
    BY <1>11 DEF Lookup
  <2> QED  BY <1>6, <1>7, <2>1, <2>2 DEF Steps, Decided, Executing
<1>12. ASSUME Raise(p), UNCHANGED <<mode, exec>>, pc[p] \in Executing PROVE LastRecord' /\ Policy(p)'
  <2>1. Leave(p) \/ (Goto(p, "fail") /\ UNCHANGED <<mem, dec>>)
    BY <1>12 DEF Raise
  <2> QED  BY <1>6, <1>7, <1>12, <2>1 DEF Steps, Decided, Executing
<1>13. ASSUME Compare(p), UNCHANGED <<mode, exec>>, pc[p] \in Executing PROVE LastRecord' /\ Policy(p)'
  <2>1. Raise(p) \/ (Goto(p, "record") /\ UNCHANGED <<mem, dec>>)
    BY <1>13 DEF Compare
  <2> QED  BY <1>7, <1>12, <1>13, <2>1 DEF Steps, Decided, Executing
<1>14. CASE RunTool(p) \/ CheckFile(p) \/ CreateFile(p) \/ WriteFile(p) \/ ToolFails(p) \/ WriteFails(p)
  <2>1. UNCHANGED <<mode, exec>> /\ pc[p] \in Executing
    BY <1>14 DEF RunTool, CheckFile, CreateFile, WriteFile, ToolFails, WriteFails, store, Executing
  <2>2. \/ Raise(p) \/ Compare(p)
        \/ \E step \in {"check", "create", "write", "record"} : Goto(p, step) /\ UNCHANGED <<mem, dec>>
    BY <1>14 DEF RunTool, CheckFile, CreateFile, WriteFile, ToolFails, WriteFails
  <2>3. CASE \E step \in {"check", "create", "write", "record"} : Goto(p, step) /\ UNCHANGED <<mem, dec>>
    <3> PICK step \in {"check", "create", "write", "record"} : Goto(p, step) /\ UNCHANGED <<mem, dec>>
      BY <2>3
    <3> QED  BY <1>7, <2>1 DEF Steps, Decided, Executing
  <2> QED  BY <1>12, <1>13, <2>1, <2>2, <2>3
<1>15. CASE RecordRead(p)
  <2>1. UNCHANGED <<mode, exec>> /\ pc[p] = "record"
    BY <1>15 DEF RecordRead, store
  <2>2. \/ Leave(p)
        \/ \E step \in {"insert", "complete"} : Goto(p, step) /\ UNCHANGED <<mem, dec>>
    BY <1>15 DEF RecordRead
  <2> QED  BY <1>6, <1>7, <2>1, <2>2 DEF Steps, Decided, Executing
<1>16. CASE RecordInsert(p)
  <2> DEFINE k == Round(mem[p])
  <2>1. /\ pc[p] = "insert" /\ UNCHANGED <<mode, cycle>> /\ k \notin DOMAIN exec /\ dec[p] = DemoDecision(mem[p])
        /\ mem[p].rounds = cycle.rounds
    BY <1>1, <1>16 DEF RecordInsert, Policy, Decided, Executing
  <2>2. /\ exec' = [i \in DOMAIN exec \cup {k} |-> IF i = k THEN dec[p] ELSE exec[i]]
        /\ Goto(p, "complete") /\ UNCHANGED <<mem, dec>>
    BY <1>16, <2>1 DEF RecordInsert
  <2>3. k = Round(cycle) /\ DemoDecision(mem[p]) = DemoDecision(cycle)
    BY <2>1, SameDecision
  <2>4. Round(cycle)' = Round(cycle) /\ DemoDecision(cycle)' = DemoDecision(cycle)
    BY <2>1 DEF DemoDecision, DemoCall, Round
  <2>5. DOMAIN exec' = DOMAIN exec \cup {k} /\ exec'[k] = dec[p] /\ k \in 1..k
    <3>1. k \in Nat \ {0}
      BY <1>1, DecidedType
    <3> QED  BY <2>2, <3>1
  <2>6. LastRecord'
    BY <1>1, <2>1, <2>3, <2>4, <2>5 DEF LastRecord
  <2>7. pc'[p] = "complete" /\ mem'[p] = mem[p] /\ dec'[p] = dec[p]
    BY <1>1, <2>2, GotoStays
  <2>8. DemoDecision(mem[p])' = DemoDecision(mem[p])
    BY <2>7 DEF DemoDecision, DemoCall, Round
  <2> QED  BY <1>1, <2>1, <2>6, <2>7, <2>8 DEF Policy, Executing
<1>17. CASE CompleteRound(p)
  <2>1. /\ mem'[p] = cycle' /\ pc'[p] = "decide" /\ UNCHANGED <<mode, exec>>
        /\ cycle' = Completed(mem[p], dec[p]) /\ mem[p].rounds = cycle.rounds
    BY <1>1, <1>17 DEF CompleteRound, Goto, TypeOK, Policy
  <2>2. cycle'.rounds = Append(cycle.rounds, dec[p])
    BY <1>1, <2>1, CompletedType
  <2>3. Round(cycle)' = Round(cycle) + 1 /\ Round(cycle) \in Nat
    BY <1>1, <2>2, RoundsType DEF Round
  <2>4. LastRecord'
    BY <1>1, <2>1, <2>3 DEF LastRecord
  <2>5. Policy(p)'
    BY <1>1, <2>1 DEF Policy, Decided, Executing
  <2> QED  BY <2>4, <2>5
<1>18. CASE InterruptRound(p) \/ SaveFailed(p) \/ Crash(p)
  <2>1. Leave(p) /\ mode' = mode /\ exec' = exec
    BY <1>18 DEF InterruptRound, SaveFailed, Crash, store
  <2> QED  BY <1>6, <2>1
<1> QED  BY <1>4, <1>5, <1>8, <1>9, <1>10, <1>11, <1>14, <1>15, <1>16, <1>17, <1>18 DEF Step

(* However often the one driver of a demo cycle is interrupted, dies or     *)
(* fails, a round that was executed is replayed and not run again           *)
(* (DemoCycleRunner._drive, with get_cycle_execution).                      *)
THEOREM ResumesReplay == OneDemoDriver => (Spec => []ResumeReplays)
<1>1. OneDemoDriver /\ Init => Replays
  <2> SUFFICES ASSUME OneDemoDriver, Init PROVE Replays
    OBVIOUS
  <2>1. TypeOK
    BY InitTypeOK
  <2>2. DOMAIN exec = {} /\ cycle.rounds = <<>> /\ cycle.status = "absent"
    BY DEF Init, NoCycle
  <2> QED  BY <2>1, <2>2 DEF Init, Replays, Waits, NotStarted, LastRecord, Policy, Decided, Executing
<1>2. Replays /\ [Next]_vars => Replays'
  <2> SUFFICES ASSUME Replays, [Next]_vars PROVE Replays'
    OBVIOUS
  <2>1. TypeOK' /\ Waits' /\ OneDemoDriver
    BY StepTypeOK, StepWaits DEF Replays
  <2>2. CASE UNCHANGED vars
    <3>1. NotStarted' /\ LastRecord' /\ \A p \in Procs : Policy(p)'
      BY <2>2 DEF vars, Replays, NotStarted, LastRecord, Policy, DemoDecision, DemoCall, Round
    <3> QED  BY <2>1, <3>1 DEF Replays, OneDemoDriver
  <2>3. ASSUME NEW p \in Procs,
               \/ Run(p) \/ ResumeRead(p) \/ Step(p) \/ InterruptRound(p)
               \/ ToolFails(p) \/ WriteFails(p) \/ Crash(p)
        PROVE  NotStarted' /\ LastRecord' /\ \A q \in Procs : Policy(q)'
    <3>1. NotStarted' /\ LastRecord' /\ Policy(p)'
      BY <2>3, RoundsStay, StepReplays DEF Replays
    <3>2. \A q \in Procs : q = p
      BY <2>1 DEF OneDemoDriver
    <3> QED  BY <3>1, <3>2
  <2> QED  BY <2>1, <2>2, <2>3 DEF Next, Replays, OneDemoDriver
<1>3. Replays => ResumeReplays
  <2> SUFFICES ASSUME Replays, NEW p \in Procs
               PROVE  /\ pc[p] = "lookup" /\ Round(mem[p]) \in DOMAIN exec => exec[Round(mem[p])] = dec[p]
                      /\ pc[p] = "tool" => Round(mem[p]) \notin DOMAIN exec
    BY DEF ResumeReplays, ReplayMatches, NoReexecution
  <2>1. Policy(p) /\ LastRecord
    BY DEF Replays
  <2>2. pc[p] = "lookup" => DemoDecision(mem[p]) = DemoDecision(cycle) /\ Round(mem[p]) = Round(cycle)
    BY <2>1, SameDecision DEF Policy
  <2> QED  BY <2>1, <2>2 DEF Policy, LastRecord, Decided, Executing
<1> QED  BY <1>1, <1>2, <1>3, PTL DEF Spec
------------------------------------------------------------------------------
(****************************************************************************)
(* KnowledgeLedger, for any number of clients and any number of IDs.  The   *)
(* store's check of the revision is enough because a history only grows:    *)
(* what a client read stays a prefix of it, so equal lengths mean that      *)
(* nothing happened since.                                                  *)
(****************************************************************************)

\* The version that a client holds fits the history it has read.
HeldOK(p) == p.version # None =>
    /\ WellFormed(p.version)
    /\ p.version.state = "superseded" =>
           \E k \in DOMAIN history[p.version.replacement] :
               history[p.version.replacement][k].state = "verified"

ReadIsPast(p) == \A i \in DOMAIN p.read :
    i \in DOMAIN history[p.id] /\ history[p.id][i] = p.read[i]

ReadsOK == \A c \in Clients : pending[c] # None => HeldOK(pending[c]) /\ ReadIsPast(pending[c])

LedgerInv == LedgerTypeOK /\ ReadsOK /\ HistoriesLegal /\ ReplacementsVerified

\* The latest version of a history is its last element.
LEMMA LastOfHistory ==
    ASSUME NEW s \in Seq(Record), s # <<>>
    PROVE  Len(s) \in DOMAIN s /\ Last(s) = s[Len(s)] /\ Last(s) \in Record
  BY DEF Last

\* Which is a version of its own.
LEMMA LastIsRecord ==
    ASSUME LedgerTypeOK, NEW id \in Ids, history[id] # <<>>
    PROVE  Last(history[id]) \in Record
  BY LastOfHistory DEF LedgerTypeOK

\* A step either leaves a history alone or adds one version to it.
HistoryGrows(id) ==
    \/ history'[id] = history[id]
    \/ \E version \in Record : history'[id] = Append(history[id], version)

\* Each decision turns a version into a version.
LEMMA VerifiedIsRecord ==
    ASSUME NEW r \in Record, NEW now \in Time, NEW e \in SUBSET Evidence
    PROVE  Verified(r, e, now) \in Record /\ Verified(r, e, now).state = "verified"
  BY DEF Record, States, Verified

\* Rejecting does.
LEMMA RejectedIsRecord ==
    ASSUME NEW r \in Record, NEW now \in Time
    PROVE  Rejected(r, now) \in Record /\ Rejected(r, now).state = "rejected"
  BY DEF Record, States, Rejected

\* Superseding does, and names the replacement.
LEMMA SupersededIsRecord ==
    ASSUME NEW r \in Record, NEW now \in Time, NEW id \in Ids, NEW s \in Record
    PROVE  /\ Superseded(r, id, s, now) \in Record
           /\ Superseded(r, id, s, now).state = "superseded"
           /\ Superseded(r, id, s, now).replacement = id
  BY DEF Record, States, Superseded

\* A candidate is a version.
LEMMA Proposal ==
    ASSUME NEW source \in Sources, NEW now \in Time, NEW e \in SUBSET Evidence
    PROVE  /\ Candidate(source, e, now) \in Record
           /\ Candidate(source, e, now).state = "candidate"
           /\ WellFormed(Candidate(source, e, now))
  BY TimeOK DEF Record, States, Candidate, WellFormed, Never

\* What grows keeps its past, so what was read stays past and what has been
\* verified stays in its history.
LEMMA PastKept ==
    ASSUME NEW id \in Ids, history[id] \in Seq(Record), HistoryGrows(id)
    PROVE  \A i \in DOMAIN history[id] :
               i \in DOMAIN history'[id] /\ history'[id][i] = history[id][i]
  BY DEF HistoryGrows

\* A step of the ledger adds at most one version to each history.
LEMMA StepHistoryGrows ==
    ASSUME LedgerInv, [LedgerNext]_ledgerVars
    PROVE  \A id \in Ids : HistoryGrows(id)
<1> SUFFICES ASSUME NEW id \in Ids PROVE HistoryGrows(id)
  OBVIOUS
<1> USE DEF LedgerInv, LedgerTypeOK
<1>1. CASE Propose
  <2>1. PICK i \in Ids, source \in Sources, evidence \in SUBSET Evidence, now \in Time :
          /\ history[i] = <<>>
          /\ history' = [history EXCEPT ![i] = <<Candidate(source, evidence, now)>>]
    BY <1>1 DEF Propose
  <2>2. CASE i = id
    <3>1. history'[id] = Append(history[id], Candidate(source, evidence, now))
      BY <2>1, <2>2
    <3> QED BY <3>1, Proposal DEF HistoryGrows
  <2>3. CASE i # id
    BY <2>1, <2>3 DEF HistoryGrows
  <2> QED BY <2>2, <2>3
<1>2. ASSUME NEW c \in Clients, AppendVersion(c) PROVE HistoryGrows(id)
  <2>1. pending[c] \in Pending /\ pending[c].version \in Record
    BY <1>2 DEF AppendVersion, Pending
  <2> QED BY <1>2, <2>1 DEF AppendVersion, HistoryGrows, Pending
<1>3. ASSUME NEW c \in Clients,
             ReadToVerify(c) \/ ReadToReject(c) \/ ReadToSupersede(c) \/ ReadReplacement(c) \/ GiveUp(c)
      PROVE  HistoryGrows(id)
  BY <1>3 DEF ReadToVerify, ReadToReject, ReadToSupersede, ReadReplacement, GiveUp, Hold, HistoryGrows
<1>4. CASE UNCHANGED ledgerVars
  BY <1>4 DEF ledgerVars, HistoryGrows
<1> QED BY <1>1, <1>2, <1>3, <1>4 DEF LedgerNext

\* A decision that takes effect continues exactly the history it was made for.
LEMMA AppendContinues ==
    ASSUME LedgerInv, NEW c \in Clients, AppendVersion(c), history' # history
    PROVE  /\ history[pending[c].id] = pending[c].read
           /\ pending[c].version # None
           /\ history' = [history EXCEPT ![pending[c].id] =
                             Append(history[pending[c].id], pending[c].version)]
           /\ pending[c].version.source = Last(history[pending[c].id]).source
           /\ pending[c].version.created = Last(history[pending[c].id]).created
           /\ <<Last(history[pending[c].id]).state, pending[c].version.state>> \in Transitions
<1>1. pending[c] \in Pending /\ pending[c].version # None /\ Len(pending[c].read) = Len(history[pending[c].id])
  BY DEF AppendVersion, LedgerInv, LedgerTypeOK
<1>2. ReadIsPast(pending[c])
  BY <1>1 DEF LedgerInv, ReadsOK, AppendVersion
<1>3. history[pending[c].id] \in Seq(Record) /\ pending[c].read \in Seq(Record)
  BY <1>1 DEF LedgerInv, LedgerTypeOK, Pending
<1>4. history[pending[c].id] = pending[c].read
  BY <1>1, <1>2, <1>3 DEF ReadIsPast
<1> QED BY <1>1, <1>4 DEF AppendVersion

\* A held decision is typed.
LEMMA HoldType ==
    ASSUME LedgerTypeOK, NEW c \in Clients, NEW id \in Ids, NEW version \in Record,
           history[id] # <<>>, Hold(c, id, version)
    PROVE  LedgerTypeOK'
<1>1. [id |-> id, read |-> history[id], version |-> version] \in Pending
  BY DEF LedgerTypeOK, Pending
<1> QED BY <1>1 DEF LedgerTypeOK, Hold

\* No knowledge at all, and no decision under way.
LEMMA InitLedgerInv == LedgerInit => LedgerInv
  BY DEF LedgerInit, LedgerInv, LedgerTypeOK, ReadsOK, HistoriesLegal, ReplacementsVerified

\* Every step keeps the types.
LEMMA StepType == LedgerInv /\ [LedgerNext]_ledgerVars => LedgerTypeOK'
<1> SUFFICES ASSUME LedgerInv, [LedgerNext]_ledgerVars PROVE LedgerTypeOK'
  OBVIOUS
<1>0. LedgerTypeOK
  BY DEF LedgerInv
<1>1. CASE Propose
  BY <1>0, <1>1, Proposal DEF Propose, LedgerTypeOK
<1>2. ASSUME NEW c \in Clients, ReadToVerify(c) PROVE LedgerTypeOK'
  <2>1. PICK id \in Ids, evidence \in SUBSET Evidence, now \in Time :
          /\ history[id] # <<>>
          /\ Hold(c, id, Verified(Last(history[id]), evidence, now))
    BY <1>2 DEF ReadToVerify, Current
  <2>2. Verified(Last(history[id]), evidence, now) \in Record
    BY <1>0, <2>1, LastIsRecord, VerifiedIsRecord DEF LedgerTypeOK
  <2> QED BY <1>0, <2>1, <2>2, HoldType
<1>3. ASSUME NEW c \in Clients, ReadToReject(c) PROVE LedgerTypeOK'
  <2>1. PICK id \in Ids, now \in Time :
          history[id] # <<>> /\ Hold(c, id, Rejected(Last(history[id]), now))
    BY <1>3 DEF ReadToReject, Current
  <2>2. Rejected(Last(history[id]), now) \in Record
    BY <1>0, <2>1, LastIsRecord, RejectedIsRecord DEF LedgerTypeOK
  <2> QED BY <1>0, <2>1, <2>2, HoldType
<1>4. ASSUME NEW c \in Clients, ReadToSupersede(c) PROVE LedgerTypeOK'
  BY <1>0, <1>4 DEF ReadToSupersede, Current, Pending, LedgerTypeOK
<1>5. ASSUME NEW c \in Clients, ReadReplacement(c) PROVE LedgerTypeOK'
  <2>1. PICK id \in Ids, now \in Time :
          /\ history[id] # <<>>
          /\ pending' = [pending EXCEPT ![c].version =
                            Superseded(Last(pending[c].read), id, Last(history[id]), now)]
          /\ UNCHANGED history
    BY <1>5 DEF ReadReplacement, Current
  <2>2. pending[c] \in Pending
    BY <1>0, <1>5 DEF ReadReplacement, LedgerTypeOK
  <2>3. Last(pending[c].read) \in Record /\ Last(history[id]) \in Record
    BY <1>0, <2>1, <2>2, LastOfHistory DEF Pending, LedgerTypeOK
  <2>4. Superseded(Last(pending[c].read), id, Last(history[id]), now) \in Record
    BY <2>3, SupersededIsRecord
  <2> QED BY <1>0, <2>1, <2>2, <2>4 DEF Pending, LedgerTypeOK
<1>6. ASSUME NEW c \in Clients, GiveUp(c) PROVE LedgerTypeOK'
  BY <1>0, <1>6 DEF GiveUp, LedgerTypeOK
<1>7. ASSUME NEW c \in Clients, AppendVersion(c) PROVE LedgerTypeOK'
  <2>1. pending[c] \in Pending /\ pending[c].version \in Record
    BY <1>0, <1>7 DEF AppendVersion, Pending, LedgerTypeOK
  <2>2. pending' \in [Clients -> Pending \cup {None}]
    BY <1>0, <1>7 DEF AppendVersion, LedgerTypeOK
  <2>3. pending[c].id \in Ids
    BY <2>1 DEF Pending
  <2>4. Append(history[pending[c].id], pending[c].version) \in Seq(Record)
    BY <1>0, <2>1, <2>3 DEF LedgerTypeOK
  <2>5. history' \in [Ids -> Seq(Record)]
    BY <1>0, <1>7, <2>3, <2>4 DEF AppendVersion, LedgerTypeOK
  <2> QED BY <2>2, <2>5 DEF LedgerTypeOK
<1>8. CASE UNCHANGED ledgerVars
  BY <1>0, <1>8 DEF ledgerVars, LedgerTypeOK
<1> QED BY <1>1, <1>2, <1>3, <1>4, <1>5, <1>6, <1>7, <1>8 DEF LedgerNext

\* The latest verified version of a history is one of its versions.
LEMMA CurrentVerified ==
    ASSUME LedgerTypeOK, NEW id \in Ids, Current(id, "verified")
    PROVE  \E k \in DOMAIN history[id] : history[id][k].state = "verified"
  BY LastOfHistory DEF Current, LedgerTypeOK

\* What verified versions there are stays where it is.
LEMMA VerifiedKept ==
    ASSUME LedgerInv, [LedgerNext]_ledgerVars, NEW id \in Ids,
           \E k \in DOMAIN history[id] : history[id][k].state = "verified"
    PROVE  \E k \in DOMAIN history'[id] : history'[id][k].state = "verified"
  BY StepHistoryGrows, PastKept DEF LedgerInv, LedgerTypeOK

\* A superseded version names an ID, by its rules.
LEMMA ReplacementIsId ==
    ASSUME NEW r \in Record, WellFormed(r), r.state = "superseded"
    PROVE  r.replacement \in Ids
  BY DEF Record, WellFormed

\* Decisions that were held before a step still fit after it.
LEMMA HeldKept ==
    ASSUME LedgerInv, [LedgerNext]_ledgerVars, NEW c \in Clients, pending[c] # None, pending'[c] = pending[c]
    PROVE  HeldOK(pending[c])' /\ ReadIsPast(pending[c])'
<1>1. pending[c] \in Pending /\ HeldOK(pending[c]) /\ ReadIsPast(pending[c])
  BY DEF LedgerInv, LedgerTypeOK, ReadsOK
<1>2. ReadIsPast(pending[c])'
  BY <1>1, StepHistoryGrows, PastKept DEF ReadIsPast, LedgerInv, LedgerTypeOK, Pending
<1>3. HeldOK(pending[c])'
  <2>1. SUFFICES ASSUME pending[c].version # None
                 PROVE  HeldOK(pending[c])'
    BY DEF HeldOK
  <2>2. WellFormed(pending[c].version) /\ pending[c].version \in Record
    BY <1>1, <2>1 DEF HeldOK, Pending
  <2>3. CASE pending[c].version.state = "superseded"
    <3>1. pending[c].version.replacement \in Ids
      BY <2>2, <2>3, ReplacementIsId
    <3>2. \E k \in DOMAIN history'[pending[c].version.replacement] :
             history'[pending[c].version.replacement][k].state = "verified"
      BY <1>1, <2>1, <2>3, <3>1, VerifiedKept DEF HeldOK
    <3> QED BY <2>2, <3>2 DEF HeldOK, WellFormed
  <2> QED BY <2>2, <2>3 DEF HeldOK, WellFormed
<1> QED BY <1>2, <1>3

\* Every step keeps what is known of the decisions under way.
LEMMA StepReads == LedgerInv /\ [LedgerNext]_ledgerVars => ReadsOK'
<1> SUFFICES ASSUME LedgerInv, [LedgerNext]_ledgerVars, NEW c \in Clients, pending'[c] # None
             PROVE  HeldOK(pending[c])' /\ ReadIsPast(pending[c])'
  BY DEF ReadsOK
<1>0. LedgerTypeOK
  BY DEF LedgerInv
<1>1. CASE pending'[c] = pending[c]
  BY <1>1, HeldKept
<1>2. ASSUME NEW id \in Ids, NEW version \in Record, Hold(c, id, version),
             version.state # "superseded"
      PROVE  HeldOK(pending[c])' /\ ReadIsPast(pending[c])'
  <2>1. pending'[c] = [id |-> id, read |-> history[id], version |-> version]
    BY <1>0, <1>2 DEF Hold, LedgerTypeOK
  <2> QED BY <1>2, <2>1 DEF Hold, HeldOK, ReadIsPast, WellFormed
<1>3. CASE ReadToVerify(c)
  <2>1. PICK id \in Ids, evidence \in SUBSET Evidence, now \in Time :
          /\ history[id] # <<>>
          /\ Hold(c, id, Verified(Last(history[id]), evidence, now))
    BY <1>3 DEF ReadToVerify, Current
  <2>2. /\ Verified(Last(history[id]), evidence, now) \in Record
        /\ Verified(Last(history[id]), evidence, now).state # "superseded"
    BY <1>0, <2>1, LastIsRecord, VerifiedIsRecord
  <2> QED BY <1>2, <2>1, <2>2
<1>4. CASE ReadToReject(c)
  <2>1. PICK id \in Ids, now \in Time :
          history[id] # <<>> /\ Hold(c, id, Rejected(Last(history[id]), now))
    BY <1>4 DEF ReadToReject, Current
  <2>2. /\ Rejected(Last(history[id]), now) \in Record
        /\ Rejected(Last(history[id]), now).state # "superseded"
    BY <1>0, <2>1, LastIsRecord, RejectedIsRecord
  <2> QED BY <1>2, <2>1, <2>2
<1>5. CASE ReadToSupersede(c)
  BY <1>0, <1>5 DEF ReadToSupersede, HeldOK, ReadIsPast, LedgerTypeOK
<1>6. CASE ReadReplacement(c)
  <2>1. PICK id \in Ids, now \in Time :
          /\ Current(id, "verified")
          /\ WellFormed(Superseded(Last(pending[c].read), id, Last(history[id]), now))
          /\ pending' = [pending EXCEPT ![c].version =
                            Superseded(Last(pending[c].read), id, Last(history[id]), now)]
          /\ UNCHANGED history
    BY <1>6 DEF ReadReplacement
  <2>2. pending[c] \in Pending /\ ReadIsPast(pending[c])
    BY <1>6, <1>0 DEF ReadReplacement, LedgerTypeOK, LedgerInv, ReadsOK
  <2>3. Last(pending[c].read) \in Record /\ Last(history[id]) \in Record
    BY <1>0, <2>1, <2>2, LastOfHistory DEF Pending, LedgerTypeOK, Current
  <2> DEFINE version == Superseded(Last(pending[c].read), id, Last(history[id]), now)
  <2>4. /\ version \in Record /\ version.replacement = id
        /\ WellFormed(version)
        /\ pending'[c] = [pending[c] EXCEPT !.version = version]
    <3>1. version \in Record /\ version.replacement = id
      BY <2>3, SupersededIsRecord
    <3>2. pending'[c] = [pending[c] EXCEPT !.version = version]
      <4>1. c \in DOMAIN pending
        BY <1>0 DEF LedgerTypeOK
      <4> HIDE DEF version
      <4> QED BY <2>1, <4>1 DEF version
    <3> QED BY <2>1, <3>1, <3>2
  <2> HIDE DEF version
  <2>5. pending'[c].version = version /\ pending'[c].id = pending[c].id
        /\ pending'[c].read = pending[c].read
    BY <2>2, <2>4 DEF Pending
  <2>6. ReadIsPast(pending[c])'
    BY <2>1, <2>2, <2>5 DEF ReadIsPast
  <2>7. HeldOK(pending[c])'
    BY <1>0, <2>1, <2>4, <2>5, CurrentVerified DEF HeldOK, WellFormed
  <2> QED BY <2>6, <2>7
<1>7. CASE GiveUp(c) \/ AppendVersion(c)
  BY <1>0, <1>7 DEF GiveUp, AppendVersion, LedgerTypeOK
<1>8. CASE Propose \/ UNCHANGED ledgerVars
  BY <1>1, <1>8 DEF Propose, ledgerVars
<1>9. ASSUME NEW b \in Clients, b # c,
             ReadToVerify(b) \/ ReadToReject(b) \/ ReadToSupersede(b)
             \/ ReadReplacement(b) \/ GiveUp(b) \/ AppendVersion(b)
      PROVE  pending'[c] = pending[c]
  BY <1>0, <1>9 DEF LedgerTypeOK, ReadToVerify, ReadToReject, ReadToSupersede, ReadReplacement,
                    GiveUp, AppendVersion, Hold
<1> QED BY <1>1, <1>3, <1>4, <1>5, <1>6, <1>7, <1>8, <1>9 DEF LedgerNext

\* A version that is appended keeps its history legal.
LEMMA AppendLegal ==
    ASSUME NEW s \in Seq(Record), NEW v \in Record, s # <<>>, WellFormed(v),
           v.source = Last(s).source, v.created = Last(s).created,
           <<Last(s).state, v.state>> \in Transitions,
           \A i \in DOMAIN s :
              /\ WellFormed(s[i])
              /\ IF i = 1 THEN s[i].state = "candidate"
                 ELSE /\ <<s[i - 1].state, s[i].state>> \in Transitions
                      /\ s[i].source = s[i - 1].source /\ s[i].created = s[i - 1].created,
           NEW i \in DOMAIN Append(s, v)
    PROVE  /\ WellFormed(Append(s, v)[i])
           /\ IF i = 1 THEN Append(s, v)[i].state = "candidate"
              ELSE /\ <<Append(s, v)[i - 1].state, Append(s, v)[i].state>> \in Transitions
                   /\ Append(s, v)[i].source = Append(s, v)[i - 1].source
                   /\ Append(s, v)[i].created = Append(s, v)[i - 1].created
<1>1. CASE i \in DOMAIN s
  <2>1. Append(s, v)[i] = s[i] /\ (i # 1 => Append(s, v)[i - 1] = s[i - 1])
    BY <1>1
  <2> QED BY <1>1, <2>1
<1>2. CASE i = Len(s) + 1
  <2>1. Append(s, v)[i] = v /\ i # 1 /\ Append(s, v)[i - 1] = Last(s)
    BY <1>2, LastOfHistory
  <2> QED BY <2>1
<1> QED BY <1>1, <1>2

\* The part of HistoriesLegal that is about one history.
Legal(s) == \A i \in DOMAIN s :
    /\ WellFormed(s[i])
    /\ IF i = 1 THEN s[i].state = "candidate"
       ELSE /\ <<s[i - 1].state, s[i].state>> \in Transitions
            /\ s[i].source = s[i - 1].source /\ s[i].created = s[i - 1].created

\* Every step keeps the histories legal.
LEMMA StepLegal == LedgerInv /\ [LedgerNext]_ledgerVars => HistoriesLegal'
<1> SUFFICES ASSUME LedgerInv, [LedgerNext]_ledgerVars, NEW id \in Ids PROVE Legal(history'[id])
  BY DEF HistoriesLegal, Legal
<1>1. history[id] \in Seq(Record) /\ Legal(history[id])
  BY DEF LedgerInv, LedgerTypeOK, HistoriesLegal, Legal
<1>2. CASE history'[id] = history[id]
  BY <1>1, <1>2
<1>3. CASE Propose
  <2>1. PICK i \in Ids, source \in Sources, evidence \in SUBSET Evidence, now \in Time :
          history' = [history EXCEPT ![i] = <<Candidate(source, evidence, now)>>]
    BY <1>3 DEF Propose
  <2>2. CASE i = id
    <3>1. history'[id] = <<Candidate(source, evidence, now)>>
      BY <2>1, <2>2 DEF LedgerInv, LedgerTypeOK
    <3> QED BY <3>1, Proposal DEF Legal
  <2> QED BY <1>2, <2>1, <2>2 DEF LedgerInv, LedgerTypeOK
<1>4. ASSUME NEW c \in Clients, AppendVersion(c), history'[id] # history[id]
      PROVE  Legal(history'[id])
  <2> DEFINE p == pending[c]
             v == pending[c].version
  <2>1. /\ history[p.id] = p.read /\ v # None
        /\ history' = [history EXCEPT ![p.id] = Append(history[p.id], v)]
        /\ v.source = Last(history[p.id]).source
        /\ v.created = Last(history[p.id]).created
        /\ <<Last(history[p.id]).state, v.state>> \in Transitions
    BY <1>4, AppendContinues
  <2>2. p \in Pending /\ v \in Record /\ WellFormed(v)
    BY <1>4, <2>1 DEF AppendVersion, LedgerInv, LedgerTypeOK, ReadsOK, HeldOK, Pending
  <2>3. p.id = id
    BY <1>4, <2>1, <2>2 DEF LedgerInv, LedgerTypeOK, Pending
  <2>4. history'[id] = Append(history[id], v) /\ history[id] # <<>>
    BY <2>1, <2>2, <2>3 DEF LedgerInv, LedgerTypeOK, Pending
  <2>5. Legal(Append(history[id], v))
    <3> HIDE DEF v
    <3> SUFFICES ASSUME NEW i \in DOMAIN Append(history[id], v)
                 PROVE  /\ WellFormed(Append(history[id], v)[i])
                        /\ IF i = 1 THEN Append(history[id], v)[i].state = "candidate"
                           ELSE /\ <<Append(history[id], v)[i - 1].state, Append(history[id], v)[i].state>>
                                       \in Transitions
                                /\ Append(history[id], v)[i].source = Append(history[id], v)[i - 1].source
                                /\ Append(history[id], v)[i].created = Append(history[id], v)[i - 1].created
      BY DEF Legal
    <3>1. /\ v.source = Last(history[id]).source /\ v.created = Last(history[id]).created
          /\ <<Last(history[id]).state, v.state>> \in Transitions
      BY <2>1, <2>3
    <3>2. v \in Record /\ WellFormed(v)
      BY <2>2
    <3> HIDE DEF p
    <3> QED BY <1>1, <2>4, <3>1, <3>2, AppendLegal DEF Legal
  <2> QED BY <2>4, <2>5
<1>5. CASE UNCHANGED history
  BY <1>2, <1>5
<1>6. ASSUME NEW c \in Clients,
             ReadToVerify(c) \/ ReadToReject(c) \/ ReadToSupersede(c) \/ ReadReplacement(c) \/ GiveUp(c)
      PROVE  UNCHANGED history
  BY <1>6 DEF ReadToVerify, ReadToReject, ReadToSupersede, ReadReplacement, GiveUp, Hold
<1> QED BY <1>2, <1>3, <1>4, <1>5, <1>6 DEF LedgerNext, ledgerVars

\* Every step keeps superseded knowledge replaced by what was verified.
LEMMA StepReplacements == LedgerInv /\ [LedgerNext]_ledgerVars => ReplacementsVerified'
<1> SUFFICES ASSUME LedgerInv, [LedgerNext]_ledgerVars, NEW id \in Ids, NEW i \in DOMAIN history'[id],
                    history'[id][i].state = "superseded"
             PROVE  \E k \in DOMAIN history'[history'[id][i].replacement] :
                        history'[history'[id][i].replacement][k].state = "verified"
  BY DEF ReplacementsVerified
<1> DEFINE r == history'[id][i]
<1>1. LedgerTypeOK /\ LedgerTypeOK' /\ HistoriesLegal'
  BY StepType, StepLegal DEF LedgerInv
<1>2. r \in Record /\ WellFormed(r)
  <2>1. r \in Record
    BY <1>1 DEF LedgerTypeOK
  <2>2. WellFormed(history[id][i])'
    BY <1>1 DEF HistoriesLegal
  <2> QED BY <2>1, <2>2 DEF WellFormed
<1>3. r.replacement \in Ids
  BY <1>2, ReplacementIsId
<1>4. SUFFICES \E k \in DOMAIN history[r.replacement] : history[r.replacement][k].state = "verified"
  BY <1>3, VerifiedKept
<1>5. CASE i \in DOMAIN history[id] /\ history'[id][i] = history[id][i]
  BY <1>5 DEF LedgerInv, ReplacementsVerified
<1>6. CASE history'[id] = history[id]
  BY <1>5, <1>6
<1>7. ASSUME NEW version \in Record, history'[id] = Append(history[id], version), r # version
      PROVE  i \in DOMAIN history[id] /\ history'[id][i] = history[id][i]
  BY <1>1, <1>7 DEF LedgerTypeOK
<1>8. CASE Propose
  <2>1. PICK j \in Ids, source \in Sources, evidence \in SUBSET Evidence, now \in Time :
          /\ history[j] = <<>>
          /\ history' = [history EXCEPT ![j] = <<Candidate(source, evidence, now)>>]
    BY <1>8 DEF Propose
  <2>2. CASE j = id
    <3>1. r = Candidate(source, evidence, now)
      BY <1>1, <2>1, <2>2 DEF LedgerTypeOK
    <3> QED BY <3>1, Proposal
  <2> QED BY <1>1, <1>6, <2>1, <2>2 DEF LedgerTypeOK
<1>9. ASSUME NEW c \in Clients, AppendVersion(c), history'[id] # history[id]
      PROVE  \E k \in DOMAIN history[r.replacement] : history[r.replacement][k].state = "verified"
  <2> DEFINE v == pending[c].version
  <2>1. /\ v # None /\ pending[c] # None
        /\ history' = [history EXCEPT ![pending[c].id] = Append(history[pending[c].id], v)]
    BY <1>9, AppendContinues DEF AppendVersion
  <2>2. v \in Record /\ pending[c].id \in Ids /\ HeldOK(pending[c])
    BY <1>1, <2>1 DEF LedgerInv, LedgerTypeOK, ReadsOK, Pending
  <2>3. history'[id] = Append(history[id], v)
    BY <1>1, <1>9, <2>1, <2>2 DEF LedgerTypeOK
  <2>4. CASE r = v
    BY <2>1, <2>2, <2>4 DEF HeldOK
  <2> QED BY <1>5, <1>7, <2>2, <2>3, <2>4
<1>10. ASSUME NEW c \in Clients,
              ReadToVerify(c) \/ ReadToReject(c) \/ ReadToSupersede(c) \/ ReadReplacement(c) \/ GiveUp(c)
       PROVE  UNCHANGED history
  BY <1>10 DEF ReadToVerify, ReadToReject, ReadToSupersede, ReadReplacement, GiveUp, Hold
<1> QED BY <1>6, <1>8, <1>9, <1>10 DEF LedgerNext, ledgerVars

\* The invariant holds of every reachable state.
LEMMA Invariant == LedgerSpec => []LedgerInv
<1>1. LedgerInv /\ [LedgerNext]_ledgerVars => LedgerInv'
  BY StepType, StepReads, StepLegal, StepReplacements DEF LedgerInv
<1> QED BY InitLedgerInv, <1>1, PTL DEF LedgerSpec

\* The types of the rows and of what the clients hold.
THEOREM LedgerTypeCorrect == LedgerSpec => []LedgerTypeOK
  BY Invariant, PTL DEF LedgerInv

\* append_knowledge_version and KnowledgeRecord keep every history a legal one.
THEOREM HistoriesAlwaysLegal == LedgerSpec => []HistoriesLegal
  BY Invariant, PTL DEF LedgerInv

\* The evidence of a decision under way is that of the version it is about,
\* and more; what is to be superseded has some.
HeldEvidence(p) ==
    /\ p.version = None => Last(p.read).evidence # {}
    /\ p.version # None /\ p.version.state \in {"verified", "superseded"} =>
           p.version.evidence # {} /\ Last(p.read).evidence \subseteq p.version.evidence

EvidenceInv ==
    /\ \A c \in Clients : pending[c] # None => HeldEvidence(pending[c])
    /\ FactsHaveEvidence

\* Every decision under way is given its evidence when it is read for.
LEMMA StepHeldEvidence ==
    ASSUME LedgerInv, EvidenceInv, [LedgerNext]_ledgerVars, NEW c \in Clients, pending'[c] # None
    PROVE  HeldEvidence(pending'[c])
<1>0. LedgerTypeOK
  BY DEF LedgerInv
<1>1. CASE pending'[c] = pending[c]
  BY <1>1 DEF EvidenceInv
<1>2. CASE ReadToVerify(c)
  <2>1. PICK id \in Ids, evidence \in SUBSET Evidence, now \in Time :
          /\ history[id] # <<>> /\ Last(history[id]).evidence \cup evidence # {}
          /\ Hold(c, id, Verified(Last(history[id]), evidence, now))
    BY <1>2 DEF ReadToVerify, Current
  <2> DEFINE version == Verified(Last(history[id]), evidence, now)
  <2>2. Last(history[id]) \in Record
    BY <1>0, <2>1, LastIsRecord
  <2>3. version \in Record /\ version.evidence = Last(history[id]).evidence \cup evidence
    BY <2>2, VerifiedIsRecord DEF Verified, Record
  <2> HIDE DEF version
  <2>4. pending'[c] = [id |-> id, read |-> history[id], version |-> version]
    BY <1>0, <2>1 DEF Hold, LedgerTypeOK, version
  <2>5. pending'[c].version = version /\ pending'[c].read = history[id]
    BY <2>4
  <2>6. version # None
    BY <2>1, NoneIsNoRecord, <2>3
  <2> QED BY <2>1, <2>3, <2>5, <2>6 DEF HeldEvidence
<1>3. CASE ReadToReject(c)
  <2>1. PICK id \in Ids, now \in Time :
          history[id] # <<>> /\ Hold(c, id, Rejected(Last(history[id]), now))
    BY <1>3 DEF ReadToReject, Current
  <2>2. /\ Rejected(Last(history[id]), now) \in Record
        /\ Rejected(Last(history[id]), now).state = "rejected"
    BY <1>0, <2>1, LastIsRecord, RejectedIsRecord
  <2>3. pending'[c].version = Rejected(Last(history[id]), now)
    BY <1>0, <2>1 DEF Hold, LedgerTypeOK
  <2> QED BY <2>2, <2>3, NoneIsNoRecord DEF HeldEvidence
<1>4. CASE ReadToSupersede(c)
  <2>1. PICK id \in Ids :
          /\ Current(id, "verified")
          /\ pending' = [pending EXCEPT ![c] = [id |-> id, read |-> history[id], version |-> None]]
    BY <1>4 DEF ReadToSupersede
  <2>2. pending'[c].version = None /\ pending'[c].read = history[id]
    BY <1>0, <2>1 DEF LedgerTypeOK
  <2>3. Last(history[id]).evidence # {}
    BY <1>0, <2>1, LastOfHistory DEF Current, EvidenceInv, FactsHaveEvidence, LedgerTypeOK
  <2> QED BY <2>2, <2>3 DEF HeldEvidence
<1>5. CASE ReadReplacement(c)
  <2>1. PICK id \in Ids, now \in Time :
          /\ Current(id, "verified")
          /\ pending' = [pending EXCEPT ![c].version =
                            Superseded(Last(pending[c].read), id, Last(history[id]), now)]
    BY <1>5 DEF ReadReplacement
  <2>2. pending[c] \in Pending /\ Last(pending[c].read).evidence # {}
    BY <1>0, <1>5 DEF ReadReplacement, LedgerTypeOK, EvidenceInv, HeldEvidence
  <2>3. Last(pending[c].read) \in Record /\ Last(history[id]) \in Record
    BY <1>0, <2>1, <2>2, LastOfHistory DEF Pending, LedgerTypeOK, Current
  <2> DEFINE version == Superseded(Last(pending[c].read), id, Last(history[id]), now)
  <2>4. /\ version \in Record
        /\ version.evidence = Last(pending[c].read).evidence \cup Last(history[id]).evidence
    BY <2>3, SupersededIsRecord DEF Superseded, Record
  <2> HIDE DEF version
  <2>5. pending'[c] = [pending[c] EXCEPT !.version = version]
    BY <1>0, <2>1 DEF LedgerTypeOK, version
  <2>6. pending'[c].version = version /\ pending'[c].read = pending[c].read
    BY <2>2, <2>5 DEF Pending
  <2> QED BY <2>2, <2>4, <2>6, NoneIsNoRecord DEF HeldEvidence
<1>6. CASE GiveUp(c) \/ AppendVersion(c)
  BY <1>0, <1>6 DEF GiveUp, AppendVersion, LedgerTypeOK
<1>7. CASE Propose \/ UNCHANGED ledgerVars
  BY <1>1, <1>7 DEF Propose, ledgerVars
<1>8. ASSUME NEW b \in Clients, b # c,
             ReadToVerify(b) \/ ReadToReject(b) \/ ReadToSupersede(b)
             \/ ReadReplacement(b) \/ GiveUp(b) \/ AppendVersion(b)
      PROVE  pending'[c] = pending[c]
  BY <1>0, <1>8 DEF LedgerTypeOK, ReadToVerify, ReadToReject, ReadToSupersede, ReadReplacement,
                    GiveUp, AppendVersion, Hold
<1> QED BY <1>1, <1>2, <1>3, <1>4, <1>5, <1>6, <1>7, <1>8 DEF LedgerNext

\* The part of FactsHaveEvidence that is about one history.
Evident(s) == \A i \in DOMAIN s : s[i].state \in {"verified", "superseded"} =>
    s[i].evidence # {} /\ s[i - 1].evidence \subseteq s[i].evidence

\* A version that is appended with the evidence there was keeps it so.
LEMMA AppendEvident ==
    ASSUME NEW s \in Seq(Record), NEW v \in Record, s # <<>>, Evident(s), s[1].state = "candidate",
           v.state \in {"verified", "superseded"} =>
               v.evidence # {} /\ Last(s).evidence \subseteq v.evidence
    PROVE  Evident(Append(s, v))
<1> SUFFICES ASSUME NEW i \in DOMAIN Append(s, v), Append(s, v)[i].state \in {"verified", "superseded"}
             PROVE  /\ Append(s, v)[i].evidence # {}
                    /\ Append(s, v)[i - 1].evidence \subseteq Append(s, v)[i].evidence
  BY DEF Evident
<1>1. CASE i \in DOMAIN s
  <2>1. Append(s, v)[i] = s[i] /\ i # 1 /\ Append(s, v)[i - 1] = s[i - 1]
    BY <1>1
  <2> QED BY <1>1, <2>1 DEF Evident
<1>2. CASE i = Len(s) + 1
  <2>1. Append(s, v)[i] = v /\ Append(s, v)[i - 1] = Last(s)
    BY <1>2, LastOfHistory
  <2> QED BY <2>1
<1> QED BY <1>1, <1>2

\* Every step keeps the evidence of what counts as a fact.
LEMMA StepEvident ==
    ASSUME LedgerInv, EvidenceInv, [LedgerNext]_ledgerVars, NEW id \in Ids
    PROVE  Evident(history'[id])
<1>1. history[id] \in Seq(Record) /\ Evident(history[id])
  BY DEF LedgerInv, LedgerTypeOK, EvidenceInv, FactsHaveEvidence, Evident
<1>2. CASE history'[id] = history[id]
  BY <1>1, <1>2
<1>3. CASE Propose
  <2>1. PICK i \in Ids, source \in Sources, evidence \in SUBSET Evidence, now \in Time :
          history' = [history EXCEPT ![i] = <<Candidate(source, evidence, now)>>]
    BY <1>3 DEF Propose
  <2>2. CASE i = id
    <3>1. history'[id] = <<Candidate(source, evidence, now)>>
      BY <2>1, <2>2 DEF LedgerInv, LedgerTypeOK
    <3> QED BY <3>1, Proposal DEF Evident
  <2> QED BY <1>2, <2>1, <2>2 DEF LedgerInv, LedgerTypeOK
<1>4. ASSUME NEW c \in Clients, AppendVersion(c), history'[id] # history[id]
      PROVE  Evident(history'[id])
  <2> DEFINE p == pending[c]
             v == pending[c].version
  <2>1. /\ history[p.id] = p.read /\ v # None
        /\ history' = [history EXCEPT ![p.id] = Append(history[p.id], v)]
    BY <1>4, AppendContinues
  <2>2. p \in Pending /\ v \in Record /\ HeldEvidence(p)
    BY <1>4, <2>1 DEF AppendVersion, LedgerInv, LedgerTypeOK, EvidenceInv, Pending
  <2>3. p.id = id
    BY <1>4, <2>1, <2>2 DEF LedgerInv, LedgerTypeOK, Pending
  <2>4. /\ history'[id] = Append(history[id], v) /\ history[id] # <<>>
        /\ history[id] = p.read
    BY <2>1, <2>2, <2>3 DEF LedgerInv, LedgerTypeOK, Pending
  <2>5. history[id][1].state = "candidate"
    <3>1. history[id] # <<>>
      BY <2>4
    <3>2. 1 \in DOMAIN history[id]
      BY <1>1, <3>1
    <3> QED BY <3>2 DEF LedgerInv, HistoriesLegal
  <2>6. v.state \in {"verified", "superseded"} =>
          v.evidence # {} /\ Last(history[id]).evidence \subseteq v.evidence
    BY <2>1, <2>2, <2>4 DEF HeldEvidence
  <2>7. v \in Record
    BY <2>2
  <2> HIDE DEF p, v
  <2>8. Evident(Append(history[id], v))
    BY <1>1, <2>4, <2>5, <2>6, <2>7, AppendEvident
  <2> QED BY <2>4, <2>8
<1>5. CASE UNCHANGED history
  BY <1>2, <1>5
<1>6. ASSUME NEW c \in Clients,
             ReadToVerify(c) \/ ReadToReject(c) \/ ReadToSupersede(c) \/ ReadReplacement(c) \/ GiveUp(c)
      PROVE  UNCHANGED history
  BY <1>6 DEF ReadToVerify, ReadToReject, ReadToSupersede, ReadReplacement, GiveUp, Hold
<1> QED BY <1>2, <1>3, <1>4, <1>5, <1>6 DEF LedgerNext, ledgerVars

\* supersede never replaces knowledge by something that was not verified, and
\* neither verify nor supersede leaves a fact without the evidence it had.
THEOREM FactsAlwaysHold == LedgerSpec => []FactsHold
<1>1. LedgerInit => EvidenceInv
  BY DEF LedgerInit, EvidenceInv, FactsHaveEvidence
<1>2. LedgerInv /\ EvidenceInv /\ [LedgerNext]_ledgerVars => EvidenceInv'
  <2>1. SUFFICES ASSUME LedgerInv, EvidenceInv, [LedgerNext]_ledgerVars PROVE EvidenceInv'
    OBVIOUS
  <2>2. \A c \in Clients : pending'[c] # None => HeldEvidence(pending'[c])
    BY <2>1, StepHeldEvidence
  <2>3. \A id \in Ids : Evident(history'[id])
    BY <2>1, StepEvident
  <2> QED BY <2>2, <2>3 DEF EvidenceInv, FactsHaveEvidence, Evident, HeldEvidence
<1>3. LedgerInv /\ EvidenceInv => FactsHold
  BY DEF LedgerInv, EvidenceInv, FactsHold
<1> QED BY Invariant, <1>1, <1>2, <1>3, PTL DEF LedgerSpec

\* A decision that another client's decision has overtaken has no effect.
THEOREM DecisionsContinueTheRead == LedgerSpec => DecisionsOnWhatWasRead
<1>1. ASSUME LedgerInv, [LedgerNext]_ledgerVars, NEW c \in Clients, pending[c] # None, pending'[c] = None, history' # history
      PROVE  history[pending[c].id] = pending[c].read
  <2>0. LedgerTypeOK
    BY <1>1 DEF LedgerInv
  <2>1. CASE AppendVersion(c)
    BY <1>1, <2>1, AppendContinues
  <2>2. ASSUME NEW b \in Clients, b # c, AppendVersion(b)
        PROVE  FALSE
    BY <1>1, <2>0, <2>2 DEF AppendVersion, LedgerTypeOK
  <2>3. ASSUME NEW b \in Clients,
               ReadToVerify(b) \/ ReadToReject(b) \/ ReadToSupersede(b) \/ ReadReplacement(b) \/ GiveUp(b)
        PROVE  UNCHANGED history
    BY <2>3 DEF ReadToVerify, ReadToReject, ReadToSupersede, ReadReplacement, GiveUp, Hold
  <2>4. CASE Propose
    BY <1>1, <2>4 DEF Propose
  <2> QED BY <1>1, <2>1, <2>2, <2>3, <2>4 DEF LedgerNext, ledgerVars
<1>2. LedgerInv /\ [LedgerNext]_ledgerVars => [\A c \in Clients :
          pending[c] # None /\ pending'[c] = None /\ history' # history =>
              history[pending[c].id] = pending[c].read]_ledgerVars
  BY <1>1
<1> QED BY Invariant, <1>2, PTL DEF LedgerSpec, DecisionsOnWhatWasRead

\* No client, whatever the others do, changes or drops a version.
THEOREM HistoriesOnlyGrow == LedgerSpec => HistoryAppendOnly
<1>1. ASSUME LedgerInv, [LedgerNext]_ledgerVars, NEW id \in Ids
      PROVE  IsPrefix(history[id], history'[id])
  <2>1. history[id] \in Seq(Record) /\ HistoryGrows(id)
    BY <1>1, StepHistoryGrows DEF LedgerInv, LedgerTypeOK
  <2>2. CASE history'[id] = history[id]
    BY <2>1, <2>2 DEF IsPrefix
  <2>3. ASSUME NEW version \in Record, history'[id] = Append(history[id], version)
        PROVE  IsPrefix(history[id], history'[id])
    BY <2>1, <2>3 DEF IsPrefix
  <2> QED BY <2>1, <2>2, <2>3 DEF HistoryGrows
<1>2. LedgerInv /\ [LedgerNext]_ledgerVars => [\A id \in Ids : IsPrefix(history[id], history'[id])]_ledgerVars
  BY <1>1
<1> QED BY Invariant, <1>2, PTL DEF LedgerSpec, HistoryAppendOnly

(****************************************************************************)
(* Every decision is made of what was read some time before it is appended. *)
(* KnowledgeFacts has no such time: the two agree because a history has one *)
(* version for each stage of a piece of knowledge, so that a history which  *)
(* still has the length that was read is still at the stage that was read.  *)
(****************************************************************************)

\* What a client holds is a decision on the version it has read last, or, of
\* one to be superseded, has still to be made; the replacement was verified in
\* these histories.
HeldDecision(p, histories) == LET r == Last(p.read) IN
    \/ r.state = "verified" /\ p.version = None
    \/ /\ r.state = "candidate"
       /\ \E e \in SUBSET Evidence, now \in Time :
              r.evidence \cup e # {} /\ p.version = Verified(r, e, now)
    \/ /\ r.state = "candidate"
       /\ \E now \in Time : p.version = Rejected(r, now)
    \/ /\ r.state = "verified"
       /\ \E id \in Ids \ {p.id}, now \in Time : \E k \in DOMAIN histories[id] :
              /\ histories[id][k].state = "verified"
              /\ p.version = Superseded(r, id, histories[id][k], now)

DecisionsMade == \A c \in Clients : pending[c] # None => HeldDecision(pending[c], history)

\* A piece of knowledge goes through its stages in order, one version each.
LEMMA Stages ==
    ASSUME LedgerInv, NEW id \in Ids, NEW i \in DOMAIN history[id]
    PROVE  \/ i = 1 /\ history[id][i].state = "candidate"
           \/ i = 2 /\ history[id][i].state \in {"verified", "rejected"}
           \/ i = 3 /\ history[id][i].state = "superseded"
<1> DEFINE s == history[id]
<1>1. s \in Seq(Record) /\ i \in 1..Len(s)
  BY DEF LedgerInv, LedgerTypeOK
<1>2. \A j \in DOMAIN s : IF j = 1 THEN s[j].state = "candidate"
                          ELSE <<s[j - 1].state, s[j].state>> \in Transitions
  BY DEF LedgerInv, HistoriesLegal
<1> HIDE DEF s
<1>3. DOMAIN s = 1..Len(s) /\ Len(s) \in Nat
  BY <1>1
<1>4. 1 \in DOMAIN s => s[1].state = "candidate"
  BY <1>2
<1>5. \A j \in DOMAIN s : j # 1 => j - 1 \in DOMAIN s /\ <<s[j - 1].state, s[j].state>> \in Transitions
  BY <1>2, <1>3
<1>6. 2 \in DOMAIN s => s[2].state \in {"verified", "rejected"}
  <2> HAVE 2 \in DOMAIN s
  <2>1. <<s[1].state, s[2].state>> \in Transitions /\ s[1].state = "candidate"
    BY <1>4, <1>5
  <2> QED BY <2>1 DEF Transitions
<1>7. 3 \in DOMAIN s => s[3].state = "superseded"
  <2> HAVE 3 \in DOMAIN s
  <2>1. <<s[2].state, s[3].state>> \in Transitions /\ s[2].state \in {"verified", "rejected"}
    BY <1>5, <1>6
  <2> QED BY <2>1 DEF Transitions
<1>8. 4 \notin DOMAIN s
  <2> SUFFICES ASSUME 4 \in DOMAIN s PROVE FALSE
    OBVIOUS
  <2>1. <<s[3].state, s[4].state>> \in Transitions /\ s[3].state = "superseded"
    BY <1>5, <1>7
  <2> QED BY <2>1 DEF Transitions
<1>9. i \in {1, 2, 3}
  BY <1>1, <1>3, <1>8
<1> QED BY <1>1, <1>3, <1>4, <1>6, <1>7, <1>9 DEF s

\* Where a version that is appended is.
LEMMA AppendAt ==
    ASSUME NEW s \in Seq(Record), NEW v \in Record
    PROVE  Append(s, v)[Len(s) + 1] = v /\ \A i \in 1..Len(s) : Append(s, v)[i] = s[i]
  OBVIOUS

\* What is known of a history is told by its last version.
LEMMA FactOfGrown ==
    ASSUME NEW s \in Seq(Record), NEW v \in Record
    PROVE  Fact(Append(s, v)) =
               [state |-> v.state, evidence |-> v.evidence, by |-> v.replacement,
                grounds |-> IF v.state \in {"verified", "superseded"} THEN Append(s, v)[2].evidence ELSE {}]
<1>1. Append(s, v) # <<>> /\ Last(Append(s, v)) = v
  BY DEF Last
<1> QED BY <1>1 DEF Fact

\* Of a history that is there, likewise.
LEMMA FactOfLast ==
    ASSUME NEW s \in Seq(Record), s # <<>>
    PROVE  Fact(s) =
               [state |-> Last(s).state, evidence |-> Last(s).evidence, by |-> Last(s).replacement,
                grounds |-> IF Last(s).state \in {"verified", "superseded"} THEN s[2].evidence ELSE {}]
  BY DEF Fact

\* No knowledge is known at first.
LEMMA FactsInit == LedgerInit => Facts!Init
  BY DEF LedgerInit, Facts!Init, Facts!Unknown, Facts!Fact, known, Fact

\* One history that changes is one fact that does.
LEMMA KnownBecomes ==
    ASSUME NEW id \in Ids, NEW s, history \in [Ids -> Seq(Record)],
           history' = [history EXCEPT ![id] = s]
    PROVE  Facts!Become(id, Fact(s))
  BY DEF Facts!Become, known

\* A proposal is one.
LEMMA ProposeRefines ==
    ASSUME LedgerInv, Propose
    PROVE  Facts!Next
<1>1. PICK id \in Ids, source \in Sources, evidence \in SUBSET Evidence, now \in Time :
        /\ history[id] = <<>>
        /\ history' = [history EXCEPT ![id] = <<Candidate(source, evidence, now)>>]
  BY DEF Propose
<1>2. Facts!Become(id, Fact(<<Candidate(source, evidence, now)>>))
  BY <1>1, KnownBecomes DEF LedgerInv, LedgerTypeOK
<1>3. Fact(<<Candidate(source, evidence, now)>>) =
          [state |-> "candidate", evidence |-> evidence, grounds |-> {}, by |-> None]
  BY DEF Fact, Last, Candidate
<1>4. known[id] = Facts!Unknown
  BY <1>1 DEF known, Fact, Facts!Unknown, Facts!Fact
<1>5. Facts!Propose(id)
  BY <1>2, <1>3, <1>4 DEF Facts!Propose, Facts!Fact
<1> QED BY <1>5 DEF Facts!Next

\* And a version that the store accepts is one decision, on the fact as it is.
LEMMA AppendRefines ==
    ASSUME LedgerInv, DecisionsMade, NEW c \in Clients, AppendVersion(c), history' # history
    PROVE  Facts!Next
<1>1. PICK id, v, s : id = pending[c].id /\ v = pending[c].version /\ s = pending[c].read
  OBVIOUS
<1>2. /\ pending[c] \in Pending /\ HeldDecision(pending[c], history)
      /\ history[id] = s /\ v # None /\ history' = [history EXCEPT ![id] = Append(s, v)]
  BY <1>1, AppendContinues DEF AppendVersion, DecisionsMade, LedgerInv, LedgerTypeOK
<1>3. id \in Ids /\ v \in Record /\ s \in Seq(Record) /\ s # <<>>
  BY <1>1, <1>2 DEF Pending
<1> DEFINE r == Last(s)
<1>4. r \in Record /\ Len(s) \in DOMAIN s /\ r = s[Len(s)] /\ WellFormed(r)
  BY <1>2, <1>3, LastOfHistory DEF LedgerInv, HistoriesLegal
<1>5. known[id] = [state |-> r.state, evidence |-> r.evidence, by |-> r.replacement,
                   grounds |-> IF r.state \in {"verified", "superseded"} THEN s[2].evidence ELSE {}]
  BY <1>2, <1>3, FactOfLast DEF known
<1>6. Facts!Become(id, [state |-> v.state, evidence |-> v.evidence, by |-> v.replacement,
                        grounds |-> IF v.state \in {"verified", "superseded"}
                                    THEN Append(s, v)[2].evidence ELSE {}])
  BY <1>2, <1>3, KnownBecomes, FactOfGrown DEF LedgerInv, LedgerTypeOK
<1>7. \/ Len(s) = 1 /\ r.state = "candidate"
      \/ Len(s) = 2 /\ r.state \in {"verified", "rejected"}
      \/ Len(s) = 3 /\ r.state = "superseded"
  <2>1. Len(s) \in DOMAIN history[id] /\ history[id][Len(s)] = r
    BY <1>2, <1>4
  <2> QED BY <1>3, <2>1, Stages
<1>8. r.state = "candidate" => r.replacement = None
  BY <1>4 DEF WellFormed
<1> HIDE DEF r
<1>9. ASSUME r.state = "candidate", NEW e \in SUBSET Evidence, NEW now \in Time,
             r.evidence \cup e # {}, v = Verified(r, e, now)
      PROVE  Facts!Verify(id)
  <2>1. v.state = "verified" /\ v.evidence = r.evidence \cup e /\ v.replacement = None
    BY <1>4, <1>8, <1>9 DEF Verified, Record
  <2>2. Append(s, v)[2] = v
    <3>1. Len(s) = 1
      BY <1>7, <1>9
    <3>2. Append(s, v)[Len(s) + 1] = v
      BY <1>3, AppendAt
    <3>3. Len(s) + 1 = 2
      BY <3>1
    <3> QED BY <3>2, <3>3
  <2>3. r.evidence \in SUBSET Evidence
    BY <1>4 DEF Record
  <2>4. PICK ev \in SUBSET Evidence : ev = r.evidence \cup e
    BY <2>3
  <2>5. Facts!Become(id, Facts!Fact("verified", ev, ev, None))
    BY <1>6, <2>1, <2>2, <2>4 DEF Facts!Fact
  <2>6. known[id].state = "candidate" /\ known[id].evidence \subseteq ev /\ ev # {}
    BY <1>5, <1>9, <2>4
  <2> QED BY <2>5, <2>6 DEF Facts!Verify
<1>10. ASSUME r.state = "candidate", NEW now \in Time, v = Rejected(r, now)
       PROVE  Facts!Reject(id)
  <2>1. v.state = "rejected" /\ v.evidence = r.evidence /\ v.replacement = None
    BY <1>4, <1>8, <1>10 DEF Rejected, Record
  <2>2. Facts!Become(id, Facts!Fact("rejected", r.evidence, {}, None))
    BY <1>6, <2>1 DEF Facts!Fact
  <2>3. known[id].state = "candidate" /\ known[id].evidence = r.evidence
    BY <1>5, <1>10
  <2> QED BY <2>2, <2>3 DEF Facts!Reject
<1>11. ASSUME r.state = "verified", NEW j \in Ids \ {id}, NEW now \in Time, NEW k \in DOMAIN history[j],
              history[j][k].state = "verified", v = Superseded(r, j, history[j][k], now)
       PROVE  Facts!Supersede(id, j)
  <2>1. PICK t : t = history[j] /\ t \in Seq(Record)
    BY DEF LedgerInv, LedgerTypeOK
  <2>2. k = 2 /\ t # <<>>
    BY <1>11, <2>1, Stages
  <2>3. v.state = "superseded" /\ v.evidence = r.evidence \cup t[2].evidence /\ v.replacement = j
    BY <1>4, <1>11, <2>1, <2>2 DEF Superseded, Record
  <2>4. Append(s, v)[2] = s[2]
    <3>1. Len(s) = 2
      BY <1>7, <1>11
    <3>2. \A i \in 1..Len(s) : Append(s, v)[i] = s[i]
      BY <1>3, AppendAt
    <3>3. 2 \in 1..Len(s)
      BY <3>1
    <3> QED BY <3>2, <3>3
  <2>5. Last(t).state \in {"verified", "superseded"}
    <3>1. Len(t) \in DOMAIN t /\ Last(t) = t[Len(t)] /\ Len(t) # 1
      BY <1>11, <2>1, <2>2, LastOfHistory
    <3>2. Len(t) = 2 => Last(t) = t[2]
      BY <3>1
    <3> QED BY <1>11, <2>1, <2>2, <3>1, <3>2, Stages
  <2>6. known[j].state = Last(t).state /\ known[j].grounds = t[2].evidence
    BY <2>1, <2>2, <2>5, FactOfLast DEF known
  <2>7. known[id].state = "verified" /\ known[id].evidence = r.evidence /\ known[id].grounds = s[2].evidence
    BY <1>5, <1>11
  <2>8. Facts!Become(id, Facts!Fact("superseded", r.evidence \cup t[2].evidence, s[2].evidence, j))
    BY <1>6, <2>3, <2>4 DEF Facts!Fact
  <2> QED BY <1>11, <2>5, <2>6, <2>7, <2>8 DEF Facts!Supersede
<1>12. Facts!Verify(id) \/ Facts!Reject(id) \/ \E j \in Ids : Facts!Supersede(id, j)
  BY <1>1, <1>2, <1>9, <1>10, <1>11 DEF HeldDecision, r
<1> QED BY <1>3, <1>12 DEF Facts!Next

\* Every step keeps the decisions that clients hold such ones.
LEMMA StepDecisions ==
    ASSUME LedgerInv, DecisionsMade, [LedgerNext]_ledgerVars, NEW c \in Clients, pending'[c] # None
    PROVE  HeldDecision(pending'[c], history')
<1>0. LedgerTypeOK
  BY DEF LedgerInv
<1>1. CASE pending'[c] = pending[c]
  <2>1. \A id \in Ids : \A k \in DOMAIN history[id] :
            k \in DOMAIN history'[id] /\ history'[id][k] = history[id][k]
    BY <1>0, StepHistoryGrows, PastKept DEF LedgerTypeOK
  <2>2. HeldDecision(pending[c], history)
    BY <1>1 DEF DecisionsMade
  <2>3. ASSUME NEW id \in Ids \ {pending[c].id}, NEW now \in Time, NEW k \in DOMAIN history[id],
               history[id][k].state = "verified",
               pending[c].version = Superseded(Last(pending[c].read), id, history[id][k], now)
        PROVE  /\ k \in DOMAIN history'[id] /\ history'[id][k].state = "verified"
               /\ pending[c].version = Superseded(Last(pending[c].read), id, history'[id][k], now)
    BY <2>1, <2>3
  <2> QED BY <1>1, <2>2, <2>3 DEF HeldDecision
<1>2. CASE ReadToVerify(c)
  <2>1. PICK id \in Ids, evidence \in SUBSET Evidence, now \in Time :
          /\ Last(history[id]).state = "candidate"
          /\ Last(history[id]).evidence \cup evidence # {}
          /\ Hold(c, id, Verified(Last(history[id]), evidence, now))
    BY <1>2 DEF ReadToVerify, Current
  <2>2. /\ pending'[c].read = history[id]
        /\ pending'[c].version = Verified(Last(history[id]), evidence, now)
    BY <1>0, <2>1 DEF Hold, LedgerTypeOK
  <2> QED BY <2>1, <2>2 DEF HeldDecision
<1>3. CASE ReadToReject(c)
  <2>1. PICK id \in Ids, now \in Time :
          /\ Last(history[id]).state = "candidate"
          /\ Hold(c, id, Rejected(Last(history[id]), now))
    BY <1>3 DEF ReadToReject, Current
  <2>2. pending'[c].read = history[id] /\ pending'[c].version = Rejected(Last(history[id]), now)
    BY <1>0, <2>1 DEF Hold, LedgerTypeOK
  <2> QED BY <2>1, <2>2 DEF HeldDecision
<1>4. CASE ReadToSupersede(c)
  <2>1. PICK id \in Ids :
          /\ Current(id, "verified")
          /\ pending' = [pending EXCEPT ![c] = [id |-> id, read |-> history[id], version |-> None]]
    BY <1>4 DEF ReadToSupersede
  <2>2. pending'[c].version = None /\ pending'[c].read = history[id]
    BY <1>0, <2>1 DEF LedgerTypeOK
  <2> QED BY <2>1, <2>2 DEF HeldDecision, Current
<1>5. CASE ReadReplacement(c)
  <2>1. PICK id \in Ids \ {pending[c].id}, now \in Time :
          /\ Current(id, "verified")
          /\ pending' = [pending EXCEPT ![c].version =
                            Superseded(Last(pending[c].read), id, Last(history[id]), now)]
          /\ UNCHANGED history
    BY <1>5 DEF ReadReplacement
  <2>2. /\ pending[c] \in Pending /\ pending[c].version = None
        /\ HeldDecision(pending[c], history)
    BY <1>0, <1>5 DEF ReadReplacement, LedgerTypeOK, DecisionsMade
  <2>3. Len(history[id]) \in DOMAIN history[id] /\ Last(history[id]) = history[id][Len(history[id])]
    BY <1>0, <2>1, LastOfHistory DEF LedgerTypeOK, Current
  <2>4. Last(pending[c].read) \in Record
    BY <2>2, LastOfHistory DEF Pending
  <2> DEFINE r == Last(pending[c].read)
             version == Superseded(r, id, Last(history[id]), now)
  <2>5. r.state = "verified"
    <3>1. \A e \in SUBSET Evidence, t \in Time : Verified(r, e, t) # None /\ Rejected(r, t) # None
      BY <2>4, VerifiedIsRecord, RejectedIsRecord, NoneIsNoRecord
    <3> QED BY <2>2, <3>1 DEF HeldDecision
  <2> HIDE DEF version
  <2>6. pending'[c] = [pending[c] EXCEPT !.version = version]
    BY <1>0, <2>1 DEF LedgerTypeOK, version
  <2>7. /\ pending'[c].version = version /\ pending'[c].read = pending[c].read
        /\ pending'[c].id = pending[c].id
    BY <2>2, <2>6 DEF Pending
  <2>8. Last(history[id]).state = "verified" /\ history' = history
    BY <2>1 DEF Current
  <2> QED BY <2>3, <2>5, <2>7, <2>8 DEF HeldDecision, version
<1>6. CASE GiveUp(c) \/ AppendVersion(c)
  BY <1>0, <1>6 DEF GiveUp, AppendVersion, LedgerTypeOK
<1>7. CASE Propose \/ UNCHANGED ledgerVars
  BY <1>1, <1>7 DEF Propose, ledgerVars
<1>8. ASSUME NEW b \in Clients, b # c,
             ReadToVerify(b) \/ ReadToReject(b) \/ ReadToSupersede(b)
             \/ ReadReplacement(b) \/ GiveUp(b) \/ AppendVersion(b)
      PROVE  pending'[c] = pending[c]
  BY <1>0, <1>8 DEF LedgerTypeOK, ReadToVerify, ReadToReject, ReadToSupersede, ReadReplacement,
                    GiveUp, AppendVersion, Hold
<1> QED BY <1>1, <1>2, <1>3, <1>4, <1>5, <1>6, <1>7, <1>8 DEF LedgerNext

\* A decision read in one transaction and appended in another one, among the
\* decisions of any number of clients, is as good as one made at once.
THEOREM LedgerImplementsFacts == LedgerSpec => DecidesAtOnce
<1>1. LedgerInit => DecisionsMade
  BY DEF LedgerInit, DecisionsMade
<1>2. LedgerInv /\ DecisionsMade /\ [LedgerNext]_ledgerVars => DecisionsMade'
  BY StepDecisions DEF DecisionsMade
<1>3. LedgerInv /\ DecisionsMade /\ [LedgerNext]_ledgerVars => [Facts!Next]_known
  <2> SUFFICES ASSUME LedgerInv, DecisionsMade, [LedgerNext]_ledgerVars
               PROVE  [Facts!Next]_known
    OBVIOUS
  <2>1. CASE history' = history
    BY <2>1 DEF known
  <2>2. ASSUME NEW c \in Clients,
               ReadToVerify(c) \/ ReadToReject(c) \/ ReadToSupersede(c) \/ ReadReplacement(c) \/ GiveUp(c)
        PROVE  history' = history
    BY <2>2 DEF ReadToVerify, ReadToReject, ReadToSupersede, ReadReplacement, GiveUp, Hold
  <2>3. CASE Propose
    BY <2>3, ProposeRefines
  <2>4. ASSUME NEW c \in Clients, AppendVersion(c), history' # history
        PROVE  Facts!Next
    BY <2>4, AppendRefines
  <2> QED BY <2>1, <2>2, <2>3, <2>4 DEF LedgerNext, ledgerVars
<1> QED BY FactsInit, Invariant, <1>1, <1>2, <1>3, PTL DEF LedgerSpec, DecidesAtOnce, Facts!Spec
==============================================================================
