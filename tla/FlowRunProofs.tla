--------------------------- MODULE FlowRunProofs ---------------------------
(****************************************************************************)
(* What holds of FlowRun for any inputs, any number of errors, database     *)
(* faults and planner waits, and a cancellation or a crash at any moment.   *)
(****************************************************************************)
EXTENDS FlowRun, FlowScriptProofs, WellFoundedInduction, TLAPS

(* A set of positions of a log has a greatest element.                      *)
LEMMA GreatestPosition ==
    ASSUME NEW n \in Nat, NEW S \in SUBSET (1..n), S # {}
    PROVE  Max(S) \in S /\ \A j \in S : j <= Max(S)
<1> DEFINE Below == {n - i : i \in S}
<1>1. Below \subseteq Nat /\ Below # {}
  <2>1. \A i \in S : n - i \in Nat
    OBVIOUS
  <2>2. PICK e \in S : TRUE
    OBVIOUS
  <2>3. n - e \in Below
    OBVIOUS
  <2> QED  BY <2>1, <2>3
<1>2. PICK m \in Below : \A k \in Below : <<k, m>> \notin OpToRel(<, Nat)
  BY <1>1, NatLessThanWellFounded, WFMin
<1>3. \A k \in Below : ~(k < m)
  BY <1>1, <1>2 DEF OpToRel
<1>4. PICK i \in S : m = n - i
  OBVIOUS
<1>5. \A j \in S : i >= j
  <2> TAKE j \in S
  <2>1. n - j \in Below
    OBVIOUS
  <2> QED  BY <1>3, <1>4, <2>1
<1> QED  BY <1>5 DEF Max

(* The operations of the script are well formed.                            *)
LEMMA ScriptType ==
    ASSUME TypeOK
    PROVE  /\ script \in Seq(Op) /\ Len(script) \in Nat /\ DOMAIN script = 1..Len(script)
           /\ at \in Nat \ {0}
           /\ at <= Len(script) => at \in DOMAIN script /\ script[at].ref \in Ref
           /\ \A i \in DOMAIN script : script[i].do = "emit" =>
                  /\ script[i].kind \in Reports
                  /\ script[i].kind \in Announcements => \E j \in 1..(i - 1) :
                         script[j].do = "save" /\ script[j].ref = script[i].ref
<1>1. inputs \in Inputs /\ at \in Nat \ {0}
  BY DEF TypeOK
<1>2. script \in Seq(Op) /\ Announces(script)
  BY <1>1, ScriptPieces, InputsOK DEF Scripts, script, Pieces
<1>3. Len(script) \in Nat /\ DOMAIN script = 1..Len(script) /\ \A i \in DOMAIN script : script[i] \in Op
  BY <1>2
<1>4. \A op \in Op : op.ref \in Ref
  BY DEF Op
<1>5. at <= Len(script) => at \in DOMAIN script
  BY <1>1, <1>3
<1>6. \A i \in DOMAIN script : script[i].do = "emit" =>
          /\ script[i].kind \in Reports
          /\ script[i].kind \in Announcements => \E j \in 1..(i - 1) :
                 script[j].do = "save" /\ script[j].ref = script[i].ref
  BY <1>2 DEF Announces
<1> QED  BY <1>1, <1>2, <1>3, <1>4, <1>5, <1>6

\* The parts of an event are of their types.
LEMMA EventType ==
    ASSUME NEW e \in Event
    PROVE  e.kind \in Reports \cup EndKinds /\ e.ref \in Ref /\ e.cause \in Nat
BY DEF Event

\* A log is a sequence of events.
LEMMA LogType ==
    ASSUME TypeOK
    PROVE  /\ log \in Seq(Event) /\ Len(log) \in Nat /\ DOMAIN log = 1..Len(log)
           /\ \A i \in DOMAIN log : log[i] \in Event
<1>1. log \in Seq(Event)
  BY DEF TypeOK
<1> QED  BY <1>1

\* What the engine gives as the cause of an event is a number.
LEMMA CauseType ==
    ASSUME TypeOK, NEW kind, NEW ref
    PROVE  Cause(kind, ref) \in Nat
<1>1. CASE kind \in Answers /\ Calls(ref) # {}
  <2>1. Calls(ref) \in SUBSET (1..Len(log)) /\ Len(log) \in Nat
    BY LogType DEF Calls
  <2>2. Max(Calls(ref)) \in Calls(ref)
    BY <1>1, <2>1, GreatestPosition
  <2> QED  BY <1>1, <2>1, <2>2 DEF Cause
<1>2. CASE ~(kind \in Answers /\ Calls(ref) # {})
  BY <1>2, LogType DEF Cause
<1> QED  BY <1>1, <1>2

(* An emitted event keeps the log's type and every earlier event.           *)
LEMMA EmitsType ==
    ASSUME TypeOK, NEW kind \in Reports \cup EndKinds, NEW ref \in Ref, Emits(kind, ref)
    PROVE  /\ log' \in Seq(Event)
           /\ Len(log') = Len(log) + 1
           /\ \A i \in DOMAIN log : log'[i] = log[i]
           /\ log'[Len(log')].kind = kind /\ log'[Len(log')].ref = ref
<1> DEFINE e == [kind |-> kind, ref |-> ref, cause |-> Cause(kind, ref)]
<1>1. e \in Event
  BY CauseType DEF Event
<1>2. log' = Append(log, e)
  BY DEF Emits
<1> HIDE DEF e
<1>3. log \in Seq(Event)
  BY DEF TypeOK
<1>4. log' \in Seq(Event) /\ Len(log') = Len(log) + 1 /\ log'[Len(log')] = e
      /\ \A i \in DOMAIN log : log'[i] = log[i]
  BY <1>1, <1>2, <1>3
<1> QED  BY <1>4 DEF e

(* What any step does to the position in the script, the graph and the      *)
(* cancellation: it stays, or passes one operation, having saved what that  *)
(* operation saves, and never passes a look at a flag that is set.          *)
Moves ==
    /\ inputs' = inputs /\ graph \subseteq graph' /\ graph' \subseteq Ref
    /\ \/ at' = at /\ cancelAt' \in {cancelAt, at}
       \/ /\ at <= Len(script) /\ at' = at + 1 /\ cancelAt' = cancelAt
          /\ script[at].do = "save" => script[at].ref \in graph'
          /\ script[at].do = "poll" => cancelAt = 0

(* ... and to the log: nothing, or one event more, which is the first one,  *)
(* or one that the engine reports, or one the script prescribes.            *)
Logs ==
    \/ log' = log
    \/ log = <<>> /\ log' = <<[kind |-> "run.started", ref |-> None, cause |-> 0]>>
    \/ \E kind \in (Reports \ Announcements) \cup EndKinds, ref \in Ref : Emits(kind, ref)
    \/ Here("emit") /\ Emits(script[at].kind, script[at].ref)

\* The operation a thread is about to execute is one of the script.
LEMMA HereInScript ==
    ASSUME TypeOK, NEW do, Here(do)
    PROVE  at <= Len(script) /\ script[at].do = do /\ script[at].ref \in Ref /\ phase = "script"
BY ScriptType DEF Here

\* That an event is about no element is a reference, too.
LEMMA NoneRef == None \in Ref
BY DEF Ref

\* What each step may do to the phase, the position and the cancellation.
LEMMA EveryMove ==
    ASSUME TypeOK, [Next]_vars
    PROVE  Moves
<1> USE ScriptType, HereInScript
<1>0. graph \subseteq Ref
  BY DEF TypeOK
<1>1. CASE EmitNext
  BY <1>0, <1>1 DEF EmitNext, Moves, Advance
<1>2. CASE SaveGraph
  <2>1. CASE Accepts(script[at])
    BY <1>0, <1>2, <2>1 DEF SaveGraph, Moves, Advance
  <2>2. CASE ~Accepts(script[at])
    BY <1>0, <1>2, <2>2 DEF SaveGraph, Moves, Goto
  <2> QED  BY <2>1, <2>2
<1>3. CASE SaveOther \/ ToolReturns \/ CycleCompletes
  BY <1>0, <1>3 DEF SaveOther, ToolReturns, CycleCompletes, Moves, Advance
<1>4. CASE CheckCancelled
  <2>1. cancelAt \in Nat
    BY DEF TypeOK
  <2> QED  BY <1>0, <1>4, <2>1 DEF CheckCancelled, Moves, Advance, Goto
<1>5. CASE Register \/ ReportTool \/ RaiseNext \/ Complete \/ Interrupt \/ Fail \/ SaveStatus \/ Close
  BY <1>0, <1>5 DEF Register, ReportTool, RaiseNext, Complete, Interrupt, Fail, SaveStatus, Close,
     Moves, Goto
<1>6. CASE Start \/ Cancel \/ ToolRaises \/ CycleStops \/ PlannerReports \/ WriteRaises \/ Crash
  BY <1>0, <1>6 DEF Start, Cancel, ToolRaises, CycleStops, PlannerReports, WriteRaises, Crash,
     Moves, Goto
<1>7. CASE UNCHANGED vars
  BY <1>0, <1>7 DEF vars, Moves
<1> QED  BY <1>1, <1>2, <1>3, <1>4, <1>5, <1>6, <1>7 DEF Next, Step

\* What each step may do to the log, the status and the graph.
LEMMA EveryLog ==
    ASSUME TypeOK, [Next]_vars,
           phase = "idle" => log = <<>>,
           phase \in {"toolFailed", "stepFailed"} => at <= Len(script)
    PROVE  Logs
<1> USE NoneRef, HereInScript
<1>1. CASE EmitNext
  BY <1>1 DEF EmitNext, Logs
<1>2. CASE ReportTool
  <2>1. script[at].ref \in Ref
    BY <1>2, ScriptType DEF ReportTool
  <2>2. {"tool.failed", "step.failed"} \subseteq Reports \ Announcements
    BY DEF Reports, Announcements, Answers
  <2>3. \E kind \in {"tool.failed", "step.failed"} : Emits(kind, script[at].ref)
    BY <1>2 DEF ReportTool
  <2> QED  BY <2>1, <2>2, <2>3 DEF Logs
<1>3. CASE PlannerReports \/ CycleStops
  <2>1. {"planner.waiting", "planner.resumed", "cycle.checkpointed"} \subseteq Reports \ Announcements
    BY DEF Reports, Announcements, Answers
  <2>2. script[at].ref \in Ref
    BY <1>3 DEF PlannerReports, CycleStops
  <2>3. \/ log' = log
        \/ \E kind \in {"planner.waiting", "planner.resumed", "cycle.checkpointed"} :
              Emits(kind, script[at].ref)
    BY <1>3 DEF PlannerReports, CycleStops
  <2> QED  BY <2>1, <2>2, <2>3 DEF Logs
<1>4. CASE Complete \/ Interrupt \/ Fail
  BY <1>4 DEF Complete, Interrupt, Fail, Logs, EndKinds
<1>5. CASE Start
  BY <1>5 DEF Start, Logs
<1>6. CASE \/ Register \/ SaveGraph \/ SaveOther \/ CheckCancelled \/ ToolReturns \/ CycleCompletes
           \/ RaiseNext \/ SaveStatus \/ Close \/ Cancel \/ ToolRaises \/ WriteRaises \/ Crash
           \/ UNCHANGED vars
  BY <1>6 DEF Register, SaveGraph, SaveOther, CheckCancelled, ToolReturns, CycleCompletes, RaiseNext,
     SaveStatus, Close, Cancel, ToolRaises, WriteRaises, Crash, vars, Logs
<1> QED  BY <1>1, <1>2, <1>3, <1>4, <1>5, <1>6 DEF Next, Step

(* Whatever is logged, the log keeps its type, and its earlier events.      *)
LEMMA LogStep ==
    ASSUME TypeOK, Logs
    PROVE  /\ log' \in Seq(Event)
           /\ \A i \in DOMAIN log : i \in DOMAIN log' /\ log'[i] = log[i]
<1>1. CASE log' = log
  BY <1>1, LogType
<1>2. CASE log = <<>> /\ log' = <<[kind |-> "run.started", ref |-> None, cause |-> 0]>>
  <2>1. [kind |-> "run.started", ref |-> None, cause |-> 0] \in Event
    BY NoneRef DEF Event, Reports
  <2> QED  BY <1>2, <2>1
<1>3. ASSUME NEW kind \in Reports \cup EndKinds, NEW ref \in Ref, Emits(kind, ref)
      PROVE  /\ log' \in Seq(Event)
             /\ \A i \in DOMAIN log : i \in DOMAIN log' /\ log'[i] = log[i]
  BY <1>3, EmitsType, LogType
<1>4. CASE Here("emit") /\ Emits(script[at].kind, script[at].ref)
  BY <1>3, <1>4, HereInScript, ScriptType
<1> QED  BY <1>1, <1>2, <1>3, <1>4 DEF Logs

(* The invariant that makes the others inductive: the phases in which the   *)
(* run is known to be running, and what its last event then is ...          *)
Lifecycle ==
    /\ phase = "idle" => log = <<>> /\ status = "absent"
    /\ phase # "idle" => log # <<>> /\ status # "absent"
    /\ phase \notin {"idle", "closing", "ended", "crashed"} => status = "running"
    /\ phase \in {"starting", "script", "toolFailed", "stepFailed", "cancelling"} =>
           Latest.kind \notin EndKinds
    /\ phase = "failing" => Latest.kind \notin {"run.failed", "run.interrupted"}
    /\ phase = "completing" => Latest.kind = "run.completed"
    /\ phase = "failed" => Latest.kind = "run.failed"
    /\ phase = "interrupted" => Latest.kind = "run.interrupted"
    /\ phase \in {"toolFailed", "stepFailed"} => at <= Len(script)
    /\ phase = "completing" \/ status = "completed" => at > Len(script)

(* ... the operations that have been passed ...                             *)
Passed ==
    /\ \A i \in DOMAIN script : i < at /\ script[i].do = "save" => script[i].ref \in graph
    /\ cancelAt > 0 => \A i \in DOMAIN script : cancelAt <= i /\ i < at => script[i].do # "poll"

Inv == TypeOK /\ Lifecycle /\ Passed /\ AnnouncedIsPersisted

\* The invariant holds initially.
LEMMA InitInv ==
    ASSUME Init
    PROVE  Inv
<1>1. TypeOK
  <2>1. log \in Seq(Event)
    BY DEF Init
  <2>2. phase \in Phases /\ status \in RunStatuses /\ control \in BOOLEAN
    BY DEF Init, Phases, RunStatuses
  <2>3. inputs \in Inputs /\ graph \subseteq Ref
    BY DEF Init
  <2>4. at \in Nat \ {0} /\ cancelAt \in Nat /\ errors \in Nat /\ faults \in Nat
    BY DEF Init
  <2> QED  BY <2>1, <2>2, <2>3, <2>4 DEF TypeOK
<1>2. Lifecycle
  BY DEF Init, Lifecycle
<1>3. Passed
  <2>1. DOMAIN script \subseteq Nat
    BY <1>1, ScriptType
  <2> QED  BY <2>1 DEF Init, Passed
<1>4. AnnouncedIsPersisted
  BY DEF Init, AnnouncedIsPersisted
<1> QED  BY <1>1, <1>2, <1>3, <1>4 DEF Inv

\* Every step keeps the types.
LEMMA TypeStep ==
    ASSUME TypeOK, Lifecycle, [Next]_vars
    PROVE  TypeOK'
<1>1. log' \in Seq(Event)
  BY EveryLog, LogStep DEF Lifecycle
<1>2. Moves
  BY EveryMove
<1>3. inputs' \in Inputs /\ graph' \subseteq Ref /\ at' \in Nat \ {0} /\ cancelAt' \in Nat
  BY <1>2, ScriptType DEF Moves, TypeOK
<1>4. /\ status' \in RunStatuses /\ phase' \in Phases /\ control' \in BOOLEAN
      /\ errors' \in Nat /\ faults' \in Nat
  <2> USE DEF TypeOK, RunStatuses, Phases, Goto, Advance
  <2>1. CASE Start \/ Register \/ Cancel \/ EmitNext
    BY <2>1 DEF Start, Register, Cancel, EmitNext
  <2>2. CASE SaveGraph \/ SaveOther \/ CheckCancelled
    BY <2>2 DEF SaveGraph, SaveOther, CheckCancelled
  <2>3. CASE ToolReturns \/ ToolRaises \/ ReportTool
    BY <2>3 DEF ToolReturns, ToolRaises, ReportTool
  <2>4. CASE PlannerReports \/ CycleCompletes \/ CycleStops
    BY <2>4 DEF PlannerReports, CycleCompletes, CycleStops
  <2>5. CASE RaiseNext \/ Complete \/ Interrupt \/ Fail
    BY <2>5 DEF RaiseNext, Complete, Interrupt, Fail
  <2>6. CASE SaveStatus \/ Close
    BY <2>6 DEF SaveStatus, Close
  <2>7. CASE WriteRaises
    BY <2>7 DEF WriteRaises
  <2>8. CASE Crash \/ UNCHANGED vars
    BY <2>8 DEF Crash, vars
  <2> QED  BY <2>1, <2>2, <2>3, <2>4, <2>5, <2>6, <2>7, <2>8 DEF Next, Step
<1> QED  BY <1>1, <1>3, <1>4 DEF TypeOK

(* What has been logged last decides the last event.                        *)
LEMMA LatestStep ==
    ASSUME TypeOK, NEW kind \in Reports \cup EndKinds, NEW ref \in Ref, Emits(kind, ref)
    PROVE  log' # <<>> /\ Latest'.kind = kind
BY EmitsType, LogType DEF Latest

\* No kind of the script's events ends a run.
LEMMA Kinds ==
    /\ {"planner.waiting", "planner.resumed", "cycle.checkpointed", "tool.failed", "step.failed"}
          \subseteq Reports
    /\ {"run.completed", "run.failed", "run.interrupted"} = EndKinds
    /\ Reports \cap EndKinds = {}
BY DEF Reports, Announcements, Answers, EndKinds

\* Every step keeps phase, status and latest event in agreement.
LEMMA LifecycleStep ==
    ASSUME TypeOK, Lifecycle, [Next]_vars
    PROVE  Lifecycle'
<1>0. script' = script /\ Len(script) \in Nat /\ at \in Nat
  BY EveryMove, ScriptType DEF Moves, script
<1> USE <1>0
<1>1. CASE Start
  BY <1>1, Kinds DEF Start, Goto, Lifecycle, Latest
<1>2. CASE EmitNext
  <2>1. phase = "script" /\ script[at].kind \in Reports /\ script[at].ref \in Ref
    BY <1>2, HereInScript, ScriptType DEF EmitNext
  <2>2. log' # <<>> /\ Latest'.kind \notin EndKinds
    BY <1>2, <2>1, LatestStep, Kinds DEF EmitNext
  <2> QED  BY <1>2, <2>1, <2>2 DEF EmitNext, Advance, Lifecycle
<1>3. CASE ReportTool
  <2>1. script[at].ref \in Ref
    BY <1>3, ScriptType DEF ReportTool, Lifecycle
  <2>2. \E kind \in {"tool.failed", "step.failed"} : Emits(kind, script[at].ref)
    BY <1>3 DEF ReportTool
  <2>3. log' # <<>> /\ Latest'.kind \notin EndKinds
    BY <2>1, <2>2, LatestStep, Kinds
  <2>4. phase' \in {"stepFailed", "failing"} /\ at' = at /\ status' = status /\ phase \in {"toolFailed", "stepFailed"}
    BY <1>3 DEF ReportTool, Goto
  <2> QED  BY <2>3, <2>4, Kinds DEF Lifecycle
<1>4. CASE PlannerReports \/ CycleStops
  <2>1. phase = "script" /\ script[at].ref \in Ref /\ at' = at /\ status' = status /\ phase' \in {"script", "failing"}
    BY <1>4, HereInScript DEF PlannerReports, CycleStops, Goto
  <2>2. \/ log' = log
        \/ \E kind \in {"planner.waiting", "planner.resumed", "cycle.checkpointed"} :
              Emits(kind, script[at].ref)
    BY <1>4 DEF PlannerReports, CycleStops
  <2>3. log' # <<>> /\ Latest'.kind \notin EndKinds
    <3>1. CASE log' = log
      BY <2>1, <3>1 DEF Lifecycle, Latest
    <3>2. CASE log' # log
      BY <2>1, <2>2, <3>2, LatestStep, Kinds
    <3> QED  BY <3>1, <3>2
  <2> QED  BY <2>1, <2>3, Kinds DEF Lifecycle
<1>5. CASE Complete \/ Interrupt \/ Fail
  <2>1. PICK kind \in EndKinds : Emits(kind, None) /\
          \/ Complete /\ kind = "run.completed"
          \/ Interrupt /\ kind = "run.interrupted"
          \/ Fail /\ kind = "run.failed"
    BY <1>5, Kinds DEF Complete, Interrupt, Fail
  <2>2. log' # <<>> /\ Latest'.kind = kind
    BY <2>1, LatestStep, NoneRef
  <2> QED  BY <2>1, <2>2 DEF Complete, Interrupt, Fail, Goto, Lifecycle
<1>6. CASE /\ log' = log
           /\ \/ Register \/ SaveGraph \/ SaveOther \/ CheckCancelled \/ ToolReturns
              \/ CycleCompletes \/ RaiseNext \/ ToolRaises
  <2>1. Latest' = Latest /\ status' = status
    BY <1>6 DEF Latest, Register, SaveGraph, SaveOther, CheckCancelled, ToolReturns, CycleCompletes,
       RaiseNext, ToolRaises
  <2>2. \/ phase = "starting" /\ phase' = "script" /\ at' = at
        \/ phase = "script" /\ phase' \in {"script", "cancelling", "failing"}
           /\ at <= Len(script) /\ at' \in Nat
        \/ phase = "script" /\ phase' = "toolFailed" /\ at' = at /\ at <= Len(script)
    BY <1>6, HereInScript DEF Register, SaveGraph, SaveOther, CheckCancelled, ToolReturns, CycleCompletes,
       RaiseNext, ToolRaises, Goto, Advance
  <2> QED  BY <1>6, <2>1, <2>2, Kinds DEF Lifecycle
<1>7. CASE SaveStatus
  BY <1>7 DEF SaveStatus, Goto, Lifecycle, Latest
<1>8. CASE Cancel \/ Close \/ Crash \/ UNCHANGED vars
  BY <1>8 DEF Cancel, Close, Crash, Goto, vars, Lifecycle, Latest
<1>9. CASE WriteRaises
  <2>1. /\ log' = log /\ status' = status /\ at' = at /\ Latest' = Latest
        /\ \/ phase \in {"script", "toolFailed", "stepFailed", "completing"} /\ phase' = "failing"
           \/ phase \in {"failing", "failed", "cancelling", "interrupted"} /\ phase' = "closing"
    BY <1>9 DEF WriteRaises, Writes, Here, Goto, Latest
  <2> QED  BY <2>1, Kinds DEF Lifecycle
<1>10. Register \/ SaveGraph \/ SaveOther \/ CheckCancelled \/ ToolReturns \/ CycleCompletes
       \/ RaiseNext \/ ToolRaises => log' = log
  BY DEF Register, SaveGraph, SaveOther, CheckCancelled, ToolReturns, CycleCompletes, RaiseNext, ToolRaises
<1> QED  BY <1>1, <1>2, <1>3, <1>4, <1>5, <1>6, <1>7, <1>8, <1>9, <1>10 DEF Next, Step

\* Every step keeps what is known of the operations that have been passed.
LEMMA PassedStep ==
    ASSUME TypeOK, Passed, [Next]_vars
    PROVE  Passed'
<1>1. /\ Moves /\ script' = script /\ DOMAIN script \subseteq Nat /\ at \in Nat /\ cancelAt \in Nat
  BY EveryMove, ScriptType DEF Moves, script, TypeOK
<1>2. CASE at' = at /\ cancelAt' \in {cancelAt, at}
  BY <1>1, <1>2 DEF Moves, Passed
<1>3. CASE /\ at <= Len(script) /\ at' = at + 1 /\ cancelAt' = cancelAt
           /\ script[at].do = "save" => script[at].ref \in graph'
           /\ script[at].do = "poll" => cancelAt = 0
  <2>1. \A i \in DOMAIN script : i < at' => i < at \/ i = at
    BY <1>1, <1>3
  <2> QED  BY <1>1, <1>3, <2>1 DEF Moves, Passed
<1> QED  BY <1>1, <1>2, <1>3 DEF Moves

(* An element is announced by the operation after the one that saved it.    *)
LEMMA AnnouncedStep ==
    ASSUME Inv, [Next]_vars
    PROVE  AnnouncedIsPersisted'
<1>1. TypeOK /\ Logs /\ Moves /\ Passed /\ AnnouncedIsPersisted
  BY EveryLog, EveryMove DEF Inv, Lifecycle
<1>2. \A i \in DOMAIN log : log'[i].kind \in Announcements => log'[i].ref \in graph'
  BY <1>1, LogStep DEF AnnouncedIsPersisted, Moves
<1>3. CASE log' = log
  BY <1>2, <1>3 DEF AnnouncedIsPersisted
<1>4. CASE log = <<>> /\ log' = <<[kind |-> "run.started", ref |-> None, cause |-> 0]>>
  BY <1>4 DEF AnnouncedIsPersisted, Announcements
<1>5. ASSUME NEW kind \in Reports \cup EndKinds, NEW ref \in Ref, Emits(kind, ref),
             kind \in Announcements => ref \in graph'
      PROVE  AnnouncedIsPersisted'
  <2>1. DOMAIN log' = 1..Len(log') /\ DOMAIN log = 1..Len(log) /\ Len(log) \in Nat
    BY <1>1, LogStep, LogType
  <2>2. /\ Len(log') = Len(log) + 1
        /\ log'[Len(log')].kind = kind /\ log'[Len(log')].ref = ref
    BY <1>1, <1>5, EmitsType
  <2>3. \A i \in DOMAIN log' : i \in DOMAIN log \/ i = Len(log')
    BY <2>1, <2>2
  <2> QED  BY <1>2, <1>5, <2>2, <2>3 DEF AnnouncedIsPersisted
<1>6. CASE Here("emit") /\ Emits(script[at].kind, script[at].ref)
  <2>1. at \in DOMAIN script /\ script[at].do = "emit"
    BY <1>1, <1>6, ScriptType, HereInScript
  <2>2. script[at].kind \in Announcements => script[at].ref \in graph
    <3> SUFFICES ASSUME script[at].kind \in Announcements
                 PROVE  script[at].ref \in graph
      OBVIOUS
    <3>1. PICK j \in 1..(at - 1) : script[j].do = "save" /\ script[j].ref = script[at].ref
      BY <1>1, <2>1, ScriptType
    <3>2. j \in DOMAIN script /\ j < at
      BY <1>1, <2>1, <3>1, ScriptType
    <3> QED  BY <1>1, <3>1, <3>2 DEF Passed
  <2> QED  BY <1>1, <1>5, <1>6, <2>1, <2>2, ScriptType DEF Moves
<1>7. ASSUME NEW kind \in (Reports \ Announcements) \cup EndKinds, NEW ref \in Ref, Emits(kind, ref)
      PROVE  AnnouncedIsPersisted'
  BY <1>5, <1>7 DEF EndKinds, Announcements
<1> QED  BY <1>1, <1>3, <1>4, <1>6, <1>7 DEF Logs

\* Every step keeps the inductive invariant.
LEMMA InvStep ==
    ASSUME Inv, [Next]_vars
    PROVE  Inv'
BY TypeStep, LifecycleStep, PassedStep, AnnouncedStep DEF Inv

\* The invariant excludes a completed run with a check after its cancellation.
LEMMA InvCancelStops ==
    ASSUME Inv
    PROVE  CancelStops
<1> SUFFICES ASSUME cancelAt > 0, status = "completed", NEW i \in cancelAt..Len(script)
             PROVE  script[i].do # "poll"
  BY DEF CancelStops
<1>1. at > Len(script) /\ TypeOK
  BY DEF Inv, Lifecycle
<1>2. i \in DOMAIN script /\ cancelAt <= i /\ i < at
  BY <1>1, ScriptType DEF TypeOK
<1> QED  BY <1>2 DEF Inv, Passed

\* So the invariant always holds.
LEMMA InvInvariant == Spec => []Inv
<1>1. Init => Inv
  BY InitInv
<1>2. Inv /\ [Next]_vars => Inv'
  BY InvStep
<1> QED  BY <1>1, <1>2, PTL DEF Spec

(* Log, graph, status and position stay within their types.                 *)
THEOREM TypeCorrect == Spec => []TypeOK
<1>1. Inv => TypeOK
  BY DEF Inv
<1> QED  BY <1>1, InvInvariant, PTL

(* Whatever fails, a client that has seen an event finds the element that   *)
(* it announces in the persisted graph.                                     *)
THEOREM AnnouncedAlwaysPersisted == Spec => []AnnouncedIsPersisted
<1>1. Inv => AnnouncedIsPersisted
  BY DEF Inv
<1> QED  BY <1>1, InvInvariant, PTL

(* A run that completes after a cancellation has never looked at the flag   *)
(* since.                                                                   *)
THEOREM CancelAlwaysStops == Spec => []CancelStops
<1>1. Inv => CancelStops
  BY InvCancelStops
<1> QED  BY <1>1, InvInvariant, PTL
------------------------------------------------------------------------------
(* The refinement of RunLog.                                                *)
kinds == [i \in DOMAIN log |-> log[i].kind]

\* The kinds of a log's events are what the abstract log is made of.
LEMMA KindsType ==
    ASSUME TypeOK
    PROVE  /\ kinds \in Seq(Reports \cup EndKinds) /\ Len(kinds) = Len(log)
           /\ log # <<>> => kinds # <<>> /\ kinds[Len(kinds)] = Latest.kind
           /\ log = <<>> => kinds = <<>>
<1>1. log \in Seq(Event) /\ Len(log) \in Nat /\ DOMAIN log = 1..Len(log)
      /\ \A i \in DOMAIN log : log[i].kind \in Reports \cup EndKinds
  BY LogType, EventType
<1>2. kinds \in Seq(Reports \cup EndKinds) /\ Len(kinds) = Len(log)
  BY <1>1 DEF kinds
<1>3. log # <<>> => Len(log) \in DOMAIN log
  BY <1>1
<1> QED  BY <1>1, <1>2, <1>3 DEF kinds, Latest

(* Emitting an event appends its kind to the abstract log.                  *)
LEMMA EmitsKind ==
    ASSUME TypeOK, NEW kind \in Reports \cup EndKinds, NEW ref \in Ref, Emits(kind, ref)
    PROVE  kinds' = Append(kinds, kind)
<1>1. /\ log' \in Seq(Event) /\ Len(log') = Len(log) + 1 /\ Len(log) \in Nat
      /\ \A i \in DOMAIN log : log'[i] = log[i]
      /\ log'[Len(log')].kind = kind
      /\ DOMAIN log = 1..Len(log)
  BY EmitsType, LogType
<1>2. DOMAIN log' = 1..(Len(log) + 1)
  BY <1>1
<1>3. kinds \in Seq(Reports \cup EndKinds) /\ Len(kinds) = Len(log)
  BY KindsType
<1>4. kinds' \in Seq(Reports \cup EndKinds) /\ Len(kinds') = Len(log) + 1
  <2>1. \A i \in DOMAIN log' : log'[i].kind \in Reports \cup EndKinds
    BY <1>1, EventType
  <2> QED  BY <1>1, <1>2, <2>1 DEF kinds
<1>5. \A i \in 1..(Len(log) + 1) :
          kinds'[i] = IF i = Len(log) + 1 THEN kind ELSE kinds[i]
  <2> TAKE i \in 1..(Len(log) + 1)
  <2>1. kinds'[i] = log'[i].kind
    BY <1>2 DEF kinds
  <2>2. CASE i = Len(log) + 1
    BY <1>1, <2>1, <2>2
  <2>3. CASE i # Len(log) + 1
    <3>1. i \in DOMAIN log
      BY <1>1, <2>3
    <3> QED  BY <1>1, <2>1, <2>3, <3>1 DEF kinds
  <2> QED  BY <2>2, <2>3
<1> HIDE DEF kinds
<1>6. Append(kinds, kind) \in Seq(Reports \cup EndKinds) /\ Len(Append(kinds, kind)) = Len(log) + 1
      /\ \A i \in 1..(Len(log) + 1) :
             Append(kinds, kind)[i] = IF i = Len(log) + 1 THEN kind ELSE kinds[i]
  BY <1>1, <1>3
<1> QED  BY <1>1, <1>4, <1>5, <1>6

(* A step of FlowRun is a step of RunLog or leaves log and status alone.    *)
LEMMA RunLogInit ==
    ASSUME Init
    PROVE  RL!Init
<1>1. kinds = <<>>
  BY InitInv, KindsType DEF Inv, Init
<1> QED  BY <1>1 DEF Init, RL!Init, kinds

\* Each step is one of the abstract log, or leaves it alone.
LEMMA RunLogStep ==
    ASSUME Inv, [Next]_vars
    PROVE  RL!Next \/ UNCHANGED <<kinds, status>>
<1>1. TypeOK /\ Lifecycle
  BY DEF Inv
<1>2. phase # "idle" => kinds # <<>> /\ kinds[Len(kinds)] = Latest.kind
  BY <1>1, KindsType DEF Lifecycle
<1>3. CASE Start
  <2>1. status = "absent" /\ status' = "running" /\ kinds' = <<"run.started">>
    BY <1>1, <1>3 DEF Start, Lifecycle, kinds
  <2> QED  BY <2>1 DEF RL!Next, RL!Start, kinds
<1>4. ASSUME NEW kind \in Reports \cup EndKinds, NEW ref \in Ref, Emits(kind, ref),
             status = "running", status' = status, Latest.kind \notin EndKinds, phase # "idle"
      PROVE  RL!Next
  <2>1. kinds' = Append(kinds, kind)
    BY <1>1, <1>4, EmitsKind
  <2>2. RL!Terminal = EndKinds
    BY DEF RL!Terminal, RL!StatusOf, EndKinds
  <2>3. ~RL!Ended
    BY <1>2, <1>4, <2>2 DEF RL!Ended, kinds
  <2>4. RL!Report(kind)
    BY <1>4, <2>1, <2>3 DEF RL!Report, kinds
  <2> QED  BY <1>4, <2>2, <2>4 DEF RL!Next
<1>5. CASE EmitNext
  <2>1. phase = "script" /\ script[at].kind \in Reports /\ script[at].ref \in Ref
    BY <1>1, <1>5, HereInScript, ScriptType DEF EmitNext
  <2> QED  BY <1>1, <1>4, <1>5, <2>1 DEF EmitNext, Lifecycle
<1>6. CASE ReportTool
  <2>1. script[at].ref \in Ref /\ phase \in {"toolFailed", "stepFailed"} /\ status' = status
    BY <1>1, <1>6, ScriptType DEF ReportTool, Lifecycle
  <2>2. \E kind \in {"tool.failed", "step.failed"} : Emits(kind, script[at].ref)
    BY <1>6 DEF ReportTool
  <2> QED  BY <1>1, <1>4, <2>1, <2>2, Kinds DEF Lifecycle
<1>7. CASE PlannerReports \/ CycleStops
  <2>1. phase = "script" /\ script[at].ref \in Ref /\ status' = status
    BY <1>1, <1>7, HereInScript DEF PlannerReports, CycleStops
  <2>2. \/ log' = log
        \/ \E kind \in {"planner.waiting", "planner.resumed", "cycle.checkpointed"} :
              Emits(kind, script[at].ref)
    BY <1>7 DEF PlannerReports, CycleStops
  <2> QED  BY <1>1, <1>4, <2>1, <2>2, Kinds DEF Lifecycle, kinds
<1>8. CASE Complete \/ Interrupt
  <2>1. phase \in {"script", "cancelling"} /\ status' = status
    BY <1>8 DEF Complete, Interrupt
  <2>2. \E kind \in EndKinds : Emits(kind, None)
    BY <1>8, Kinds DEF Complete, Interrupt
  <2> QED  BY <1>1, <1>4, <2>1, <2>2, NoneRef DEF Lifecycle
<1>9. CASE Fail
  <2>1. /\ phase = "failing" /\ status = "running" /\ status' = status /\ Emits("run.failed", None)
        /\ Latest.kind \notin {"run.failed", "run.interrupted"}
    BY <1>1, <1>9 DEF Fail, Lifecycle
  <2>2. "run.failed" \in Reports \cup EndKinds
    BY Kinds
  <2>3. CASE Latest.kind \notin EndKinds
    BY <1>4, <2>1, <2>2, <2>3, NoneRef
  <2>4. CASE Latest.kind = "run.completed"
    <3>1. kinds' = Append(kinds, "run.failed")
      BY <1>1, <2>1, <2>2, EmitsKind, NoneRef
    <3>2. RL!Ended
      BY <1>2, <2>1, <2>4 DEF RL!Ended, RL!Terminal, RL!StatusOf, kinds
    <3>3. RL!Revoke
      BY <1>2, <2>1, <2>4, <3>1, <3>2 DEF RL!Revoke, kinds
    <3> QED  BY <3>3 DEF RL!Next
  <2> QED  BY <2>1, <2>3, <2>4, Kinds
<1>10. CASE SaveStatus
  <2>1. /\ status = "running" /\ log' = log /\ phase \in {"completing", "failed", "interrupted"}
        /\ status' = IF phase = "completing" THEN "completed" ELSE phase
        /\ Latest.kind = CASE phase = "completing" -> "run.completed"
                           [] phase = "failed" -> "run.failed"
                           [] OTHER -> "run.interrupted"
    BY <1>1, <1>10 DEF SaveStatus, Lifecycle
  <2>2. kinds' = kinds /\ kinds # <<>> /\ kinds[Len(kinds)] = Latest.kind
    BY <1>2, <2>1 DEF kinds
  <2>3. RL!StatusOf[Latest.kind] = status' /\ Latest.kind \in RL!Terminal
    BY <2>1 DEF RL!StatusOf, RL!Terminal
  <2>4. RL!Close
    BY <2>1, <2>2, <2>3 DEF RL!Close, RL!Ended, kinds
  <2> QED  BY <2>4 DEF RL!Next
<1>11. CASE \/ Register \/ SaveGraph \/ SaveOther \/ CheckCancelled \/ ToolReturns \/ CycleCompletes
            \/ RaiseNext \/ Close \/ Cancel \/ ToolRaises \/ WriteRaises \/ Crash \/ UNCHANGED vars
  <2>1. log' = log /\ status' = status
    BY <1>11 DEF Register, SaveGraph, SaveOther, CheckCancelled, ToolReturns, CycleCompletes,
       RaiseNext, Close, Cancel, ToolRaises, WriteRaises, Crash, vars
  <2> QED  BY <2>1 DEF kinds
<1> QED  BY <1>3, <1>5, <1>6, <1>7, <1>8, <1>9, <1>10, <1>11 DEF Next, Step

(* The persisted log and status behave as RunLog says, whatever fails.      *)
THEOREM FlowRunImplementsRunLog == Spec => Implements
<1>1. Init => RL!Init
  BY RunLogInit
<1>2. Inv /\ [Next]_vars => [RL!Next]_<<kinds, status>>
  BY RunLogStep
<1> QED  BY <1>1, <1>2, InvInvariant, PTL DEF Spec, Implements, RL!Spec, kinds
------------------------------------------------------------------------------
(****************************************************************************)
(* Calls and answers.  A call is open until an event names it as its cause. *)
(* The script says when one is pending: between the event that begins a     *)
(* call and the one that answers it.  While the thread executes the script, *)
(* the latest call of a pending step is open, and as long as no write has   *)
(* failed no other call is.                                                 *)
(****************************************************************************)
Open(l) ==
    /\ log[l].kind = "tool.started"
    /\ \A m \in DOMAIN log : log[m].kind \in Answers => log[m].cause # l
Pending(ref) ==
    \E i \in 1..(at - 1), j \in at..Len(script) : Answered(script, i, j) /\ script[i].ref = ref
Running == phase \in {"script", "toolFailed"}

OnlyPendingOpen == faults = 0 => \A l \in DOMAIN log : Open(l) =>
    /\ status = "running"
    /\ \/ phase = "crashed"
       \/ Running /\ Pending(log[l].ref) /\ l = Max(Calls(log[l].ref))
PendingIsOpen == Running =>
    \A ref \in Ref : Pending(ref) => Calls(ref) # {} /\ Open(Max(Calls(ref)))
\* What has been passed of the script is in the log.
EmitsLogged == \A i \in DOMAIN script : i < at /\ script[i].do = "emit" =>
    \E l \in DOMAIN log : log[l].kind = script[i].kind /\ log[l].ref = script[i].ref
Position ==
    /\ phase \in {"idle", "starting"} => at = 1
    /\ phase = "toolFailed" => at <= Len(script) /\ script[at].do = "invoke"

\* An answer names a call of its step that no other answer names.
OwnCalls == \A i \in DOMAIN log : log[i].kind \in Answers =>
    /\ log[i].cause < i /\ log[i].cause \in DOMAIN log
    /\ log[log[i].cause].kind = "tool.started" /\ log[log[i].cause].ref = log[i].ref
    /\ \A j \in DOMAIN log : log[j].kind \in Answers /\ log[j].cause = log[i].cause => j = i

CallsInv ==
    /\ Inv /\ OwnCalls /\ DependenciesFirst
    /\ OnlyPendingOpen /\ PendingIsOpen /\ EmitsLogged /\ Position

\* The engine puts the steps of each plan in order: in a script a step starts
\* after those that it needs.
StepsOrdered == \A in \in Inputs : \A i \in DOMAIN Scripts[in], k \in DOMAIN in.steps :
    /\ Scripts[in][i].do = "emit" /\ Scripts[in][i].kind = "step.started"
    /\ Scripts[in][i].ref = Id(in.steps[k].id)
    => \A need \in in.steps[k].needs : \E j \in 1..(i - 1) :
           /\ Scripts[in][j].do = "emit" /\ Scripts[in][j].kind = "step.completed"
           /\ Scripts[in][j].ref = Id(need)

(* Whatever the plan and the inputs, the engine runs the tools in an order  *)
(* in which each comes after those that its step needs (_ordered_steps for  *)
(* a plan that validate_flow_plan has accepted, execute for _demo_plan).    *)
THEOREM StepsAlwaysOrdered == StepsOrdered
<1> SUFFICES ASSUME NEW in \in Inputs, NEW i \in DOMAIN Scripts[in], NEW k \in DOMAIN in.steps,
                    Scripts[in][i].do = "emit", Scripts[in][i].kind = "step.started",
                    Scripts[in][i].ref = Id(in.steps[k].id), NEW need \in in.steps[k].needs
             PROVE  \E j \in 1..(i - 1) :
                        /\ Scripts[in][j].do = "emit" /\ Scripts[in][j].kind = "step.completed"
                        /\ Scripts[in][j].ref = Id(need)
  BY DEF StepsOrdered
<1>1. Scripts[in] = Script(in)
  BY DEF Scripts
<1>2. InOrder(in.steps, {}, Script(in), {})
  BY ScriptInOrder, InputsOK
<1>3. Starts(Script(in)[i])
  BY <1>1 DEF Starts
<1>4. \E j \in 1..(i - 1) : Completes(Script(in)[j], Id(need))
  BY <1>1, <1>2, <1>3 DEF InOrder
<1> QED  BY <1>1, <1>4 DEF Completes

\* What is assumed of the calls of the script.
LEMMA ScriptCalls ==
    ASSUME TypeOK, NEW i \in DOMAIN script
    PROVE  /\ script[i].do = "emit" /\ script[i].kind = "tool.started" =>
                  \E j \in (i + 1)..Len(script) : Answered(script, i, j)
           /\ script[i].do = "emit" /\ script[i].kind \in Answers =>
                  \E j \in 1..(i - 1) : Answered(script, j, i)
           /\ script[i].do = "invoke" =>
                  \E j \in 1..(i - 1), k \in (i + 1)..Len(script) :
                      Answered(script, j, k) /\ script[j].ref = script[i].ref
<1>1. inputs \in Inputs
  BY DEF TypeOK
<1>2. \A j \in DOMAIN script : Calling(script, j)
  BY <1>1, ScriptPieces, InputsOK DEF Scripts, script, Pieces
<1> QED BY <1>2 DEF Calling

\* Two pending calls are one.
LEMMA OnePending ==
    ASSUME TypeOK, NEW i \in 1..(at - 1), NEW j \in at..Len(script), Answered(script, i, j),
           NEW k \in 1..(at - 1), NEW l \in at..Len(script), Answered(script, k, l)
    PROVE  i = k
<1>1. at \in Nat /\ Len(script) \in Nat
  BY ScriptType
<1>2. ASSUME i < k PROVE FALSE
  <2>1. k \in (i + 1)..(j - 1)
    BY <1>1, <1>2
  <2> QED BY <2>1 DEF Answered
<1>3. ASSUME k < i PROVE FALSE
  <2>1. i \in (k + 1)..(l - 1)
    BY <1>1, <1>3
  <2> QED BY <2>1 DEF Answered
<1> QED BY <1>1, <1>2, <1>3

\* No call is pending at an operation that may end the run, ...
LEMMA NotPending ==
    ASSUME TypeOK, at > Len(script) \/ script[at].do \notin {"emit", "invoke"}
           \/ (script[at].do = "emit" /\ script[at].kind = "tool.started"), NEW ref
    PROVE  ~Pending(ref)
<1> SUFFICES ASSUME NEW i \in 1..(at - 1), NEW j \in at..Len(script), Answered(script, i, j) PROVE FALSE
  BY DEF Pending
<1>1. at \in Nat /\ Len(script) \in Nat /\ at <= Len(script)
  BY ScriptType
<1>2. at = j \/ at \in (i + 1)..(j - 1)
  BY <1>1
<1> QED BY <1>1, <1>2 DEF Answered

\* ... that of the step is at its answer and at its tool, ...
LEMMA StepPending ==
    ASSUME TypeOK, at \in DOMAIN script,
           script[at].do = "invoke" \/ (script[at].do = "emit" /\ script[at].kind \in Answers),
           NEW ref
    PROVE  Pending(ref) <=> ref = script[at].ref
<1>1. at \in Nat /\ Len(script) \in Nat /\ at <= Len(script)
  BY ScriptType
<1>2. PICK i \in 1..(at - 1), j \in at..Len(script) : Answered(script, i, j) /\ script[i].ref = script[at].ref
  <2>1. CASE script[at].do = "invoke"
    BY <1>1, <2>1, ScriptCalls
  <2>2. CASE script[at].do = "emit" /\ script[at].kind \in Answers
    <3>1. PICK i \in 1..(at - 1) : Answered(script, i, at)
      BY <2>2, ScriptCalls
    <3>2. at \in at..Len(script) /\ script[i].ref = script[at].ref
      BY <1>1, <3>1 DEF Answered
    <3> QED BY <3>1, <3>2
  <2> QED BY <2>1, <2>2
<1>3. Pending(ref) => ref = script[at].ref
  <2> SUFFICES ASSUME NEW k \in 1..(at - 1), NEW l \in at..Len(script), Answered(script, k, l)
               PROVE  script[k].ref = script[at].ref
    BY DEF Pending
  <2> QED BY <1>2, OnePending
<1> QED BY <1>2, <1>3 DEF Pending

\* ... and it changes only where a call begins or is answered.
LEMMA PendingNext ==
    ASSUME TypeOK, script' = script, at \in DOMAIN script, at' = at + 1, NEW ref
    PROVE  /\ script[at].do = "emit" /\ script[at].kind = "tool.started" =>
                  (Pending(ref)' <=> ref = script[at].ref)
           /\ script[at].do = "emit" /\ script[at].kind \in Answers => ~Pending(ref)'
           /\ ~(script[at].do = "emit" /\ script[at].kind \in Answers \cup {"tool.started"}) =>
                  (Pending(ref)' <=> Pending(ref))
<1>1. at \in Nat /\ Len(script) \in Nat /\ at <= Len(script) /\ at' - 1 = at
  BY ScriptType
<1>2. Pending(ref)' <=>
        \E i \in 1..at, j \in (at + 1)..Len(script) : Answered(script, i, j) /\ script[i].ref = ref
  BY <1>1 DEF Pending
<1>3. "tool.result" \in Answers /\ "tool.started" \notin Answers
  BY DEF Answers
<1>4. ASSUME NEW i \in 1..at, NEW j \in (at + 1)..Len(script), Answered(script, i, j)
      PROVE  /\ i = at \/ (i \in 1..(at - 1) /\ j \in at..Len(script) /\ at \in (i + 1)..(j - 1))
             /\ i = at => script[at].do = "emit" /\ script[at].kind = "tool.started"
             /\ i # at => ~(script[at].do = "emit" /\ script[at].kind \in Answers \cup {"tool.started"})
  <2>1. i = at \/ (i \in 1..(at - 1) /\ j \in at..Len(script) /\ at \in (i + 1)..(j - 1))
    BY <1>1
  <2> QED BY <1>4, <2>1 DEF Answered
<1>5. ASSUME script[at].do = "emit", script[at].kind = "tool.started"
      PROVE  Pending(ref)' <=> ref = script[at].ref
  <2>1. PICK j \in (at + 1)..Len(script) : Answered(script, at, j)
    BY <1>5, ScriptCalls
  <2>2. at \in 1..at
    BY <1>1, ScriptType
  <2>3. ref = script[at].ref => Pending(ref)'
    BY <1>2, <2>1, <2>2
  <2>4. Pending(ref)' => ref = script[at].ref
    BY <1>2, <1>4, <1>5
  <2> QED BY <2>3, <2>4
<1>6. ASSUME script[at].do = "emit", script[at].kind \in Answers PROVE ~Pending(ref)'
  BY <1>2, <1>3, <1>4, <1>6
<1>7. ASSUME ~(script[at].do = "emit" /\ script[at].kind \in Answers \cup {"tool.started"})
      PROVE  Pending(ref)' <=> Pending(ref)
  <2>1. Pending(ref)' => Pending(ref)
    BY <1>2, <1>4, <1>7 DEF Pending
  <2>2. Pending(ref) => Pending(ref)'
    <3> SUFFICES ASSUME NEW i \in 1..(at - 1), NEW j \in at..Len(script), Answered(script, i, j)
                 PROVE  i \in 1..at /\ j \in (at + 1)..Len(script)
      BY <1>2 DEF Pending
    <3>1. j # at
      BY <1>3, <1>7 DEF Answered
    <3> QED BY <1>1, <3>1
  <2> QED BY <2>1, <2>2
<1> QED BY <1>5, <1>6, <1>7


\* Calls of a step are positions of the log; the latest one is the greatest.
LEMMA CallsAre ==
    ASSUME TypeOK, NEW ref
    PROVE  /\ Calls(ref) \in SUBSET (1..Len(log)) /\ Len(log) \in Nat /\ DOMAIN log = 1..Len(log)
           /\ Calls(ref) # {} => /\ Max(Calls(ref)) \in Calls(ref)
                                 /\ \A l \in Calls(ref) : l <= Max(Calls(ref))
<1>1. Calls(ref) \in SUBSET (1..Len(log)) /\ Len(log) \in Nat /\ DOMAIN log = 1..Len(log)
  BY LogType DEF Calls
<1> QED BY <1>1, GreatestPosition

\* What an emitted event changes.
LEMMA EmitsEvent ==
    ASSUME TypeOK, NEW kind \in Reports \cup EndKinds, NEW ref \in Ref, Emits(kind, ref)
    PROVE  LET n == Len(log) + 1 IN
           /\ DOMAIN log = 1..Len(log) /\ Len(log) \in Nat
           /\ DOMAIN log' = DOMAIN log \cup {n} /\ n \notin DOMAIN log
           /\ \A l \in DOMAIN log : log'[l] = log[l] /\ l # n /\ l < n
           /\ log'[n].kind = kind /\ log'[n].ref = ref /\ log'[n].cause = Cause(kind, ref)
<1> DEFINE e == [kind |-> kind, ref |-> ref, cause |-> Cause(kind, ref)]
<1>1. log \in Seq(Event) /\ Len(log) \in Nat /\ DOMAIN log = 1..Len(log)
  BY LogType
<1>2. log' = Append(log, e)
  BY DEF Emits
<1>3. e.kind = kind /\ e.ref = ref /\ e.cause = Cause(kind, ref)
  OBVIOUS
<1> HIDE DEF e
<1>4. DOMAIN log' = 1..(Len(log) + 1) /\ log'[Len(log) + 1] = e /\ \A l \in 1..Len(log) : log'[l] = log[l]
  BY <1>1, <1>2
<1> QED BY <1>1, <1>3, <1>4

\* An event that neither begins nor answers a call changes no call.
Quiet ==
    /\ \A l \in DOMAIN log : l \in DOMAIN log' /\ log'[l] = log[l]
    /\ \A l \in DOMAIN log' : Open(l)' => l \in DOMAIN log /\ Open(l)
    /\ \A l \in DOMAIN log : Open(l) => Open(l)'
    /\ \A ref : Calls(ref)' = Calls(ref)

LEMMA EmitsOther ==
    ASSUME TypeOK, OwnCalls, NEW kind \in Reports \cup EndKinds, NEW ref \in Ref, Emits(kind, ref),
           kind \notin Answers \cup {"tool.started"}
    PROVE  Quiet /\ OwnCalls'
<1> DEFINE n == Len(log) + 1
<1>1. /\ DOMAIN log' = DOMAIN log \cup {n} /\ n \notin DOMAIN log
      /\ \A l \in DOMAIN log : log'[l] = log[l] /\ l # n
      /\ log'[n].kind = kind
  BY EmitsEvent
<1> HIDE DEF n
<1>2. \A l \in DOMAIN log' : Open(l)' => l \in DOMAIN log /\ Open(l)
  BY <1>1 DEF Open
<1>3. \A l \in DOMAIN log : Open(l) => Open(l)'
  BY <1>1 DEF Open
<1>4. \A r : Calls(r)' = Calls(r)
  BY <1>1 DEF Calls
<1>5. OwnCalls'
  <2> SUFFICES ASSUME NEW i \in DOMAIN log', log'[i].kind \in Answers
               PROVE  /\ log'[i].cause < i /\ log'[i].cause \in DOMAIN log'
                      /\ log'[log'[i].cause].kind = "tool.started" /\ log'[log'[i].cause].ref = log'[i].ref
                      /\ \A j \in DOMAIN log' : log'[j].kind \in Answers /\ log'[j].cause = log'[i].cause => j = i
    BY DEF OwnCalls
  <2>1. i \in DOMAIN log /\ log'[i] = log[i]
    BY <1>1
  <2>2. /\ log[i].cause < i /\ log[i].cause \in DOMAIN log
        /\ log[log[i].cause].kind = "tool.started" /\ log[log[i].cause].ref = log[i].ref
        /\ \A j \in DOMAIN log : log[j].kind \in Answers /\ log[j].cause = log[i].cause => j = i
    BY <2>1 DEF OwnCalls
  <2> QED BY <1>1, <2>1, <2>2
<1> QED BY <1>1, <1>2, <1>3, <1>4, <1>5 DEF Quiet

\* A step that emits nothing.
LEMMA EmitsNothing ==
    ASSUME OwnCalls, log' = log
    PROVE  Quiet /\ OwnCalls'
BY DEF OwnCalls, Quiet, Open, Calls

\* A call that begins is open, and the latest one of its step.
LEMMA EmitsCall ==
    ASSUME TypeOK, OwnCalls, NEW ref \in Ref, Emits("tool.started", ref)
    PROVE  /\ OwnCalls'
           /\ Calls(ref)' # {} /\ Open(Max(Calls(ref)))'
           /\ \A l \in DOMAIN log' : Open(l)' =>
                  (l \in DOMAIN log /\ Open(l)) \/ (log'[l].ref = ref /\ l = Max(Calls(ref))')
<1>a. PICK n : n = Len(log) + 1
  OBVIOUS
<1>0. "tool.started" \in Reports /\ "tool.started" \notin Answers
  BY DEF Reports, Answers
<1>1. /\ DOMAIN log = 1..Len(log) /\ Len(log) \in Nat
      /\ DOMAIN log' = DOMAIN log \cup {n} /\ n \notin DOMAIN log
      /\ \A l \in DOMAIN log : log'[l] = log[l] /\ l # n /\ l < n
      /\ log'[n].kind = "tool.started" /\ log'[n].ref = ref
  BY <1>a, <1>0, EmitsEvent
<1>2. n \in Nat
  BY <1>a, <1>1
<1>3. Calls(ref)' = Calls(ref) \cup {n} /\ \A r : r # ref => Calls(r)' = Calls(r)
  BY <1>1 DEF Calls
<1>4. Max(Calls(ref))' = n
  <2>1. Calls(ref)' \in SUBSET (1..n) /\ Calls(ref)' # {}
    <3>1. Calls(ref) \subseteq DOMAIN log
      BY DEF Calls
    <3> QED BY <1>a, <1>1, <1>2, <1>3, <3>1
  <2>2. Max(Calls(ref)') \in Calls(ref)' /\ \A j \in Calls(ref)' : j <= Max(Calls(ref)')
    BY <1>2, <2>1, GreatestPosition
  <2>3. Max(Calls(ref)') \in 1..n /\ n <= Max(Calls(ref)')
    BY <1>3, <2>1, <2>2
  <2>4. Max(Calls(ref)') = n
    BY <1>2, <2>3
  <2> QED BY <2>4
<1>5. \A m \in DOMAIN log : log[m].kind \in Answers => log[m].cause # n
  <2> SUFFICES ASSUME NEW m \in DOMAIN log, log[m].kind \in Answers PROVE log[m].cause # n
    OBVIOUS
  <2>1. log[m].cause \in DOMAIN log
    BY DEF OwnCalls
  <2> QED BY <1>1, <2>1
<1>6. Open(n)'
  BY <1>0, <1>1, <1>5 DEF Open
<1>7. \A l \in DOMAIN log : Open(l)' => Open(l)
  BY <1>1 DEF Open
<1>8. OwnCalls'
  <2> SUFFICES ASSUME NEW i \in DOMAIN log', log'[i].kind \in Answers
               PROVE  /\ log'[i].cause < i /\ log'[i].cause \in DOMAIN log'
                      /\ log'[log'[i].cause].kind = "tool.started" /\ log'[log'[i].cause].ref = log'[i].ref
                      /\ \A j \in DOMAIN log' : log'[j].kind \in Answers /\ log'[j].cause = log'[i].cause => j = i
    BY DEF OwnCalls
  <2>1. i \in DOMAIN log /\ log'[i] = log[i]
    BY <1>0, <1>1
  <2>2. /\ log[i].cause < i /\ log[i].cause \in DOMAIN log
        /\ log[log[i].cause].kind = "tool.started" /\ log[log[i].cause].ref = log[i].ref
        /\ \A j \in DOMAIN log : log[j].kind \in Answers /\ log[j].cause = log[i].cause => j = i
    BY <2>1 DEF OwnCalls
  <2> QED BY <1>0, <1>1, <2>1, <2>2
<1>9. Calls(ref)' # {} /\ Open(Max(Calls(ref)))'
  BY <1>3, <1>4, <1>6 DEF Open
<1>10. \A l \in DOMAIN log' : Open(l)' =>
           (l \in DOMAIN log /\ Open(l)) \/ (log'[l].ref = ref /\ l = Max(Calls(ref))')
  BY <1>1, <1>4, <1>7
<1> QED BY <1>8, <1>9, <1>10

\* An answer closes the latest call of its step, if that is open.
LEMMA EmitsAnswer ==
    ASSUME TypeOK, OwnCalls, NEW kind \in Answers, NEW ref \in Ref, Emits(kind, ref),
           Calls(ref) # {}, Open(Max(Calls(ref)))
    PROVE  /\ OwnCalls'
           /\ \A l \in DOMAIN log' : Open(l)' => l \in DOMAIN log /\ Open(l) /\ l # Max(Calls(ref))
<1>a. PICK n : n = Len(log) + 1
  OBVIOUS
<1>b. PICK call : call = Max(Calls(ref))
  OBVIOUS
<1>0. kind \in Reports /\ kind # "tool.started"
  BY DEF Reports, Answers
<1>1. /\ DOMAIN log' = DOMAIN log \cup {n} /\ n \notin DOMAIN log
      /\ \A l \in DOMAIN log : log'[l] = log[l] /\ l # n /\ l < n
      /\ log'[n].kind = kind /\ log'[n].ref = ref /\ log'[n].cause = Cause(kind, ref)
  BY <1>a, <1>0, EmitsEvent
<1>2. Cause(kind, ref) = call
  BY <1>b DEF Cause
<1>3. call \in Calls(ref) /\ call \in DOMAIN log
  BY <1>b, CallsAre
<1>4. \A m \in DOMAIN log : log[m].kind \in Answers => log[m].cause # call
  BY <1>b DEF Open
<1>6. OwnCalls'
  <2> SUFFICES ASSUME NEW i \in DOMAIN log', log'[i].kind \in Answers
               PROVE  /\ log'[i].cause < i /\ log'[i].cause \in DOMAIN log'
                      /\ log'[log'[i].cause].kind = "tool.started" /\ log'[log'[i].cause].ref = log'[i].ref
                      /\ \A j \in DOMAIN log' : log'[j].kind \in Answers /\ log'[j].cause = log'[i].cause => j = i
    BY DEF OwnCalls
  <2>1. CASE i \in DOMAIN log
    <3>1. log'[i] = log[i]
      BY <1>1, <2>1
    <3>2. /\ log[i].cause < i /\ log[i].cause \in DOMAIN log /\ log[i].cause # call
          /\ log[log[i].cause].kind = "tool.started" /\ log[log[i].cause].ref = log[i].ref
          /\ \A j \in DOMAIN log : log[j].kind \in Answers /\ log[j].cause = log[i].cause => j = i
      BY <1>4, <2>1, <3>1 DEF OwnCalls
    <3> QED BY <1>1, <1>2, <3>1, <3>2
  <2>2. CASE i = n
    <3>1. log[call].kind = "tool.started" /\ log[call].ref = ref
      BY <1>3 DEF Calls
    <3> QED BY <1>1, <1>2, <1>3, <1>4, <2>2, <3>1
  <2> QED BY <1>1, <2>1, <2>2
<1>7. \A l \in DOMAIN log' : Open(l)' => l \in DOMAIN log /\ Open(l) /\ l # call
  <2> SUFFICES ASSUME NEW l \in DOMAIN log', Open(l)' PROVE l \in DOMAIN log /\ Open(l) /\ l # call
    OBVIOUS
  <2>1. log'[l].kind = "tool.started" /\ \A m \in DOMAIN log' : log'[m].kind \in Answers => log'[m].cause # l
    BY DEF Open
  <2>2. l \in DOMAIN log /\ log'[l] = log[l]
    BY <1>0, <1>1, <2>1
  <2>3. l # call
    BY <1>1, <1>2, <2>1
  <2> QED BY <1>1, <2>1, <2>2, <2>3 DEF Open
<1> QED BY <1>b, <1>6, <1>7

\* What is to be kept of the calls, as long as no write has failed before.
Kept == OwnCalls /\ OnlyPendingOpen /\ PendingIsOpen

\* While no call is pending, none is open, unless a write has failed.
LEMMA NoneOpen ==
    ASSUME OnlyPendingOpen, faults = 0, phase # "crashed", ~Running \/ \A ref : ~Pending(ref)
    PROVE  \A l \in DOMAIN log : ~Open(l)
BY DEF OnlyPendingOpen

\* So the thread may go anywhere else, ...
LEMMA QuietLeaves ==
    ASSUME Kept, Quiet, OwnCalls', faults \in Nat, faults' = faults, phase # "crashed",
           ~Running \/ \A ref : ~Pending(ref),
           Running' => \A ref : ~Pending(ref)'
    PROVE  Kept'
<1>1. OnlyPendingOpen'
  BY NoneOpen DEF Kept, Quiet, OnlyPendingOpen
<1>2. PendingIsOpen'
  BY DEF PendingIsOpen
<1> QED BY <1>1, <1>2 DEF Kept

\* ... or on, while the call is pending.
LEMMA QuietGoesOn ==
    ASSUME TypeOK, Kept, Quiet, OwnCalls', faults' = faults, status' = status, Running, Running',
           \A ref : Pending(ref)' <=> Pending(ref)
    PROVE  Kept'
<1>0. /\ \A l \in DOMAIN log : l \in DOMAIN log' /\ log'[l] = log[l]
      /\ \A l \in DOMAIN log' : Open(l)' => l \in DOMAIN log /\ Open(l)
      /\ \A ref : Max(Calls(ref))' = Max(Calls(ref)) /\ Calls(ref)' = Calls(ref)
  BY DEF Quiet
<1>1. OnlyPendingOpen'
  <2> SUFFICES ASSUME faults = 0, NEW l \in DOMAIN log', Open(l)'
               PROVE  status' = "running" /\ Pending(log[l].ref)' /\ l = Max(Calls(log[l].ref))'
    BY DEF OnlyPendingOpen
  <2>1. l \in DOMAIN log /\ Open(l) /\ log'[l] = log[l]
    BY <1>0
  <2>2. status = "running" /\ Pending(log[l].ref) /\ l = Max(Calls(log[l].ref))
    BY <2>1 DEF Kept, OnlyPendingOpen, Running
  <2>3. PICK ref : ref = log[l].ref
    OBVIOUS
  <2>4. Pending(ref)' /\ l = Max(Calls(ref))'
    BY <1>0, <2>2, <2>3
  <2> QED BY <2>1, <2>2, <2>3, <2>4 DEF Pending, Calls
<1>2. PendingIsOpen'
  <2> SUFFICES ASSUME NEW ref \in Ref, Pending(ref)' PROVE (Calls(ref) # {} /\ Open(Max(Calls(ref))))'
    BY DEF PendingIsOpen
  <2>1. Calls(ref) # {} /\ Open(Max(Calls(ref)))
    BY DEF Kept, PendingIsOpen
  <2>2. PICK l : l = Max(Calls(ref))
    OBVIOUS
  <2>3. l \in DOMAIN log /\ Open(l)
    BY <2>1, <2>2, CallsAre
  <2>4. Open(l)' /\ Max(Calls(ref))' = l /\ Calls(ref)' # {}
    BY <1>0, <2>1, <2>2, <2>3 DEF Quiet
  <2> QED BY <2>4 DEF Open
<1> QED BY <1>1, <1>2 DEF Kept

\* The script goes on by an operation that emits nothing, or another event.
LEMMA AdvanceKeeps ==
    ASSUME Inv, Kept, Quiet, OwnCalls', phase = "script", at \in DOMAIN script, Advance,
           script' = script, UNCHANGED <<status, faults>>,
           ~(script[at].do = "emit" /\ script[at].kind \in Answers \cup {"tool.started"})
    PROVE  Kept'
<1>1. Running /\ Running' /\ at' = at + 1
  BY DEF Advance, Running
<1>2. \A ref : Pending(ref)' <=> Pending(ref)
  BY <1>1, PendingNext DEF Inv
<1> QED BY <1>1, <1>2, QuietGoesOn DEF Inv

\* An event of the script is emitted: it may begin a call or answer one.
LEMMA EmitNextKeeps ==
    ASSUME Inv, Kept, EmitNext, script' = script
    PROVE  Kept'
<1>1. /\ at \in DOMAIN script /\ script[at].do = "emit" /\ script[at].kind \in Reports
      /\ script[at].ref \in Ref /\ phase = "script" /\ status = "running"
  BY HereInScript, ScriptType DEF EmitNext, Inv, Lifecycle
<1>2. /\ Emits(script[at].kind, script[at].ref) /\ Advance /\ at' = at + 1
      /\ status' = status /\ faults' = faults /\ Running /\ Running' /\ TypeOK
  BY <1>1 DEF EmitNext, Advance, Running, Inv
<1>3. CASE script[at].kind \notin Answers \cup {"tool.started"}
  <2>1. Quiet /\ OwnCalls'
    BY <1>1, <1>2, <1>3, EmitsOther DEF Kept
  <2> QED BY <1>1, <1>2, <1>3, <2>1, AdvanceKeeps
<1>4. PICK ref : ref = script[at].ref
  OBVIOUS
<1>5. CASE script[at].kind = "tool.started"
  <2>1. \A r : ~Pending(r)
    BY <1>1, <1>2, <1>5, NotPending
  <2>2. \A r : Pending(r)' <=> r = ref
    BY <1>1, <1>2, <1>4, <1>5, PendingNext
  <2>3. /\ OwnCalls' /\ Calls(ref)' # {} /\ Open(Max(Calls(ref)))'
        /\ \A l \in DOMAIN log' : Open(l)' =>
               (l \in DOMAIN log /\ Open(l)) \/ (log'[l].ref = ref /\ l = Max(Calls(ref))')
    BY <1>1, <1>2, <1>4, <1>5, EmitsCall DEF Kept
  <2>4. OnlyPendingOpen'
    <3> SUFFICES ASSUME faults = 0, NEW l \in DOMAIN log', Open(l)'
                 PROVE  status' = "running" /\ Pending(log[l].ref)' /\ l = Max(Calls(log[l].ref))'
      BY <1>2 DEF OnlyPendingOpen
    <3>1. \A m \in DOMAIN log : ~Open(m)
      BY <1>1, <2>1, NoneOpen DEF Kept
    <3>2. log'[l].ref = ref /\ l = Max(Calls(ref))'
      BY <2>3, <3>1
    <3>3. Pending(ref)'
      BY <2>2
    <3> QED BY <1>1, <1>2, <3>2, <3>3 DEF Pending, Calls
  <2>5. PendingIsOpen'
    BY <2>2, <2>3 DEF PendingIsOpen
  <2> QED BY <2>3, <2>4, <2>5 DEF Kept
<1>6. CASE script[at].kind \in Answers
  <2>1. \A r : Pending(r) <=> r = ref
    BY <1>1, <1>2, <1>4, <1>6, StepPending
  <2>2. \A r : ~Pending(r)'
    BY <1>1, <1>2, <1>6, PendingNext
  <2>3. Calls(ref) # {} /\ Open(Max(Calls(ref)))
    BY <1>1, <1>2, <1>4, <2>1 DEF Kept, PendingIsOpen
  <2>4. /\ OwnCalls'
        /\ \A l \in DOMAIN log' : Open(l)' => l \in DOMAIN log /\ Open(l) /\ l # Max(Calls(ref))
    BY <1>1, <1>2, <1>4, <1>6, <2>3, EmitsAnswer DEF Kept
  <2>5. faults = 0 => \A l \in DOMAIN log' : ~Open(l)'
    BY <1>1, <2>1, <2>4 DEF Kept, OnlyPendingOpen
  <2> QED BY <1>2, <2>2, <2>4, <2>5 DEF Kept, OnlyPendingOpen, PendingIsOpen
<1> QED BY <1>3, <1>5, <1>6

\* A tool that failed is reported, which answers its call; so is its step.
LEMMA ReportToolKeeps ==
    ASSUME Inv, Kept, Position, ReportTool, script' = script
    PROVE  Kept'
<1>1. /\ TypeOK /\ at \in DOMAIN script /\ script[at].ref \in Ref /\ faults' = faults /\ ~Running'
      /\ faults \in Nat /\ phase # "crashed"
  BY ScriptType DEF ReportTool, Goto, Running, Inv, Lifecycle, TypeOK
<1>2. PICK ref : ref = script[at].ref
  OBVIOUS
<1>3. CASE phase = "toolFailed"
  <2>1. \A r : Pending(r) <=> r = ref
    BY <1>1, <1>2, <1>3, StepPending DEF Position
  <2>2. Calls(ref) # {} /\ Open(Max(Calls(ref)))
    BY <1>1, <1>2, <1>3, <2>1 DEF Kept, PendingIsOpen, Running
  <2>3. Emits("tool.failed", ref) /\ "tool.failed" \in Answers
    BY <1>2, <1>3 DEF ReportTool, Answers
  <2>4. /\ OwnCalls'
        /\ \A l \in DOMAIN log' : Open(l)' => l \in DOMAIN log /\ Open(l) /\ l # Max(Calls(ref))
    BY <1>1, <1>2, <2>2, <2>3, EmitsAnswer DEF Kept
  <2>5. faults = 0 => \A l \in DOMAIN log' : ~Open(l)'
    BY <1>1, <2>1, <2>4 DEF Kept, OnlyPendingOpen
  <2> QED BY <1>1, <2>4, <2>5 DEF Kept, OnlyPendingOpen, PendingIsOpen
<1>4. CASE phase # "toolFailed"
  <2>1. Emits("step.failed", ref) /\ phase = "stepFailed"
    BY <1>2, <1>4 DEF ReportTool
  <2>2. "step.failed" \in Reports /\ "step.failed" \notin Answers \cup {"tool.started"}
    BY DEF Reports, Answers
  <2>3. Quiet /\ OwnCalls'
    BY <1>1, <1>2, <2>1, <2>2, EmitsOther DEF Kept
  <2>4. ~Running
    BY <2>1 DEF Running
  <2> QED BY <1>1, <2>3, <2>4, QuietLeaves
<1> QED BY <1>3, <1>4

\* A planner that waits, or a cycle that stops, is no call of a tool.
LEMMA CycleKeeps ==
    ASSUME Inv, Kept, PlannerReports \/ CycleStops, script' = script
    PROVE  Kept'
<1>1. TypeOK /\ phase = "script" /\ script[at].do = "cycle" /\ script[at].ref \in Ref /\ faults \in Nat
  BY HereInScript DEF PlannerReports, CycleStops, Inv, TypeOK
<1>2. \A r : ~Pending(r)
  BY <1>1, NotPending
<1>3. Quiet /\ OwnCalls'
  <2>1. \/ log' = log
        \/ \E kind \in {"planner.waiting", "planner.resumed", "cycle.checkpointed"} :
              Emits(kind, script[at].ref)
    BY DEF PlannerReports, CycleStops
  <2>2. \A kind \in {"planner.waiting", "planner.resumed", "cycle.checkpointed"} :
            kind \in Reports /\ kind \notin Answers \cup {"tool.started"}
    BY DEF Reports, Answers
  <2> QED BY <1>1, <2>1, <2>2, EmitsOther, EmitsNothing DEF Kept
<1>4. faults' = faults /\ at' = at
  BY DEF PlannerReports, CycleStops, Goto
<1>5. \A r : ~Pending(r)'
  BY <1>2, <1>4 DEF Pending
<1> QED BY <1>1, <1>2, <1>3, <1>4, <1>5, QuietLeaves

\* The end of a run is no call either.
LEMMA EndKeeps ==
    ASSUME Inv, Kept, Complete \/ Interrupt \/ Fail
    PROVE  Kept'
<1>1. /\ TypeOK /\ faults \in Nat /\ faults' = faults /\ phase # "crashed" /\ ~Running'
      /\ phase = "script" => at > Len(script)
      /\ \E kind \in EndKinds : Emits(kind, None)
  BY DEF Complete, Interrupt, Fail, Goto, Running, EndKinds, Inv, TypeOK
<1>2. EndKinds \cap (Answers \cup {"tool.started"}) = {}
  BY DEF EndKinds, Answers
<1>3. Quiet /\ OwnCalls'
  BY <1>1, <1>2, NoneRef, EmitsOther DEF Kept
<1>4. ~Running \/ \A r : ~Pending(r)
  <2>1. phase \in {"script", "cancelling", "failing"}
    BY DEF Complete, Interrupt, Fail
  <2> QED BY <1>1, <2>1, NotPending DEF Running
<1> QED BY <1>1, <1>3, <1>4, QuietLeaves

\* A step that emits nothing and neither runs a tool nor fails.
LEMMA OtherKeeps ==
    ASSUME Inv, Kept, Position, script' = script,
           \/ Register \/ SaveGraph \/ SaveOther \/ CheckCancelled \/ CycleCompletes
           \/ RaiseNext \/ SaveStatus \/ Close
    PROVE  Kept'
<1>1. TypeOK /\ faults \in Nat /\ faults' = faults /\ phase # "crashed" /\ log' = log
  BY DEF Register, SaveGraph, SaveOther, CheckCancelled, CycleCompletes, RaiseNext, SaveStatus, Close,
     Inv, TypeOK, Here
<1>2. Quiet /\ OwnCalls'
  BY <1>1, EmitsNothing DEF Kept
<1>3. CASE SaveGraph \/ SaveOther \/ CheckCancelled \/ CycleCompletes \/ RaiseNext
  <2>1. /\ at \in DOMAIN script /\ script[at].do \in {"save", "store", "poll", "cycle", "raise"}
        /\ at' = at \/ at' = at + 1
    BY <1>1, <1>3, HereInScript, ScriptType
       DEF SaveGraph, SaveOther, CheckCancelled, CycleCompletes, RaiseNext, Goto, Advance
  <2>2. \A r : ~Pending(r)
    BY <1>1, <2>1, NotPending
  <2>3. \A r : ~Pending(r)'
    <3>1. CASE at' = at
      BY <2>2, <3>1 DEF Pending
    <3>2. CASE at' = at + 1
      BY <1>1, <2>1, <2>2, <3>2, PendingNext
    <3> QED BY <2>1, <3>1, <3>2
  <2> QED BY <1>1, <1>2, <2>2, <2>3, QuietLeaves
<1>4. CASE Register
  <2>1. ~Running /\ at = 1 /\ at' = 1
    BY <1>4 DEF Register, Goto, Running, Position
  <2>2. \A r : ~Pending(r)'
    BY <2>1 DEF Pending
  <2> QED BY <1>1, <1>2, <2>1, <2>2, QuietLeaves
<1>5. CASE SaveStatus \/ Close
  <2>1. ~Running /\ ~Running'
    BY <1>5 DEF SaveStatus, Close, Goto, Running
  <2> QED BY <1>1, <1>2, <2>1, QuietLeaves
<1> QED BY <1>3, <1>4, <1>5

\* A tool returns or fails: its call is pending.
LEMMA ToolKeeps ==
    ASSUME Inv, Kept, ToolReturns \/ ToolRaises, script' = script
    PROVE  Kept'
<1>1. /\ TypeOK /\ at \in DOMAIN script /\ script[at].do = "invoke" /\ phase = "script" /\ log' = log
      /\ faults' = faults /\ status' = status /\ Running /\ Running'
  BY HereInScript, ScriptType DEF ToolReturns, ToolRaises, Goto, Advance, Running, Inv
<1>2. Quiet /\ OwnCalls'
  BY <1>1, EmitsNothing DEF Kept
<1>3. CASE ToolReturns
  BY <1>1, <1>2, <1>3, AdvanceKeeps DEF ToolReturns
<1>4. CASE ToolRaises
  <2>1. \A r : Pending(r)' <=> Pending(r)
    BY <1>4 DEF ToolRaises, Goto, Pending
  <2> QED BY <1>1, <1>2, <2>1, QuietGoesOn
<1> QED BY <1>3, <1>4

\* A client cancels, a write fails, the process dies, the run starts.
LEMMA FaultKeeps ==
    ASSUME Inv, Kept, Position, script' = script, Cancel \/ WriteRaises \/ Crash \/ Start \/ UNCHANGED vars
    PROVE  Kept'
<1>0. TypeOK /\ faults \in Nat /\ (phase = "idle" => log = <<>>)
      /\ ("run.started" \notin Answers \cup {"tool.started"})
  BY DEF Inv, TypeOK, Lifecycle, Answers
<1>1. CASE Cancel \/ UNCHANGED vars
  <2>1. UNCHANGED <<log, status, phase, at, faults>>
    BY <1>1 DEF Cancel, vars
  <2>2. Quiet /\ OwnCalls'
    BY <2>1, EmitsNothing DEF Kept
  <2>3. /\ \A ref : Pending(ref)' <=> Pending(ref)
        /\ Running' <=> Running
    BY <2>1 DEF Pending, Running
  <2>4. CASE Running
    BY <1>0, <2>1, <2>2, <2>3, <2>4, QuietGoesOn
  <2>5. CASE ~Running
    BY <2>1, <2>2, <2>3, <2>5 DEF Kept, Quiet, OnlyPendingOpen, PendingIsOpen
  <2> QED BY <2>4, <2>5
<1>2. CASE WriteRaises
  <2>1. faults' # 0 /\ ~Running' /\ log' = log
    BY <1>0, <1>2 DEF WriteRaises, Goto, Running
  <2> QED BY <2>1, EmitsNothing DEF Kept, OnlyPendingOpen, PendingIsOpen
<1>3. CASE Crash
  <2>1. phase' = "crashed" /\ log' = log /\ faults' = faults /\ status' = status
    BY <1>3 DEF Crash, Goto
  <2>2. Quiet /\ OwnCalls'
    BY <2>1, EmitsNothing DEF Kept
  <2>3. OnlyPendingOpen'
    BY <2>1, <2>2 DEF Kept, Quiet, OnlyPendingOpen
  <2> QED BY <2>1, <2>2, <2>3 DEF Kept, PendingIsOpen, Running
<1>4. CASE Start
  <2>1. /\ DOMAIN log' = {1} /\ log'[1].kind = "run.started" /\ ~Running'
    BY <1>4 DEF Start, Goto, Running
  <2> QED BY <1>0, <2>1 DEF Kept, OwnCalls, OnlyPendingOpen, PendingIsOpen, Open
<1> QED BY <1>1, <1>2, <1>3, <1>4

\* Every step keeps what is known of the calls.
LEMMA KeptStep ==
    ASSUME Inv, Kept, Position, [Next]_vars
    PROVE  Kept'
<1>1. script' = script
  BY EveryMove DEF Inv, Moves, script
<1>2. CASE EmitNext
  BY <1>1, <1>2, EmitNextKeeps
<1>3. CASE ReportTool
  BY <1>1, <1>3, ReportToolKeeps
<1>4. CASE PlannerReports \/ CycleStops
  BY <1>1, <1>4, CycleKeeps
<1>5. CASE Complete \/ Interrupt \/ Fail
  BY <1>5, EndKeeps
<1>6. CASE \/ Register \/ SaveGraph \/ SaveOther \/ CheckCancelled \/ CycleCompletes
           \/ RaiseNext \/ SaveStatus \/ Close
  BY <1>1, <1>6, OtherKeeps
<1>7. CASE ToolReturns \/ ToolRaises
  BY <1>1, <1>7, ToolKeeps
<1>8. CASE Cancel \/ WriteRaises \/ Crash \/ Start \/ UNCHANGED vars
  BY <1>1, <1>8, FaultKeeps
<1> QED BY <1>2, <1>3, <1>4, <1>5, <1>6, <1>7, <1>8 DEF Next, Step

\* The position is the first one until the script is executed, and that of a
\* tool when one fails.
LEMMA PositionStep ==
    ASSUME Inv, Position, [Next]_vars
    PROVE  Position'
<1>1. script' = script /\ TypeOK
  BY EveryMove DEF Inv, Moves, script
<1>2. CASE Start \/ Cancel \/ UNCHANGED vars
  BY <1>1, <1>2 DEF Start, Cancel, vars, Goto, Position
<1>3. CASE ToolRaises
  BY <1>1, <1>3, HereInScript DEF ToolRaises, Goto, Position
<1>4. CASE \/ Step \/ CycleStops \/ PlannerReports \/ WriteRaises \/ Crash
  <2>1. phase' \notin {"idle", "starting", "toolFailed"}
    BY <1>4 DEF Step, Register, EmitNext, SaveGraph, SaveOther, CheckCancelled, ToolReturns, ReportTool,
       CycleCompletes, RaiseNext, Complete, Interrupt, Fail, SaveStatus, Close, CycleStops, PlannerReports,
       WriteRaises, Crash, Goto, Advance, Here
  <2> QED BY <2>1 DEF Position
<1> QED BY <1>2, <1>3, <1>4 DEF Next

\* An operation that emits is passed only by emitting.
LEMMA PassedEmits ==
    ASSUME TypeOK, [Next]_vars, at' # at, script[at].do = "emit"
    PROVE  EmitNext
<1>1. at \in Nat
  BY DEF TypeOK
<1>2. ~(SaveGraph \/ SaveOther \/ CheckCancelled \/ ToolReturns \/ CycleCompletes)
  BY DEF SaveGraph, SaveOther, CheckCancelled, ToolReturns, CycleCompletes, Here
<1>3. at' = at \/ EmitNext
  BY <1>2 DEF Next, Step, Start, Register, Cancel, ToolRaises, ReportTool, PlannerReports, CycleStops,
     RaiseNext, Complete, Interrupt, Fail, SaveStatus, Close, WriteRaises, Crash, Goto, vars
<1> QED BY <1>3

\* What has been passed stays in the log.
LEMMA EmitsLoggedStep ==
    ASSUME Inv, EmitsLogged, [Next]_vars
    PROVE  EmitsLogged'
<1>1. /\ script' = script /\ TypeOK /\ at \in Nat /\ DOMAIN script = 1..Len(script) /\ Len(script) \in Nat
      /\ at' = at \/ (at <= Len(script) /\ at' = at + 1)
      /\ \A l \in DOMAIN log : l \in DOMAIN log' /\ log'[l] = log[l]
  BY EveryMove, EveryLog, LogStep, ScriptType DEF Inv, Moves, script, Lifecycle
<1> SUFFICES ASSUME NEW i \in DOMAIN script, i < at', script[i].do = "emit"
             PROVE  \E l \in DOMAIN log' : log'[l].kind = script[i].kind /\ log'[l].ref = script[i].ref
  BY <1>1 DEF EmitsLogged
<1>2. CASE i < at
  BY <1>1, <1>2 DEF EmitsLogged
<1>3. CASE ~(i < at)
  <2>1. i = at /\ at' # at
    BY <1>1, <1>3
  <2>2. Emits(script[i].kind, script[i].ref)
    BY <1>1, <2>1, PassedEmits DEF EmitNext
  <2>3. script[i].kind \in Reports /\ script[i].ref \in Ref
    BY <1>1, <2>1, ScriptType
  <2> QED BY <1>1, <2>2, <2>3, EmitsEvent
<1> QED BY <1>2, <1>3

\* A step starts after those it needs.
LEMMA DependenciesStep ==
    ASSUME Inv, EmitsLogged, DependenciesFirst, [Next]_vars
    PROVE  DependenciesFirst'
<1>1. /\ inputs' = inputs /\ script' = script /\ TypeOK
      /\ \A l \in DOMAIN log : l \in DOMAIN log' /\ log'[l] = log[l]
  BY EveryMove, EveryLog, LogStep DEF Inv, Moves, script, Lifecycle
<1> SUFFICES ASSUME NEW i \in DOMAIN log', NEW k \in DOMAIN inputs.steps, log'[i].kind = "step.started",
                    log'[i].ref = Id(inputs.steps[k].id), NEW need \in inputs.steps[k].needs
             PROVE  \E j \in 1..i : log'[j].kind = "step.completed" /\ log'[j].ref = Id(need)
  BY <1>1 DEF DependenciesFirst
<1>2. CASE i \in DOMAIN log
  <2>1. PICK j \in 1..i : log[j].kind = "step.completed" /\ log[j].ref = Id(need)
    BY <1>1, <1>2 DEF DependenciesFirst
  <2>2. j \in DOMAIN log
    BY <1>1, <1>2, LogType
  <2> QED BY <1>1, <2>1, <2>2
<1>3. CASE i \notin DOMAIN log
  <2>1. EmitNext
    <3>1. ASSUME NEW kind \in Reports \cup EndKinds, NEW ref \in Ref, Emits(kind, ref), kind # "step.started"
          PROVE  FALSE
      BY <1>1, <1>3, <3>1, EmitsEvent
    <3>2. log' # log
      BY <1>3
    <3>3. ~Start
      BY <1>3 DEF Start
    <3>4. ~(Complete \/ Interrupt \/ Fail)
      BY <3>1, NoneRef DEF Complete, Interrupt, Fail, EndKinds
    <3>5. ~ReportTool
      <4>1. ReportTool => script[at].ref \in Ref
        BY <1>1, ScriptType DEF ReportTool, Inv, Lifecycle
      <4> QED BY <3>1, <4>1, Kinds DEF ReportTool
    <3>6. ~(PlannerReports \/ CycleStops)
      <4>1. PlannerReports \/ CycleStops => script[at].ref \in Ref
        BY <1>1, HereInScript DEF PlannerReports, CycleStops
      <4> QED BY <3>1, <3>2, <4>1, Kinds DEF PlannerReports, CycleStops
    <3> QED BY <3>2, <3>3, <3>4, <3>5, <3>6
            DEF Next, Step, Register, SaveGraph, SaveOther, CheckCancelled, ToolReturns, CycleCompletes,
                RaiseNext, SaveStatus, Close, Cancel, ToolRaises, WriteRaises, Crash, vars
  <2>2. /\ at \in DOMAIN script /\ script[at].do = "emit" /\ script[at].kind \in Reports
        /\ script[at].ref \in Ref /\ Emits(script[at].kind, script[at].ref)
    BY <1>1, <2>1, HereInScript, ScriptType DEF EmitNext
  <2>3. /\ i = Len(log) + 1 /\ log'[i].kind = script[at].kind /\ log'[i].ref = script[at].ref
        /\ DOMAIN log = 1..Len(log) /\ Len(log) \in Nat
    BY <1>1, <1>3, <2>2, EmitsEvent
  <2>4. PICK j \in 1..(at - 1) : /\ script[j].do = "emit" /\ script[j].kind = "step.completed"
                                 /\ script[j].ref = Id(need)
    <3>1. script = Scripts[inputs] /\ inputs \in Inputs
      BY <1>1 DEF script, TypeOK
    <3>2. \A m \in DOMAIN script, o \in DOMAIN inputs.steps :
              /\ script[m].do = "emit" /\ script[m].kind = "step.started"
              /\ script[m].ref = Id(inputs.steps[o].id)
              => \A d \in inputs.steps[o].needs : \E j \in 1..(m - 1) :
                     /\ script[j].do = "emit" /\ script[j].kind = "step.completed"
                     /\ script[j].ref = Id(d)
      BY <3>1, StepsAlwaysOrdered DEF StepsOrdered
    <3>3. script[at].kind = "step.started" /\ script[at].ref = Id(inputs.steps[k].id)
      BY <1>1, <2>3
    <3> QED BY <2>2, <3>2, <3>3
  <2>5. j \in DOMAIN script /\ j < at
    BY <1>1, <2>2, ScriptType
  <2>6. PICK l \in DOMAIN log : log[l].kind = "step.completed" /\ log[l].ref = Id(need)
    BY <2>4, <2>5 DEF EmitsLogged
  <2> QED BY <1>1, <2>3, <2>6
<1> QED BY <1>2, <1>3

\* Nothing has been logged yet.
LEMMA InitCalls ==
    ASSUME Init
    PROVE  CallsInv
<1>1. Inv /\ at = 1 /\ phase = "idle" /\ DOMAIN log = {}
  <2>1. log = <<>> /\ at = 1 /\ phase = "idle"
    BY DEF Init
  <2>2. DOMAIN log = {}
    BY <2>1
  <2> QED BY <2>1, <2>2, InitInv
<1>2. DOMAIN script \subseteq Nat \ {0}
  BY <1>1, ScriptType DEF Inv
<1>3. EmitsLogged
  BY <1>1, <1>2 DEF EmitsLogged
<1> QED BY <1>1, <1>3 DEF CallsInv, OwnCalls, DependenciesFirst, OnlyPendingOpen, PendingIsOpen, Running,
                          Position

(* For all inputs: calls and answers pair up, all of them once the run has  *)
(* ended with no database error, and no tool runs before those its step     *)
(* needs have completed, whatever fails and whenever the run is cancelled   *)
(* (_run_tool, emit, _ordered_steps).                                       *)
THEOREM CallsAlwaysPairUp == Spec => []CallsPairUp
<1>1. CallsInv /\ [Next]_vars => CallsInv'
  BY InvStep, KeptStep, PositionStep, EmitsLoggedStep, DependenciesStep DEF CallsInv, Kept
<1>2. CallsInv => CallsPairUp
  <2> SUFFICES ASSUME CallsInv PROVE CallsPairUp
    OBVIOUS
  <2>1. AnswersMatchCalls
    BY DEF CallsInv, OwnCalls, AnswersMatchCalls
  <2>2. EndedRunHasNoOpenCall
    <3> SUFFICES ASSUME status \in {"completed", "failed", "interrupted"}, faults = 0, NEW i \in DOMAIN log,
                        log[i].kind = "tool.started"
                 PROVE  \E j \in DOMAIN log : log[j].kind \in Answers /\ log[j].cause = i
      BY DEF EndedRunHasNoOpenCall
    <3>1. ~Open(i)
      BY DEF CallsInv, OnlyPendingOpen
    <3> QED BY <3>1 DEF Open
  <2> QED BY <2>1, <2>2 DEF CallsInv, CallsPairUp
<1>3. Init => CallsInv
  BY InitCalls
<1> QED BY <1>1, <1>2, <1>3, PTL DEF Spec
------------------------------------------------------------------------------
(****************************************************************************)
(* Failures.  For unambiguous inputs the nodes of the persisted graph are   *)
(* those that the passed operations have saved, and the graph that the      *)
(* script builds from none refuses none of its elements (ScriptBuilds): a   *)
(* run that fails has met an error.                                         *)
(****************************************************************************)
NodesSaved == Unambiguous(inputs) => graph \cap NodeRef = Known({}, script, at)
Unharmed == Unambiguous(inputs) /\ errors = 0 /\ faults = 0 =>
    phase \notin {"toolFailed", "stepFailed", "failing", "failed"} /\ status # "failed"
FailsInv == TypeOK /\ Lifecycle /\ NodesSaved /\ Unharmed

\* A node is no edge: it is named by a kind and a number, an edge by three.
LEMMA NodesAreNoEdges == NodeRef \cap EdgeRef = {}
<1> SUFFICES ASSUME NEW name, NEW n, NEW a, NEW b, NEW c, <<name, n>> = <<a, b, c>> PROVE FALSE
  BY DEF NodeRef, EdgeRef
<1>1. Len(<<name, n>>) = 2 /\ Len(<<a, b, c>>) = 3
  OBVIOUS
<1> QED  BY <1>1

\* What ScriptBuilds says of the operation that comes next.
LEMMA NextBuilds ==
    ASSUME TypeOK, Unambiguous(inputs), at \in DOMAIN script
    PROVE  /\ script[at].do # "raise"
           /\ SavesNode(script[at]) =>
                  script[at].ref \in NodeRef /\ script[at].ref \notin Known({}, script, at)
           /\ script[at].do = "save" /\ script[at].kind # "node" =>
                  /\ script[at].ends \subseteq Known({}, script, at)
                  /\ script[at].ref \in script[at].ends \/ script[at].ref \in EdgeRef
<1>1. script = Script(inputs) /\ InputOK(inputs)
  BY InputsOK DEF TypeOK, script, Scripts
<1>2. Builds({}, script, AllNodes(inputs))
  BY <1>1, ScriptBuilds
<1> QED  BY <1>2 DEF Builds

\* An operation that is passed adds to the known nodes the one that it saves.
LEMMA KnownNext ==
    ASSUME NEW N, NEW ops, NEW i \in Nat \ {0}
    PROVE  Known(N, ops, i + 1) =
               IF SavesNode(ops[i]) THEN Known(N, ops, i) \cup {ops[i].ref} ELSE Known(N, ops, i)
<1>1. \A k : k \in 1..((i + 1) - 1) <=> k \in 1..(i - 1) \/ k = i
  OBVIOUS
<1>2. i \notin 1..(i - 1)
  OBVIOUS
<1> QED  BY <1>1, <1>2 DEF Known

\* The graph accepts the operation that comes next.
LEMMA AcceptsNext ==
    ASSUME TypeOK, NodesSaved, Unambiguous(inputs), SaveGraph
    PROVE  /\ Accepts(script[at]) /\ graph' = graph \cup {script[at].ref}
           /\ graph' \cap NodeRef = Known({}, script, at + 1)
           /\ phase = "script" /\ phase' = phase
<1>1. at \in DOMAIN script /\ script[at].do = "save" /\ phase = "script" /\ at \in Nat \ {0}
  BY HereInScript, ScriptType DEF SaveGraph
<1>2. graph \cap NodeRef = Known({}, script, at)
  BY DEF NodesSaved
<1>3. Accepts(script[at])
  BY <1>1, <1>2, NextBuilds DEF Accepts, SavesNode
<1>4. graph' = graph \cup {script[at].ref} /\ phase' = phase
  BY <1>3 DEF SaveGraph, Advance
<1>5. graph' \cap NodeRef = Known({}, script, at + 1)
  <2>1. CASE script[at].kind = "node"
    <3>1. SavesNode(script[at]) /\ script[at].ref \in NodeRef
      BY <1>1, <2>1, NextBuilds DEF SavesNode
    <3>2. Known({}, script, at + 1) = Known({}, script, at) \cup {script[at].ref}
      BY <1>1, <3>1, KnownNext
    <3> QED  BY <1>2, <1>4, <3>1, <3>2
  <2>2. CASE script[at].kind # "node"
    <3>1. script[at].ref \in graph \/ script[at].ref \notin NodeRef
      BY <1>1, <1>2, <2>2, NextBuilds, NodesAreNoEdges
    <3>2. graph' \cap NodeRef = graph \cap NodeRef
      BY <1>4, <3>1
    <3> QED  BY <1>1, <1>2, <2>2, <3>2, KnownNext DEF SavesNode
  <2> QED  BY <2>1, <2>2
<1> QED  BY <1>1, <1>3, <1>4, <1>5

\* Only SaveGraph changes the graph, and passes the save of a node.
LEMMA NodesSavedStep ==
    ASSUME TypeOK, NodesSaved, [Next]_vars
    PROVE  NodesSaved'
<1>1. Moves /\ script' = script /\ inputs' = inputs /\ at \in Nat \ {0}
  BY EveryMove, ScriptType DEF Moves, script
<1> SUFFICES ASSUME Unambiguous(inputs) PROVE graph' \cap NodeRef = Known({}, script, at')
  BY <1>1 DEF NodesSaved
<1>2. CASE SaveGraph
  <2>1. at' = at + 1
    BY <1>2, AcceptsNext DEF SaveGraph, Advance
  <2> QED  BY <1>2, <2>1, AcceptsNext
<1>3. CASE ~SaveGraph
  <2>1. graph' = graph /\ (at' = at \/ (at' = at + 1 /\ script[at].do # "save"))
    <3>1. CASE EmitNext \/ SaveOther \/ CheckCancelled \/ ToolReturns \/ CycleCompletes
      BY <3>1, HereInScript
         DEF EmitNext, SaveOther, CheckCancelled, ToolReturns, CycleCompletes, Goto, Advance
    <3>2. CASE ToolRaises \/ ReportTool \/ PlannerReports \/ CycleStops \/ RaiseNext \/ Complete
      BY <3>2 DEF ToolRaises, ReportTool, PlannerReports, CycleStops, RaiseNext, Complete, Goto
    <3>3. CASE Start \/ Register \/ Cancel \/ Interrupt \/ Fail \/ SaveStatus \/ Close
      BY <3>3 DEF Start, Register, Cancel, Interrupt, Fail, SaveStatus, Close, Goto
    <3>4. CASE WriteRaises \/ Crash \/ UNCHANGED vars
      BY <3>4 DEF WriteRaises, Crash, Goto, vars
    <3> QED  BY <1>3, <3>1, <3>2, <3>3, <3>4 DEF Next, Step
  <2>2. Known({}, script, at') = Known({}, script, at)
    BY <1>1, <2>1, KnownNext DEF SavesNode
  <2> QED  BY <2>1, <2>2 DEF NodesSaved
<1> QED  BY <1>2, <1>3

\* Without an error no step leads to a failure.
LEMMA UnharmedStep ==
    ASSUME TypeOK, Lifecycle, NodesSaved, Unharmed, [Next]_vars
    PROVE  Unharmed'
<1>1. inputs' = inputs /\ errors \in Nat /\ faults \in Nat
  BY EveryMove DEF Moves, TypeOK
<1> SUFFICES ASSUME Unambiguous(inputs), errors' = 0, faults' = 0
             PROVE  /\ phase' \notin {"toolFailed", "stepFailed", "failing", "failed"}
                    /\ status' # "failed"
  BY <1>1 DEF Unharmed
<1>2. errors = 0 /\ faults = 0 /\ ~ToolRaises /\ ~CycleStops /\ ~WriteRaises
  <2>1. ToolRaises \/ CycleStops => errors' = errors + 1
    BY DEF ToolRaises, CycleStops
  <2>2. WriteRaises => faults' = faults + 1
    BY DEF WriteRaises
  <2>3. ~(ToolRaises \/ CycleStops \/ WriteRaises) => errors' = errors /\ faults' = faults
    BY DEF Next, Step, Start, Register, Cancel, EmitNext, SaveGraph, SaveOther, CheckCancelled,
           ToolReturns, ReportTool, PlannerReports, CycleCompletes, RaiseNext, Complete, Interrupt,
           Fail, SaveStatus, Close, Crash, vars
  <2> QED  BY <1>1, <2>1, <2>2, <2>3
<1>3. phase \notin {"toolFailed", "stepFailed", "failing", "failed"} /\ status # "failed"
  BY <1>2 DEF Unharmed
<1>4. CASE SaveGraph
  BY <1>3, <1>4, AcceptsNext DEF SaveGraph
<1>5. ~RaiseNext
  BY HereInScript, ScriptType, NextBuilds DEF RaiseNext
<1>6. CASE SaveStatus
  BY <1>3, <1>6 DEF SaveStatus, Goto
<1>7. CASE ~SaveGraph /\ ~SaveStatus
  BY <1>2, <1>3, <1>5, <1>7
     DEF Next, Step, Start, Register, Cancel, EmitNext, SaveOther, CheckCancelled, ToolReturns,
         ReportTool, PlannerReports, CycleCompletes, Complete, Interrupt, Fail, Close, Crash, Goto,
         Advance, vars
<1> QED  BY <1>4, <1>6, <1>7

(* For all inputs without a conflict with a dropped claim, a repeated call  *)
(* and a hypothesis named like another node: a run that fails has met a     *)
(* tool, cycle or database error, never an assertion of EvidenceGraph,      *)
(* update_node or build_cycle_evidence_graph.                               *)
THEOREM FailsAlwaysForAReason == Spec => []FailsOnlyWhenAmbiguous
<1>1. Init => FailsInv
  <2> SUFFICES ASSUME Init PROVE FailsInv
    OBVIOUS
  <2>1. TypeOK /\ Lifecycle
    BY InitInv DEF Inv
  <2>2. Known({}, script, 1) = {}
    BY DEF Known
  <2> QED  BY <2>1, <2>2 DEF FailsInv, NodesSaved, Unharmed, Init
<1>2. FailsInv /\ [Next]_vars => FailsInv'
  BY TypeStep, LifecycleStep, NodesSavedStep, UnharmedStep DEF FailsInv
<1>3. FailsInv => FailsOnlyWhenAmbiguous
  BY DEF FailsInv, TypeOK, Unharmed, FailsOnlyWhenAmbiguous
<1> QED  BY <1>1, <1>2, <1>3, PTL DEF Spec
============================================================================
