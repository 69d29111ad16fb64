----------------------------- MODULE FlowScript -----------------------------
(****************************************************************************)
(* What AgentFlowEngine.execute does for one plan and one set of inputs, as *)
(* the sequence of its operations: the events it emits, the evidence graph  *)
(* it saves, the tools it runs and the points where it looks at the cancel  *)
(* flag.  FlowRun executes such a script one operation at a time.           *)
(*                                                                          *)
(* A step, an artifact or a node is named by a pair, its kind and a number; *)
(* edges have names of their own.                                           *)
(****************************************************************************)
EXTENDS Naturals, Sequences, SequencesExt

CONSTANTS
    Names,          \* the stable identifiers
    MaxClaims       \* the dashboard keeps the first 200 claims

\* The nodes that the engine names; the others bear the names of artifacts,
\* which their content gives them, and those of the proposed hypotheses.
EngineNodes == {"data-source", "compute-plan", "data-signal", "document-source",
                "analysis-conclusion", "recommended-action", "analysis-report"}
EngineNames == EngineNodes \cup
    {"inspect", "profile", "extract", "align", "hypotheses", "cycle", "cycle-round", "plan",
     "dashboard", "corpus", "knowledge", "graph", "excerpt", "claim", "validation"}
Edges == {"data-plan", "plan-signal", "cycle-source", "cycle", "excerpt-source", "claim-source",
          "claim", "conflict", "hypothesis", "validation", "signal-conclusion",
          "validation-conclusion", "conclusion-action", "action-report"}

ASSUME NamesOK == EngineNames \subseteq Names
ASSUME MaxClaimsOK == MaxClaims \in Nat

Runners == {"demo", "connected"}
Id(name) == <<name, 0>>
EdgeId(name, number) == <<"edge", name, number>>
None == <<>>
NodeRef == Names \X Nat
EdgeRef == {"edge"} \X Edges \X Nat
Ref == NodeRef \cup EdgeRef \cup {None}

\* The kinds of events that do not end a run: those that announce a saved graph
\* element, those that answer a tool call, and all others.
Announcements == {"node.added", "node.updated", "edge.added", "edge.activated"}
Answers == {"tool.result", "tool.failed"}
Reports == Announcements \cup Answers \cup
    {"run.started", "cycle.started", "planner.waiting", "planner.resumed", "cycle.checkpointed",
     "round.planned", "round.started", "tool.started", "artifact.created", "round.completed",
     "cycle.completed", "plan.created", "step.added", "step.started", "step.completed",
     "step.failed", "compute.plan.created", "data.profiled", "compute.result.created",
     "chart.spec.created", "dashboard.updated", "document.indexed", "retrieval.result.created",
     "claim.extracted", "conflict.detected", "plan.revised", "hypothesis.created",
     "validation.completed", "conclusion.created", "knowledge.candidate", "evidence.linked",
     "report.generated"}

OpKinds == Reports \cup
    {"", "node", "edge", "update", "analysis_cycle", "artifact_dashboard", "knowledge"}
Op == [do: {"emit", "save", "poll", "invoke", "cycle", "store", "raise"},
       kind: OpKinds, ref: Ref, ends: SUBSET Ref]

Emit(kind, ref) == <<[do |-> "emit", kind |-> kind, ref |-> ref, ends |-> {}]>>
Poll == <<[do |-> "poll", kind |-> "", ref |-> None, ends |-> {}]>>
Raise == <<[do |-> "raise", kind |-> "", ref |-> None, ends |-> {}]>>
Store(kind) == <<[do |-> "store", kind |-> kind, ref |-> None, ends |-> {}]>>

\* _run_tool, when the tool returns
Tool(step) ==
    Emit("step.started", step) \o Emit("tool.started", step)
    \o <<[do |-> "invoke", kind |-> "", ref |-> step, ends |-> {}]>>
    \o Emit("tool.result", step) \o Emit("step.completed", step)

\* add_node, add_edge and update_node: the graph is saved, then announced.
SaveNode(ref) == <<[do |-> "save", kind |-> "node", ref |-> ref, ends |-> {}]>>
SaveEdge(ref, source, target) ==
    <<[do |-> "save", kind |-> "edge", ref |-> ref, ends |-> {source, target}]>>
Node(ref) == SaveNode(ref) \o Emit("node.added", ref)
Edge(ref, source, target) ==
    SaveEdge(ref, source, target)
    \o <<[do |-> "emit", kind |-> "edge.added", ref |-> ref, ends |-> {source, target}]>>
    \o Emit("edge.activated", ref)
Update(ref) ==
    <<[do |-> "save", kind |-> "update", ref |-> ref, ends |-> {ref}]>> \o Emit("node.updated", ref)

\* for i in 1..n
For(n, Body(_)) == FlattenSeq([i \in 1..n |-> Body(i)])
If(condition, ops) == IF condition THEN ops ELSE <<>>
------------------------------------------------------------------------------
(* The inputs of a run: who runs it, the plan's steps, what the cycle's     *)
(* rounds will call, whether there are documents and any of them could be   *)
(* read (indexed), the claims in them, and the proposal: that it is refused *)
(* (malformed), or its hypotheses.                                          *)

\* Mutant: the steps run in the order of the plan.
OrderedStepsAsGiven(steps) == steps

\* _ordered_steps: again and again the first step whose dependencies are done
OrderedSteps(steps) ==
    LET Ready(done) == {i \in DOMAIN steps : /\ \A j \in DOMAIN done : done[j].id # steps[i].id
                                             /\ steps[i].needs \subseteq {done[j].id : j \in DOMAIN done}}
        First(S) == CHOOSE i \in S : \A j \in S : i <= j
        order[n \in 0..Len(steps)] ==
            IF n = 0 THEN <<>> ELSE Append(order[n - 1], steps[First(Ready(order[n - 1]))])
    IN  order[Len(steps)]

\* _demo_plan
DemoPlan(documents, proposal) ==
    <<[id |-> "inspect", needs |-> {}], [id |-> "profile", needs |-> {"inspect"}]>>
    \o If(documents, <<[id |-> "extract", needs |-> {"inspect"}],
                       [id |-> "align", needs |-> {"profile", "extract"}]>>)
    \o If(proposal, <<[id |-> "hypotheses",
                       needs |-> {IF documents THEN "align" ELSE "profile"}]>>)

\* Claims kept by build_text_dashboard. The conflicts, pairs of a claim and a
\* later one, were computed before claims were dropped.
Claims(in) == IF in.claims <= MaxClaims THEN in.claims ELSE MaxClaims
SeenConflict(in) == \E pair \in in.conflicts : pair[1] <= Claims(in)
IsCall(round) == round.call # "finish"

\* validate_flow_plan: no step is named twice, or needs one that is not in the
\* plan, and no steps need each other.
PlanOK(steps) ==
    /\ \A i, j \in DOMAIN steps : steps[i].id = steps[j].id => i = j
    /\ \A i \in DOMAIN steps : steps[i].needs \subseteq {steps[j].id : j \in DOMAIN steps}
    /\ \A S \in (SUBSET DOMAIN steps) \ {{}} :
           \E i \in S : \A j \in S : steps[j].id \notin steps[i].needs

\* The inputs that the engine may get
InputOK(in) ==
    /\ in.runner \in Runners
    /\ in.documents \in BOOLEAN /\ in.indexed \in BOOLEAN /\ (in.indexed => in.documents)
    /\ in.steps \in Seq([id : Names, needs : SUBSET Names])
    /\ IF in.runner = "demo"
       THEN \E proposal \in BOOLEAN : in.steps = DemoPlan(in.documents, proposal)
       ELSE PlanOK(in.steps)
    /\ in.cycle \in Seq([call : Names, prior : SUBSET Names])
    /\ \A i \in DOMAIN in.cycle : in.cycle[i].call \notin EngineNodes
    /\ in.claims \in Nat /\ (in.claims > 0 => in.indexed)
    /\ in.conflicts \subseteq (1..in.claims) \X (1..in.claims)
    /\ \A pair \in in.conflicts : pair[1] < pair[2]
    /\ in.hypotheses \in Seq([id : NodeRef, structured : BOOLEAN])
    /\ in.malformed \in BOOLEAN /\ (in.malformed => in.hypotheses = <<>>)
------------------------------------------------------------------------------
\* The graph builder refuses a cycle in which two rounds share an artifact.
Repeats(in) == \E i, j \in DOMAIN in.cycle :
    i # j /\ IsCall(in.cycle[i]) /\ in.cycle[i].call = in.cycle[j].call

CycleRequest(in) ==
    Emit("cycle.started", Id("cycle"))
    \o <<[do |-> "cycle", kind |-> "", ref |-> Id("cycle"), ends |-> {}]>>
    \o If(Repeats(in), Raise)
    \o Store("analysis_cycle") \o Store("artifact_dashboard")

CycleRound(in, i) ==
    LET round == in.cycle[i]  step == <<"cycle-round", i>> IN
    Emit("round.planned", step) \o Emit("round.started", step)
    \o If(IsCall(round), Emit("tool.started", step) \o Emit("artifact.created", Id(round.call))
                         \o Emit("tool.result", step))
    \o Emit("round.completed", step)

CycleReport(in) ==
    For(Len(in.cycle), LAMBDA i : CycleRound(in, i)) \o Emit("cycle.completed", Id("cycle"))

\* parse_hypotheses may refuse the proposal; the plan is reported after it.
PlanReport(in) ==
    If(in.malformed, Raise) \o Emit("plan.created", Id("plan"))
    \o For(Len(in.steps), LAMBDA i : Emit("step.added", Id(in.steps[i].id)))

PlanTools(in) ==
    IF in.runner = "connected"
    THEN LET ordered == OrderedSteps(in.steps)
         IN  For(Len(ordered), LAMBDA i : Poll \o Tool(Id(ordered[i].id)))
    ELSE Poll \o Tool(Id("inspect"))

Compute(in) ==
    Poll \o Emit("compute.plan.created", None)
    \o If(in.runner = "demo", Tool(Id("profile")))
    \o Emit("data.profiled", None) \o Emit("compute.result.created", None)
    \o Emit("chart.spec.created", Id("dashboard")) \o Emit("dashboard.updated", Id("dashboard"))

SourceGraph ==
    Node(Id("data-source")) \o Node(Id("compute-plan"))
    \o Edge(EdgeId("data-plan", 0), Id("data-source"), Id("compute-plan"))
    \o Node(Id("data-signal"))
    \o Edge(EdgeId("plan-signal", 0), Id("compute-plan"), Id("data-signal"))

\* build_cycle_evidence_graph: a node per artifact, an edge per reference
CycleGraph(in) ==
    For(Len(in.cycle), LAMBDA i : If(IsCall(in.cycle[i]), Node(Id(in.cycle[i].call))))
    \o If(in.cycle # <<>> /\ IsCall(Head(in.cycle)),
          Edge(EdgeId("cycle-source", 0), Id("data-signal"), Id(Head(in.cycle).call)))
    \o For(Len(in.cycle), LAMBDA i :
           If(IsCall(in.cycle[i]),
              For(i - 1, LAMBDA j :
                  If(IsCall(in.cycle[j]) /\ in.cycle[j].call \in in.cycle[i].prior,
                     Edge(EdgeId("cycle", Len(in.cycle) * i + j),
                          Id(in.cycle[j].call), Id(in.cycle[i].call))))))

Documents(in) ==
    Poll \o If(in.documents /\ in.runner = "demo", Tool(Id("extract")))
    \o Emit("document.indexed", None) \o Emit("retrieval.result.created", Id("corpus"))
    \o If(in.indexed, Node(Id("document-source")))

ClaimGraph(i) ==
    Emit("claim.extracted", <<"claim", i>>)
    \o Node(<<"excerpt", i>>)
    \o Edge(EdgeId("excerpt-source", i), Id("document-source"), <<"excerpt", i>>)
    \o Node(<<"claim", i>>)
    \o Edge(EdgeId("claim-source", i), <<"excerpt", i>>, <<"claim", i>>)
    \o Edge(EdgeId("claim", i), <<"claim", i>>, Id("data-signal"))

\* A conflict with a claim that was dropped is a KeyError.
ConflictGraph(in, i, j) ==
    LET edge == EdgeId("conflict", in.claims * i + j) IN
    IF j > Claims(in) THEN Raise
    ELSE Edge(edge, <<"claim", i>>, <<"claim", j>>) \o Emit("conflict.detected", edge)

Reasoning(in) ==
    If(in.documents /\ in.runner = "demo", Tool(Id("align")))
    \o For(Claims(in), LAMBDA i : For(in.claims, LAMBDA j :
           If(<<i, j>> \in in.conflicts, ConflictGraph(in, i, j))))
    \o If(in.documents /\ ~SeenConflict(in), Emit("plan.revised", Id("plan")))

HypothesisGraph(hypothesis, i) ==
    LET ref == hypothesis.id  validation == <<"validation", i>> IN
    Emit("hypothesis.created", ref) \o Node(ref)
    \o If(hypothesis.structured, Tool(Id("hypotheses")))
    \o Node(validation)
    \o Edge(EdgeId("hypothesis", i), validation, ref)
    \o Edge(EdgeId("validation", i), Id("data-signal"), validation)
    \o If(hypothesis.structured, Update(ref))
    \o Emit("validation.completed", ref)

Conclusion(in) ==
    LET conclusion == Id("analysis-conclusion")  action == Id("recommended-action") IN
    Node(conclusion) \o Edge(EdgeId("signal-conclusion", 0), Id("data-signal"), conclusion)
    \o For(Len(in.hypotheses), LAMBDA i :
           Edge(EdgeId("validation-conclusion", i), <<"validation", i>>, conclusion))
    \o Emit("conclusion.created", conclusion)
    \o Node(action) \o Edge(EdgeId("conclusion-action", 0), conclusion, action)

Delivery ==
    LET report == Id("analysis-report") IN
    Store("knowledge") \o Emit("knowledge.candidate", Id("knowledge"))
    \o Node(report) \o Edge(EdgeId("action-report", 0), Id("recommended-action"), report)
    \o Emit("evidence.linked", Id("graph")) \o Emit("report.generated", Id("graph"))

\* AgentFlowEngine.execute, between run.started and run.completed
Script(in) ==
    If(in.cycle # <<>>, CycleRequest(in) \o CycleReport(in))
    \o PlanReport(in) \o PlanTools(in) \o Compute(in)
    \o SourceGraph \o If(in.cycle # <<>>, CycleGraph(in))
    \o Documents(in) \o For(Claims(in), ClaimGraph)
    \o Reasoning(in)
    \o For(Len(in.hypotheses), LAMBDA i : HypothesisGraph(in.hypotheses[i], i))
    \o Conclusion(in) \o Delivery
------------------------------------------------------------------------------
\* The nodes a run may add besides those of the hypotheses
OtherNodes(in) ==
    {Id(name) : name \in EngineNodes \cup {in.cycle[i].call : i \in DOMAIN in.cycle}}
    \cup ({"excerpt", "claim"} \X (1..Claims(in))) \cup ({"validation"} \X DOMAIN in.hypotheses)

\* The inputs that cannot keep the engine from building its graph: a proposal
\* that is not refused, no claim in conflict with one that was dropped, no call
\* twice, and no hypothesis that bears the name of another one or of another node.
Unambiguous(in) ==
    /\ ~in.malformed
    /\ \A pair \in in.conflicts : pair[2] <= MaxClaims
    /\ ~Repeats(in)
    /\ \A i, j \in DOMAIN in.hypotheses : in.hypotheses[i].id = in.hypotheses[j].id => i = j
    /\ \A i \in DOMAIN in.hypotheses : in.hypotheses[i].id \notin OtherNodes(in)
==============================================================================
