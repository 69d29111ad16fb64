--------------------------- MODULE FlowProjection ---------------------------
(****************************************************************************)
(* What the canvas draws for a sequence of run events: flow-projection.ts,  *)
(* a fold over the events, and the enrichment by the saved evidence graph.  *)
(*                                                                          *)
(* An event has a sequence number, a kind, what it is about (ref), the      *)
(* nodes that come before it (prior), the ends of an edge, a type (of a     *)
(* tool, a node or an artifact) and a status.  Labels are left out, and so  *)
(* is the direction of an edge.                                             *)
(****************************************************************************)
EXTENDS Naturals, FiniteSets, Sequences, SequencesExt

Empty == [nodes |-> <<>>, edges |-> <<>>, active |-> {}, activeEdges |-> {},
          tool |-> [step |-> <<>>, state |-> "none"], revisions |-> 0, conflicts |-> 0,
          converged |-> FALSE, last |-> 0]

Drawn(p, id) == \E i \in DOMAIN p.nodes : p.nodes[i].id = id
EdgeDrawn(p, id) == \E i \in DOMAIN p.edges : p.edges[i].id = id
\* A sequence, with its elements computed once for all
Listed(s) == SubSeq(s, 1, Len(s))
Map(s, F(_)) == Listed([i \in DOMAIN s |-> F(s[i])])
------------------------------------------------------------------------------
\* Mutant: the artifacts of the cycle are forgotten.
LaneForKindPlain(kind) ==
    CASE kind \in {"data_source", "document_source", "document_excerpt"} -> "inputs"
      [] kind \in {"compute_plan", "data_signal"} -> "compute"
      [] kind = "validation" -> "verification"
      [] kind \in {"conclusion", "action", "report"} -> "delivery"
      [] OTHER -> "reasoning"

LaneForKind(kind) ==
    CASE kind \in {"data_source", "document_source", "document_excerpt"} -> "inputs"
      [] kind \in {"compute_plan", "data_signal", "analytical_artifact"} -> "compute"
      [] kind = "validation" -> "verification"
      [] kind \in {"conclusion", "action", "report"} -> "delivery"
      [] OTHER -> "reasoning"

LaneForTool(tool) ==
    CASE tool = "inspect_sources" -> "inputs"
      [] tool \in {"extract_claims", "align_evidence"} -> "reasoning"
      [] tool = "test_hypothesis" -> "verification"
      [] OTHER -> "compute"

\* A node that is known already is not added again, nor are its edges.
NodeFrom(p, e, id, kind, status, lane) ==
    LET edges == Map(SetToSeq(e.prior), LAMBDA source :
                     [id |-> <<"from", source, id>>, ends |-> {source, id}, conflicted |-> FALSE])
    IN  IF Drawn(p, id) THEN p
        ELSE [p EXCEPT !.nodes = Append(@, [id |-> id, kind |-> kind, status |-> status, lane |-> lane]),
                       !.edges = @ \o edges,
                       !.active = {id}, !.activeEdges = {edges[i].id : i \in DOMAIN edges}]

SetStatus(p, id, status) ==
    [p EXCEPT !.nodes = Map(@, LAMBDA node : IF node.id = id THEN [node EXCEPT !.status = status] ELSE node)]
Activate(p, id) == [p EXCEPT !.active = IF Drawn(p, id) THEN {id} ELSE {}]
------------------------------------------------------------------------------
StepAdded(p, e) == NodeFrom(p, e, e.ref, "tool_step", "pending", LaneForTool(e.type))

RoundId(e) == <<"round", e.ref[2]>>
RoundPlanned(p, e) == NodeFrom(p, e, RoundId(e), "analysis_round", "pending", "reasoning")
RoundMoved(p, e) ==
    LET status == IF e.kind = "round.completed" THEN "verified" ELSE "pending"
    IN  [SetStatus(p, RoundId(e), status) EXCEPT !.active = {RoundId(e)}]

\* Whatever the artifact's status, it is drawn as verified.
ArtifactCreated(p, e) ==
    IF e.type = "text_ml" THEN NodeFrom(p, e, e.ref, "text_theme", "verified", "reasoning")
    ELSE NodeFrom(p, e, e.ref, "analytical_artifact", "verified", "compute")

StepMoved(p, e) ==
    LET status == CASE e.kind = "step.completed" -> "verified"
                    [] e.kind = "step.failed" -> "contradicted"
                    [] OTHER -> "pending"
    IN  Activate(SetStatus(p, e.ref, status), e.ref)

\* Mutant: an artifact of the cycle is added again with the graph.
NodeAddedAgain(p, e) ==
    [p EXCEPT !.nodes = Append(@, [id |-> e.ref, kind |-> e.type, status |-> e.status,
                                   lane |-> LaneForKind(e.type)]),
              !.active = {e.ref}]
NodeAdded(p, e) ==
    IF Drawn(p, e.ref) THEN p
    ELSE [p EXCEPT !.nodes = Append(@, [id |-> e.ref, kind |-> e.type, status |-> e.status,
                                        lane |-> LaneForKind(e.type)]),
                   !.active = {e.ref}]
NodeUpdated(p, e) == Activate(SetStatus(p, e.ref, e.status), e.ref)

EdgeAdded(p, e) ==
    IF EdgeDrawn(p, e.ref) THEN p
    ELSE [p EXCEPT !.edges = Append(@, [id |-> e.ref, ends |-> e.ends, conflicted |-> FALSE]),
                   !.activeEdges = {e.ref}]
EdgeActivated(p, e) == [p EXCEPT !.activeEdges = IF EdgeDrawn(p, e.ref) THEN {e.ref} ELSE {}]

ToolMoved(p, e) ==
    LET state == CASE e.kind = "tool.failed" -> "failed" [] e.kind = "tool.result" -> "completed"
                   [] OTHER -> "running"
    IN  [p EXCEPT !.tool = [step |-> e.ref, state |-> state],
                  !.active = IF Drawn(p, e.ref) THEN {e.ref} ELSE @]

Conflict(p, e) ==
    [p EXCEPT !.conflicts = @ + 1,
              !.edges = Map(@, LAMBDA edge : [edge EXCEPT !.conflicted = @ \/ edge.id = e.ref]),
              !.activeEdges = IF EdgeDrawn(p, e.ref) THEN {e.ref} ELSE @]

\* projectFlowEvent: an event that is not later than the last one is ignored.
Project(p0, e) ==
    LET p == [p0 EXCEPT !.last = e.sequence] IN
    CASE e.sequence <= p0.last -> p0
      [] e.kind = "step.added" -> StepAdded(p, e)
      [] e.kind = "round.planned" -> RoundPlanned(p, e)
      [] e.kind \in {"round.started", "round.completed"} -> RoundMoved(p, e)
      [] e.kind = "artifact.created" -> ArtifactCreated(p, e)
      [] e.kind \in {"step.started", "step.completed", "step.failed"} -> StepMoved(p, e)
      [] e.kind = "node.added" -> NodeAdded(p, e)
      [] e.kind = "node.updated" -> NodeUpdated(p, e)
      [] e.kind = "edge.added" -> EdgeAdded(p, e)
      [] e.kind = "edge.activated" -> EdgeActivated(p, e)
      [] e.kind \in {"tool.started", "tool.result", "tool.failed"} -> ToolMoved(p, e)
      [] e.kind = "plan.revised" -> [p EXCEPT !.revisions = @ + 1]
      [] e.kind = "conflict.detected" -> Conflict(p, e)
      [] e.kind = "report.generated" -> [p EXCEPT !.converged = TRUE]
      [] OTHER -> p

\* projectFlowEvents, for all prefixes of the events: the k-th is at k + 1.
Projections(events) ==
    FoldLeft(LAMBDA ps, e : Append(ps, Project(Last(ps), e)), <<Empty>>, events)
------------------------------------------------------------------------------
\* Mutant: a node that is drawn keeps what the events said of it.
EnrichKind(p, graph) == [p EXCEPT !.nodes = Map(@, LAMBDA node :
    IF node.id \in DOMAIN graph
    THEN [node EXCEPT !.kind = graph[node.id].kind, !.lane = LaneForKind(graph[node.id].kind)]
    ELSE node)]

\* enrichProjection: the saved node decides about the drawn one.
Enrich(p, graph) == [p EXCEPT !.nodes = Map(@, LAMBDA node :
    IF node.id \in DOMAIN graph
    THEN [node EXCEPT !.kind = graph[node.id].kind, !.status = graph[node.id].status,
                      !.lane = LaneForKind(graph[node.id].kind)]
    ELSE node)]

\* The place of each drawn node: its lane, and its row there.
Place(p, i) == [id |-> p.nodes[i].id, lane |-> p.nodes[i].lane,
                row |-> Cardinality({j \in 1..(i - 1) : p.nodes[j].lane = p.nodes[i].lane})]
Places(p) == {Place(p, i) : i \in DOMAIN p.nodes}

\* Edges without both of their nodes are left out.
Links(p) == {edge \in {p.edges[i] : i \in DOMAIN p.edges} : \A id \in edge.ends : Drawn(p, id)}

\* analysisCycleProgress: the rounds completed, and the artifacts they have
CycleProgress(events) ==
    FoldLeft(LAMBDA progress, e : IF e.kind # "round.completed" THEN progress
                 ELSE [rounds |-> Max({progress.rounds, e.ref[2]}),
                       artifacts |-> progress.artifacts + e.artifacts],
             [rounds |-> 0, artifacts |-> 0], events)
==============================================================================
