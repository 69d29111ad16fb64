----------------------------- MODULE FlowCanvas -----------------------------
(****************************************************************************)
(* The canvas that draws a run: AgentFlowCanvas.tsx over the events of one  *)
(* run and its evidence graph, both of which the shell may replace at any   *)
(* time, and readable-event-stream.ts, which plays the events back slowly.  *)
(* The events and the graph are those the engine's script makes.            *)
(*                                                                          *)
(* They arrive in Batches parts.  The browser has the graph of any moment   *)
(* of the run: it is read separately, and an answer may be an older one.    *)
(****************************************************************************)
EXTENDS FlowProjection, FlowScript, FiniteSets, FiniteSetsExt

CONSTANTS
    Runs,           \* the runs of the task, a sequence: their inputs, how they end and where
    Batches,        \* in how many parts events arrive
    MaxSwitches     \* how often another run is shown, or the same one anew

ASSUME CanvasOK == Batches \in Nat \ {0} /\ MaxSwitches \in Nat

\* A run completes, fails at the use of a tool, or is interrupted where its
\* script looks at the cancel flag.
EndsAt(r, script) ==
    CASE r.end = "completed" -> r.at = Len(script) + 1
      [] r.end = "failed" -> r.at \in DOMAIN script /\ script[r.at].do = "invoke"
      [] OTHER -> r.at \in DOMAIN script /\ script[r.at].do = "poll"
ASSUME RunsOK ==
    /\ Runs \in Seq({Runs[i] : i \in DOMAIN Runs})
    /\ \A i \in DOMAIN Runs : LET in == Runs[i].in IN
           /\ InputOK(in) /\ EndsAt(Runs[i], Script(in))
           /\ \A j \in DOMAIN in.cycle : IsFiniteSet(in.cycle[j].prior)

VARIABLES
    reduced,    \* the browser asks for reduced motion
    run,        \* the run that is shown
    known,      \* how many of its events the shell has
    graph,      \* with which of the batches its evidence graph was read
    playback,   \* the hook's state
    switches

vars == <<reduced, run, known, graph, playback, switches>>

(* The events of a run.                                                     *)

Tools == [inspect |-> "inspect_sources", profile |-> "profile_data", extract |-> "extract_claims",
          align |-> "align_evidence", hypotheses |-> "test_hypothesis"]
Single(name) ==
    CASE name = "data-source" -> "data_source" [] name = "compute-plan" -> "compute_plan"
      [] name = "data-signal" -> "data_signal" [] name = "document-source" -> "document_source"
      [] name = "excerpt" -> "document_excerpt" [] name = "claim" -> "claim"
      [] name = "validation" -> "validation" [] name = "analysis-conclusion" -> "conclusion"
      [] name = "recommended-action" -> "action" [] name = "analysis-report" -> "report"

Calls(in) == {in.cycle[i].call : i \in DOMAIN in.cycle} \ {"finish"}
Hypotheses(in) == {in.hypotheses[i].id : i \in DOMAIN in.hypotheses}
Artifacts(in) == {Id(call) : call \in Calls(in)}
NodeType(in, ref) ==
    IF ref \in Hypotheses(in) THEN "hypothesis"
    ELSE IF ref \notin Artifacts(in) THEN Single(ref[1])
    ELSE IF ref[1] = "analyze_text" THEN "text_theme" ELSE "analytical_artifact"

Verdict(in, i) == IF in.hypotheses[i].structured THEN in.verdicts[i] ELSE "insufficient"
AddedAs(in, ref) ==
    LET type == NodeType(in, ref) IN
    CASE type \in {"claim", "action", "hypothesis"} -> "pending"
      [] type = "conclusion" -> "supported"
      [] type = "validation" -> Verdict(in, ref[2])
      [] ref[1] \in in.weak -> "insufficient"
      [] OTHER -> "verified"
UpdatedTo(in, ref) ==
    Verdict(in, CHOOSE i \in DOMAIN in.hypotheses : in.hypotheses[i].id = ref)

RoundOf(in, ref) == CHOOSE i \in DOMAIN in.cycle : in.cycle[i].call = ref[1]
StepOf(in, ref) == in.steps[CHOOSE i \in DOMAIN in.steps : in.steps[i].id = ref[1]]

Prior(in, kind, ref) ==
    CASE kind = "step.added" -> {Id(id) : id \in StepOf(in, ref).needs}
      [] kind = "round.planned" -> {Id(call) : call \in in.cycle[ref[2]].prior}
      [] kind = "artifact.created" -> {<<"round", RoundOf(in, ref)>>}
      [] OTHER -> {}
Type(in, kind, ref) ==
    CASE kind = "step.added" -> Tools[ref[1]]
      [] kind = "artifact.created" -> IF ref[1] = "analyze_text" THEN "text_ml" ELSE "analysis"
      [] kind \in {"node.added", "node.updated"} -> NodeType(in, ref)
      [] OTHER -> ""

Event(in, i, op) ==
    [sequence |-> i, kind |-> op.kind, ref |-> op.ref, ends |-> op.ends,
     prior |-> Prior(in, op.kind, op.ref), type |-> Type(in, op.kind, op.ref),
     status |-> CASE op.kind = "node.added" -> AddedAs(in, op.ref)
                  [] op.kind = "node.updated" -> UpdatedTo(in, op.ref) [] OTHER -> "",
     artifacts |-> IF op.kind = "round.completed" /\ IsCall(in.cycle[op.ref[2]]) THEN 1 ELSE 0]

\* The events among operations, in their order
Emissions(ops) ==
    LET emits == {i \in DOMAIN ops : ops[i].do = "emit"}
        at(k) == CHOOSE i \in emits : Cardinality(emits \cap 1..i) = k
    IN  [k \in 1..Cardinality(emits) |-> ops[at(k)]]
Closing(r, script) ==
    CASE r.end = "completed" -> Emit("run.completed", None)
      [] r.end = "failed" -> LET step == script[r.at].ref IN
             Emit("tool.failed", step) \o Emit("step.failed", step) \o Emit("run.failed", None)
      [] OTHER -> Emit("run.interrupted", None)
Emitted(r, script) ==
    Emit("run.started", None) \o Emissions(SubSeq(script, 1, r.at - 1)) \o Closing(r, script)

Events(in, ops) == Listed([i \in DOMAIN ops |-> Event(in, i, ops[i])])
Log(r) == Events(r.in, Emitted(r, Script(r.in)))

\* The graph saved by the time of the k-th event, at k + 1: a node is saved
\* right before it is announced.
Saves(log, ref) == {i \in DOMAIN log : log[i].kind \in {"node.added", "node.updated"} /\ log[i].ref = ref}
Saved(log, k) ==
    LET latest(ref) == Max(Saves(log, ref) \cap 1..k)
    IN  [ref \in {log[i].ref : i \in {j \in 1..k : log[j].kind \in {"node.added", "node.updated"}}} |->
            [kind |-> log[latest(ref)].type, status |-> log[latest(ref)].status]]
Graphs(log) == Listed([k \in 1..(Len(log) + 1) |-> Saved(log, k - 1)])
Part(size, i) == (i * size) \div Batches

\* All that may be drawn of a run: for so many of its events and a graph, the
\* projection and the places of its nodes.
Scene(p) == [drawing |-> p, places |-> Places(p)]
Scenes(log, graphs) == Map(Projections(log), LAMBDA p :
    Listed([i \in 1..(Batches + 1) |-> Scene(Enrich(p, graphs[Part(Len(log), i - 1) + 1]))]))
Film(log, graphs) == [log |-> log, graphs |-> graphs, scenes |-> Scenes(log, graphs)]
FilmOf(log) == Film(log, Graphs(log))
Logs == Map(Runs, Log)
Films == Map(Logs, FilmOf)

SavedEdges(events) == {e \in Range(events) : e.kind = "edge.added"}

\* The inputs for which each node on the canvas has a name of its own: their
\* graph can be built, and no step of the plan and no round is named like one
\* of its nodes.
Apart(in) ==
    LET nodes == OtherNodes(in) \cup Hypotheses(in)
    IN  /\ Unambiguous(in)
        /\ \A i \in DOMAIN in.steps : Id(in.steps[i].id) \notin nodes
        /\ \A i \in DOMAIN in.cycle : <<"round", i>> \notin nodes
------------------------------------------------------------------------------
(* The playback.                                                            *)

Milestones == {"plan.created", "plan.revised", "step.added", "step.started", "step.failed",
    "tool.failed", "node.added", "node.updated", "conflict.detected", "hypothesis.created",
    "validation.completed", "conclusion.created", "report.generated", "cycle.started",
    "round.planned", "round.started", "artifact.created", "round.completed", "cycle.completed",
    "run.completed", "run.failed", "run.interrupted"}

RunEvents == Films[run].log
Size == Len(Films[run].log)
Arrived(i) == Part(Size, i)
RunId == IF known = 0 THEN 0 ELSE run
Fresh(id) == [run |-> id, count |-> 0, follow |-> FALSE, paused |-> FALSE]

Current == IF playback.run = RunId THEN Min({playback.count, known}) ELSE 0
Visible == IF reduced \/ playback.follow THEN known ELSE Current

\* Mutant: playing on to a milestone, and stopping before it.
NextBeforeMilestone(from) ==
    LET ahead == {i \in (from + 1)..known : RunEvents[i].kind \in Milestones}
    IN  IF ahead = {} THEN known ELSE Min(ahead) - 1
\* nextReadableCount: on to the next milestone, or to the end
NextReadable(from) ==
    LET ahead == {i \in (from + 1)..known : RunEvents[i].kind \in Milestones}
    IN  IF ahead = {} THEN known ELSE Min(ahead)

\* The effects of a change have run before anything else happens.
Settled == playback.run = RunId
Same == UNCHANGED <<reduced, run, switches>>

Init ==
    /\ reduced \in BOOLEAN /\ run \in DOMAIN Runs /\ known = 0 /\ graph = 0
    /\ playback = Fresh(0) /\ switches = 0

\* A run that is not the one played back is played from its first event.
Reset ==
    /\ ~Settled
    /\ playback' = Fresh(RunId)
    /\ UNCHANGED <<known, graph>> /\ Same

Tick ==
    /\ Settled /\ ~reduced /\ ~playback.paused /\ ~playback.follow /\ Current < known
    /\ playback' = [playback EXCEPT !.count = NextReadable(playback.count)]
    /\ UNCHANGED <<known, graph>> /\ Same

RevealLatest ==
    /\ Settled /\ known > Visible
    /\ playback' = [playback EXCEPT !.count = known, !.follow = TRUE, !.paused = FALSE]
    /\ UNCHANGED <<known, graph>> /\ Same

TogglePaused ==
    /\ Settled /\ ~reduced /\ known > Visible
    /\ playback' = [playback EXCEPT !.paused = ~@]
    /\ UNCHANGED <<known, graph>> /\ Same

\* The shell adds events, or shows what it loaded of the run.
Arrive ==
    /\ Settled
    /\ \E i \in 1..Batches : Arrived(i) > known /\ known' = Arrived(i)
    /\ UNCHANGED <<graph, playback>> /\ Same
Refresh ==
    /\ Settled
    /\ graph' \in (0..Batches) \ {graph}
    /\ UNCHANGED <<known, playback>> /\ Same

\* Another run is replayed, or this one is loaded anew.
Switch ==
    /\ Settled /\ switches < MaxSwitches
    /\ switches' = switches + 1
    /\ run' \in DOMAIN Runs
    /\ \E i \in 0..Batches : known' = Part(Len(Films[run'].log), i)
    /\ graph' \in 0..Batches
    /\ UNCHANGED <<reduced, playback>>

\* The canvas is taken off the page and put there again.
Remount ==
    /\ Settled /\ switches < MaxSwitches
    /\ switches' = switches + 1
    /\ playback' = Fresh(RunId)
    /\ UNCHANGED <<reduced, run, known, graph>>

Next == Reset \/ Tick \/ RevealLatest \/ TogglePaused \/ Arrive \/ Refresh \/ Switch \/ Remount

\* Effects and timers run.
Spec == Init /\ [][Next]_vars /\ WF_vars(Reset) /\ WF_vars(Tick)
------------------------------------------------------------------------------
SceneNow == Films[run].scenes[Visible + 1][graph + 1]
Drawing == SceneNow.drawing
Layout == SceneNow.places
SavedGraph == Films[run].graphs[Arrived(graph) + 1]
Ids(s) == {s[i].id : i \in DOMAIN s}
AllShown == Visible = Size
Full == graph = Batches

TypeOK ==
    /\ reduced \in BOOLEAN /\ run \in DOMAIN Runs /\ known \in 0..Size /\ graph \in 0..Batches
    /\ playback \in [run : {0} \cup DOMAIN Runs, count : Nat, follow : BOOLEAN, paused : BOOLEAN]
    /\ switches \in 0..MaxSwitches

\* Whatever is played back and whichever graph has been read, the canvas draws
\* each node and edge once, exactly those saved that were announced, besides
\* the plan's steps and the cycle's rounds and artifacts; and no edge of the
\* graph is left out because one of its nodes is not drawn yet.
DrawsWhatIsSaved == TypeOK /\ (Apart(Runs[run].in) =>
    LET p == Drawing
        shown == SubSeq(RunEvents, 1, Visible)
        own == {p.nodes[i].id : i \in {j \in DOMAIN p.nodes : p.nodes[j].kind \notin {"tool_step", "analysis_round"}}}
        created == {e.ref : e \in {x \in Range(shown) : x.kind = "artifact.created"}}
    IN  /\ Cardinality(Ids(p.nodes)) = Len(p.nodes) /\ Cardinality(Ids(p.edges)) = Len(p.edges)
        /\ own = DOMAIN Films[run].graphs[Visible + 1] \cup created
        /\ {e.ref : e \in SavedEdges(shown)} \subseteq {edge.id : edge \in Links(p)})

\* Once the whole run is drawn over its final graph, each node has the status
\* that is saved, also an artifact that was announced before it was judged;
\* the count of conflicts is that of the marked edges, the progress counts the
\* rounds and the artifacts, a failed tool is drawn as failed if its step is in
\* the plan, and the way to the result leads to the report.
OutcomeIsShown ==
    LET p == Drawing
        in == Runs[run].in
        status == [id \in Ids(p.nodes) |-> p.nodes[CHOOSE i \in DOMAIN p.nodes : p.nodes[i].id = id].status]
        progress == CycleProgress(RunEvents)
        planned == {Id(in.steps[i].id) : i \in DOMAIN in.steps}
    IN  Apart(in) /\ AllShown /\ Full =>
        /\ \A id \in DOMAIN SavedGraph : status[id] = SavedGraph[id].status
        /\ p.conflicts = Cardinality({i \in DOMAIN p.edges : p.edges[i].conflicted})
        /\ progress.rounds = Len(in.cycle)
        /\ progress.artifacts = Cardinality(Ids(p.nodes) \cap Artifacts(in))
        /\ Runs[run].end = "completed" => p.converged /\ Last(p.nodes).kind = "report"
        /\ Runs[run].end = "failed" =>
               p.tool.state = "failed" /\ (p.tool.step \in planned => status[p.tool.step] = "contradicted")

\* A node stays where it was drawn: neither later events, nor the graph, nor
\* an older graph that is answered late moves it, until another run is shown.
NodesStay ==
    [][Apart(Runs[run].in) /\ switches' = switches /\ Visible' >= Visible
       => Layout \subseteq Layout']_vars

\* Whatever arrives and is shown anew, the playback gets to the end, unless it
\* is paused.
PlaybackCatchesUp == []<>(playback.paused \/ Visible = known)
==============================================================================
