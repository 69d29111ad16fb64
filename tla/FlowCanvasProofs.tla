-------------------------- MODULE FlowCanvasProofs --------------------------
(****************************************************************************)
(* What the canvas draws of all runs, of any inputs and however they end.   *)
(*                                                                          *)
(* The argument follows an event from the engine to the canvas: the script  *)
(* announces what it has just saved, by names that the inputs give it; a    *)
(* run's log is a part of its script, and then of ends that draw nothing;   *)
(* each event draws what it is about and moves nothing that is drawn; and   *)
(* the saved graph, of whichever moment, has the kinds that the events      *)
(* had.  The drawing after each event is thus known, by induction over the  *)
(* events, and the canvas shows one of them over one of the graphs.         *)
(* When all of a run is shown, so is its outcome: each conflict marks an    *)
(* edge of its own, each round counts once, and the report or the failure   *)
(* comes last.                                                              *)
(****************************************************************************)
EXTENDS FlowCanvas, FlowScriptProofs, TLAPS

(****************************************************************************)
(* The script as the canvas sees it: a saved node is announced at once, and *)
(* what is announced has just been saved; and the plan, the rounds and the  *)
(* artifacts are listed by the names they have in the inputs.               *)
(****************************************************************************)
GraphKinds == {"node.added", "node.updated", "edge.added"}
SaidOf(save, op) ==
    /\ save.do = "save" /\ save.ref = op.ref
    /\ op.kind = "node.added" => save.kind = "node"
    /\ op.kind = "node.updated" => save.kind = "update" /\ save.ref \in save.ends
    /\ op.kind = "edge.added" => save.kind = "edge" /\ save.ends = op.ends /\ op.ref \in EdgeRef
Lists(in, op) ==
    /\ op.kind = "step.added" => \E j \in DOMAIN in.steps : op.ref = Id(in.steps[j].id)
    /\ op.kind = "round.planned" => \E j \in DOMAIN in.cycle : op.ref = <<"cycle-round", j>>
    /\ op.kind = "artifact.created" => op.ref \in Artifacts(in)
Shows(in, ops, i) ==
    /\ ops[i].do = "emit" => Lists(in, ops[i])
    /\ ops[i].do = "emit" /\ ops[i].kind \in GraphKinds => i > 1 /\ SaidOf(ops[i - 1], ops[i])
    /\ SavesNode(ops[i]) => /\ i < Len(ops) /\ ops[i + 1].do = "emit"
                            /\ ops[i + 1].kind = "node.added" /\ ops[i + 1].ref = ops[i].ref
Showing(in) == {ops \in Seq(Op) : \A i \in DOMAIN ops : Shows(in, ops, i)}

\* Operations that are no part of the graph and list nothing else
Quiet(in, op) ==
    /\ ~SavesNode(op)
    /\ op.do = "emit" => op.kind \notin GraphKinds /\ Lists(in, op)

\* What two parts of a script show, they show together.
LEMMA ShowingConcat ==
    ASSUME NEW in, NEW a \in Showing(in), NEW b \in Showing(in)
    PROVE  a \o b \in Showing(in)
<1> DEFINE c == a \o b
<1>1. a \in Seq(Op) /\ b \in Seq(Op)
  BY DEF Showing
<1>2. /\ c \in Seq(Op)
      /\ Len(a) \in Nat /\ DOMAIN a = 1..Len(a) /\ Len(b) \in Nat /\ DOMAIN b = 1..Len(b)
      /\ DOMAIN c = 1..(Len(a) + Len(b)) /\ Len(c) = Len(a) + Len(b)
      /\ \A i \in 1..Len(a) : c[i] = a[i]
      /\ \A i \in 1..Len(b) : c[Len(a) + i] = b[i]
  BY <1>1, Concat
<1> HIDE DEF c
<1>3. ASSUME NEW i \in DOMAIN c PROVE Shows(in, c, i)
  <2>1. CASE i <= Len(a)
    <3>1. i \in DOMAIN a /\ c[i] = a[i] /\ Shows(in, a, i)
      BY <1>2, <2>1 DEF Showing
    <3>2. i > 1 => c[i - 1] = a[i - 1]
      BY <1>2, <3>1
    <3>3. i < Len(a) => c[i + 1] = a[i + 1] /\ i < Len(c)
      BY <1>2, <3>1
    <3> QED  BY <3>1, <3>2, <3>3 DEF Shows
  <2>2. CASE i > Len(a)
    <3>1. PICK k \in DOMAIN b : i = Len(a) + k
      <4>1. i - Len(a) \in DOMAIN b /\ i = Len(a) + (i - Len(a))
        BY <1>2, <2>2
      <4> QED  BY <4>1
    <3>2. c[i] = b[k] /\ Shows(in, b, k) /\ k \in Nat
      BY <1>2, <3>1 DEF Showing
    <3>3. k > 1 => c[i - 1] = b[k - 1] /\ i > 1
      <4> SUFFICES ASSUME k > 1 PROVE c[i - 1] = b[k - 1] /\ i > 1
        OBVIOUS
      <4>1. k - 1 \in 1..Len(b) /\ i - 1 = Len(a) + (k - 1)
        BY <1>2, <3>1, <3>2
      <4> QED  BY <1>2, <3>1, <4>1
    <3>4. k < Len(b) => c[i + 1] = b[k + 1] /\ i < Len(c)
      <4> SUFFICES ASSUME k < Len(b) PROVE c[i + 1] = b[k + 1] /\ i < Len(c)
        OBVIOUS
      <4>1. k + 1 \in 1..Len(b) /\ i + 1 = Len(a) + (k + 1)
        BY <1>2, <3>1, <3>2
      <4> QED  BY <1>2, <3>1, <4>1
    <3> QED  BY <3>2, <3>3, <3>4 DEF Shows
  <2> QED  BY <1>2, <2>1, <2>2
<1> QED  BY <1>2, <1>3 DEF Showing, c

\* An operation that tells the canvas nothing,
LEMMA QuietShows ==
    ASSUME NEW in, NEW op \in Op, Quiet(in, op)
    PROVE  <<op>> \in Showing(in)
<1>1. PICK s : s = <<op>> /\ s \in Seq(Op) /\ DOMAIN s = 1..1 /\ s[1] = op
  BY OneOp
<1>2. \A i \in DOMAIN s : i = 1
  BY <1>1
<1> QED  BY <1>1, <1>2 DEF Showing, Shows, Quiet

\* an announcement right after what it announces is saved,
LEMMA PairShows ==
    ASSUME NEW in, NEW save \in Op, NEW op \in Op, save.do = "save",
           op.do = "emit", op.kind \in GraphKinds, SaidOf(save, op),
           SavesNode(save) => op.kind = "node.added"
    PROVE  <<save>> \o <<op>> \in Showing(in)
<1>0. PICK s : s = <<save, op>>
  OBVIOUS
<1>1. /\ s = <<save, op>> /\ s \in Seq(Op) /\ DOMAIN s = 1..2 /\ Len(s) = 2
      /\ s[1] = save /\ s[2] = op
  BY <1>0
<1>2. \A i \in DOMAIN s : i = 1 \/ i = 2
  BY <1>1
<1>3. Lists(in, op)
  BY DEF Lists, GraphKinds
<1>4. Shows(in, s, 1)
  BY <1>1 DEF Shows, SaidOf
<1>5. Shows(in, s, 2)
  BY <1>1, <1>3 DEF Shows, SavesNode
<1>6. <<save>> \o <<op>> = s
  BY <1>1, TwoOps
<1> QED  BY <1>1, <1>2, <1>4, <1>5, <1>6 DEF Showing

\* An event that is neither of the graph nor of the lists
LEMMA EmitShows ==
    ASSUME NEW in, NEW kind \in OpKinds, NEW ref \in Ref, kind \notin GraphKinds,
           Lists(in, [do |-> "emit", kind |-> kind, ref |-> ref, ends |-> {}])
    PROVE  Emit(kind, ref) \in Showing(in)
<1>1. PICK op : op = [do |-> "emit", kind |-> kind, ref |-> ref, ends |-> {}]
  OBVIOUS
<1>2. op \in Op /\ op.do = "emit" /\ op.kind = kind
  BY <1>1, CallKinds, OpType
<1>3. Quiet(in, op)
  BY <1>1, <1>2 DEF Quiet, SavesNode
<1> QED  BY <1>1, <1>2, <1>3, QuietShows DEF Emit

\* and a call that is not an event are parts that show what they save.
LEMMA OtherShows ==
    ASSUME NEW in, NEW do \in {"poll", "invoke", "cycle", "store", "raise"}, NEW kind \in OpKinds, NEW ref \in Ref
    PROVE  <<[do |-> do, kind |-> kind, ref |-> ref, ends |-> {}]>> \in Showing(in)
<1>1. PICK op : op = [do |-> do, kind |-> kind, ref |-> ref, ends |-> {}]
  OBVIOUS
<1>2. op \in Op /\ op.do = do
  BY <1>1, CallKinds, OpType
<1>3. Quiet(in, op)
  BY <1>2 DEF Quiet, SavesNode
<1> QED  BY <1>1, <1>2, <1>3, QuietShows

\* All other kinds may be emitted.
LEMMA PlainShows ==
    ASSUME NEW in, NEW kind \in OpKinds, NEW ref \in Ref,
           kind \notin GraphKinds \cup {"step.added", "round.planned", "artifact.created"}
    PROVE  Emit(kind, ref) \in Showing(in)
<1>1. Lists(in, [do |-> "emit", kind |-> kind, ref |-> ref, ends |-> {}])
  BY DEF Lists
<1> QED  BY <1>1, EmitShows

\* What a script consists of shows what it does.
LEMMA ShowingDoes ==
    ASSUME NEW in, InputOK(in)
    PROVE  LET W == Showing(in) IN
           /\ Closed(W) /\ Reporting(W) /\ Planning(in, W) /\ Invoking(W) /\ Building(W)
           /\ Disputing(W)
<1> DEFINE W == Showing(in)
<1>1. Closed(W)
  <2>1. <<>> \in W
    BY DEF Showing
  <2>2. W \in SUBSET Seq(Op)
    BY DEF Showing
  <2> QED  BY <2>1, <2>2, ShowingConcat DEF Closed
<1>2. Reporting(W)
  <2>1. \A kind \in Told : kind \in OpKinds
                           /\ kind \notin GraphKinds \cup {"step.added", "round.planned", "artifact.created"}
    BY DEF Told, Plain, OpKinds, GraphKinds, Announcements
  <2>2. \A kind \in Told, ref \in Ref : Emit(kind, ref) \in W
    BY <2>1, PlainShows
  <2>3. Poll \in W /\ \A kind \in OpKinds : Store(kind) \in W
    BY OtherShows, CallKinds, Refs DEF Poll, Store
  <2>4. \A ref \in Ref : <<[do |-> "cycle", kind |-> "", ref |-> ref, ends |-> {}]>> \in W
    BY OtherShows, CallKinds
  <2> QED  BY <2>2, <2>3, <2>4 DEF Noting, Reporting
<1>3. Planning(in, W)
  <2>1. "step.added" \in OpKinds /\ "round.planned" \in OpKinds /\ "artifact.created" \in OpKinds
    BY DEF OpKinds, Reports
  <2>2. ASSUME NEW i \in DOMAIN in.steps PROVE Emit("step.added", Id(in.steps[i].id)) \in W
    <3>1. Id(in.steps[i].id) \in Ref
      BY InputTypes, Refs
    <3>2. Lists(in, [do |-> "emit", kind |-> "step.added", ref |-> Id(in.steps[i].id), ends |-> {}])
      BY DEF Lists
    <3> QED  BY <2>1, <3>1, <3>2, EmitShows DEF GraphKinds
  <2>3. ASSUME NEW i \in DOMAIN in.cycle
        PROVE  /\ Emit("round.planned", <<"cycle-round", i>>) \in W
               /\ Emit("round.completed", <<"cycle-round", i>>) \in W
               /\ IsCall(in.cycle[i]) => Created(<<"cycle-round", i>>, Id(in.cycle[i].call)) \in W
    <3>1. <<"cycle-round", i>> \in Ref /\ Id(in.cycle[i].call) \in Ref
      BY InputTypes, Refs, Named
    <3>2. Lists(in, [do |-> "emit", kind |-> "round.planned", ref |-> <<"cycle-round", i>>, ends |-> {}])
      BY DEF Lists
    <3>3. Emit("round.planned", <<"cycle-round", i>>) \in W
      BY <2>1, <3>1, <3>2, EmitShows DEF GraphKinds
    <3>4. /\ Emit("tool.started", <<"cycle-round", i>>) \in W /\ Emit("tool.result", <<"cycle-round", i>>) \in W
          /\ Emit("round.completed", <<"cycle-round", i>>) \in W
      <4>1. "round.completed" \in OpKinds
        BY DEF OpKinds, Reports
      <4> QED  BY <3>1, <4>1, CallKinds, PlainShows DEF GraphKinds
    <3>5. ASSUME IsCall(in.cycle[i]) PROVE Emit("artifact.created", Id(in.cycle[i].call)) \in W
      <4>1. Id(in.cycle[i].call) \in Artifacts(in)
        BY <3>5 DEF Artifacts, Calls, IsCall
      <4>2. Lists(in, [do |-> "emit", kind |-> "artifact.created", ref |-> Id(in.cycle[i].call), ends |-> {}])
        BY <4>1 DEF Lists
      <4> QED  BY <2>1, <3>1, <4>2, EmitShows DEF GraphKinds
    <3> QED  BY <1>1, <3>3, <3>4, <3>5 DEF Created, Closed
  <2> QED  BY <2>2, <2>3 DEF Planning
<1>4. Invoking(W)
  <2> SUFFICES ASSUME NEW step \in Ref PROVE Tool(step) \in W
    BY DEF Invoking
  <2>1. \A kind \in {"step.started", "tool.started", "tool.result", "step.completed"} :
            kind \in OpKinds /\ kind \notin GraphKinds \cup {"step.added", "round.planned", "artifact.created"}
    BY DEF OpKinds, Reports, Answers, GraphKinds
  <2>2. /\ Emit("step.started", step) \in W /\ Emit("tool.started", step) \in W
        /\ Emit("tool.result", step) \in W /\ Emit("step.completed", step) \in W
    BY <2>1, PlainShows
  <2>3. <<[do |-> "invoke", kind |-> "", ref |-> step, ends |-> {}]>> \in W
    BY OtherShows, CallKinds
  <2> QED  BY <1>1, <2>2, <2>3 DEF Tool, Closed
<1>5. Building(W)
  <2>1. {"node", "edge", "update", "node.added", "node.updated", "edge.added", "edge.activated", ""} \subseteq OpKinds
    BY DEF OpKinds, Reports, Announcements
  <2>2. Raise \in W
    BY OtherShows, CallKinds, Refs DEF Raise
  <2>3. ASSUME NEW ref \in Ref PROVE Node(ref) \in W
    <3>1. PICK save : save = [do |-> "save", kind |-> "node", ref |-> ref, ends |-> {}]
      OBVIOUS
    <3>2. PICK op : op = [do |-> "emit", kind |-> "node.added", ref |-> ref, ends |-> {}]
      OBVIOUS
    <3>3. save \in Op /\ op \in Op
      BY <2>1, <3>1, <3>2, CallKinds, OpType
    <3>4. SaidOf(save, op) /\ op.kind \in GraphKinds /\ op.kind = "node.added"
      BY <3>1, <3>2 DEF SaidOf, GraphKinds
    <3>5. <<save>> \o <<op>> \in W
      BY <3>1, <3>2, <3>3, <3>4, PairShows
    <3> QED  BY <3>1, <3>2, <3>5 DEF Node, SaveNode, Emit
  <2>4. ASSUME NEW ref \in Ref PROVE Update(ref) \in W
    <3>1. PICK save : save = [do |-> "save", kind |-> "update", ref |-> ref, ends |-> {ref}]
      OBVIOUS
    <3>2. PICK op : op = [do |-> "emit", kind |-> "node.updated", ref |-> ref, ends |-> {}]
      OBVIOUS
    <3>3. save \in Op /\ op \in Op
      BY <2>1, <3>1, <3>2, CallKinds, OpType
    <3>4. SaidOf(save, op) /\ op.kind \in GraphKinds /\ ~SavesNode(save)
      BY <3>1, <3>2 DEF SaidOf, GraphKinds, SavesNode
    <3>5. <<save>> \o <<op>> \in W
      BY <3>1, <3>2, <3>3, <3>4, PairShows
    <3> QED  BY <3>1, <3>2, <3>5 DEF Update, Emit
  <2>5. ASSUME NEW ref \in EdgeRef, NEW source \in Ref, NEW target \in Ref
        PROVE  Edge(ref, source, target) \in W
    <3>1. PICK save : save = [do |-> "save", kind |-> "edge", ref |-> ref, ends |-> {source, target}]
      OBVIOUS
    <3>2. PICK op : op = [do |-> "emit", kind |-> "edge.added", ref |-> ref, ends |-> {source, target}]
      OBVIOUS
    <3>3. ref \in Ref /\ {source, target} \in SUBSET Ref
      BY DEF Ref
    <3>4. save \in Op /\ op \in Op
      BY <2>1, <3>1, <3>2, <3>3, OpType
    <3>5. SaidOf(save, op) /\ op.kind \in GraphKinds /\ ~SavesNode(save)
      BY <3>1, <3>2 DEF SaidOf, GraphKinds, SavesNode
    <3>6. <<save>> \o <<op>> \in W
      BY <3>1, <3>2, <3>4, <3>5, PairShows
    <3>7. Emit("edge.activated", ref) \in W
      BY <2>1, <3>3, PlainShows DEF GraphKinds
    <3> QED  BY <1>1, <3>1, <3>2, <3>6, <3>7 DEF Closed, Edge, SaveEdge
  <2> QED  BY <2>2, <2>3, <2>4, <2>5 DEF Building
<1>6. Disputing(W)
  <2>1. "conflict.detected" \in OpKinds /\ \A ref \in EdgeRef : ref \in Ref
    BY DEF OpKinds, Reports, Ref
  <2> QED  BY <2>1, PlainShows DEF GraphKinds, Disputing
<1> QED  BY <1>1, <1>2, <1>3, <1>4, <1>5, <1>6

\* Every script does.
LEMMA ScriptShows ==
    ASSUME NEW in, InputOK(in)
    PROVE  Script(in) \in Showing(in)
BY ShowingDoes, ScriptIn

\* The nodes by which the canvas is told apart from the steps and rounds
NodeNames(in) == OtherNodes(in) \cup Hypotheses(in)

\* A node of the analysis is told apart from the steps and the rounds.
LEMMA AllNamed ==
    ASSUME NEW in, InputOK(in)
    PROVE  AllNodes(in) \subseteq NodeNames(in)
<1>1. PICK C : C = {in.cycle[i].call : i \in DOMAIN in.cycle}
  OBVIOUS
<1>2. \A name \in EngineNodes \cup C : Id(name) \in OtherNodes(in)
  BY <1>1 DEF OtherNodes
<1>3. CycleRefs(in) \subseteq OtherNodes(in)
  BY <1>1, <1>2 DEF CycleRefs
<1>4. WithDocuments(in) \subseteq OtherNodes(in)
  BY <1>2, <1>3 DEF WithDocuments, WithCycle, Base, EngineNodes
<1>5. \A i \in 1..Claims(in) : <<"excerpt", i>> \in OtherNodes(in) /\ <<"claim", i>> \in OtherNodes(in)
  BY DEF OtherNodes
<1>6. DOMAIN in.hypotheses = 1..Len(in.hypotheses)
  BY InputTypes
<1>7. \A i \in 1..Len(in.hypotheses) :
          <<"validation", i>> \in OtherNodes(in) /\ in.hypotheses[i].id \in Hypotheses(in)
  BY <1>6 DEF OtherNodes, Hypotheses
<1>8. /\ Id("analysis-conclusion") \in OtherNodes(in) /\ Id("recommended-action") \in OtherNodes(in)
      /\ Id("analysis-report") \in OtherNodes(in)
  BY <1>2 DEF EngineNodes
<1> QED  BY <1>4, <1>5, <1>7, <1>8 DEF AllNodes, WithHypotheses, WithClaims, NodeNames

(* What a script tells of its graph.  A node is told of when it is saved.   *)
Adds(op, ref) == op.do = "emit" /\ op.kind = "node.added" /\ op.ref = ref

\* What is announced is in the inputs, an update and an edge only of nodes
\* that were announced before.
LEMMA ScriptTells ==
    ASSUME NEW in, InputOK(in), Unambiguous(in),
           NEW s, s = Script(in), NEW i \in DOMAIN s, s[i].do = "emit"
    PROVE  /\ Lists(in, s[i])
           /\ s[i].kind = "node.added" => s[i].ref \in AllNodes(in)
           /\ s[i].kind = "node.updated" => \E j \in 1..(i - 1) : Adds(s[j], s[i].ref)
           /\ s[i].kind = "edge.added" =>
                  /\ s[i].ref \in EdgeRef
                  /\ \A id \in s[i].ends : \E j \in 1..(i - 1) : Adds(s[j], id)
<1>1. s \in Showing(in) /\ Builds({}, s, AllNodes(in))
  BY ScriptShows, ScriptBuilds
<1>2. s \in Seq(Op) /\ \A k \in DOMAIN s : Shows(in, s, k)
  BY <1>1 DEF Showing
<1>3. Len(s) \in Nat /\ DOMAIN s = 1..Len(s) /\ i \in Nat
  BY <1>2
<1>4. ASSUME NEW k \in 1..(Len(s) + 1), NEW id \in Known({}, s, k)
      PROVE  \E j \in 1..k : j \in DOMAIN s /\ Adds(s[j], id)
  <2>1. PICK m \in 1..(k - 1) : SavesNode(s[m]) /\ s[m].ref = id
    BY DEF Known
  <2>2. m \in DOMAIN s
    BY <1>3
  <2>3. m < Len(s) /\ Adds(s[m + 1], id)
    BY <1>2, <2>1, <2>2 DEF Shows, Adds
  <2>4. m + 1 \in 1..k /\ m + 1 \in DOMAIN s
    BY <1>3, <2>2, <2>3
  <2> QED  BY <2>3, <2>4
<1>5. Lists(in, s[i])
  BY <1>2 DEF Shows
<1>6. ASSUME s[i].kind \in GraphKinds
      PROVE  i - 1 \in DOMAIN s /\ i - 1 \in 1..(Len(s) + 1) /\ SaidOf(s[i - 1], s[i])
  <2>1. i > 1 /\ SaidOf(s[i - 1], s[i])
    BY <1>2, <1>6 DEF Shows
  <2> QED  BY <1>3, <2>1
<1>7. ASSUME s[i].kind = "node.added" PROVE s[i].ref \in AllNodes(in)
  <2>1. SavesNode(s[i - 1]) /\ s[i - 1].ref = s[i].ref /\ i - 1 \in 1..((Len(s) + 1) - 1)
    BY <1>3, <1>6, <1>7 DEF SaidOf, SavesNode, GraphKinds
  <2>2. s[i].ref \in Known({}, s, Len(s) + 1)
    BY <2>1 DEF Known
  <2> QED  BY <1>1, <2>2 DEF Builds
<1>8. ASSUME s[i].kind \in {"node.updated", "edge.added"}
      PROVE  \A id \in s[i - 1].ends : \E j \in 1..(i - 1) : Adds(s[j], id)
  <2>1. i - 1 \in DOMAIN s /\ s[i - 1].do = "save" /\ s[i - 1].kind # "node"
    BY <1>6, <1>8 DEF SaidOf, GraphKinds
  <2>2. s[i - 1].ends \subseteq Known({}, s, i - 1)
    BY <1>1, <2>1 DEF Builds
  <2> QED  BY <1>4, <1>6, <1>8, <2>2 DEF GraphKinds
<1>9. ASSUME s[i].kind = "node.updated" PROVE \E j \in 1..(i - 1) : Adds(s[j], s[i].ref)
  <2>1. s[i].ref \in s[i - 1].ends
    BY <1>6, <1>9 DEF SaidOf, GraphKinds
  <2> QED  BY <1>8, <1>9, <2>1
<1>10. ASSUME s[i].kind = "edge.added"
       PROVE  s[i].ref \in EdgeRef /\ \A id \in s[i].ends : \E j \in 1..(i - 1) : Adds(s[j], id)
  <2>1. s[i].ref \in EdgeRef /\ s[i].ends = s[i - 1].ends
    BY <1>6, <1>10 DEF SaidOf, GraphKinds
  <2> QED  BY <1>8, <1>10, <2>1
<1> QED  BY <1>5, <1>7, <1>9, <1>10

(****************************************************************************)
(* Lists: sequences of anything.                                            *)
(****************************************************************************)
IsList(s) == \E U : s \in Seq(U)

\* A list has a length, and is given by its elements.
LEMMA ListIs ==
    ASSUME NEW s, IsList(s)
    PROVE  Len(s) \in Nat /\ DOMAIN s = 1..Len(s) /\ s = [i \in 1..Len(s) |-> s[i]]
BY DEF IsList

\* There is an empty list.
LEMMA EmptyList == IsList(<<>>) /\ Len(<<>>) = 0 /\ DOMAIN <<>> = {}
<1>1. <<>> \in Seq({})
  OBVIOUS
<1> QED  BY <1>1 DEF IsList

\* One element more
LEMMA AppendList ==
    ASSUME NEW s, IsList(s), NEW x
    PROVE  /\ IsList(Append(s, x)) /\ Len(Append(s, x)) = Len(s) + 1
           /\ \A i \in 1..Len(s) : Append(s, x)[i] = s[i]
           /\ Append(s, x)[Len(s) + 1] = x
<1>1. PICK U : s \in Seq(U)
  BY DEF IsList
<1>2. PICK W : W = U \cup {x}
  OBVIOUS
<1>3. s \in Seq(W) /\ x \in W
  BY <1>1, <1>2, SeqMonotonic
<1> QED  BY <1>3, AppendProperties DEF IsList

\* One list after another
LEMMA ConcatList ==
    ASSUME NEW s, IsList(s), NEW t, IsList(t)
    PROVE  /\ IsList(s \o t) /\ Len(s \o t) = Len(s) + Len(t)
           /\ \A i \in 1..Len(s) : (s \o t)[i] = s[i]
           /\ \A i \in 1..Len(t) : (s \o t)[Len(s) + i] = t[i]
<1>1. PICK U : s \in Seq(U)
  BY DEF IsList
<1>2. PICK V : t \in Seq(V)
  BY DEF IsList
<1>3. s \in Seq(U \cup V) /\ t \in Seq(U \cup V)
  BY <1>1, <1>2, SeqMonotonic
<1> QED  BY <1>3, Concat DEF IsList

\* A function on the first numbers is a list.
LEMMA ListedIs ==
    ASSUME NEW n \in Nat, NEW f, f = [i \in 1..n |-> f[i]]
    PROVE  Listed(f) = f /\ IsList(f) /\ Len(f) = n /\ DOMAIN f = 1..n
<1>1. PICK U : U = {f[i] : i \in 1..n}
  OBVIOUS
<1>2. f \in [1..n -> U]
  BY <1>1
<1>3. f \in Seq(U) /\ Len(f) = n
  BY <1>2
<1>4. Listed(f) = f
  BY <1>3, SubSeqFull DEF Listed
<1> QED  BY <1>2, <1>3, <1>4 DEF IsList

(* The fold by which the projections are computed, over sets of positions.  *)
Folding(log, f, n) == f = [s \in SUBSET (1..n) |->
    IF s = {} THEN <<Empty>>
    ELSE Append(f[s \ {Max(s)}], Project(Last(f[s \ {Max(s)}]), log[Max(s)]))]

\* The last of some first numbers is their greatest.
LEMMA MaxIs ==
    ASSUME NEW n \in Nat, NEW s \in SUBSET (1..n), n \in s
    PROVE  Max(s) = n
<1>1. PICK x : x = Max(s)
  OBVIOUS
<1>2. \A y \in s : n >= y
  OBVIOUS
<1>3. x \in s /\ \A y \in s : x >= y
  BY <1>1, <1>2 DEF Max
<1> QED  BY <1>1, <1>3

\* There is such a fold, the set of positions being finite,
LEMMA Foldings ==
    ASSUME NEW log, NEW n \in Nat
    PROVE  \E f : Folding(log, f, n)
<1> DEFINE Good == {m \in 0..n : \E f : Folding(log, f, m)}
<1>1. 0 \in Good
  <2>1. PICK f : f = [s \in SUBSET (1..0) |-> <<Empty>>]
    OBVIOUS
  <2>2. \A s \in SUBSET (1..0) : s = {}
    OBVIOUS
  <2>3. Folding(log, f, 0)
    BY <2>1, <2>2 DEF Folding
  <2> QED  BY <2>3
<1>2. ASSUME NEW m \in 0..(n - 1), m \in Good PROVE m + 1 \in Good
  <2>1. PICK f : Folding(log, f, m)
    BY <1>2
  <2> DEFINE N(g, s) == Append(g[s \ {Max(s)}], Project(Last(g[s \ {Max(s)}]), log[Max(s)]))
  <2>2. PICK g : g = [s \in SUBSET (1..(m + 1)) |-> IF m + 1 \in s THEN N(f, s) ELSE f[s]]
    OBVIOUS
  <2>3. ASSUME NEW s \in SUBSET (1..(m + 1)) PROVE g[s] = IF s = {} THEN <<Empty>> ELSE N(g, s)
    <3>1. CASE m + 1 \in s
      <4>1. Max(s) = m + 1
        BY <3>1, MaxIs
      <4>2. s \ {Max(s)} \in SUBSET (1..(m + 1)) /\ m + 1 \notin s \ {Max(s)}
        BY <4>1
      <4>3. g[s \ {Max(s)}] = f[s \ {Max(s)}]
        BY <2>2, <4>2
      <4> QED  BY <2>2, <3>1, <4>3
    <3>2. CASE m + 1 \notin s
      <4>0. \A i \in 1..(m + 1) : i # m + 1 => i \in 1..m
        OBVIOUS
      <4>1. s \in SUBSET (1..m) /\ s \ {Max(s)} \in SUBSET (1..m)
        BY <3>2, <4>0
      <4>2. g[s] = f[s]
        BY <2>2, <3>2
      <4>3. g[s \ {Max(s)}] = f[s \ {Max(s)}]
        BY <2>2, <3>2
      <4>4. f[s] = IF s = {} THEN <<Empty>> ELSE N(f, s)
        BY <2>1, <4>1 DEF Folding
      <4> QED  BY <4>2, <4>3, <4>4
    <3> QED  BY <3>1, <3>2
  <2>4. Folding(log, g, m + 1)
    <3> HIDE DEF N
    <3>1. g = [s \in SUBSET (1..(m + 1)) |-> g[s]]
      BY <2>2
    <3>2. g = [s \in SUBSET (1..(m + 1)) |-> IF s = {} THEN <<Empty>> ELSE N(g, s)]
      BY <2>3, <3>1
    <3> QED  BY <3>2 DEF Folding, N
  <2>5. m + 1 \in 0..n
    OBVIOUS
  <2> QED  BY <2>4, <2>5
<1>3. \A i \in 0..n : i \in Good
  <2> HIDE DEF Good
  <2> QED  BY <1>1, <1>2, UpTo
<1>4. n \in 0..n
  OBVIOUS
<1> QED  BY <1>3, <1>4

\* and FoldLeft is one.
LEMMA ProjectionsFold ==
    ASSUME NEW log, NEW n \in Nat, DOMAIN log = 1..n
    PROVE  \E f : Folding(log, f, n) /\ Projections(log) = f[1..n]
<1>1. PICK f : f = CHOOSE g : Folding(log, g, n)
  OBVIOUS
<1>2. Folding(log, f, n)
  BY <1>1, Foldings
<1>3. Projections(log) = f[1..n]
  BY <1>1 DEF Projections, FoldLeft, MapThenFoldSet, Folding
<1> QED  BY <1>2, <1>3

\* The projection of each prefix of the events follows from the one before.
LEMMA ProjectionsAre ==
    ASSUME NEW log, NEW n \in Nat, DOMAIN log = 1..n
    PROVE  /\ IsList(Projections(log)) /\ Len(Projections(log)) = n + 1
           /\ Projections(log)[1] = Empty
           /\ \A k \in 1..n : Projections(log)[k + 1] = Project(Projections(log)[k], log[k])
<1>1. PICK f : Folding(log, f, n) /\ Projections(log) = f[1..n]
  BY ProjectionsFold
<1> DEFINE Fits(ps, m) == /\ IsList(ps) /\ Len(ps) = m + 1 /\ ps[1] = Empty
                          /\ \A k \in 1..m : ps[k + 1] = Project(ps[k], log[k])
           Good == {m \in 0..n : Fits(f[1..m], m)}
<1>2. 0 \in Good
  <2>1. 1..0 = {} /\ 1..0 \in SUBSET (1..n)
    OBVIOUS
  <2>2. f[1..0] = <<Empty>>
    BY <1>1, <2>1 DEF Folding
  <2>3. PICK s : s = <<Empty>>
    OBVIOUS
  <2>4. s \in Seq({Empty}) /\ Len(s) = 1 /\ s[1] = Empty
    BY <2>3
  <2>5. Fits(s, 0)
    BY <2>4 DEF IsList
  <2> QED  BY <2>2, <2>3, <2>5
<1>3. ASSUME NEW m \in 0..(n - 1), m \in Good PROVE m + 1 \in Good
  <2>0. m \in Nat /\ m + 1 <= n
    OBVIOUS
  <2>1. 1..(m + 1) \in SUBSET (1..n) /\ m + 1 \in 1..(m + 1) /\ 1..(m + 1) # {}
    <3>1. m + 1 \in 1..(m + 1)
      BY <2>0
    <3>2. \A i \in 1..(m + 1) : i \in 1..n
      BY <2>0
    <3> QED  BY <3>1, <3>2
  <2>2. Max(1..(m + 1)) = m + 1
    BY <2>1, MaxIs
  <2>3. (1..(m + 1)) \ {m + 1} = 1..m
    OBVIOUS
  <2>4. PICK ps : ps = f[1..m]
    OBVIOUS
  <2>5. f[1..(m + 1)] = Append(ps, Project(Last(ps), log[m + 1]))
    <3>1. PICK s : s = 1..(m + 1)
      OBVIOUS
    <3>2. f[s] = Append(f[s \ {Max(s)}], Project(Last(f[s \ {Max(s)}]), log[Max(s)]))
      BY <1>1, <2>1, <3>1 DEF Folding
    <3>3. Max(s) = m + 1 /\ s \ {Max(s)} = 1..m
      BY <2>2, <2>3, <3>1
    <3> QED  BY <2>4, <3>1, <3>2, <3>3
  <2>6. Fits(ps, m)
    BY <1>3, <2>4
  <2>7. PICK e : e = Project(ps[m + 1], log[m + 1])
    OBVIOUS
  <2>8. PICK qs : qs = Append(ps, e)
    OBVIOUS
  <2>9. f[1..(m + 1)] = qs
    BY <2>5, <2>6, <2>7, <2>8 DEF Last
  <2>10. /\ IsList(qs) /\ Len(qs) = m + 2 /\ qs[m + 2] = e
         /\ \A i \in 1..(m + 1) : qs[i] = ps[i]
    BY <2>6, <2>8, AppendList
  <2>11. Fits(qs, m + 1)
    <3>1. qs[1] = Empty
      BY <2>6, <2>10
    <3>2. ASSUME NEW k \in 1..(m + 1) PROVE qs[k + 1] = Project(qs[k], log[k])
      <4>1. CASE k = m + 1
        BY <2>7, <2>10, <4>1
      <4>2. CASE k # m + 1
        <5>1. k \in 1..m /\ k \in 1..(m + 1) /\ k + 1 \in 1..(m + 1)
          BY <4>2
        <5> QED  BY <2>6, <2>10, <5>1
      <4> QED  BY <4>1, <4>2
    <3>3. Len(qs) = (m + 1) + 1
      BY <2>10
    <3> QED  BY <2>10, <3>1, <3>2, <3>3
  <2>12. m + 1 \in 0..n
    OBVIOUS
  <2> QED  BY <2>9, <2>11, <2>12
<1>4. \A i \in 0..n : i \in Good
  <2> HIDE DEF Good
  <2> QED  BY <1>2, <1>3, UpTo
<1>5. n \in Good
  <2> HIDE DEF Good
  <2> QED  BY <1>4
<1> QED  BY <1>1, <1>5

(****************************************************************************)
(* Drawings: what an event changes of the nodes and the edges.              *)
(****************************************************************************)
IsNode(x) == x = [id |-> x.id, kind |-> x.kind, status |-> x.status, lane |-> x.lane]
IsEdge(x) == x = [id |-> x.id, ends |-> x.ends, conflicted |-> x.conflicted]
IsDrawing(p) ==
    /\ p = [nodes |-> p.nodes, edges |-> p.edges, active |-> p.active, activeEdges |-> p.activeEdges,
            tool |-> p.tool, revisions |-> p.revisions, conflicts |-> p.conflicts,
            converged |-> p.converged, last |-> p.last]
    /\ IsList(p.nodes) /\ \A i \in DOMAIN p.nodes : IsNode(p.nodes[i])
    /\ IsList(p.edges) /\ \A i \in DOMAIN p.edges : IsEdge(p.edges[i])

\* What is drawn stays where it is.
SameNode(x, y) == x.id = y.id /\ x.kind = y.kind /\ x.lane = y.lane
SameEdge(x, y) == x.id = y.id /\ x.ends = y.ends
Keeps(p, q) ==
    /\ Len(p.nodes) <= Len(q.nodes) /\ \A i \in DOMAIN p.nodes : SameNode(p.nodes[i], q.nodes[i])
    /\ Len(p.edges) <= Len(q.edges) /\ \A i \in DOMAIN p.edges : SameEdge(p.edges[i], q.edges[i])
Redraws(p, q) == Keeps(p, q) /\ Len(q.nodes) = Len(p.nodes) /\ Len(q.edges) = Len(p.edges)
AddsNode(p, q, id, kind, lane) ==
    /\ Keeps(p, q) /\ Len(q.nodes) = Len(p.nodes) + 1
    /\ LET x == q.nodes[Len(q.nodes)] IN x.id = id /\ x.kind = kind /\ x.lane = lane
    /\ \A i \in DOMAIN q.edges \ DOMAIN p.edges :
           /\ \E source : q.edges[i].id = <<"from", source, id>>
           /\ \A j \in DOMAIN q.edges \ DOMAIN p.edges : q.edges[i].id = q.edges[j].id => i = j
AddsEdge(p, q, id, ends) ==
    /\ Keeps(p, q) /\ Len(q.nodes) = Len(p.nodes) /\ Len(q.edges) = Len(p.edges) + 1
    /\ LET x == q.edges[Len(q.edges)] IN x.id = id /\ x.ends = ends
DrawsNode(p, q, id, kind, lane) ==
    IF Drawn(p, id) THEN Redraws(p, q) ELSE AddsNode(p, q, id, kind, lane)
DrawsEdge(p, q, id, ends) ==
    IF EdgeDrawn(p, id) THEN Redraws(p, q) ELSE AddsEdge(p, q, id, ends)

\* What it says of the conflicts, the report and the tool stays; an edge that is
\* added is not marked.
Carries(p, q) ==
    /\ q.last = p.last /\ q.conflicts = p.conflicts /\ q.converged = p.converged /\ q.tool = p.tool
    /\ \A i \in DOMAIN q.edges : q.edges[i].conflicted <=> i \in DOMAIN p.edges /\ p.edges[i].conflicted

\* The nodes and the edges of a drawing are lists.
LEMMA DrawingIs ==
    ASSUME NEW p, IsDrawing(p)
    PROVE  /\ Len(p.nodes) \in Nat /\ DOMAIN p.nodes = 1..Len(p.nodes)
           /\ Len(p.edges) \in Nat /\ DOMAIN p.edges = 1..Len(p.edges)
BY ListIs DEF IsDrawing

\* Before the first event nothing is drawn.
LEMMA EmptyDrawing == IsDrawing(Empty) /\ Empty.nodes = <<>> /\ Empty.edges = <<>> /\ Empty.last = 0
BY EmptyList DEF IsDrawing, Empty

\* A drawing with the same nodes and edges
LEMMA Repainted ==
    ASSUME NEW p, IsDrawing(p), NEW q, q.nodes = p.nodes, q.edges = p.edges,
           q = [nodes |-> q.nodes, edges |-> q.edges, active |-> q.active, activeEdges |-> q.activeEdges,
                tool |-> q.tool, revisions |-> q.revisions, conflicts |-> q.conflicts,
                converged |-> q.converged, last |-> q.last]
    PROVE  IsDrawing(q) /\ Redraws(p, q)
<1>1. IsDrawing(q)
  BY DEF IsDrawing
<1>2. Redraws(p, q)
  BY DrawingIs DEF Redraws, Keeps, SameNode, SameEdge
<1> QED  BY <1>1, <1>2

\* setStatus draws nothing,
LEMMA SetStatusDraws ==
    ASSUME NEW p, IsDrawing(p), NEW id, NEW status
    PROVE  LET q == SetStatus(p, id, status) IN
           /\ IsDrawing(q) /\ Redraws(p, q) /\ Carries(p, q)
           /\ \A i \in DOMAIN q.nodes : q.nodes[i].id = id => q.nodes[i].status = status
<1>1. PICK n \in Nat : n = Len(p.nodes) /\ DOMAIN p.nodes = 1..n
  BY DrawingIs
<1>2. PICK f : f = [i \in 1..n |-> IF p.nodes[i].id = id THEN [p.nodes[i] EXCEPT !.status = status] ELSE p.nodes[i]]
  OBVIOUS
<1>3. f = [i \in 1..n |-> f[i]]
  BY <1>2
<1>4. Listed(f) = f /\ IsList(f) /\ Len(f) = n /\ DOMAIN f = 1..n
  BY <1>3, ListedIs
<1>5. PICK q : q = SetStatus(p, id, status)
  OBVIOUS
<1>6. q = [p EXCEPT !.nodes = f]
  BY <1>1, <1>2, <1>4, <1>5 DEF SetStatus, Map
<1>7. ASSUME NEW i \in 1..n PROVE IsNode(f[i]) /\ SameNode(p.nodes[i], f[i])
  <2>1. PICK x : x = p.nodes[i]
    OBVIOUS
  <2>2. IsNode(x)
    BY <1>1, <2>1 DEF IsDrawing
  <2>3. PICK y : y = [x EXCEPT !.status = status]
    OBVIOUS
  <2>4. IsNode(y) /\ SameNode(x, y)
    BY <2>2, <2>3 DEF IsNode, SameNode
  <2>5. f[i] = y \/ f[i] = x
    BY <1>2, <2>1, <2>3
  <2> QED  BY <2>1, <2>2, <2>4, <2>5 DEF SameNode
<1>8. /\ q = [nodes |-> q.nodes, edges |-> q.edges, active |-> q.active, activeEdges |-> q.activeEdges,
              tool |-> q.tool, revisions |-> q.revisions, conflicts |-> q.conflicts,
              converged |-> q.converged, last |-> q.last]
      /\ q.nodes = f /\ q.edges = p.edges /\ q.last = p.last
      /\ q.conflicts = p.conflicts /\ q.converged = p.converged /\ q.tool = p.tool
  BY <1>6 DEF IsDrawing
<1>9. IsDrawing(q)
  BY <1>4, <1>7, <1>8 DEF IsDrawing
<1>10. Redraws(p, q)
  BY <1>1, <1>4, <1>7, <1>8, DrawingIs DEF Redraws, Keeps, SameEdge
<1>11. Carries(p, q)
  BY <1>8 DEF Carries
<1>12. ASSUME NEW i \in DOMAIN q.nodes, q.nodes[i].id = id PROVE q.nodes[i].status = status
  <2>1. PICK x : x = p.nodes[i] /\ IsNode(x) /\ i \in 1..n
    BY <1>1, <1>4, <1>8 DEF IsDrawing
  <2>2. PICK y : y = [x EXCEPT !.status = status]
    OBVIOUS
  <2>3. y.status = status
    BY <2>1, <2>2 DEF IsNode
  <2>4. f[i] = IF x.id = id THEN y ELSE x
    BY <1>2, <2>1, <2>2
  <2> QED  BY <1>8, <1>12, <2>3, <2>4
<1> QED  BY <1>5, <1>9, <1>10, <1>11, <1>12

\* The elements of a finite set in a sequence, each once
LEMMA SetToSeqIs ==
    ASSUME NEW S, IsFiniteSet(S)
    PROVE  /\ Len(SetToSeq(S)) \in Nat /\ DOMAIN SetToSeq(S) = 1..Len(SetToSeq(S))
           /\ \A i \in DOMAIN SetToSeq(S) : SetToSeq(S)[i] \in S
           /\ \A i, j \in DOMAIN SetToSeq(S) : SetToSeq(S)[i] = SetToSeq(S)[j] => i = j
<1>1. PICK n \in Nat : n = Cardinality(S) /\ ExistsBijection(1..n, S)
  BY FS_CardinalityType
<1>2. \E f \in [1..n -> S] : IsInjective(f)
  BY <1>1 DEF ExistsBijection, Bijection, Injection, IsInjective
<1>3. PICK s : s = SetToSeq(S)
  OBVIOUS
<1>4. s \in [1..n -> S] /\ IsInjective(s)
  BY <1>1, <1>2, <1>3 DEF SetToSeq
<1>5. s = [i \in 1..n |-> s[i]]
  BY <1>4
<1>6. Len(s) = n /\ DOMAIN s = 1..n
  BY <1>5, ListedIs
<1> QED  BY <1>3, <1>4, <1>6 DEF IsInjective

\* addNode draws the node unless it is drawn, whatever it comes from,
LEMMA NodeFromDraws ==
    ASSUME NEW p, IsDrawing(p), NEW e, IsFiniteSet(e.prior),
           NEW id, NEW kind, NEW status, NEW lane
    PROVE  LET q == NodeFrom(p, e, id, kind, status, lane)
           IN  IsDrawing(q) /\ DrawsNode(p, q, id, kind, lane) /\ Carries(p, q)
<1>1. PICK q : q = NodeFrom(p, e, id, kind, status, lane)
  OBVIOUS
<1>2. CASE Drawn(p, id)
  <2>1. q = p
    BY <1>1, <1>2 DEF NodeFrom
  <2> QED  BY <1>1, <1>2, <2>1, DrawingIs DEF DrawsNode, Redraws, Keeps, SameNode, SameEdge, Carries
<1>3. CASE ~Drawn(p, id)
  <2>1. PICK s : s = SetToSeq(e.prior)
    OBVIOUS
  <2>2. PICK n \in Nat : n = Len(s) /\ DOMAIN s = 1..n
    BY <2>1, SetToSeqIs
  <2>3. \A i, j \in 1..n : s[i] = s[j] => i = j
    BY <2>1, <2>2, SetToSeqIs
  <2>4. PICK f : f = [i \in 1..n |-> [id |-> <<"from", s[i], id>>, ends |-> {s[i], id}, conflicted |-> FALSE]]
    OBVIOUS
  <2>5. f = [i \in 1..n |-> f[i]]
    BY <2>4
  <2>6. Listed(f) = f /\ IsList(f) /\ Len(f) = n /\ DOMAIN f = 1..n
    BY <2>5, ListedIs
  <2>7. PICK x : x = [id |-> id, kind |-> kind, status |-> status, lane |-> lane]
    OBVIOUS
  <2>8. /\ q = [p EXCEPT !.nodes = Append(@, x), !.edges = @ \o f,
                         !.active = {id}, !.activeEdges = {f[i].id : i \in DOMAIN f}]
    <3>1. Map(SetToSeq(e.prior), LAMBDA source :
              [id |-> <<"from", source, id>>, ends |-> {source, id}, conflicted |-> FALSE]) = f
      BY <2>1, <2>2, <2>4, <2>6 DEF Map
    <3> QED  BY <1>1, <1>3, <2>7, <3>1 DEF NodeFrom
  <2>9. PICK A : A = {f[i].id : i \in DOMAIN f}
    OBVIOUS
  <2>10. /\ q = [nodes |-> q.nodes, edges |-> q.edges, active |-> q.active, activeEdges |-> q.activeEdges,
                 tool |-> q.tool, revisions |-> q.revisions, conflicts |-> q.conflicts,
                 converged |-> q.converged, last |-> q.last]
         /\ q.nodes = Append(p.nodes, x) /\ q.edges = p.edges \o f /\ q.last = p.last
         /\ q.conflicts = p.conflicts /\ q.converged = p.converged /\ q.tool = p.tool
    <3>1. q = [p EXCEPT !.nodes = Append(p.nodes, x), !.edges = p.edges \o f, !.active = {id}, !.activeEdges = A]
      BY <2>8, <2>9
    <3> QED  BY <3>1 DEF IsDrawing
  <2>11. PICK N : N = Len(p.nodes)
    OBVIOUS
  <2>12. PICK E : E = Len(p.edges)
    OBVIOUS
  <2>13. /\ IsList(q.nodes) /\ Len(q.nodes) = N + 1 /\ N \in Nat
         /\ \A i \in 1..N : q.nodes[i] = p.nodes[i]
         /\ q.nodes[N + 1] = x /\ DOMAIN p.nodes = 1..N /\ DOMAIN q.nodes = 1..(N + 1)
    BY <2>10, <2>11, AppendList, ListIs, DrawingIs DEF IsDrawing
  <2>14. /\ IsList(q.edges) /\ Len(q.edges) = E + n /\ E \in Nat
         /\ \A i \in 1..E : q.edges[i] = p.edges[i]
         /\ \A i \in 1..n : q.edges[E + i] = f[i]
         /\ DOMAIN p.edges = 1..E /\ DOMAIN q.edges = 1..(E + n)
    <3>1. IsList(p.edges) /\ E \in Nat /\ DOMAIN p.edges = 1..E
      BY <2>12, DrawingIs DEF IsDrawing
    <3>4. PICK es : es = p.edges
      OBVIOUS
    <3>5. IsList(es) /\ IsList(f)
      BY <2>6, <3>1, <3>4
    <3>6. PICK t : t = es \o f
      OBVIOUS
    <3>7. /\ IsList(t) /\ Len(t) = Len(es) + Len(f)
          /\ \A i \in 1..Len(es) : t[i] = es[i]
          /\ \A i \in 1..Len(f) : t[Len(es) + i] = f[i]
      BY <3>5, <3>6, ConcatList
    <3>8. q.edges = t
      BY <2>10, <3>4, <3>6
    <3>2. /\ IsList(q.edges) /\ Len(q.edges) = E + n
          /\ \A i \in 1..E : q.edges[i] = p.edges[i]
          /\ \A i \in 1..n : q.edges[E + i] = f[i]
      BY <2>6, <2>12, <3>4, <3>7, <3>8
    <3>3. DOMAIN q.edges = 1..(E + n)
      BY <3>2, ListIs
    <3> QED  BY <3>1, <3>2, <3>3
  <2>15. ASSUME NEW i \in 1..(E + n), i \notin 1..E
         PROVE  \E k \in 1..n : i = E + k /\ q.edges[i] = f[k]
    <3>1. i - E \in 1..n /\ i = E + (i - E)
      BY <2>14, <2>15
    <3> QED  BY <2>14, <3>1
  <2>16. \A k \in 1..n : IsEdge(f[k]) /\ f[k].id = <<"from", s[k], id>> /\ f[k].conflicted = FALSE
    BY <2>4 DEF IsEdge
  <2>17. IsDrawing(q)
    <3>1. IsNode(x)
      BY <2>7 DEF IsNode
    <3>2. \A i \in DOMAIN q.nodes : IsNode(q.nodes[i])
      <4>1. \A i \in 1..(N + 1) : i \in 1..N \/ i = N + 1
        BY <2>13
      <4> QED  BY <2>13, <3>1, <4>1 DEF IsDrawing
    <3>3. \A i \in DOMAIN q.edges : IsEdge(q.edges[i])
      <4>1. \A i \in 1..E : IsEdge(q.edges[i])
        BY <2>14 DEF IsDrawing
      <4> QED  BY <2>14, <2>15, <2>16, <4>1
    <3> QED  BY <2>10, <2>13, <2>14, <3>2, <3>3 DEF IsDrawing
  <2>18. Keeps(p, q)
    <3>1. Len(p.nodes) <= Len(q.nodes) /\ Len(p.edges) <= Len(q.edges)
      BY <2>1, <2>11, <2>12, <2>13, <2>14
    <3>2. \A i \in DOMAIN p.nodes : q.nodes[i] = p.nodes[i]
      BY <2>13
    <3>3. \A i \in DOMAIN p.edges : q.edges[i] = p.edges[i]
      BY <2>14
    <3> QED  BY <3>1, <3>2, <3>3 DEF Keeps, SameNode, SameEdge
  <2>19. ASSUME NEW i \in DOMAIN q.edges \ DOMAIN p.edges
         PROVE  /\ \E source : q.edges[i].id = <<"from", source, id>>
                /\ \A j \in DOMAIN q.edges \ DOMAIN p.edges : q.edges[i].id = q.edges[j].id => i = j
    <3>1. PICK k \in 1..n : i = E + k /\ q.edges[i] = f[k]
      BY <2>14, <2>15
    <3>2. ASSUME NEW j \in DOMAIN q.edges \ DOMAIN p.edges, q.edges[i].id = q.edges[j].id PROVE i = j
      <4>1. PICK m \in 1..n : j = E + m /\ q.edges[j] = f[m]
        BY <2>14, <2>15
      <4>2. s[k] = s[m]
        BY <2>16, <3>1, <3>2, <4>1
      <4> QED  BY <2>3, <3>1, <4>1, <4>2
    <3> QED  BY <2>16, <3>1, <3>2
  <2>20. AddsNode(p, q, id, kind, lane)
    BY <2>7, <2>11, <2>13, <2>18, <2>19 DEF AddsNode
  <2>21. ASSUME NEW i \in DOMAIN q.edges
         PROVE  q.edges[i].conflicted <=> i \in DOMAIN p.edges /\ p.edges[i].conflicted
    <3>1. CASE i \in 1..E
      BY <2>14, <3>1
    <3>2. CASE i \notin 1..E
      <4>1. PICK k \in 1..n : q.edges[i] = f[k]
        BY <2>14, <2>15, <3>2
      <4> QED  BY <2>14, <2>16, <3>2, <4>1
    <3> QED  BY <3>1, <3>2
  <2>22. Carries(p, q)
    BY <2>10, <2>21 DEF Carries
  <2> QED  BY <1>1, <1>3, <2>17, <2>20, <2>22 DEF DrawsNode
<1> QED  BY <1>2, <1>3

\* a node that is announced is drawn in the lane of its kind,
LEMMA NodeAddedDraws ==
    ASSUME NEW p, IsDrawing(p), NEW e
    PROVE  LET q == NodeAdded(p, e)
           IN  IsDrawing(q) /\ DrawsNode(p, q, e.ref, e.type, LaneForKind(e.type)) /\ Carries(p, q)
<1>1. PICK q : q = NodeAdded(p, e)
  OBVIOUS
<1>2. CASE Drawn(p, e.ref)
  <2>1. q = p
    BY <1>1, <1>2 DEF NodeAdded
  <2> QED  BY <1>1, <1>2, <2>1, DrawingIs DEF DrawsNode, Redraws, Keeps, SameNode, SameEdge, Carries
<1>3. CASE ~Drawn(p, e.ref)
  <2>1. PICK lane : lane = LaneForKind(e.type)
    OBVIOUS
  <2>2. PICK x : x = [id |-> e.ref, kind |-> e.type, status |-> e.status, lane |-> lane]
    OBVIOUS
  <2>3. q = [p EXCEPT !.nodes = Append(p.nodes, x), !.active = {e.ref}]
    BY <1>1, <1>3, <2>1, <2>2 DEF NodeAdded
  <2>4. /\ q = [nodes |-> q.nodes, edges |-> q.edges, active |-> q.active, activeEdges |-> q.activeEdges,
                tool |-> q.tool, revisions |-> q.revisions, conflicts |-> q.conflicts,
                converged |-> q.converged, last |-> q.last]
        /\ q.nodes = Append(p.nodes, x) /\ q.edges = p.edges /\ q.last = p.last
        /\ q.conflicts = p.conflicts /\ q.converged = p.converged /\ q.tool = p.tool
    BY <2>3 DEF IsDrawing
  <2>5. PICK N : N = Len(p.nodes)
    OBVIOUS
  <2>6. /\ IsList(q.nodes) /\ Len(q.nodes) = N + 1 /\ N \in Nat
        /\ \A i \in 1..N : q.nodes[i] = p.nodes[i]
        /\ q.nodes[N + 1] = x /\ DOMAIN p.nodes = 1..N /\ DOMAIN q.nodes = 1..(N + 1)
    BY <2>4, <2>5, AppendList, ListIs, DrawingIs DEF IsDrawing
  <2>7. IsDrawing(q)
    <3>1. IsNode(x)
      BY <2>2 DEF IsNode
    <3>2. \A i \in 1..(N + 1) : i \in 1..N \/ i = N + 1
      BY <2>6
    <3> QED  BY <2>4, <2>6, <3>1, <3>2 DEF IsDrawing
  <2>8. AddsNode(p, q, e.ref, e.type, lane)
    BY <2>2, <2>4, <2>5, <2>6, DrawingIs DEF AddsNode, Keeps, SameNode, SameEdge
  <2>9. Carries(p, q)
    BY <2>4 DEF Carries
  <2> QED  BY <1>1, <1>3, <2>1, <2>7, <2>8, <2>9 DEF DrawsNode
<1> QED  BY <1>2, <1>3

\* an edge with its ends,
LEMMA EdgeAddedDraws ==
    ASSUME NEW p, IsDrawing(p), NEW e
    PROVE  LET q == EdgeAdded(p, e)
           IN  IsDrawing(q) /\ DrawsEdge(p, q, e.ref, e.ends) /\ Carries(p, q)
<1>1. PICK q : q = EdgeAdded(p, e)
  OBVIOUS
<1>2. CASE EdgeDrawn(p, e.ref)
  <2>1. q = p
    BY <1>1, <1>2 DEF EdgeAdded
  <2> QED  BY <1>1, <1>2, <2>1, DrawingIs DEF DrawsEdge, Redraws, Keeps, SameNode, SameEdge, Carries
<1>3. CASE ~EdgeDrawn(p, e.ref)
  <2>2. PICK x : x = [id |-> e.ref, ends |-> e.ends, conflicted |-> FALSE]
    OBVIOUS
  <2>3. q = [p EXCEPT !.edges = Append(p.edges, x), !.activeEdges = {e.ref}]
    BY <1>1, <1>3, <2>2 DEF EdgeAdded
  <2>4. /\ q = [nodes |-> q.nodes, edges |-> q.edges, active |-> q.active, activeEdges |-> q.activeEdges,
                tool |-> q.tool, revisions |-> q.revisions, conflicts |-> q.conflicts,
                converged |-> q.converged, last |-> q.last]
        /\ q.edges = Append(p.edges, x) /\ q.nodes = p.nodes /\ q.last = p.last
        /\ q.conflicts = p.conflicts /\ q.converged = p.converged /\ q.tool = p.tool
    BY <2>3 DEF IsDrawing
  <2>5. PICK N : N = Len(p.edges)
    OBVIOUS
  <2>6. /\ IsList(q.edges) /\ Len(q.edges) = N + 1 /\ N \in Nat
        /\ \A i \in 1..N : q.edges[i] = p.edges[i]
        /\ q.edges[N + 1] = x /\ DOMAIN p.edges = 1..N /\ DOMAIN q.edges = 1..(N + 1)
    BY <2>4, <2>5, AppendList, ListIs, DrawingIs DEF IsDrawing
  <2>7. IsDrawing(q)
    <3>1. IsEdge(x)
      BY <2>2 DEF IsEdge
    <3>2. \A i \in 1..(N + 1) : i \in 1..N \/ i = N + 1
      BY <2>6
    <3> QED  BY <2>4, <2>6, <3>1, <3>2 DEF IsDrawing
  <2>8. AddsEdge(p, q, e.ref, e.ends)
    BY <2>2, <2>4, <2>5, <2>6, DrawingIs DEF AddsEdge, Keeps, SameNode, SameEdge
  <2>9. ASSUME NEW i \in DOMAIN q.edges
        PROVE  q.edges[i].conflicted <=> i \in DOMAIN p.edges /\ p.edges[i].conflicted
    <3>1. CASE i \in 1..N
      BY <2>6, <3>1
    <3>2. CASE i = N + 1
      <4>1. i \notin DOMAIN p.edges /\ q.edges[i].conflicted = FALSE
        BY <2>2, <2>6, <3>2
      <4> QED  BY <4>1
    <3> QED  BY <2>6, <3>1, <3>2
  <2>10. Carries(p, q)
    BY <2>4, <2>9 DEF Carries
  <2> QED  BY <1>1, <1>3, <2>7, <2>8, <2>10 DEF DrawsEdge
<1> QED  BY <1>2, <1>3

\* and a conflict marks edges that are drawn.
LEMMA ConflictDraws ==
    ASSUME NEW p, IsDrawing(p), NEW e
    PROVE  LET q == Conflict(p, e) IN
           /\ IsDrawing(q) /\ Redraws(p, q) /\ q.last = p.last
           /\ q.conflicts = p.conflicts + 1 /\ q.converged = p.converged /\ q.tool = p.tool
           /\ \A i \in DOMAIN p.edges : q.edges[i].conflicted <=> p.edges[i].conflicted \/ p.edges[i].id = e.ref
<1>1. PICK n \in Nat : n = Len(p.edges) /\ DOMAIN p.edges = 1..n
  BY DrawingIs
<1>2. PICK f : f = [i \in 1..n |-> [p.edges[i] EXCEPT !.conflicted = @ \/ p.edges[i].id = e.ref]]
  OBVIOUS
<1>3. f = [i \in 1..n |-> f[i]]
  BY <1>2
<1>4. Listed(f) = f /\ IsList(f) /\ Len(f) = n /\ DOMAIN f = 1..n
  BY <1>3, ListedIs
<1>5. PICK q : q = Conflict(p, e)
  OBVIOUS
<1>6. PICK A : A = IF EdgeDrawn(p, e.ref) THEN {e.ref} ELSE p.activeEdges
  OBVIOUS
<1>7. q = [p EXCEPT !.conflicts = p.conflicts + 1, !.edges = f, !.activeEdges = A]
  BY <1>1, <1>2, <1>4, <1>5, <1>6 DEF Conflict, Map
<1>8. ASSUME NEW i \in 1..n
      PROVE  /\ IsEdge(f[i]) /\ SameEdge(p.edges[i], f[i])
             /\ f[i].conflicted <=> p.edges[i].conflicted \/ p.edges[i].id = e.ref
  <2>1. PICK x : x = p.edges[i]
    OBVIOUS
  <2>2. IsEdge(x)
    BY <1>1, <2>1 DEF IsDrawing
  <2>3. PICK c : c = (x.conflicted \/ x.id = e.ref)
    OBVIOUS
  <2>4. f[i] = [x EXCEPT !.conflicted = c]
    BY <1>2, <2>1, <2>3
  <2>5. f[i].conflicted = c
    BY <2>2, <2>4 DEF IsEdge
  <2> QED  BY <2>1, <2>2, <2>3, <2>4, <2>5 DEF IsEdge, SameEdge
<1>9. /\ q = [nodes |-> q.nodes, edges |-> q.edges, active |-> q.active, activeEdges |-> q.activeEdges,
              tool |-> q.tool, revisions |-> q.revisions, conflicts |-> q.conflicts,
              converged |-> q.converged, last |-> q.last]
      /\ q.edges = f /\ q.nodes = p.nodes /\ q.last = p.last
      /\ q.conflicts = p.conflicts + 1 /\ q.converged = p.converged /\ q.tool = p.tool
  BY <1>7 DEF IsDrawing
<1>10. IsDrawing(q)
  BY <1>4, <1>8, <1>9 DEF IsDrawing
<1>11. Redraws(p, q)
  BY <1>1, <1>4, <1>8, <1>9, DrawingIs DEF Redraws, Keeps, SameNode
<1>12. \A i \in DOMAIN p.edges : q.edges[i].conflicted <=> p.edges[i].conflicted \/ p.edges[i].id = e.ref
  BY <1>1, <1>8, <1>9
<1> QED  BY <1>5, <1>9, <1>10, <1>11, <1>12

(* projectFlowEvent: what it draws by an event, later than the last one.    *)
Draws(p, e, q) ==
    CASE e.kind = "step.added" -> DrawsNode(p, q, e.ref, "tool_step", LaneForTool(e.type))
      [] e.kind = "round.planned" -> DrawsNode(p, q, RoundId(e), "analysis_round", "reasoning")
      [] e.kind = "artifact.created" ->
             IF e.type = "text_ml" THEN DrawsNode(p, q, e.ref, "text_theme", "reasoning")
             ELSE DrawsNode(p, q, e.ref, "analytical_artifact", "compute")
      [] e.kind = "node.added" -> DrawsNode(p, q, e.ref, e.type, LaneForKind(e.type))
      [] e.kind = "edge.added" -> DrawsEdge(p, q, e.ref, e.ends)
      [] OTHER -> Redraws(p, q)

\* The other events draw nothing,
LEMMA OtherDraws ==
    ASSUME NEW p, IsDrawing(p), NEW e
    PROVE  /\ \A q \in {Activate(p, e.ref), EdgeActivated(p, e), [p EXCEPT !.revisions = @ + 1]} :
                  IsDrawing(q) /\ Redraws(p, q) /\ Carries(p, q) /\ q.nodes = p.nodes
           /\ \A q \in {[p EXCEPT !.converged = TRUE]} :
                  /\ IsDrawing(q) /\ Redraws(p, q) /\ q.last = p.last
                  /\ q.conflicts = p.conflicts /\ q.edges = p.edges /\ q.converged = TRUE /\ q.tool = p.tool
<1> DEFINE Repaint(q) == /\ q = [nodes |-> q.nodes, edges |-> q.edges, active |-> q.active, activeEdges |-> q.activeEdges,
                                 tool |-> q.tool, revisions |-> q.revisions, conflicts |-> q.conflicts,
                                 converged |-> q.converged, last |-> q.last]
                         /\ q.nodes = p.nodes /\ q.edges = p.edges /\ q.last = p.last
                         /\ q.conflicts = p.conflicts
           Quietly(q) == IsDrawing(q) /\ Redraws(p, q) /\ Carries(p, q) /\ q.nodes = p.nodes
           Painted(q) == IsDrawing(q) /\ Redraws(p, q) /\ q.last = p.last /\ q.conflicts = p.conflicts /\ q.edges = p.edges
<1>1. Quietly(Activate(p, e.ref))
  <2>1. PICK q, A : q = Activate(p, e.ref) /\ q = [p EXCEPT !.active = A]
    BY DEF Activate
  <2>2. Repaint(q) /\ q.converged = p.converged /\ q.tool = p.tool
    BY <2>1 DEF IsDrawing
  <2> QED  BY <2>1, <2>2, Repainted DEF Carries
<1>2. Quietly(EdgeActivated(p, e))
  <2>1. PICK q, A : q = EdgeActivated(p, e) /\ q = [p EXCEPT !.activeEdges = A]
    BY DEF EdgeActivated
  <2>2. Repaint(q) /\ q.converged = p.converged /\ q.tool = p.tool
    BY <2>1 DEF IsDrawing
  <2> QED  BY <2>1, <2>2, Repainted DEF Carries
<1>3. Quietly([p EXCEPT !.revisions = @ + 1])
  <2>1. PICK q, A : q = [p EXCEPT !.revisions = @ + 1] /\ A = p.revisions + 1
    OBVIOUS
  <2>2. q = [p EXCEPT !.revisions = A]
    BY <2>1
  <2>3. Repaint(q) /\ q.converged = p.converged /\ q.tool = p.tool
    BY <2>2 DEF IsDrawing
  <2> QED  BY <2>1, <2>3, Repainted DEF Carries
<1>4. /\ Painted([p EXCEPT !.converged = TRUE])
      /\ [p EXCEPT !.converged = TRUE].converged = TRUE /\ [p EXCEPT !.converged = TRUE].tool = p.tool
  <2>1. PICK q : q = [p EXCEPT !.converged = TRUE]
    OBVIOUS
  <2>2. Repaint(q) /\ q.converged = TRUE /\ q.tool = p.tool
    BY <2>1 DEF IsDrawing
  <2> QED  BY <2>1, <2>2, Repainted
<1> QED  BY <1>1, <1>2, <1>3, <1>4

\* nor does the use of a tool,
LEMMA ToolDraws ==
    ASSUME NEW p, IsDrawing(p), NEW e, NEW q, q = ToolMoved(p, e)
    PROVE  /\ IsDrawing(q) /\ Redraws(p, q) /\ q.last = p.last
           /\ q.conflicts = p.conflicts /\ q.edges = p.edges /\ q.converged = p.converged
           /\ e.kind = "tool.failed" => q.tool = [step |-> e.ref, state |-> "failed"]
<1>1. PICK B, C : /\ B = IF Drawn(p, e.ref) THEN {e.ref} ELSE p.active
                  /\ C = CASE e.kind = "tool.failed" -> "failed" [] e.kind = "tool.result" -> "completed"
                            [] OTHER -> "running"
  OBVIOUS
<1>2. PICK A : A = [step |-> e.ref, state |-> C]
  OBVIOUS
<1>3. q = [p EXCEPT !.tool = A, !.active = B]
  BY <1>1, <1>2 DEF ToolMoved
<1>4. /\ q = [nodes |-> q.nodes, edges |-> q.edges, active |-> q.active, activeEdges |-> q.activeEdges,
              tool |-> q.tool, revisions |-> q.revisions, conflicts |-> q.conflicts,
              converged |-> q.converged, last |-> q.last]
      /\ q.nodes = p.nodes /\ q.edges = p.edges /\ q.last = p.last
      /\ q.conflicts = p.conflicts /\ q.converged = p.converged /\ q.tool = A
  BY <1>3 DEF IsDrawing
<1>5. e.kind = "tool.failed" => A = [step |-> e.ref, state |-> "failed"]
  BY <1>1, <1>2
<1> QED  BY <1>4, <1>5, Repainted

\* also one after another.
LEMMA RedrawsOn ==
    ASSUME NEW p, IsDrawing(p), NEW q, IsDrawing(q), NEW r, IsDrawing(r), Redraws(p, q), Redraws(q, r)
    PROVE  Redraws(p, r) /\ (Carries(p, q) /\ Carries(q, r) => Carries(p, r))
<1>1. Redraws(p, r)
  BY DrawingIs DEF Redraws, Keeps, SameNode, SameEdge
<1>2. DOMAIN q.edges = DOMAIN p.edges /\ DOMAIN r.edges = DOMAIN p.edges
  BY DrawingIs DEF Redraws
<1> QED  BY <1>1, <1>2 DEF Carries

\* A round that starts or is done, and a step that does
LEMMA MovedDraws ==
    ASSUME NEW p, IsDrawing(p), NEW e
    PROVE  /\ \A q \in {RoundMoved(p, e), StepMoved(p, e), NodeUpdated(p, e)} :
                  IsDrawing(q) /\ Redraws(p, q) /\ Carries(p, q)
           /\ e.kind = "step.failed" =>
                  LET q == StepMoved(p, e)
                  IN  \A i \in DOMAIN q.nodes : q.nodes[i].id = e.ref => q.nodes[i].status = "contradicted"
<1> DEFINE Moved(q) == IsDrawing(q) /\ Redraws(p, q) /\ Carries(p, q)
<1>1. Moved(RoundMoved(p, e))
  <2>1. PICK q, status : q = RoundMoved(p, e) /\ q = [SetStatus(p, RoundId(e), status) EXCEPT !.active = {RoundId(e)}]
    BY DEF RoundMoved
  <2>2. PICK r : r = SetStatus(p, RoundId(e), status)
    OBVIOUS
  <2>3. IsDrawing(r) /\ Redraws(p, r) /\ Carries(p, r)
    BY <2>2, SetStatusDraws
  <2>4. q = [r EXCEPT !.active = {RoundId(e)}]
    BY <2>1, <2>2
  <2>5. /\ q = [nodes |-> q.nodes, edges |-> q.edges, active |-> q.active, activeEdges |-> q.activeEdges,
                tool |-> q.tool, revisions |-> q.revisions, conflicts |-> q.conflicts,
                converged |-> q.converged, last |-> q.last]
        /\ q.nodes = r.nodes /\ q.edges = r.edges /\ q.last = r.last
        /\ q.conflicts = r.conflicts /\ q.converged = r.converged /\ q.tool = r.tool
    BY <2>3, <2>4 DEF IsDrawing
  <2>6. IsDrawing(q) /\ Redraws(r, q)
    BY <2>3, <2>5, Repainted
  <2>7. Carries(r, q)
    BY <2>5 DEF Carries
  <2> QED  BY <2>1, <2>3, <2>6, <2>7, RedrawsOn
<1>2. ASSUME NEW q, NEW status, q = Activate(SetStatus(p, e.ref, status), e.ref)
      PROVE  Moved(q) /\ \A i \in DOMAIN q.nodes : q.nodes[i].id = e.ref => q.nodes[i].status = status
  <2>2. PICK r : r = SetStatus(p, e.ref, status)
    OBVIOUS
  <2>3. /\ IsDrawing(r) /\ Redraws(p, r) /\ Carries(p, r)
        /\ \A i \in DOMAIN r.nodes : r.nodes[i].id = e.ref => r.nodes[i].status = status
    BY <2>2, SetStatusDraws
  <2>4. q = Activate(r, e.ref)
    BY <1>2, <2>2
  <2>5. IsDrawing(q) /\ Redraws(r, q) /\ Carries(r, q) /\ q.nodes = r.nodes
    BY <2>3, <2>4, OtherDraws
  <2>6. Redraws(p, q) /\ Carries(p, q)
    BY <2>3, <2>5, RedrawsOn
  <2> QED  BY <2>3, <2>5, <2>6
<1>3. Moved(NodeUpdated(p, e))
  <2>1. PICK q, status : q = NodeUpdated(p, e) /\ q = Activate(SetStatus(p, e.ref, status), e.ref)
    BY DEF NodeUpdated
  <2>2. Moved(q)
    BY <1>2, <2>1
  <2> QED  BY <2>1, <2>2
<1>4. PICK q : q = StepMoved(p, e)
  OBVIOUS
<1>5. /\ Moved(q)
      /\ e.kind = "step.failed" =>
             \A i \in DOMAIN q.nodes : q.nodes[i].id = e.ref => q.nodes[i].status = "contradicted"
  <2>1. PICK status : status = CASE e.kind = "step.completed" -> "verified"
                                 [] e.kind = "step.failed" -> "contradicted"
                                 [] OTHER -> "pending"
    OBVIOUS
  <2>2. q = Activate(SetStatus(p, e.ref, status), e.ref)
    BY <1>4, <2>1 DEF StepMoved
  <2>3. e.kind = "step.failed" => status = "contradicted"
    BY <2>1
  <2> QED  BY <1>2, <2>2, <2>3
<1> QED  BY <1>1, <1>3, <1>4, <1>5

\* What the event tells besides, of the conflicts, the report and the tool
ToolEvents == {"tool.started", "tool.result", "tool.failed"}
Notes(p, e, q) ==
    /\ q.conflicts = IF e.kind = "conflict.detected" THEN p.conflicts + 1 ELSE p.conflicts
    /\ \A i \in DOMAIN q.edges : q.edges[i].conflicted <=>
           i \in DOMAIN p.edges /\ (p.edges[i].conflicted \/ (e.kind = "conflict.detected" /\ p.edges[i].id = e.ref))
    /\ IF e.kind = "report.generated" THEN q.converged = TRUE ELSE q.converged = p.converged
    /\ e.kind = "tool.failed" => q.tool = [step |-> e.ref, state |-> "failed"]
    /\ e.kind \notin ToolEvents => q.tool = p.tool
    /\ e.kind = "step.failed" =>
           \A i \in DOMAIN q.nodes : q.nodes[i].id = e.ref => q.nodes[i].status = "contradicted"
    /\ e.kind = "run.failed" => q.nodes = p.nodes

\* Each event draws what it is about, and no other.
LEMMA ProjectDraws ==
    ASSUME NEW p0, IsDrawing(p0), NEW e, IsFiniteSet(e.prior), ~(e.sequence <= p0.last)
    PROVE  LET q == Project(p0, e) IN IsDrawing(q) /\ Draws(p0, e, q) /\ Notes(p0, e, q) /\ q.last = e.sequence
<1>1. PICK p : p = [p0 EXCEPT !.last = e.sequence]
  OBVIOUS
<1>2. /\ p = [nodes |-> p.nodes, edges |-> p.edges, active |-> p.active, activeEdges |-> p.activeEdges,
              tool |-> p.tool, revisions |-> p.revisions, conflicts |-> p.conflicts,
              converged |-> p.converged, last |-> p.last]
      /\ p.nodes = p0.nodes /\ p.edges = p0.edges /\ p.last = e.sequence
      /\ p.conflicts = p0.conflicts /\ p.converged = p0.converged /\ p.tool = p0.tool
  BY <1>1 DEF IsDrawing
<1>3. IsDrawing(p)
  BY <1>2, Repainted
<1>4. PICK q : q = Project(p0, e)
  OBVIOUS
<1> DEFINE Quietly == IsDrawing(q) /\ Redraws(p, q) /\ Notes(p, e, q) /\ q.last = p.last
           AddsOne == {"step.added", "round.planned", "artifact.created", "node.added", "edge.added"}
<1>0. ASSUME Carries(p, q),
             e.kind \notin ToolEvents \cup {"conflict.detected", "report.generated", "step.failed", "run.failed"}
      PROVE  Notes(p, e, q) /\ q.last = p.last
  BY <1>0 DEF Carries, Notes, ToolEvents
<1>5. ASSUME e.kind \notin AddsOne PROVE Quietly
  <2>1. CASE e.kind \in {"round.started", "round.completed"}
    <3>1. q = RoundMoved(p, e)
      BY <1>1, <1>4, <2>1 DEF Project
    <3>2. IsDrawing(q) /\ Redraws(p, q) /\ Carries(p, q)
      BY <1>3, <3>1, MovedDraws
    <3> QED  BY <1>0, <2>1, <3>2 DEF ToolEvents
  <2>2. CASE e.kind \in {"step.started", "step.completed", "step.failed"}
    <3>1. q = StepMoved(p, e)
      BY <1>1, <1>4, <2>2 DEF Project
    <3>2. /\ IsDrawing(q) /\ Redraws(p, q) /\ Carries(p, q)
          /\ e.kind = "step.failed" =>
                 \A i \in DOMAIN q.nodes : q.nodes[i].id = e.ref => q.nodes[i].status = "contradicted"
      BY <1>3, <3>1, MovedDraws
    <3>3. Notes(p, e, q) /\ q.last = p.last
      BY <2>2, <3>2 DEF Carries, Notes, ToolEvents
    <3> QED  BY <3>2, <3>3
  <2>3. CASE e.kind = "node.updated"
    <3>1. q = NodeUpdated(p, e)
      BY <1>1, <1>4, <2>3 DEF Project
    <3>2. IsDrawing(q) /\ Redraws(p, q) /\ Carries(p, q)
      BY <1>3, <3>1, MovedDraws
    <3> QED  BY <1>0, <2>3, <3>2 DEF ToolEvents
  <2>4. CASE e.kind = "edge.activated"
    <3>1. q = EdgeActivated(p, e)
      BY <1>1, <1>4, <2>4 DEF Project
    <3>2. IsDrawing(q) /\ Redraws(p, q) /\ Carries(p, q)
      BY <1>3, <3>1, OtherDraws
    <3> QED  BY <1>0, <2>4, <3>2 DEF ToolEvents
  <2>5. CASE e.kind \in {"tool.started", "tool.result", "tool.failed"}
    <3>1. q = ToolMoved(p, e)
      BY <1>1, <1>4, <2>5 DEF Project
    <3>2. /\ IsDrawing(q) /\ Redraws(p, q) /\ q.last = p.last
          /\ q.conflicts = p.conflicts /\ q.edges = p.edges /\ q.converged = p.converged
          /\ e.kind = "tool.failed" => q.tool = [step |-> e.ref, state |-> "failed"]
      BY <1>3, <3>1, ToolDraws
    <3>3. Notes(p, e, q)
      BY <2>5, <3>2 DEF Notes, ToolEvents
    <3> QED  BY <3>2, <3>3
  <2>6. CASE e.kind = "plan.revised"
    <3>1. q = [p EXCEPT !.revisions = @ + 1]
      BY <1>1, <1>4, <2>6 DEF Project
    <3>2. IsDrawing(q) /\ Redraws(p, q) /\ Carries(p, q)
      BY <1>3, <3>1, OtherDraws
    <3> QED  BY <1>0, <2>6, <3>2 DEF ToolEvents
  <2>7. CASE e.kind = "conflict.detected"
    <3>1. q = Conflict(p, e)
      BY <1>1, <1>4, <2>7 DEF Project
    <3>2. /\ IsDrawing(q) /\ Redraws(p, q) /\ q.last = p.last
          /\ q.conflicts = p.conflicts + 1 /\ q.converged = p.converged /\ q.tool = p.tool
          /\ \A i \in DOMAIN p.edges : q.edges[i].conflicted <=> p.edges[i].conflicted \/ p.edges[i].id = e.ref
      BY <1>3, <3>1, ConflictDraws
    <3>3. DOMAIN q.edges = DOMAIN p.edges
      BY <1>3, <3>2, DrawingIs DEF Redraws
    <3>4. Notes(p, e, q)
      BY <2>7, <3>2, <3>3 DEF Notes, ToolEvents
    <3> QED  BY <3>2, <3>4
  <2>8. CASE e.kind = "report.generated"
    <3>1. q = [p EXCEPT !.converged = TRUE]
      BY <1>1, <1>4, <2>8 DEF Project
    <3>2. /\ IsDrawing(q) /\ Redraws(p, q) /\ q.last = p.last
          /\ q.conflicts = p.conflicts /\ q.edges = p.edges /\ q.converged = TRUE /\ q.tool = p.tool
      BY <1>3, <3>1, OtherDraws
    <3>3. Notes(p, e, q)
      BY <2>8, <3>2 DEF Notes, ToolEvents
    <3> QED  BY <3>2, <3>3
  <2>9. CASE e.kind \notin {"round.started", "round.completed", "step.started", "step.completed", "step.failed",
                           "node.updated", "edge.activated", "tool.started", "tool.result", "tool.failed",
                           "plan.revised", "conflict.detected", "report.generated"}
    <3>1. q = p
      BY <1>1, <1>4, <1>5, <2>9 DEF Project
    <3>2. Redraws(p, q)
      BY <1>3, <3>1, DrawingIs DEF Redraws, Keeps, SameNode, SameEdge
    <3>3. Notes(p, e, q)
      BY <2>9, <3>1 DEF Notes, ToolEvents
    <3> QED  BY <1>3, <3>1, <3>2, <3>3
  <2> QED  BY <2>1, <2>2, <2>3, <2>4, <2>5, <2>6, <2>7, <2>8, <2>9
<1>6. IsDrawing(q) /\ Draws(p, e, q) /\ Notes(p, e, q) /\ q.last = p.last
  <2>1. CASE e.kind \notin AddsOne
    <3>1. Draws(p, e, q) = Redraws(p, q)
      BY <2>1 DEF Draws
    <3> QED  BY <1>5, <2>1, <3>1
  <2>2. CASE e.kind = "step.added"
    <3>1. q = StepAdded(p, e)
      BY <1>1, <1>4, <2>2 DEF Project
    <3>2. q = NodeFrom(p, e, e.ref, "tool_step", "pending", LaneForTool(e.type))
      BY <3>1 DEF StepAdded
    <3>3. IsDrawing(q) /\ DrawsNode(p, q, e.ref, "tool_step", LaneForTool(e.type)) /\ Carries(p, q)
      BY <1>3, <3>2, NodeFromDraws
    <3> QED  BY <1>0, <2>2, <3>3 DEF Draws, ToolEvents
  <2>3. CASE e.kind = "round.planned"
    <3>1. q = RoundPlanned(p, e)
      BY <1>1, <1>4, <2>3 DEF Project
    <3>2. q = NodeFrom(p, e, RoundId(e), "analysis_round", "pending", "reasoning")
      BY <3>1 DEF RoundPlanned
    <3>3. IsDrawing(q) /\ DrawsNode(p, q, RoundId(e), "analysis_round", "reasoning") /\ Carries(p, q)
      BY <1>3, <3>2, NodeFromDraws
    <3> QED  BY <1>0, <2>3, <3>3 DEF Draws, ToolEvents
  <2>4. CASE e.kind = "artifact.created"
    <3>1. q = ArtifactCreated(p, e)
      BY <1>1, <1>4, <2>4 DEF Project
    <3>2. CASE e.type = "text_ml"
      <4>1. q = NodeFrom(p, e, e.ref, "text_theme", "verified", "reasoning")
        BY <3>1, <3>2 DEF ArtifactCreated
      <4>2. IsDrawing(q) /\ DrawsNode(p, q, e.ref, "text_theme", "reasoning") /\ Carries(p, q)
        BY <1>3, <4>1, NodeFromDraws
      <4> QED  BY <1>0, <2>4, <3>2, <4>2 DEF Draws, ToolEvents
    <3>3. CASE e.type # "text_ml"
      <4>1. q = NodeFrom(p, e, e.ref, "analytical_artifact", "verified", "compute")
        BY <3>1, <3>3 DEF ArtifactCreated
      <4>2. IsDrawing(q) /\ DrawsNode(p, q, e.ref, "analytical_artifact", "compute") /\ Carries(p, q)
        BY <1>3, <4>1, NodeFromDraws
      <4> QED  BY <1>0, <2>4, <3>3, <4>2 DEF Draws, ToolEvents
    <3> QED  BY <3>2, <3>3
  <2>5. CASE e.kind = "node.added"
    <3>1. q = NodeAdded(p, e)
      BY <1>1, <1>4, <2>5 DEF Project
    <3>2. IsDrawing(q) /\ DrawsNode(p, q, e.ref, e.type, LaneForKind(e.type)) /\ Carries(p, q)
      BY <1>3, <3>1, NodeAddedDraws
    <3> QED  BY <1>0, <2>5, <3>2 DEF Draws, ToolEvents
  <2>6. CASE e.kind = "edge.added"
    <3>1. q = EdgeAdded(p, e)
      BY <1>1, <1>4, <2>6 DEF Project
    <3>2. IsDrawing(q) /\ DrawsEdge(p, q, e.ref, e.ends) /\ Carries(p, q)
      BY <1>3, <3>1, EdgeAddedDraws
    <3> QED  BY <1>0, <2>6, <3>2 DEF Draws, ToolEvents
  <2> QED  BY <2>1, <2>2, <2>3, <2>4, <2>5, <2>6
<1>7. Draws(p, e, q) => Draws(p0, e, q)
  <2>1. \A id : (Drawn(p, id) <=> Drawn(p0, id)) /\ (EdgeDrawn(p, id) <=> EdgeDrawn(p0, id))
    BY <1>2 DEF Drawn, EdgeDrawn
  <2>2. Redraws(p, q) <=> Redraws(p0, q)
    BY <1>2 DEF Redraws, Keeps
  <2>3. \A id, kind, lane : DrawsNode(p, q, id, kind, lane) <=> DrawsNode(p0, q, id, kind, lane)
    BY <1>2, <2>1, <2>2 DEF DrawsNode, AddsNode, Keeps
  <2>4. \A id, ends : DrawsEdge(p, q, id, ends) <=> DrawsEdge(p0, q, id, ends)
    BY <1>2, <2>1, <2>2 DEF DrawsEdge, AddsEdge, Keeps
  <2> QED  BY <2>2, <2>3, <2>4 DEF Draws
<1>8. Notes(p, e, q) => Notes(p0, e, q)
  BY <1>2 DEF Notes
<1> QED  BY <1>2, <1>4, <1>6, <1>7, <1>8

Announced(log, k, id) == \E j \in 1..k : log[j].kind \in {"node.added", "artifact.created"} /\ log[j].ref = id
OwnKinds == {"tool_step", "analysis_round"}
Origin(in, log, k, x) ==
    \/ /\ x.id \in NodeNames(in) /\ x.kind = NodeType(in, x.id) /\ x.lane = LaneForKind(x.kind)
       /\ x.kind \notin OwnKinds /\ Announced(log, k, x.id)
    \/ x.id \notin NodeNames(in) /\ x.kind \in OwnKinds

(* A drawing of the first k events                                          *)
Pictures(in, log, k, p) ==
    /\ IsDrawing(p)
    /\ \A i, j \in DOMAIN p.nodes : p.nodes[i].id = p.nodes[j].id => i = j
    /\ \A i, j \in DOMAIN p.edges : p.edges[i].id = p.edges[j].id => i = j
    /\ \A i \in DOMAIN p.nodes : Origin(in, log, k, p.nodes[i])
    /\ \A i \in DOMAIN p.edges :
           \/ p.edges[i].id \in EdgeRef /\ \A id \in p.edges[i].ends : Drawn(p, id)
           \/ \E source, id : p.edges[i].id = <<"from", source, id>> /\ Drawn(p, id)
    /\ \A id : Announced(log, k, id) => Drawn(p, id)
    /\ \A j \in 1..k : log[j].kind = "edge.added" => EdgeDrawn(p, log[j].ref)

\* What the canvas gets to know of the events of a run
Tells(in, log, i) ==
    LET e == log[i] IN
    /\ e.sequence = i /\ IsFiniteSet(e.prior)
    /\ e.kind = "step.added" => e.ref \notin NodeNames(in)
    /\ e.kind = "round.planned" => RoundId(e) \notin NodeNames(in)
    /\ e.kind = "artifact.created" =>
           /\ e.ref \in NodeNames(in)
           /\ NodeType(in, e.ref) = IF e.type = "text_ml" THEN "text_theme" ELSE "analytical_artifact"
    /\ e.kind \in {"node.added", "node.updated"} =>
           e.ref \in NodeNames(in) /\ e.type = NodeType(in, e.ref) /\ e.type \notin OwnKinds
    /\ e.kind = "node.updated" => \E j \in 1..(i - 1) : log[j].kind = "node.added" /\ log[j].ref = e.ref
    /\ e.kind = "edge.added" =>
           /\ e.ref \in EdgeRef
           /\ \A id \in e.ends : \E j \in 1..(i - 1) : log[j].kind = "node.added" /\ log[j].ref = id

\* What is drawn stays drawn.
LEMMA KeepsDrawn ==
    ASSUME NEW p, IsDrawing(p), NEW q, IsDrawing(q), Keeps(p, q)
    PROVE  \A id : (Drawn(p, id) => Drawn(q, id)) /\ (EdgeDrawn(p, id) => EdgeDrawn(q, id))
<1>1. (\A i \in DOMAIN p.nodes : i \in DOMAIN q.nodes) /\ (\A i \in DOMAIN p.edges : i \in DOMAIN q.edges)
  BY DrawingIs DEF Keeps
<1> QED  BY <1>1 DEF Keeps, SameNode, SameEdge, Drawn, EdgeDrawn

\* What is announced by one event more
LEMMA AnnouncedNext ==
    ASSUME NEW log, NEW k \in Nat
    PROVE  \A id : Announced(log, k + 1, id) <=>
               Announced(log, k, id)
               \/ (log[k + 1].kind \in {"node.added", "artifact.created"} /\ log[k + 1].ref = id)
<1>1. \A j \in 1..(k + 1) : j \in 1..k \/ j = k + 1
  OBVIOUS
<1>2. (\A j \in 1..k : j \in 1..(k + 1)) /\ k + 1 \in 1..(k + 1)
  OBVIOUS
<1> QED  BY <1>1, <1>2 DEF Announced

\* Nothing is added to the drawing, for there it is already.
LEMMA PictureStays ==
    ASSUME NEW in, NEW log, NEW k \in Nat, NEW p, Pictures(in, log, k, p),
           NEW q, IsDrawing(q), Redraws(p, q),
           log[k + 1].kind \in {"node.added", "artifact.created"} => Drawn(p, log[k + 1].ref),
           log[k + 1].kind = "edge.added" => EdgeDrawn(p, log[k + 1].ref)
    PROVE  Pictures(in, log, k + 1, q)
<1>1. IsDrawing(p) /\ Keeps(p, q)
  BY DEF Pictures, Redraws
<1>2. DOMAIN q.nodes = DOMAIN p.nodes /\ DOMAIN q.edges = DOMAIN p.edges
  BY <1>1, DrawingIs DEF Redraws
<1>3. /\ \A i \in DOMAIN p.nodes : SameNode(p.nodes[i], q.nodes[i])
      /\ \A i \in DOMAIN p.edges : SameEdge(p.edges[i], q.edges[i])
  BY <1>1 DEF Keeps
<1>4. \A i, j \in DOMAIN q.nodes : q.nodes[i].id = q.nodes[j].id => i = j
  BY <1>2, <1>3 DEF Pictures, SameNode
<1>5. \A i, j \in DOMAIN q.edges : q.edges[i].id = q.edges[j].id => i = j
  BY <1>2, <1>3 DEF Pictures, SameEdge
<1>6. \A i \in DOMAIN q.nodes : Origin(in, log, k + 1, q.nodes[i])
  <2> TAKE i \in DOMAIN q.nodes
  <2>1. Origin(in, log, k, p.nodes[i])
    BY <1>2 DEF Pictures
  <2>2. SameNode(p.nodes[i], q.nodes[i])
    BY <1>2, <1>3
  <2> QED  BY <2>1, <2>2, AnnouncedNext DEF Origin, SameNode
<1>7. \A i \in DOMAIN q.edges :
           \/ q.edges[i].id \in EdgeRef /\ \A id \in q.edges[i].ends : Drawn(q, id)
           \/ \E source, id : q.edges[i].id = <<"from", source, id>> /\ Drawn(q, id)
  <2> TAKE i \in DOMAIN q.edges
  <2>1. SameEdge(p.edges[i], q.edges[i])
    BY <1>2, <1>3
  <2>2. \/ p.edges[i].id \in EdgeRef /\ \A id \in p.edges[i].ends : Drawn(p, id)
        \/ \E source, id : p.edges[i].id = <<"from", source, id>> /\ Drawn(p, id)
    BY <1>2 DEF Pictures
  <2>3. \A id : Drawn(p, id) => Drawn(q, id)
    BY <1>1, KeepsDrawn
  <2> QED  BY <2>1, <2>2, <2>3 DEF SameEdge
<1>8. \A id : Announced(log, k + 1, id) => Drawn(q, id)
  BY <1>1, KeepsDrawn, AnnouncedNext DEF Pictures
<1>9. ASSUME NEW j \in 1..(k + 1), log[j].kind = "edge.added" PROVE EdgeDrawn(q, log[j].ref)
  <2>1. j \in 1..k \/ j = k + 1
    OBVIOUS
  <2>2. EdgeDrawn(p, log[j].ref)
    BY <1>9, <2>1 DEF Pictures
  <2> QED  BY <1>1, <2>2, KeepsDrawn
<1> QED  BY <1>4, <1>5, <1>6, <1>7, <1>8, <1>9 DEF Pictures

\* A node is drawn, at the end, and the edges from where it comes,
LEMMA PictureGainsNode ==
    ASSUME NEW in, NEW log, NEW k \in Nat, NEW p, Pictures(in, log, k, p),
           NEW q, IsDrawing(q), NEW id, NEW kind, NEW lane, DrawsNode(p, q, id, kind, lane),
           log[k + 1].kind \in {"node.added", "artifact.created"} => id = log[k + 1].ref,
           log[k + 1].kind # "edge.added",
           \/ /\ id \in NodeNames(in) /\ kind = NodeType(in, id) /\ lane = LaneForKind(kind)
              /\ kind \notin OwnKinds /\ log[k + 1].kind \in {"node.added", "artifact.created"}
           \/ id \notin NodeNames(in) /\ kind \in OwnKinds
    PROVE  Pictures(in, log, k + 1, q)
<1>1. CASE Drawn(p, id)
  <2>1. Redraws(p, q)
    BY <1>1 DEF DrawsNode
  <2> QED  BY <1>1, <2>1, PictureStays
<1>2. CASE ~Drawn(p, id)
  <2>1. IsDrawing(p) /\ Keeps(p, q) /\ AddsNode(p, q, id, kind, lane)
    BY <1>2 DEF Pictures, DrawsNode, AddsNode
  <2>2. PICK N \in Nat : N = Len(p.nodes) /\ DOMAIN p.nodes = 1..N /\ DOMAIN q.nodes = 1..(N + 1)
    BY <2>1, DrawingIs DEF AddsNode
  <2>3. PICK x : x = q.nodes[N + 1]
    OBVIOUS
  <2>4. x.id = id /\ x.kind = kind /\ x.lane = lane
    BY <2>1, <2>2, <2>3, DrawingIs DEF AddsNode
  <2>5. \A i \in DOMAIN q.nodes : i \in DOMAIN p.nodes \/ i = N + 1
    BY <2>2
  <2>6. \A i \in DOMAIN p.nodes : SameNode(p.nodes[i], q.nodes[i]) /\ p.nodes[i].id # id
    BY <1>2, <2>1 DEF Keeps, Drawn
  <2>7. DOMAIN p.edges \subseteq DOMAIN q.edges
    BY <2>1, DrawingIs DEF Keeps
  <2>8. \A i \in DOMAIN p.edges : SameEdge(p.edges[i], q.edges[i])
    BY <2>1 DEF Keeps
  <2>9. /\ \A i \in DOMAIN q.edges \ DOMAIN p.edges :
               \E source : q.edges[i].id = <<"from", source, id>>
        /\ \A i, j \in DOMAIN q.edges \ DOMAIN p.edges : q.edges[i].id = q.edges[j].id => i = j
    BY <2>1 DEF AddsNode
  <2>10. \A a : Drawn(p, a) => Drawn(q, a)
    BY <2>1, KeepsDrawn
  <2>11. Drawn(q, id)
    BY <2>2, <2>3, <2>4 DEF Drawn
  <2>12. \A i, j \in DOMAIN q.nodes : q.nodes[i].id = q.nodes[j].id => i = j
    BY <2>3, <2>4, <2>5, <2>6 DEF Pictures, SameNode
  <2>13. ASSUME NEW i \in DOMAIN p.edges, NEW j \in DOMAIN q.edges \ DOMAIN p.edges
         PROVE  q.edges[i].id # q.edges[j].id
    <3>1. PICK source : q.edges[j].id = <<"from", source, id>>
      BY <2>9
    <3>2. q.edges[i].id = p.edges[i].id
      BY <2>8 DEF SameEdge
    <3>3. CASE p.edges[i].id \in EdgeRef
      <4>1. p.edges[i].id[1] = "edge"
        BY <3>3 DEF EdgeRef
      <4>2. q.edges[j].id[1] = "from"
        BY <3>1
      <4> QED  BY <3>2, <4>1, <4>2
    <3>4. CASE \E s, a : p.edges[i].id = <<"from", s, a>> /\ Drawn(p, a)
      BY <1>2, <3>1, <3>2, <3>4
    <3> QED  BY <3>3, <3>4 DEF Pictures
  <2>14. ASSUME NEW i \in DOMAIN q.edges, NEW j \in DOMAIN q.edges, q.edges[i].id = q.edges[j].id PROVE i = j
    <3>1. CASE i \in DOMAIN p.edges /\ j \in DOMAIN p.edges
      BY <2>8, <2>14, <3>1 DEF Pictures, SameEdge
    <3>2. CASE i \notin DOMAIN p.edges /\ j \notin DOMAIN p.edges
      BY <2>9, <2>14, <3>2
    <3> QED  BY <2>13, <2>14, <3>1, <3>2
  <2>15. ASSUME NEW i \in DOMAIN q.nodes PROVE Origin(in, log, k + 1, q.nodes[i])
    <3>1. CASE i \in DOMAIN p.nodes
      <4>1. Origin(in, log, k, p.nodes[i]) /\ SameNode(p.nodes[i], q.nodes[i])
        BY <2>6, <3>1 DEF Pictures
      <4> QED  BY <4>1, AnnouncedNext DEF Origin, SameNode
    <3>2. CASE i = N + 1
      BY <2>3, <2>4, <3>2, AnnouncedNext DEF Origin
    <3> QED  BY <2>5, <3>1, <3>2
  <2>16. ASSUME NEW i \in DOMAIN q.edges
         PROVE  \/ q.edges[i].id \in EdgeRef /\ \A a \in q.edges[i].ends : Drawn(q, a)
                \/ \E source, a : q.edges[i].id = <<"from", source, a>> /\ Drawn(q, a)
    <3>1. CASE i \in DOMAIN p.edges
      <4>1. SameEdge(p.edges[i], q.edges[i])
        BY <2>8, <3>1
      <4>2. \/ p.edges[i].id \in EdgeRef /\ \A a \in p.edges[i].ends : Drawn(p, a)
            \/ \E source, a : p.edges[i].id = <<"from", source, a>> /\ Drawn(p, a)
        BY <3>1 DEF Pictures
      <4> QED  BY <2>10, <4>1, <4>2 DEF SameEdge
    <3>2. CASE i \notin DOMAIN p.edges
      BY <2>9, <2>11, <3>2
    <3> QED  BY <3>1, <3>2
  <2>17. \A a : Announced(log, k + 1, a) => Drawn(q, a)
    BY <2>10, <2>11, AnnouncedNext DEF Pictures
  <2>18. ASSUME NEW j \in 1..(k + 1), log[j].kind = "edge.added" PROVE EdgeDrawn(q, log[j].ref)
    <3>1. j \in 1..k
      BY <2>18
    <3>2. EdgeDrawn(p, log[j].ref)
      BY <2>18, <3>1 DEF Pictures
    <3> QED  BY <2>1, <3>2, KeepsDrawn
  <2> QED  BY <2>12, <2>14, <2>15, <2>16, <2>17, <2>18 DEF Pictures
<1> QED  BY <1>1, <1>2

\* an edge between nodes that are drawn,
LEMMA PictureGainsEdge ==
    ASSUME NEW in, NEW log, NEW k \in Nat, NEW p, Pictures(in, log, k, p),
           NEW q, IsDrawing(q), log[k + 1].kind = "edge.added",
           DrawsEdge(p, q, log[k + 1].ref, log[k + 1].ends),
           log[k + 1].ref \in EdgeRef, \A id \in log[k + 1].ends : Drawn(p, id)
    PROVE  Pictures(in, log, k + 1, q)
<1> DEFINE e == log[k + 1]
<1>1. CASE EdgeDrawn(p, e.ref)
  <2>1. Redraws(p, q)
    BY <1>1 DEF DrawsEdge
  <2> QED  BY <1>1, <2>1, PictureStays
<1>2. CASE ~EdgeDrawn(p, e.ref)
  <2>1. IsDrawing(p) /\ Keeps(p, q) /\ AddsEdge(p, q, e.ref, e.ends)
    BY <1>2 DEF Pictures, DrawsEdge, AddsEdge
  <2>2. PICK N \in Nat : N = Len(p.edges) /\ DOMAIN p.edges = 1..N /\ DOMAIN q.edges = 1..(N + 1)
    BY <2>1, DrawingIs DEF AddsEdge
  <2>3. q.edges[N + 1].id = e.ref /\ q.edges[N + 1].ends = e.ends
    BY <2>1, <2>2, DrawingIs DEF AddsEdge
  <2>4. \A i \in DOMAIN q.edges : i \in DOMAIN p.edges \/ i = N + 1
    BY <2>2
  <2>5. \A i \in DOMAIN p.edges : SameEdge(p.edges[i], q.edges[i]) /\ p.edges[i].id # e.ref
    BY <1>2, <2>1 DEF Keeps, EdgeDrawn
  <2>6. DOMAIN q.nodes = DOMAIN p.nodes /\ \A i \in DOMAIN p.nodes : SameNode(p.nodes[i], q.nodes[i])
    BY <2>1, DrawingIs DEF AddsEdge, Keeps
  <2>7. \A a : (Drawn(p, a) => Drawn(q, a)) /\ (EdgeDrawn(p, a) => EdgeDrawn(q, a))
    BY <2>1, KeepsDrawn
  <2>8. EdgeDrawn(q, e.ref)
    <3>1. N + 1 \in DOMAIN q.edges
      BY <2>2
    <3> QED  BY <2>3, <3>1 DEF EdgeDrawn
  <2>9. \A i, j \in DOMAIN q.nodes : q.nodes[i].id = q.nodes[j].id => i = j
    BY <2>6 DEF Pictures, SameNode
  <2>10. \A i, j \in DOMAIN q.edges : q.edges[i].id = q.edges[j].id => i = j
    BY <2>3, <2>4, <2>5 DEF Pictures, SameEdge
  <2>11. ASSUME NEW i \in DOMAIN q.nodes PROVE Origin(in, log, k + 1, q.nodes[i])
    <3>1. Origin(in, log, k, p.nodes[i]) /\ SameNode(p.nodes[i], q.nodes[i])
      BY <2>6 DEF Pictures
    <3> QED  BY <3>1, AnnouncedNext DEF Origin, SameNode
  <2>12. ASSUME NEW i \in DOMAIN q.edges
         PROVE  \/ q.edges[i].id \in EdgeRef /\ \A a \in q.edges[i].ends : Drawn(q, a)
                \/ \E source, a : q.edges[i].id = <<"from", source, a>> /\ Drawn(q, a)
    <3>1. CASE i \in DOMAIN p.edges
      <4>1. SameEdge(p.edges[i], q.edges[i])
        BY <2>5, <3>1
      <4>2. \/ p.edges[i].id \in EdgeRef /\ \A a \in p.edges[i].ends : Drawn(p, a)
            \/ \E source, a : p.edges[i].id = <<"from", source, a>> /\ Drawn(p, a)
        BY <3>1 DEF Pictures
      <4> QED  BY <2>7, <4>1, <4>2 DEF SameEdge
    <3>2. CASE i = N + 1
      BY <2>3, <2>7, <3>2
    <3> QED  BY <2>4, <3>1, <3>2
  <2>13. \A a : Announced(log, k + 1, a) => Drawn(q, a)
    BY <2>7, AnnouncedNext DEF Pictures
  <2>14. ASSUME NEW j \in 1..(k + 1), log[j].kind = "edge.added" PROVE EdgeDrawn(q, log[j].ref)
    <3>1. j \in 1..k \/ j = k + 1
      OBVIOUS
    <3> QED  BY <2>7, <2>8, <2>14, <3>1 DEF Pictures
  <2> QED  BY <2>9, <2>10, <2>11, <2>12, <2>13, <2>14 DEF Pictures
<1> QED  BY <1>1, <1>2

\* so that the next event leads from one such drawing to another.
LEMMA PictureNext ==
    ASSUME NEW in, NEW log, NEW k \in Nat, NEW p, Pictures(in, log, k, p), p.last = k,
           Tells(in, log, k + 1), NEW q, q = Project(p, log[k + 1])
    PROVE  Pictures(in, log, k + 1, q) /\ Keeps(p, q) /\ q.last = k + 1
<1>1. PICK e : e = log[k + 1]
  OBVIOUS
<1>2. IsDrawing(p) /\ IsFiniteSet(e.prior) /\ e.sequence = k + 1 /\ ~(e.sequence <= p.last)
  BY <1>1 DEF Tells, Pictures
<1>3. IsDrawing(q) /\ Draws(p, e, q) /\ q.last = k + 1
  BY <1>1, <1>2, ProjectDraws
<1>4. \A id, kind, lane : DrawsNode(p, q, id, kind, lane) => Keeps(p, q)
  BY DEF DrawsNode, Redraws, AddsNode
<1>5. \A id, ends : DrawsEdge(p, q, id, ends) => Keeps(p, q)
  BY DEF DrawsEdge, Redraws, AddsEdge
<1>6. CASE e.kind = "step.added"
  <2>1. DrawsNode(p, q, e.ref, "tool_step", LaneForTool(e.type))
    BY <1>3, <1>6 DEF Draws
  <2>2. e.ref \notin NodeNames(in) /\ "tool_step" \in OwnKinds
    BY <1>1, <1>6 DEF Tells, OwnKinds
  <2> QED  BY <1>1, <1>3, <1>4, <1>6, <2>1, <2>2, PictureGainsNode
<1>7. CASE e.kind = "round.planned"
  <2>1. DrawsNode(p, q, RoundId(e), "analysis_round", "reasoning")
    BY <1>3, <1>7 DEF Draws
  <2>2. RoundId(e) \notin NodeNames(in) /\ "analysis_round" \in OwnKinds
    BY <1>1, <1>7 DEF Tells, OwnKinds
  <2> QED  BY <1>1, <1>3, <1>4, <1>7, <2>1, <2>2, PictureGainsNode
<1>8. CASE e.kind = "artifact.created"
  <2>1. PICK kind, lane : /\ DrawsNode(p, q, e.ref, kind, lane)
                          /\ kind = NodeType(in, e.ref) /\ lane = LaneForKind(kind) /\ kind \notin OwnKinds
    <3>1. CASE e.type = "text_ml"
      <4>1. DrawsNode(p, q, e.ref, "text_theme", "reasoning")
        BY <1>3, <1>8, <3>1 DEF Draws
      <4>2. NodeType(in, e.ref) = "text_theme"
        BY <1>1, <1>8, <3>1 DEF Tells
      <4> QED  BY <4>1, <4>2 DEF LaneForKind, OwnKinds
    <3>2. CASE e.type # "text_ml"
      <4>1. DrawsNode(p, q, e.ref, "analytical_artifact", "compute")
        BY <1>3, <1>8, <3>2 DEF Draws
      <4>2. NodeType(in, e.ref) = "analytical_artifact"
        BY <1>1, <1>8, <3>2 DEF Tells
      <4> QED  BY <4>1, <4>2 DEF LaneForKind, OwnKinds
    <3> QED  BY <3>1, <3>2
  <2>2. e.ref \in NodeNames(in)
    BY <1>1, <1>8 DEF Tells
  <2> QED  BY <1>1, <1>3, <1>4, <1>8, <2>1, <2>2, PictureGainsNode
<1>9. CASE e.kind = "node.added"
  <2>1. DrawsNode(p, q, e.ref, e.type, LaneForKind(e.type))
    BY <1>3, <1>9 DEF Draws
  <2>2. e.ref \in NodeNames(in) /\ e.type = NodeType(in, e.ref) /\ e.type \notin OwnKinds
    BY <1>1, <1>9 DEF Tells
  <2> QED  BY <1>1, <1>3, <1>4, <1>9, <2>1, <2>2, PictureGainsNode
<1>10. CASE e.kind = "edge.added"
  <2>1. DrawsEdge(p, q, e.ref, e.ends)
    BY <1>3, <1>10 DEF Draws
  <2>2. e.ref \in EdgeRef /\ \A id \in e.ends : Announced(log, k, id)
    <3>1. (k + 1) - 1 = k
      OBVIOUS
    <3> QED  BY <1>1, <1>10, <3>1 DEF Tells, Announced
  <2>3. \A id \in e.ends : Drawn(p, id)
    BY <2>2 DEF Pictures
  <2> QED  BY <1>1, <1>3, <1>5, <1>10, <2>1, <2>2, <2>3, PictureGainsEdge
<1>11. CASE e.kind \notin {"step.added", "round.planned", "artifact.created", "node.added", "edge.added"}
  <2>1. Redraws(p, q)
    BY <1>3, <1>11 DEF Draws
  <2> QED  BY <1>1, <1>3, <1>11, <2>1, PictureStays DEF Redraws
<1> QED  BY <1>6, <1>7, <1>8, <1>9, <1>10, <1>11

\* What stays by two events stays by both.
LEMMA KeepsOn ==
    ASSUME NEW p, IsDrawing(p), NEW q, IsDrawing(q), NEW r, IsDrawing(r), Keeps(p, q), Keeps(q, r)
    PROVE  Keeps(p, r)
<1>1. /\ \A i \in DOMAIN p.nodes : i \in DOMAIN q.nodes
      /\ \A i \in DOMAIN p.edges : i \in DOMAIN q.edges
  BY DrawingIs DEF Keeps
<1>2. Len(p.nodes) <= Len(r.nodes) /\ Len(p.edges) <= Len(r.edges)
  BY DrawingIs DEF Keeps
<1> QED  BY <1>1, <1>2 DEF Keeps, SameNode, SameEdge

\* The drawing before the first event
LEMMA EmptyPicture ==
    ASSUME NEW in, NEW log
    PROVE  Pictures(in, log, 0, Empty)
<1>1. DOMAIN Empty.nodes = {} /\ DOMAIN Empty.edges = {}
  BY EmptyDrawing, EmptyList
<1>2. 1..0 = {}
  OBVIOUS
<1> QED  BY <1>1, <1>2, EmptyDrawing DEF Pictures, Announced

(* The projections of a run's events                                        *)
LEMMA PicturesAre ==
    ASSUME NEW in, NEW log, NEW n \in Nat, DOMAIN log = 1..n, \A i \in 1..n : Tells(in, log, i),
           NEW ps, ps = Projections(log)
    PROVE  /\ \A k \in 0..n : Pictures(in, log, k, ps[k + 1])
           /\ \A j, k \in 0..n : j <= k => Keeps(ps[j + 1], ps[k + 1])
<1>1. ps[1] = Empty /\ \A k \in 1..n : ps[k + 1] = Project(ps[k], log[k])
  BY ProjectionsAre
<1> DEFINE Good == {k \in 0..n : /\ Pictures(in, log, k, ps[k + 1]) /\ ps[k + 1].last = k
                                 /\ \A j \in 0..k : IsDrawing(ps[j + 1]) /\ Keeps(ps[j + 1], ps[k + 1])}
<1>2. 0 \in Good
  <2>1. ps[0 + 1] = Empty
    BY <1>1
  <2>2. Keeps(Empty, Empty)
    BY EmptyDrawing, DrawingIs DEF Keeps, SameNode, SameEdge
  <2>3. \A j \in 0..0 : j = 0
    OBVIOUS
  <2>4. 0 \in 0..n
    OBVIOUS
  <2> QED  BY <2>1, <2>2, <2>3, <2>4, EmptyPicture, EmptyDrawing
<1>3. ASSUME NEW k \in 0..(n - 1), k \in Good PROVE k + 1 \in Good
  <2>1. k \in Nat /\ k + 1 \in 1..n /\ k + 1 \in 0..n
    OBVIOUS
  <2>2. PICK q : q = ps[(k + 1) + 1] /\ q = Project(ps[k + 1], log[k + 1])
    BY <1>1, <2>1
  <2>3. PICK p : p = ps[k + 1]
    OBVIOUS
  <2>4. Pictures(in, log, k, p) /\ p.last = k /\ \A j \in 0..k : IsDrawing(ps[j + 1]) /\ Keeps(ps[j + 1], p)
    BY <1>3, <2>3
  <2>5. Pictures(in, log, k + 1, q) /\ Keeps(p, q) /\ q.last = k + 1
    BY <2>1, <2>2, <2>3, <2>4, PictureNext
  <2>6. ASSUME NEW j \in 0..(k + 1) PROVE IsDrawing(ps[j + 1]) /\ Keeps(ps[j + 1], q)
    <3>1. CASE j = k + 1
      <4>1. ps[j + 1] = q
        BY <2>2, <3>1
      <4>2. IsDrawing(q)
        BY <2>5 DEF Pictures
      <4> QED  BY <4>1, <4>2, DrawingIs DEF Keeps, SameNode, SameEdge
    <3>2. CASE j # k + 1
      <4>1. j \in 0..k
        BY <2>1, <3>2
      <4> QED  BY <2>4, <2>5, <4>1, KeepsOn DEF Pictures
    <3> QED  BY <3>1, <3>2
  <2> QED  BY <2>1, <2>2, <2>5, <2>6
<1>4. \A k \in 0..n : k \in Good
  <2> HIDE DEF Good
  <2> QED  BY <1>2, <1>3, UpTo
<1>5. \A j, k \in 0..n : j <= k => j \in 0..k
  OBVIOUS
<1> QED  BY <1>4, <1>5

\* The greatest of some first numbers
LEMMA MaxIn ==
    ASSUME NEW n \in Nat, NEW S \in SUBSET (1..n), S # {}
    PROVE  Max(S) \in S
<1> DEFINE R == {m \in Nat : n - m \in S}
<1>1. R \in SUBSET Nat /\ R # {}
  <2>1. PICK i \in S : TRUE
    OBVIOUS
  <2>2. i \in 1..n /\ n - i \in Nat /\ n - (n - i) = i
    BY <2>1
  <2> QED  BY <2>1, <2>2
<1>2. PICK m \in R : \A k \in R : ~(k < m)
  <2> HIDE DEF R
  <2>1. PICK m \in R : \A k \in R : <<k, m>> \notin OpToRel(<, Nat)
    BY <1>1, NatLessThanWellFounded, WFMin
  <2> QED  BY <1>1, <2>1 DEF OpToRel
<1>3. n - m \in S
  OBVIOUS
<1>4. ASSUME NEW i \in S PROVE n - m >= i
  <2>1. i \in 1..n /\ n - i \in Nat /\ n - (n - i) = i
    OBVIOUS
  <2>2. n - i \in R
    BY <2>1
  <2>3. m \in Nat /\ ~(n - i < m)
    BY <1>2, <2>2
  <2> QED  BY <2>1, <2>3
<1> QED  BY <1>3, <1>4 DEF Max

(****************************************************************************)
(* The graphs of a run, and what a drawing is over one of them.             *)
(****************************************************************************)
\* A graph that has been saved by the time of some event
Saying(in, log, g, k) ==
    /\ DOMAIN g = {log[i].ref : i \in {j \in 1..k : log[j].kind \in {"node.added", "node.updated"}}}
    /\ \A id \in DOMAIN g : g[id].kind = NodeType(in, id)
Telling(in, log, n) == n \in Nat /\ DOMAIN log = 1..n /\ \A i \in 1..n : Tells(in, log, i)

\* The graphs of a run hold the nodes that were announced, by their kinds.
LEMMA SavedSays ==
    ASSUME NEW in, NEW log, NEW n, Telling(in, log, n), NEW k \in 0..n
    PROVE  Saying(in, log, Saved(log, k), k)
<1>1. PICK D : D = {log[i].ref : i \in {j \in 1..k : log[j].kind \in {"node.added", "node.updated"}}}
  OBVIOUS
<1> DEFINE latest(ref) == Max(Saves(log, ref) \cap 1..k)
<1>2. Saved(log, k) = [ref \in D |-> [kind |-> log[latest(ref)].type, status |-> log[latest(ref)].status]]
  BY <1>1 DEF Saved
<1>3. ASSUME NEW ref \in D PROVE log[latest(ref)].type = NodeType(in, ref)
  <2>1. PICK i \in 1..k : log[i].kind \in {"node.added", "node.updated"} /\ log[i].ref = ref
    BY <1>1
  <2>2. i \in 1..n /\ k \in Nat
    BY DEF Telling
  <2>3. i \in Saves(log, ref) \cap 1..k
    BY <2>1, <2>2 DEF Saves, Telling
  <2>4. latest(ref) \in Saves(log, ref) \cap 1..k
    BY <2>2, <2>3, MaxIn
  <2> HIDE DEF latest
  <2>5. PICK m : m = latest(ref) /\ m \in 1..n
    BY <2>4 DEF Saves, Telling
  <2>6. log[m].kind \in {"node.added", "node.updated"} /\ log[m].ref = ref
    BY <2>4, <2>5 DEF Saves
  <2>7. Tells(in, log, m)
    BY <2>5 DEF Telling
  <2> QED  BY <2>5, <2>6, <2>7 DEF Tells
<1>4. PICK g : g = Saved(log, k)
  OBVIOUS
<1> HIDE DEF latest
<1>5. DOMAIN g = D /\ \A ref \in D : g[ref].kind = log[latest(ref)].type
  BY <1>2, <1>4
<1> QED  BY <1>1, <1>3, <1>4, <1>5 DEF Saying

\* Whatever has been saved is announced, also when it has been updated.
LEMMA SavedAnnounced ==
    ASSUME NEW in, NEW log, NEW n, Telling(in, log, n), NEW k \in 0..n, NEW g, Saying(in, log, g, k)
    PROVE  \A id \in DOMAIN g : id \in NodeNames(in) /\ Announced(log, k, id) /\ NodeType(in, id) \notin OwnKinds
<1> TAKE id \in DOMAIN g
<1>1. PICK i \in 1..k : log[i].kind \in {"node.added", "node.updated"} /\ log[i].ref = id
  BY DEF Saying
<1>2. Tells(in, log, i) /\ k \in Nat
  BY DEF Telling
<1>3. id \in NodeNames(in) /\ NodeType(in, id) \notin OwnKinds
  BY <1>1, <1>2 DEF Tells
<1>4. Announced(log, k, id)
  <2>1. CASE log[i].kind = "node.added"
    BY <1>1, <2>1 DEF Announced
  <2>2. CASE log[i].kind = "node.updated"
    <3>1. PICK j \in 1..(i - 1) : log[j].kind = "node.added" /\ log[j].ref = id
      BY <1>1, <1>2, <2>2 DEF Tells
    <3>2. j \in 1..k
      BY <1>2
    <3> QED  BY <3>1, <3>2 DEF Announced
  <2> QED  BY <1>1, <2>1, <2>2
<1> QED  BY <1>3, <1>4

\* enrichFlowProjection gives the nodes of the graph its kind, status and lane.
LEMMA EnrichIs ==
    ASSUME NEW p, IsDrawing(p), NEW g
    PROVE  LET q == Enrich(p, g)
           IN  /\ q.edges = p.edges /\ Len(q.nodes) = Len(p.nodes) /\ DOMAIN q.nodes = DOMAIN p.nodes
               /\ q.conflicts = p.conflicts /\ q.converged = p.converged /\ q.tool = p.tool
               /\ \A i \in DOMAIN p.nodes :
                      /\ q.nodes[i].id = p.nodes[i].id
                      /\ q.nodes[i].status = IF p.nodes[i].id \in DOMAIN g THEN g[p.nodes[i].id].status
                                             ELSE p.nodes[i].status
                      /\ q.nodes[i].kind = IF p.nodes[i].id \in DOMAIN g THEN g[p.nodes[i].id].kind
                                           ELSE p.nodes[i].kind
                      /\ q.nodes[i].lane = IF p.nodes[i].id \in DOMAIN g THEN LaneForKind(g[p.nodes[i].id].kind)
                                           ELSE p.nodes[i].lane
<1>1. PICK n \in Nat : n = Len(p.nodes) /\ DOMAIN p.nodes = 1..n
  BY DrawingIs
<1> DEFINE Rich(x) == [x EXCEPT !.kind = g[x.id].kind, !.status = g[x.id].status, !.lane = LaneForKind(g[x.id].kind)]
<1>2. PICK f : f = [i \in 1..n |-> IF p.nodes[i].id \in DOMAIN g THEN Rich(p.nodes[i]) ELSE p.nodes[i]]
  OBVIOUS
<1>3. f = [i \in 1..n |-> f[i]]
  BY <1>2
<1>4. Listed(f) = f /\ IsList(f) /\ Len(f) = n /\ DOMAIN f = 1..n
  BY <1>3, ListedIs
<1>5. PICK q : q = Enrich(p, g)
  OBVIOUS
<1>6. q = [p EXCEPT !.nodes = f]
  BY <1>1, <1>2, <1>4, <1>5 DEF Enrich, Map
<1>7. ASSUME NEW i \in 1..n
      PROVE  /\ f[i].id = p.nodes[i].id
             /\ f[i].status = IF p.nodes[i].id \in DOMAIN g THEN g[p.nodes[i].id].status ELSE p.nodes[i].status
             /\ f[i].kind = IF p.nodes[i].id \in DOMAIN g THEN g[p.nodes[i].id].kind ELSE p.nodes[i].kind
             /\ f[i].lane = IF p.nodes[i].id \in DOMAIN g THEN LaneForKind(g[p.nodes[i].id].kind) ELSE p.nodes[i].lane
  <2>1. PICK x : x = p.nodes[i]
    OBVIOUS
  <2>2. IsNode(x)
    BY <1>1, <2>1 DEF IsDrawing
  <2>3. PICK a : a = g[x.id].kind
    OBVIOUS
  <2>4. PICK b : b = g[x.id].status
    OBVIOUS
  <2>5. PICK c : c = LaneForKind(a)
    OBVIOUS
  <2>6. f[i] = IF x.id \in DOMAIN g THEN [x EXCEPT !.kind = a, !.status = b, !.lane = c] ELSE x
    BY <1>2, <2>1, <2>3, <2>4, <2>5
  <2> QED  BY <2>1, <2>2, <2>3, <2>4, <2>5, <2>6 DEF IsNode
<1>8. /\ q.nodes = f /\ q.edges = p.edges
      /\ q.conflicts = p.conflicts /\ q.converged = p.converged /\ q.tool = p.tool
  BY <1>6 DEF IsDrawing
<1> QED  BY <1>1, <1>4, <1>5, <1>7, <1>8

\* A node that is drawn has the kind and the lane of its saved node.
LEMMA EnrichKeeps ==
    ASSUME NEW in, NEW log, NEW n, Telling(in, log, n), NEW k \in 0..n, NEW p, Pictures(in, log, k, p),
           NEW m \in 0..n, NEW g, Saying(in, log, g, m), NEW q, q = Enrich(p, g)
    PROVE  /\ q.edges = p.edges /\ Len(q.nodes) = Len(p.nodes) /\ DOMAIN q.nodes = DOMAIN p.nodes
           /\ \A i \in DOMAIN p.nodes : SameNode(p.nodes[i], q.nodes[i])
<1>1. IsDrawing(p)
  BY DEF Pictures
<1>2. /\ q.edges = p.edges /\ Len(q.nodes) = Len(p.nodes) /\ DOMAIN q.nodes = DOMAIN p.nodes
      /\ \A i \in DOMAIN p.nodes :
             /\ q.nodes[i].id = p.nodes[i].id
             /\ q.nodes[i].kind = IF p.nodes[i].id \in DOMAIN g THEN g[p.nodes[i].id].kind
                                  ELSE p.nodes[i].kind
             /\ q.nodes[i].lane = IF p.nodes[i].id \in DOMAIN g THEN LaneForKind(g[p.nodes[i].id].kind)
                                  ELSE p.nodes[i].lane
  BY <1>1, EnrichIs
<1>3. ASSUME NEW i \in DOMAIN p.nodes PROVE SameNode(p.nodes[i], q.nodes[i])
  <2>1. PICK x : x = p.nodes[i]
    OBVIOUS
  <2>2. Origin(in, log, k, x)
    BY <2>1 DEF Pictures
  <2>3. x.id \in DOMAIN g => x.id \in NodeNames(in) /\ g[x.id].kind = NodeType(in, x.id)
    BY SavedAnnounced DEF Saying
  <2>4. x.id \in DOMAIN g => g[x.id].kind = x.kind /\ x.lane = LaneForKind(x.kind)
    BY <2>2, <2>3 DEF Origin
  <2> QED  BY <1>2, <2>1, <2>4 DEF SameNode
<1> QED  BY <1>2, <1>3

\* Of two drawings, the later one has the places of the earlier, over
\* whichever graphs.
LEMMA PlacesStay ==
    ASSUME NEW in, NEW log, NEW n, Telling(in, log, n),
           NEW j \in 0..n, NEW p, Pictures(in, log, j, p), NEW a \in 0..n, NEW g, Saying(in, log, g, a),
           NEW k \in 0..n, NEW q, Pictures(in, log, k, q), NEW b \in 0..n, NEW h, Saying(in, log, h, b),
           Keeps(p, q)
    PROVE  Places(Enrich(p, g)) \subseteq Places(Enrich(q, h))
<1>1. PICK r : r = Enrich(p, g)
  OBVIOUS
<1>2. PICK s : s = Enrich(q, h)
  OBVIOUS
<1>3. DOMAIN r.nodes = DOMAIN p.nodes /\ \A i \in DOMAIN p.nodes : SameNode(p.nodes[i], r.nodes[i])
  BY <1>1, EnrichKeeps
<1>4. DOMAIN s.nodes = DOMAIN q.nodes /\ \A i \in DOMAIN q.nodes : SameNode(q.nodes[i], s.nodes[i])
  BY <1>2, EnrichKeeps
<1>5. PICK N \in Nat : DOMAIN p.nodes = 1..N
  BY DrawingIs DEF Pictures
<1>6. \A i \in 1..N : i \in DOMAIN q.nodes /\ SameNode(p.nodes[i], q.nodes[i])
  BY <1>5, DrawingIs DEF Keeps, Pictures
<1>7. \A i \in 1..N : i \in DOMAIN s.nodes /\ r.nodes[i].id = s.nodes[i].id /\ r.nodes[i].lane = s.nodes[i].lane
  BY <1>3, <1>4, <1>5, <1>6 DEF SameNode
<1>8. ASSUME NEW i \in 1..N PROVE Place(r, i) = Place(s, i)
  <2>1. \A m \in 1..(i - 1) : r.nodes[m].lane = s.nodes[m].lane
    <3>1. \A m \in 1..(i - 1) : m \in 1..N
      OBVIOUS
    <3> QED  BY <1>7, <3>1
  <2>2. {m \in 1..(i - 1) : r.nodes[m].lane = r.nodes[i].lane} = {m \in 1..(i - 1) : s.nodes[m].lane = s.nodes[i].lane}
    BY <1>7, <2>1
  <2> QED  BY <1>7, <2>2 DEF Place
<1>9. Places(r) \subseteq Places(s)
  BY <1>3, <1>5, <1>7, <1>8 DEF Places
<1> QED  BY <1>1, <1>2, <1>9

\* Of a list of different things there are as many as it is long.
LEMMA DifferentIds ==
    ASSUME NEW s, NEW n \in Nat, Len(s) = n, DOMAIN s = 1..n,
           \A i, j \in DOMAIN s : s[i].id = s[j].id => i = j
    PROVE  Cardinality(Ids(s)) = Len(s)
<1>1. PICK T : T = Ids(s)
  OBVIOUS
<1>2. PICK f : f = [i \in 1..n |-> s[i].id]
  OBVIOUS
<1>3. f \in Bijection(1..n, T)
  BY <1>1, <1>2 DEF Ids, Bijection, Injection, Surjection, IsInjective
<1>4. ExistsBijection(1..n, T)
  BY <1>3 DEF ExistsBijection
<1> QED  BY <1>1, <1>4, Sizes, FS_Bijection

(* What is to be shown of a run of inputs, by its first k events and the    *)
(* graph of another moment                                                  *)
OwnNodes(p) == {p.nodes[i].id : i \in {j \in DOMAIN p.nodes : p.nodes[j].kind \notin OwnKinds}}
CreatedIn(shown) == {e.ref : e \in {x \in Range(shown) : x.kind = "artifact.created"}}
Linked(shown, p) == {e.ref : e \in SavedEdges(shown)} \subseteq {edge.id : edge \in Links(p)}

\* A drawing shows each node and edge once, all that are saved and the
\* artifacts, whichever graph it is shown over.
LEMMA DrawsSaved ==
    ASSUME NEW in, NEW log, NEW n, Telling(in, log, n), NEW k \in 0..n, NEW p0, Pictures(in, log, k, p0),
           NEW m \in 0..n, NEW g, Saying(in, log, g, m), NEW h, Saying(in, log, h, k),
           NEW p, p = Enrich(p0, g), NEW shown, DOMAIN shown = 1..k, \A i \in 1..k : shown[i] = log[i]
    PROVE  /\ Cardinality(Ids(p.nodes)) = Len(p.nodes) /\ Cardinality(Ids(p.edges)) = Len(p.edges)
           /\ OwnNodes(p) = DOMAIN h \cup CreatedIn(shown)
           /\ Linked(shown, p)
<1>1. /\ p.edges = p0.edges /\ Len(p.nodes) = Len(p0.nodes) /\ DOMAIN p.nodes = DOMAIN p0.nodes
      /\ \A i \in DOMAIN p0.nodes : SameNode(p0.nodes[i], p.nodes[i])
  BY EnrichKeeps
<1>2. /\ Len(p.nodes) \in Nat /\ DOMAIN p.nodes = 1..Len(p.nodes)
      /\ Len(p.edges) \in Nat /\ DOMAIN p.edges = 1..Len(p.edges)
  BY <1>1, DrawingIs DEF Pictures
<1>3. \A id : Drawn(p0, id) <=> Drawn(p, id)
  BY <1>1 DEF Drawn, SameNode
<1>4. Cardinality(Ids(p.nodes)) = Len(p.nodes)
  <2>1. \A i, j \in DOMAIN p.nodes : p.nodes[i].id = p.nodes[j].id => i = j
    BY <1>1 DEF Pictures, SameNode
  <2> QED  BY <1>2, <2>1, DifferentIds
<1>5. Cardinality(Ids(p.edges)) = Len(p.edges)
  <2>1. \A i, j \in DOMAIN p.edges : p.edges[i].id = p.edges[j].id => i = j
    BY <1>1 DEF Pictures
  <2> QED  BY <1>2, <2>1, DifferentIds
<1>6. PICK own : own = OwnNodes(p)
  OBVIOUS
<1>7. PICK created : created = CreatedIn(shown)
  OBVIOUS
<1>8. \A id : id \in created <=> \E i \in 1..k : log[i].kind = "artifact.created" /\ log[i].ref = id
  BY <1>7 DEF CreatedIn, Range
<1>9. \A id : id \in DOMAIN h \cup created <=> Announced(log, k, id)
  <2>1. \A id \in DOMAIN h : Announced(log, k, id)
    BY SavedAnnounced
  <2>2. \A id \in created : Announced(log, k, id)
    BY <1>8 DEF Announced
  <2>3. ASSUME NEW id, Announced(log, k, id) PROVE id \in DOMAIN h \cup created
    <3>1. PICK i \in 1..k : log[i].kind \in {"node.added", "artifact.created"} /\ log[i].ref = id
      BY <2>3 DEF Announced
    <3>2. CASE log[i].kind = "node.added"
      BY <3>1, <3>2 DEF Saying
    <3>3. CASE log[i].kind = "artifact.created"
      BY <1>8, <3>1, <3>3
    <3> QED  BY <3>1, <3>2, <3>3
  <2> QED  BY <2>1, <2>2, <2>3
<1>10. \A i \in DOMAIN p.nodes : Origin(in, log, k, p.nodes[i])
  <2> TAKE i \in DOMAIN p.nodes
  <2>1. i \in DOMAIN p0.nodes /\ SameNode(p0.nodes[i], p.nodes[i])
    BY <1>1
  <2>2. Origin(in, log, k, p0.nodes[i])
    BY <2>1 DEF Pictures
  <2> QED  BY <2>1, <2>2 DEF Origin, SameNode
<1>11. ASSUME NEW id \in own PROVE id \in DOMAIN h \cup created
  <2>1. PICK i \in DOMAIN p.nodes : p.nodes[i].kind \notin OwnKinds /\ p.nodes[i].id = id
    BY <1>6 DEF OwnNodes
  <2>2. Announced(log, k, id)
    BY <1>10, <2>1 DEF Origin
  <2> QED  BY <1>9, <2>2
<1>12. ASSUME NEW id \in DOMAIN h \cup created PROVE id \in own
  <2>1. Announced(log, k, id)
    BY <1>9
  <2>2. id \in NodeNames(in)
    <3>1. PICK i \in 1..k : log[i].kind \in {"node.added", "artifact.created"} /\ log[i].ref = id
      BY <2>1 DEF Announced
    <3>2. Tells(in, log, i)
      BY DEF Telling
    <3> QED  BY <3>1, <3>2 DEF Tells
  <2>3. Drawn(p, id)
    BY <1>3, <2>1 DEF Pictures
  <2>4. PICK i \in DOMAIN p.nodes : p.nodes[i].id = id
    BY <2>3 DEF Drawn
  <2>5. p.nodes[i].kind \notin OwnKinds
    BY <1>10, <2>2, <2>4 DEF Origin
  <2> QED  BY <1>6, <2>4, <2>5 DEF OwnNodes
<1>13. Linked(shown, p)
  <2>1. PICK A : A = {e.ref : e \in SavedEdges(shown)}
    OBVIOUS
  <2>2. PICK B : B = {edge.id : edge \in Links(p)}
    OBVIOUS
  <2>3. ASSUME NEW ref \in A PROVE ref \in B
    <3>1. PICK i \in 1..k : log[i].kind = "edge.added" /\ log[i].ref = ref
      BY <2>1 DEF SavedEdges, Range
    <3>2. ref \in EdgeRef
      BY <3>1 DEF Telling, Tells
    <3>3. EdgeDrawn(p0, ref)
      BY <3>1 DEF Pictures
    <3>4. PICK j \in DOMAIN p0.edges : p0.edges[j].id = ref
      BY <3>3 DEF EdgeDrawn
    <3>5. ~ \E source, id : p0.edges[j].id = <<"from", source, id>> /\ Drawn(p0, id)
      <4>1. ref[1] = "edge"
        BY <3>2 DEF EdgeRef
      <4> QED  BY <3>4, <4>1
    <3>6. \A id \in p0.edges[j].ends : Drawn(p, id)
      BY <1>3, <3>5 DEF Pictures
    <3>7. p0.edges[j] \in Links(p)
      BY <1>1, <3>6 DEF Links
    <3> QED  BY <2>2, <3>4, <3>7
  <2> QED  BY <2>1, <2>2, <2>3 DEF Linked
<1> QED  BY <1>4, <1>5, <1>6, <1>7, <1>11, <1>12, <1>13

(****************************************************************************)
(* The films.                                                               *)
(****************************************************************************)

\* Each run has a log and a film.
LEMMA RunsAre ==
    /\ Len(Runs) \in Nat /\ DOMAIN Runs = 1..Len(Runs)
    /\ Logs = [i \in 1..Len(Runs) |-> Log(Runs[i])]
    /\ Films = [i \in 1..Len(Runs) |-> FilmOf(Log(Runs[i]))]
<1>1. PICK n \in Nat : n = Len(Runs) /\ DOMAIN Runs = 1..n
  BY RunsOK
<1>2. PICK f : f = [i \in 1..n |-> Log(Runs[i])]
  OBVIOUS
<1>3. f = [i \in 1..n |-> f[i]]
  BY <1>2
<1>4. Logs = f /\ DOMAIN f = 1..n
  <2>1. Listed(f) = f /\ DOMAIN f = 1..n
    BY <1>3, ListedIs
  <2> QED  BY <1>1, <1>2, <2>1 DEF Logs, Map
<1>5. PICK g : g = [i \in 1..n |-> FilmOf(f[i])]
  OBVIOUS
<1>6. g = [i \in 1..n |-> g[i]]
  BY <1>5
<1>7. Films = g
  <2>1. Listed(g) = g
    BY <1>6, ListedIs
  <2> QED  BY <1>4, <1>5, <2>1 DEF Films, Map
<1>8. g = [i \in 1..n |-> FilmOf(Log(Runs[i]))]
  BY <1>2, <1>5
<1> QED  BY <1>1, <1>2, <1>4, <1>7, <1>8

\* A part of the events
LEMMA PartIs ==
    ASSUME NEW size \in Nat, NEW i \in 0..Batches
    PROVE  Part(size, i) \in 0..size
<1>1. i \in Nat /\ Batches \in Nat /\ Batches > 0 /\ i <= Batches
  BY CanvasOK
<1>2. PICK a \in Nat : a = i * size
  BY <1>1
<1>3. PICK d \in Nat : d = a \div Batches
  BY <1>1, <1>2
<1>4. a <= Batches * size
  BY <1>1, <1>2
<1>5. d * Batches <= a
  BY <1>1, <1>3
<1>6. d <= size
  <2> SUFFICES ASSUME d >= size + 1 PROVE FALSE
    OBVIOUS
  <2>1. d * Batches >= (size + 1) * Batches
    BY <1>1
  <2>2. (size + 1) * Batches = Batches * size + Batches
    BY <1>1
  <2> QED  BY <1>1, <1>4, <1>5, <2>1, <2>2
<1> QED  BY <1>2, <1>3, <1>6 DEF Part

\* A film has the graph saved with each event, and the scene it draws over
\* each graph that may be read.
LEMMA FilmIs ==
    ASSUME NEW log, NEW n \in Nat, Len(log) = n, DOMAIN log = 1..n
    PROVE  LET film == FilmOf(log)
           IN  /\ film.log = log
               /\ \A k \in 0..n : film.graphs[k + 1] = Saved(log, k)
               /\ \A k \in 0..n, i \in 0..Batches : film.scenes[k + 1][i + 1] =
                      Scene(Enrich(Projections(log)[k + 1], Saved(log, Part(n, i))))
<1>1. PICK gs : gs = [k \in 1..(n + 1) |-> Saved(log, k - 1)]
  OBVIOUS
<1>2. gs = [k \in 1..(n + 1) |-> gs[k]] /\ n + 1 \in Nat
  BY <1>1
<1>3. Graphs(log) = gs
  <2>1. Listed(gs) = gs
    BY <1>2, ListedIs
  <2> QED  BY <1>1, <2>1 DEF Graphs
<1>4. \A k \in 0..n : gs[k + 1] = Saved(log, k)
  <2> TAKE k \in 0..n
  <2>1. k + 1 \in 1..(n + 1) /\ (k + 1) - 1 = k
    OBVIOUS
  <2> QED  BY <1>1, <2>1
<1>5. PICK ps : ps = Projections(log)
  OBVIOUS
<1>6. Len(ps) = n + 1 /\ DOMAIN ps = 1..(n + 1)
  BY <1>5, ProjectionsAre, ListIs
<1>7. PICK m \in Nat : m = Batches + 1
  BY CanvasOK
<1> DEFINE Row(p) == [i \in 1..m |-> Scene(Enrich(p, gs[Part(n, i - 1) + 1]))]
<1>8. \A p : Listed(Row(p)) = Row(p)
  <2> TAKE p
  <2>1. PICK f : f = Row(p)
    OBVIOUS
  <2>2. f = [i \in 1..m |-> f[i]]
    BY <2>1
  <2> QED  BY <2>1, <2>2, ListedIs
<1>9. PICK scenes : scenes = [k \in 1..(n + 1) |-> Row(ps[k])]
  OBVIOUS
<1>10. scenes = [k \in 1..(n + 1) |-> scenes[k]]
  BY <1>9
<1>11. Scenes(log, gs) = scenes
  <2>1. Listed(scenes) = scenes
    BY <1>2, <1>10, ListedIs
  <2>2. scenes = [k \in 1..(n + 1) |-> Listed(Row(ps[k]))]
    BY <1>8, <1>9
  <2> QED  BY <1>5, <1>6, <1>7, <2>1, <2>2 DEF Scenes, Map
<1>12. ASSUME NEW k \in 0..n, NEW i \in 0..Batches
       PROVE  scenes[k + 1][i + 1] = Scene(Enrich(ps[k + 1], Saved(log, Part(n, i))))
  <2>1. k + 1 \in 1..(n + 1) /\ i + 1 \in 1..m /\ (i + 1) - 1 = i
    BY <1>7, CanvasOK
  <2>2. Part(n, i) \in 0..n
    BY PartIs
  <2> QED  BY <1>4, <1>9, <2>1, <2>2
<1> QED  BY <1>3, <1>4, <1>5, <1>11, <1>12 DEF FilmOf, Film

(****************************************************************************)
(* The events of a run, by the operations of its script.                    *)
(****************************************************************************)
\* How many of some first numbers there are up to one of them
UpToOf(S, i) == Cardinality(S \cap 1..i)

\* One number more is counted, if it is one of them.
LEMMA Counts ==
    ASSUME NEW n \in Nat, NEW S \in SUBSET (1..n)
    PROVE  /\ \A i \in Nat : UpToOf(S, i) \in Nat /\ IsFiniteSet(S \cap 1..i)
           /\ UpToOf(S, 0) = 0 /\ UpToOf(S, n) = Cardinality(S)
           /\ \A i \in Nat : UpToOf(S, i + 1) = IF i + 1 \in S THEN UpToOf(S, i) + 1 ELSE UpToOf(S, i)
<1>1. ASSUME NEW i \in Nat PROVE IsFiniteSet(S \cap 1..i) /\ UpToOf(S, i) \in Nat
  <2>1. S \cap 1..i \in SUBSET (1..i)
    OBVIOUS
  <2>2. IsFiniteSet(S \cap 1..i)
    BY <2>1, Sizes, FS_Subset
  <2> QED  BY <2>2, FS_CardinalityType DEF UpToOf
<1>2. UpToOf(S, 0) = 0
  <2>1. S \cap 1..0 = {}
    OBVIOUS
  <2> QED  BY <2>1, FS_EmptySet DEF UpToOf
<1>3. UpToOf(S, n) = Cardinality(S)
  <2>1. S \cap 1..n = S
    OBVIOUS
  <2> QED  BY <2>1 DEF UpToOf
<1>4. ASSUME NEW i \in Nat
      PROVE  UpToOf(S, i + 1) = IF i + 1 \in S THEN UpToOf(S, i) + 1 ELSE UpToOf(S, i)
  <2>1. PICK A : A = S \cap 1..i
    OBVIOUS
  <2>2. IsFiniteSet(A) /\ i + 1 \notin A
    BY <1>1, <2>1
  <2>3. CASE i + 1 \in S
    <3>1. S \cap 1..(i + 1) = A \cup {i + 1}
      <4>1. \A j \in 1..(i + 1) : j \in 1..i \/ j = i + 1
        OBVIOUS
      <4>2. (\A j \in 1..i : j \in 1..(i + 1)) /\ i + 1 \in 1..(i + 1)
        OBVIOUS
      <4> QED  BY <2>1, <2>3, <4>1, <4>2
    <3>2. Cardinality(A \cup {i + 1}) = Cardinality(A) + 1
      BY <2>2, FS_AddElement
    <3> QED  BY <2>1, <2>3, <3>1, <3>2 DEF UpToOf
  <2>4. CASE i + 1 \notin S
    <3>1. S \cap 1..(i + 1) = A
      <4>1. \A j \in 1..(i + 1) : j \in 1..i \/ j = i + 1
        OBVIOUS
      <4>2. \A j \in 1..i : j \in 1..(i + 1)
        OBVIOUS
      <4> QED  BY <2>1, <2>4, <4>1, <4>2
    <3> QED  BY <2>1, <2>4, <3>1 DEF UpToOf
  <2> QED  BY <2>3, <2>4
<1> QED  BY <1>1, <1>2, <1>3, <1>4

\* Each of them has a number in their order.
LEMMA Ranks ==
    ASSUME NEW n \in Nat, NEW S \in SUBSET (1..n)
    PROVE  /\ \A i \in S, j \in S : j < i => UpToOf(S, j) < UpToOf(S, i)
           /\ \A i \in S : UpToOf(S, i) \in 1..Cardinality(S)
           /\ \A k \in 1..Cardinality(S) : \E i \in S : UpToOf(S, i) = k
<1>1. PICK c : c = [i \in Nat |-> UpToOf(S, i)]
  OBVIOUS
<1>2. /\ \A i \in Nat : c[i] \in Nat /\ c[i] = UpToOf(S, i)
      /\ c[0] = 0 /\ c[n] = Cardinality(S)
      /\ \A i \in Nat : c[i + 1] = IF i + 1 \in S THEN c[i] + 1 ELSE c[i]
  <2>1. /\ \A i \in Nat : UpToOf(S, i) \in Nat
        /\ UpToOf(S, 0) = 0 /\ UpToOf(S, n) = Cardinality(S)
        /\ \A i \in Nat : UpToOf(S, i + 1) = IF i + 1 \in S THEN UpToOf(S, i) + 1 ELSE UpToOf(S, i)
    BY Counts
  <2>2. \A i \in Nat : c[i] = UpToOf(S, i)
    BY <1>1
  <2>3. \A i \in Nat : i + 1 \in Nat
    OBVIOUS
  <2> QED  BY <2>1, <2>2, <2>3
<1> DEFINE Good == {i \in 0..n : /\ \A j \in 0..i : c[j] <= c[i]
                                 /\ \A j \in 0..i : j < i /\ i \in S => c[j] < c[i]
                                 /\ \A k \in 1..c[i] : \E j \in S : c[j] = k}
<1>3. 0 \in Good
  BY <1>2
<1>4. ASSUME NEW i \in 0..(n - 1), i \in Good PROVE i + 1 \in Good
  <2>1. i \in Nat /\ i + 1 \in 0..n /\ i + 1 \in Nat
    OBVIOUS
  <2>2. /\ \A j \in 0..i : c[j] <= c[i] /\ c[j] \in Nat
        /\ \A k \in 1..c[i] : \E j \in S : c[j] = k
        /\ c[i + 1] = IF i + 1 \in S THEN c[i] + 1 ELSE c[i]
        /\ c[i] \in Nat
    BY <1>2, <1>4, <2>1
  <2>3. \A j \in 0..(i + 1) : j \in 0..i \/ j = i + 1
    OBVIOUS
  <2>4. \A j \in 0..(i + 1) : c[j] <= c[i + 1]
    BY <2>2, <2>3
  <2>5. \A j \in 0..(i + 1) : j < i + 1 /\ i + 1 \in S => c[j] < c[i + 1]
    BY <2>1, <2>2, <2>3
  <2>6. \A k \in 1..c[i + 1] : \E j \in S : c[j] = k
    <3>1. CASE i + 1 \in S
      <4>1. \A k \in 1..c[i + 1] : k \in 1..c[i] \/ k = c[i + 1]
        BY <2>2, <3>1
      <4> QED  BY <2>2, <3>1, <4>1
    <3>2. CASE i + 1 \notin S
      BY <2>2, <3>2
    <3> QED  BY <3>1, <3>2
  <2> QED  BY <2>1, <2>4, <2>5, <2>6
<1>5. \A i \in 0..n : i \in Good
  <2> HIDE DEF Good
  <2> QED  BY <1>3, <1>4, UpTo
<1>6. \A i \in S : i \in 0..n /\ i \in Nat /\ 0 < i
  OBVIOUS
<1>7. \A i \in S, j \in S : j < i => c[j] < c[i]
  <2> TAKE i \in S, j \in S
  <2> HAVE j < i
  <2>1. j \in 0..i /\ i \in 0..n
    BY <1>6
  <2> QED  BY <1>5, <2>1
<1>8. \A i \in S : c[i] \in 1..c[n]
  <2> TAKE i \in S
  <2>1. i \in 0..n /\ 0 \in 0..i /\ i \in 0..n /\ n \in 0..n
    BY <1>6
  <2>2. c[0] < c[i] /\ c[i] <= c[n]
    BY <1>5, <1>6, <2>1
  <2> QED  BY <1>2, <1>6, <2>2
<1>9. \A k \in 1..c[n] : \E i \in S : c[i] = k
  <2>1. n \in 0..n
    OBVIOUS
  <2> QED  BY <1>5, <2>1
<1> QED  BY <1>2, <1>6, <1>7, <1>8, <1>9

\* The first n operations emit the m events after a, f being their places.
Picked(f, m, ops, n, events, a) ==
    /\ m \in Nat
    /\ \A k \in 1..m : f[k] \in 1..n /\ ops[f[k]].do = "emit" /\ events[a + k] = ops[f[k]]
    /\ \A k \in 1..m, l \in 1..m : k < l => f[k] < f[l]
    /\ \A i \in 1..n : ops[i].do = "emit" => \E k \in 1..m : f[k] = i

\* The events among operations are these, in their order.
LEMMA EmissionsPicked ==
    ASSUME NEW ops, IsList(ops)
    PROVE  \E f, m : /\ IsList(Emissions(ops)) /\ Len(Emissions(ops)) = m
                     /\ Picked(f, m, ops, Len(ops), Emissions(ops), 0)
<1>1. PICK n \in Nat : n = Len(ops) /\ DOMAIN ops = 1..n
  BY ListIs
<1>2. PICK S : S = {i \in DOMAIN ops : ops[i].do = "emit"}
  OBVIOUS
<1>3. S \in SUBSET (1..n) /\ IsFiniteSet(S) /\ Cardinality(S) \in Nat
  BY <1>1, <1>2, Sizes, FS_Subset, FS_CardinalityType
<1>4. PICK m \in Nat : m = Cardinality(S)
  BY <1>3
<1> DEFINE at(k) == CHOOSE i \in S : Cardinality(S \cap 1..i) = k
<1>5. PICK f : f = [k \in 1..m |-> at(k)]
  OBVIOUS
<1>6. PICK events : events = [k \in 1..m |-> ops[at(k)]]
  OBVIOUS
<1>7. Emissions(ops) = events
  BY <1>2, <1>4, <1>6 DEF Emissions
<1>8. events = [k \in 1..m |-> events[k]] /\ \A k \in 1..m : events[k] = ops[f[k]]
  BY <1>5, <1>6
<1>9. IsList(events) /\ DOMAIN events = 1..m /\ Len(events) = m
  BY <1>8, ListedIs
<1>10. ASSUME NEW k \in 1..m PROVE f[k] \in S /\ UpToOf(S, f[k]) = k
  <2>1. \E i \in S : UpToOf(S, i) = k
    BY <1>3, <1>4, Ranks
  <2>2. at(k) \in S /\ UpToOf(S, at(k)) = k
    BY <2>1 DEF UpToOf
  <2> QED  BY <1>5, <2>2
<1>11. ASSUME NEW i \in S, NEW j \in S, ~(j < i), ~(i < j) PROVE i = j
  <2>1. i \in Nat /\ j \in Nat
    BY <1>3
  <2> QED  BY <1>11, <2>1
<1>12. ASSUME NEW k \in 1..m, NEW l \in 1..m, k < l PROVE f[k] < f[l]
  <2>1. PICK i \in S, j \in S : i = f[k] /\ j = f[l] /\ UpToOf(S, i) = k /\ UpToOf(S, j) = l
    BY <1>10
  <2>2. j < i => UpToOf(S, j) < UpToOf(S, i)
    BY <1>3, Ranks
  <2>3. ~(j < i) /\ i # j
    BY <1>12, <2>1, <2>2
  <2> QED  BY <1>11, <2>1, <2>3
<1>13. ASSUME NEW i \in S PROVE \E k \in 1..m : f[k] = i
  <2>1. PICK k \in 1..m : k = UpToOf(S, i)
    BY <1>3, <1>4, Ranks
  <2>2. PICK j \in S : j = f[k] /\ UpToOf(S, j) = k
    BY <1>10
  <2>3. (j < i => UpToOf(S, j) < UpToOf(S, i)) /\ (i < j => UpToOf(S, i) < UpToOf(S, j))
    BY <1>3, Ranks
  <2>4. i = j
    BY <1>11, <2>1, <2>2, <2>3
  <2> QED  BY <2>2, <2>4
<1>14. \A k \in 1..m : f[k] \in 1..n /\ ops[f[k]].do = "emit" /\ events[0 + k] = ops[f[k]]
  <2>1. \A k \in 1..m : 0 + k = k
    OBVIOUS
  <2> QED  BY <1>2, <1>3, <1>8, <1>10, <2>1
<1>15. \A i \in 1..n : ops[i].do = "emit" => \E k \in 1..m : f[k] = i
  BY <1>1, <1>2, <1>13
<1>16. Picked(f, m, ops, n, events, 0)
  BY <1>12, <1>14, <1>15 DEF Picked
<1> QED  BY <1>1, <1>7, <1>9, <1>16

(* A script is a list, and so is the part of it that a run gets to.         *)
LEMMA ScriptList ==
    ASSUME NEW in, InputOK(in)
    PROVE  IsList(Script(in)) /\ Script(in) \in Seq(Op)
BY ScriptShows DEF IsList, Showing

\* Kinds of which the canvas gets to know nothing
Endings == {"run.started", "run.completed", "tool.failed", "step.failed", "run.failed", "run.interrupted"}

\* An event that is emitted
LEMMA EmitIs == ASSUME NEW kind, NEW ref
                PROVE  IsList(Emit(kind, ref)) /\ Len(Emit(kind, ref)) = 1 /\ Emit(kind, ref)[1].kind = kind
<1>1. PICK op : op = [do |-> "emit", kind |-> kind, ref |-> ref, ends |-> {}]
  OBVIOUS
<1>2. <<op>> \in Seq({op}) /\ Len(<<op>>) = 1 /\ <<op>>[1] = op
  OBVIOUS
<1> QED  BY <1>1, <1>2 DEF Emit, IsList

\* Lists of such events only
Ends(s) == IsList(s) /\ \A i \in DOMAIN s : s[i].kind \in Endings

\* One of these events,
LEMMA EmitEnds == ASSUME NEW kind \in Endings, NEW ref PROVE Ends(Emit(kind, ref))
<1>1. PICK s : s = Emit(kind, ref)
  OBVIOUS
<1>2. IsList(s) /\ Len(s) = 1 /\ s[1].kind = kind
  BY <1>1, EmitIs
<1>3. \A i \in DOMAIN s : i = 1
  BY <1>2, ListIs
<1> QED  BY <1>1, <1>2, <1>3 DEF Ends

\* several of them,
LEMMA BothEnd == ASSUME NEW a, NEW b, Ends(a), Ends(b) PROVE Ends(a \o b)
<1>1. IsList(a) /\ IsList(b)
  BY DEF Ends
<1>2. PICK s : s = a \o b
  OBVIOUS
<1>3. PICK n \in Nat : n = Len(a) /\ DOMAIN a = 1..n
  BY <1>1, ListIs
<1>4. PICK m \in Nat : m = Len(b) /\ DOMAIN b = 1..m
  BY <1>1, ListIs
<1>5. /\ IsList(s) /\ Len(s) = n + m
      /\ \A i \in 1..n : s[i] = a[i]
      /\ \A i \in 1..m : s[n + i] = b[i]
  BY <1>1, <1>2, <1>3, <1>4, ConcatList
<1>6. DOMAIN s = 1..(n + m)
  BY <1>5, ListIs
<1>7. ASSUME NEW i \in 1..(n + m) PROVE s[i].kind \in Endings
  <2>1. CASE i <= n
    <3>1. i \in 1..n
      BY <2>1
    <3> QED  BY <1>3, <1>5, <3>1 DEF Ends
  <2>2. CASE i > n
    <3>1. i - n \in 1..m /\ n + (i - n) = i
      BY <2>2
    <3> QED  BY <1>4, <1>5, <3>1 DEF Ends
  <2> QED  BY <2>1, <2>2
<1> QED  BY <1>2, <1>5, <1>6, <1>7 DEF Ends

\* and those with which a run ends.
LEMMA ClosingEnds == ASSUME NEW r, NEW script PROVE Ends(Closing(r, script))
<1>1. CASE r.end = "completed"
  BY <1>1, EmitEnds DEF Closing, Endings
<1>2. CASE r.end = "failed"
  <2>1. PICK step : step = script[r.at].ref
    OBVIOUS
  <2>2. Ends(Emit("tool.failed", step)) /\ Ends(Emit("step.failed", step)) /\ Ends(Emit("run.failed", None))
    BY EmitEnds DEF Endings
  <2>3. Ends(Emit("tool.failed", step) \o Emit("step.failed", step) \o Emit("run.failed", None))
    BY <2>2, BothEnd
  <2> QED  BY <1>2, <2>1, <2>3 DEF Closing
<1>3. CASE r.end \notin {"completed", "failed"}
  BY <1>3, EmitEnds DEF Closing, Endings
<1> QED  BY <1>1, <1>2, <1>3

\* The events of a run are those that its script emits, and those that end it.
LEMMA EmittedPicked ==
    ASSUME NEW r, NEW script, IsList(script), EndsAt(r, script), NEW events, events = Emitted(r, script)
    PROVE  \E f, m : LET closing == Closing(r, script) IN
           /\ IsList(events) /\ IsList(closing) /\ Picked(f, m, script, r.at - 1, events, 1)
           /\ events[1].kind = "run.started"
           /\ Len(events) = 1 + m + Len(closing)
           /\ \A c \in 1..Len(closing) : events[1 + m + c] = closing[c]
<1>1. PICK n \in Nat : n = Len(script) /\ DOMAIN script = 1..n
  BY ListIs
<1>2. PICK b \in 0..n : b = r.at - 1
  <2>1. r.at \in 1..(n + 1)
    BY <1>1 DEF EndsAt
  <2> QED  BY <2>1
<1>3. PICK ops : ops = SubSeq(script, 1, b)
  OBVIOUS
<1>4. IsList(ops) /\ DOMAIN ops = 1..b /\ Len(ops) = b /\ \A i \in 1..b : ops[i] = script[i]
  <2>1. PICK U : script \in Seq(U)
    BY DEF IsList
  <2>2. b \in Int /\ \A i \in 1..b : script[i] \in U /\ 1 + i - 1 = i /\ i \in 1..n
    BY <1>1, <2>1
  <2>3. /\ ops \in Seq(U) /\ Len(ops) = (IF 1 <= b THEN b - 1 + 1 ELSE 0)
        /\ \A i \in 1..(b - 1 + 1) : ops[i] = script[1 + i - 1]
    BY <1>3, <2>2, SubSeqProperties
  <2>4. Len(ops) = b /\ b - 1 + 1 = b
    BY <2>3
  <2> QED  BY <2>2, <2>3, <2>4 DEF IsList
<1>5. PICK es : es = Emissions(ops)
  OBVIOUS
<1>6. PICK f, m : IsList(es) /\ Len(es) = m /\ Picked(f, m, ops, b, es, 0)
  BY <1>4, <1>5, EmissionsPicked
<1>7. m \in Nat
  BY <1>6 DEF Picked
<1>8. PICK a : a = Emit("run.started", None) /\ IsList(a) /\ Len(a) = 1 /\ a[1].kind = "run.started"
  BY EmitIs
<1>9. PICK closing : closing = Closing(r, script) /\ IsList(closing)
  BY ClosingEnds DEF Ends
<1>10. PICK d \in Nat : d = Len(closing)
  BY <1>9, ListIs
<1>11. PICK c : c = a \o es
  OBVIOUS
<1>12. IsList(c) /\ Len(c) = 1 + m /\ c[1] = a[1] /\ \A i \in 1..m : c[1 + i] = es[i]
  <2>0. IsList(a) /\ IsList(es)
    BY <1>6, <1>8
  <2>1. /\ IsList(c) /\ Len(c) = Len(a) + Len(es)
        /\ \A i \in 1..Len(a) : c[i] = a[i]
        /\ \A i \in 1..Len(es) : c[Len(a) + i] = es[i]
    BY <1>11, <2>0, ConcatList
  <2>2. 1 \in 1..1
    OBVIOUS
  <2> QED  BY <1>6, <1>8, <2>1, <2>2
<1>13. events = c \o closing
  BY <1>2, <1>3, <1>5, <1>8, <1>9, <1>11 DEF Emitted
<1>14. /\ IsList(events) /\ Len(events) = (1 + m) + d
       /\ \A i \in 1..(1 + m) : events[i] = c[i]
       /\ \A i \in 1..d : events[(1 + m) + i] = closing[i]
  <2>0. IsList(c) /\ IsList(closing)
    BY <1>9, <1>12
  <2>1. /\ IsList(events) /\ Len(events) = Len(c) + Len(closing)
        /\ \A i \in 1..Len(c) : events[i] = c[i]
        /\ \A i \in 1..Len(closing) : events[Len(c) + i] = closing[i]
    BY <1>13, <2>0, ConcatList
  <2> QED  BY <1>10, <1>12, <2>1
<1>15. events[1].kind = "run.started"
  <2>1. 1 \in 1..(1 + m)
    BY <1>7
  <2> QED  BY <1>8, <1>12, <1>14, <2>1
<1>16. \A k \in 1..m : events[1 + k] = es[k]
  <2> TAKE k \in 1..m
  <2>1. 1 + k \in 1..(1 + m)
    BY <1>7
  <2> QED  BY <1>12, <1>14, <2>1
<1>17. Picked(f, m, script, b, events, 1)
  <2>1. \A k \in 1..m : f[k] \in 1..b /\ ops[f[k]].do = "emit" /\ es[0 + k] = ops[f[k]]
    BY <1>6 DEF Picked
  <2>2. \A k \in 1..m : 0 + k = k
    BY <1>7
  <2>3. \A k \in 1..m : f[k] \in 1..b /\ script[f[k]].do = "emit" /\ events[1 + k] = script[f[k]]
    BY <1>4, <1>16, <2>1, <2>2
  <2>4. \A i \in 1..b : script[i].do = "emit" => \E k \in 1..m : f[k] = i
    BY <1>4, <1>6 DEF Picked
  <2> QED  BY <1>6, <2>3, <2>4 DEF Picked
<1> QED  BY <1>2, <1>9, <1>10, <1>14, <1>15, <1>17

\* An event that is in its place among those of a script
EventOf(ops, i, events, k) ==
    /\ i \in DOMAIN ops /\ ops[i].do = "emit" /\ events[k] = ops[i]
    /\ \A l \in 1..(i - 1) : ops[l].do = "emit" => \E j \in 1..(k - 1) : events[j] = ops[l]

\* An event of a run is one of its ends, or one of its script, and then the
\* script's earlier ones came before.
LEMMA EmittedAre ==
    ASSUME NEW r, NEW script, IsList(script), EndsAt(r, script), NEW events, events = Emitted(r, script)
    PROVE  /\ IsList(events)
           /\ \A k \in DOMAIN events :
                  \/ events[k].kind \in Endings
                  \/ \E i : EventOf(script, i, events, k)
<1>1. PICK n \in Nat : n = Len(script) /\ DOMAIN script = 1..n
  BY ListIs
<1>2. PICK b \in 0..n : b = r.at - 1
  <2>1. r.at \in 1..(n + 1)
    BY <1>1 DEF EndsAt
  <2> QED  BY <2>1
<1>3. PICK closing : closing = Closing(r, script) /\ IsList(closing) /\ \A c \in DOMAIN closing : closing[c].kind \in Endings
  BY ClosingEnds DEF Ends
<1>4. PICK d \in Nat : d = Len(closing) /\ DOMAIN closing = 1..d
  BY <1>3, ListIs
<1>5. PICK f, m : /\ IsList(events) /\ Picked(f, m, script, b, events, 1)
                  /\ events[1].kind = "run.started" /\ Len(events) = 1 + m + d
                  /\ \A c \in 1..d : events[1 + m + c] = closing[c]
  BY <1>2, <1>3, <1>4, EmittedPicked
<1>6. m \in Nat /\ DOMAIN events = 1..(1 + m + d)
  BY <1>5, ListIs DEF Picked
<1>7. ASSUME NEW k \in 1..m PROVE EventOf(script, f[k], events, 1 + k)
  <2>1. PICK i \in 1..b : i = f[k] /\ script[i].do = "emit" /\ events[1 + k] = script[i]
    BY <1>5 DEF Picked
  <2>2. ASSUME NEW l \in 1..(i - 1), script[l].do = "emit" PROVE \E j \in 1..((1 + k) - 1) : events[j] = script[l]
    <3>1. l \in 1..b /\ l < i
      OBVIOUS
    <3>2. PICK h \in 1..m : f[h] = l
      BY <1>5, <2>2, <3>1 DEF Picked
    <3>3. ~(k < h) /\ k # h
      <4>1. k < h => i < l
        BY <1>5, <2>1, <3>2 DEF Picked
      <4> QED  BY <2>1, <3>1, <3>2, <4>1
    <3>4. 1 + h \in 1..((1 + k) - 1)
      BY <1>6, <3>3
    <3>5. events[1 + h] = script[l]
      BY <1>5, <3>2 DEF Picked
    <3> QED  BY <3>4, <3>5
  <2>3. i \in DOMAIN script
    BY <1>1, <1>2
  <2> QED  BY <2>1, <2>2, <2>3 DEF EventOf
<1>8. ASSUME NEW k \in DOMAIN events PROVE events[k].kind \in Endings \/ \E i : EventOf(script, i, events, k)
  <2>1. CASE k = 1
    BY <1>5, <2>1 DEF Endings
  <2>2. CASE 1 < k /\ k <= 1 + m
    <3>1. k - 1 \in 1..m /\ 1 + (k - 1) = k
      BY <1>6, <2>2
    <3> QED  BY <1>7, <3>1
  <2>3. CASE 1 + m < k
    <3>1. k - (1 + m) \in 1..d /\ 1 + m + (k - (1 + m)) = k
      BY <1>6, <2>3
    <3> QED  BY <1>3, <1>4, <1>5, <3>1
  <2> QED  BY <1>6, <2>1, <2>2, <2>3
<1> QED  BY <1>5, <1>8

(* What the events tell.                                                    *)
\* The names of some things are no more than the things.
LEMMA IdsFinite ==
    ASSUME NEW S, IsFiniteSet(S)
    PROVE  IsFiniteSet({Id(x) : x \in S})
<1>1. PICK T : T = {Id(x) : x \in S}
  OBVIOUS
<1>2. PICK f : f = [x \in S |-> Id(x)]
  OBVIOUS
<1>3. f \in Surjection(S, T)
  BY <1>1, <1>2 DEF Surjection
<1> QED  BY <1>1, <1>3, FS_Surjection

\* The steps of the demonstration need no more than two others,
LEMMA DemoKnows ==
    ASSUME NEW documents \in BOOLEAN, NEW proposal \in BOOLEAN, NEW steps, steps = DemoPlan(documents, proposal),
           NEW k \in DOMAIN steps
    PROVE  steps[k].needs \in {{}, {"inspect"}, {"profile", "extract"}, {"align"}, {"profile"}}
<1>1. CASE documents /\ proposal
  BY <1>1 DEF DemoPlan, If
<1>2. CASE documents /\ ~proposal
  BY <1>2 DEF DemoPlan, If
<1>3. CASE ~documents /\ proposal
  BY <1>3 DEF DemoPlan, If
<1>4. CASE ~documents /\ ~proposal
  BY <1>4 DEF DemoPlan, If
<1> QED  BY <1>1, <1>2, <1>3, <1>4

\* and those of a plan no more than there are.
LEMMA NeedsFinite ==
    ASSUME NEW in, InputOK(in), NEW i \in DOMAIN in.steps
    PROVE  IsFiniteSet(in.steps[i].needs)
<1>1. CASE in.runner = "demo"
  <2>1. PICK proposal \in BOOLEAN : in.steps = DemoPlan(in.documents, proposal)
    BY <1>1 DEF InputOK
  <2>2. in.documents \in BOOLEAN
    BY DEF InputOK
  <2>3. in.steps[i].needs \in {{}, {"inspect"}, {"profile", "extract"}, {"align"}, {"profile"}}
    BY <2>1, <2>2, DemoKnows
  <2>5. IsFiniteSet({}) /\ \A x : IsFiniteSet({x})
    BY FS_EmptySet, FS_Singleton
  <2>6. IsFiniteSet({"profile", "extract"})
    <3>1. PICK S : S = {"profile"}
      OBVIOUS
    <3>2. IsFiniteSet(S) /\ {"profile", "extract"} = S \cup {"extract"}
      BY <2>5, <3>1
    <3>3. IsFiniteSet(S \cup {"extract"})
      BY <3>2, FS_AddElement
    <3> QED  BY <3>2, <3>3
  <2> QED  BY <2>3, <2>5, <2>6
<1>2. CASE in.runner # "demo"
  <2>1. PICK T : T = {in.steps[j].id : j \in DOMAIN in.steps}
    OBVIOUS
  <2>2. PICK n \in Nat : DOMAIN in.steps = 1..n
    BY InputTypes
  <2>3. PICK f : f = [j \in 1..n |-> in.steps[j].id]
    OBVIOUS
  <2>4. f \in Surjection(1..n, T)
    BY <2>1, <2>2, <2>3 DEF Surjection
  <2>5. IsFiniteSet(T)
    BY <2>4, Sizes, FS_Surjection
  <2>6. in.steps[i].needs \in SUBSET T
    BY <1>2, <2>1 DEF InputOK, PlanOK
  <2> QED  BY <2>5, <2>6, FS_Subset
<1> QED  BY <1>1, <1>2

\* What a step, a round or an artifact comes from is finite.
LEMMA PriorFinite ==
    ASSUME NEW in, InputOK(in), \A j \in DOMAIN in.cycle : IsFiniteSet(in.cycle[j].prior),
           NEW op, Lists(in, op)
    PROVE  IsFiniteSet(Prior(in, op.kind, op.ref))
<1>1. CASE op.kind = "step.added"
  <2>1. PICK j \in DOMAIN in.steps : op.ref = Id(in.steps[j].id)
    BY <1>1 DEF Lists
  <2>2. op.ref[1] = in.steps[j].id
    BY <2>1 DEF Id
  <2>3. PICK k \in DOMAIN in.steps : StepOf(in, op.ref) = in.steps[k]
    BY <2>2 DEF StepOf
  <2>4. IsFiniteSet(StepOf(in, op.ref).needs)
    BY <2>3, NeedsFinite
  <2> QED  BY <1>1, <2>4, IdsFinite DEF Prior
<1>2. CASE op.kind = "round.planned"
  <2>1. PICK j \in DOMAIN in.cycle : op.ref = <<"cycle-round", j>>
    BY <1>2 DEF Lists
  <2>2. IsFiniteSet(in.cycle[op.ref[2]].prior)
    BY <2>1
  <2> QED  BY <1>2, <2>2, IdsFinite DEF Prior
<1>3. CASE op.kind = "artifact.created"
  <2>1. Prior(in, op.kind, op.ref) = {<<"round", RoundOf(in, op.ref)>>}
    BY <1>3 DEF Prior
  <2> QED  BY <2>1, FS_Singleton
<1>4. CASE op.kind \notin {"step.added", "round.planned", "artifact.created"}
  BY <1>4, FS_EmptySet DEF Prior
<1> QED  BY <1>1, <1>2, <1>3, <1>4

\* Artifacts are not hypotheses, and have types of their own.
LEMMA ArtifactTypes ==
    ASSUME NEW in, InputOK(in), Unambiguous(in), NEW ref \in Artifacts(in)
    PROVE  /\ ref \in NodeNames(in)
           /\ NodeType(in, ref) = IF ref[1] = "analyze_text" THEN "text_theme" ELSE "analytical_artifact"
<1>1. PICK C : C = {in.cycle[i].call : i \in DOMAIN in.cycle}
  OBVIOUS
<1>2. PICK call \in C : ref = Id(call)
  BY <1>1 DEF Artifacts, Calls
<1>3. ref \in OtherNodes(in)
  BY <1>1, <1>2 DEF OtherNodes
<1>4. ref \notin Hypotheses(in)
  BY <1>3 DEF Unambiguous, Hypotheses
<1> QED  BY <1>3, <1>4 DEF NodeType, NodeNames

\* No node of the analysis has the kind of a step or a round.
LEMMA NodeTypes ==
    ASSUME NEW in, InputOK(in), NEW ref \in AllNodes(in)
    PROVE  NodeType(in, ref) \notin OwnKinds
<1>1. CASE ref \in Hypotheses(in) \/ ref \in Artifacts(in)
  BY <1>1 DEF NodeType, OwnKinds
<1>2. CASE ref \notin Hypotheses(in) /\ ref \notin Artifacts(in)
  <2>1. CycleRefs(in) \subseteq Artifacts(in)
    BY DEF CycleRefs, Artifacts, Calls, IsCall
  <2>2. \A i \in 1..Len(in.hypotheses) : in.hypotheses[i].id \in Hypotheses(in)
    BY InputTypes DEF Hypotheses
  <2>3. ref[1] \in {"data-source", "compute-plan", "data-signal", "document-source", "excerpt", "claim",
                   "validation", "analysis-conclusion", "recommended-action", "analysis-report"}
    <3>1. CASE ref \in WithDocuments(in)
      BY <1>2, <2>1, <3>1 DEF WithDocuments, WithCycle, Base, Id
    <3>2. CASE ref \in {<<"excerpt", i>> : i \in 1..Claims(in)} \cup {<<"claim", i>> : i \in 1..Claims(in)}
      BY <3>2
    <3>3. CASE ref \in {<<"validation", i>> : i \in 1..Len(in.hypotheses)}
      BY <3>3
    <3>4. CASE ref \in {Id("analysis-conclusion"), Id("recommended-action"), Id("analysis-report")}
      BY <3>4 DEF Id
    <3> QED  BY <1>2, <2>2, <3>1, <3>2, <3>3, <3>4 DEF AllNodes, WithHypotheses, WithClaims
  <2>4. NodeType(in, ref) = Single(ref[1])
    BY <1>2 DEF NodeType
  <2> QED  BY <2>3, <2>4 DEF Single, OwnKinds
<1> QED  BY <1>1, <1>2

\* The log of a run
LEMMA LogIs ==
    ASSUME NEW i \in DOMAIN Runs
    PROVE  LET r == Runs[i]  ops == Emitted(r, Script(r.in)) IN
           /\ IsList(ops) /\ IsList(Log(r)) /\ Len(Log(r)) = Len(ops)
           /\ \A k \in 1..Len(ops) : Log(r)[k] = Event(r.in, k, ops[k])
<1>1. PICK r : r = Runs[i]
  OBVIOUS
<1>2. InputOK(r.in) /\ EndsAt(r, Script(r.in))
  BY <1>1, RunsOK
<1>3. PICK ops : ops = Emitted(r, Script(r.in))
  OBVIOUS
<1>4. IsList(ops)
  <2>1. IsList(Script(r.in))
    BY <1>2, ScriptList
  <2> QED  BY <1>2, <1>3, <2>1, EmittedAre
<1>5. PICK n \in Nat : n = Len(ops) /\ DOMAIN ops = 1..n
  BY <1>4, ListIs
<1>6. PICK f : f = [k \in 1..n |-> Event(r.in, k, ops[k])]
  OBVIOUS
<1>7. f = [k \in 1..n |-> f[k]]
  BY <1>6
<1>8. Listed(f) = f /\ IsList(f) /\ Len(f) = n
  BY <1>7, ListedIs
<1>9. Log(r) = f
  BY <1>3, <1>5, <1>6, <1>8 DEF Log, Events
<1> QED  BY <1>1, <1>3, <1>4, <1>5, <1>6, <1>8, <1>9

\* An event of a log says what was emitted.
LEMMA EventIs ==
    ASSUME NEW in, NEW i, NEW op
    PROVE  LET e == Event(in, i, op) IN
           /\ e.sequence = i /\ e.kind = op.kind /\ e.ref = op.ref /\ e.ends = op.ends
           /\ e.prior = Prior(in, op.kind, op.ref) /\ e.type = Type(in, op.kind, op.ref)
           /\ e.artifacts = IF op.kind = "round.completed" /\ IsCall(in.cycle[op.ref[2]]) THEN 1 ELSE 0
<1>1. PICK status : status = CASE op.kind = "node.added" -> AddedAs(in, op.ref)
                             [] op.kind = "node.updated" -> UpdatedTo(in, op.ref) [] OTHER -> ""
  OBVIOUS
<1>2. PICK artifacts : artifacts = IF op.kind = "round.completed" /\ IsCall(in.cycle[op.ref[2]]) THEN 1 ELSE 0
  OBVIOUS
<1>3. Event(in, i, op) = [sequence |-> i, kind |-> op.kind, ref |-> op.ref, ends |-> op.ends,
                          prior |-> Prior(in, op.kind, op.ref), type |-> Type(in, op.kind, op.ref),
                          status |-> status, artifacts |-> artifacts]
  BY <1>1, <1>2 DEF Event
<1> QED  BY <1>2, <1>3

\* Its kind, what it is about, and what its round has
Says(in, e, op) ==
    /\ e.kind = op.kind /\ e.ref = op.ref
    /\ e.artifacts = IF op.kind = "round.completed" /\ IsCall(in.cycle[op.ref[2]]) THEN 1 ELSE 0
LEMMA EventSays ==
    ASSUME NEW in, NEW i, NEW op
    PROVE  Says(in, Event(in, i, op), op)
BY EventIs DEF Says

\* A log is a list.
LEMMA LogList ==
    ASSUME NEW i \in DOMAIN Runs
    PROVE  Len(Log(Runs[i])) \in Nat /\ DOMAIN Log(Runs[i]) = 1..Len(Log(Runs[i]))
BY LogIs, ListIs

\* The log of a run whose names are apart tells the canvas what it relies on.
LEMMA LogTells ==
    ASSUME NEW i \in DOMAIN Runs, Apart(Runs[i].in)
    PROVE  Telling(Runs[i].in, Log(Runs[i]), Len(Log(Runs[i])))
<1>1. PICK r : r = Runs[i]
  OBVIOUS
<1>2. PICK in : in = r.in
  OBVIOUS
<1>3. /\ InputOK(in) /\ EndsAt(r, Script(in)) /\ Apart(in) /\ Unambiguous(in)
      /\ \A j \in DOMAIN in.cycle : IsFiniteSet(in.cycle[j].prior)
  BY <1>1, <1>2, RunsOK DEF Apart
<1>4. PICK s : s = Script(in)
  OBVIOUS
<1>5. PICK ops : ops = Emitted(r, s)
  OBVIOUS
<1>6. PICK log : log = Log(r)
  OBVIOUS
<1>7. PICK n : n = Len(log)
  OBVIOUS
<1>8. /\ n \in Nat /\ DOMAIN log = 1..n /\ DOMAIN ops = 1..n
      /\ \A k \in 1..n : log[k] = Event(in, k, ops[k])
  BY <1>1, <1>2, <1>4, <1>5, <1>6, <1>7, LogIs, ListIs
<1>9. \A k \in 1..n : ops[k].kind \in Endings \/ \E j : EventOf(s, j, ops, k)
  <2>1. IsList(s)
    BY <1>3, <1>4, ScriptList
  <2> QED  BY <1>3, <1>4, <1>5, <1>8, <2>1, EmittedAre
<1>10. \A k \in 1..n : log[k].sequence = k /\ log[k].kind = ops[k].kind /\ log[k].ref = ops[k].ref
                        /\ log[k].ends = ops[k].ends /\ log[k].prior = Prior(in, ops[k].kind, ops[k].ref)
                        /\ log[k].type = Type(in, ops[k].kind, ops[k].ref)
  <2> SUFFICES ASSUME NEW k \in 1..n
               PROVE  /\ log[k].sequence = k /\ log[k].kind = ops[k].kind /\ log[k].ref = ops[k].ref
                      /\ log[k].ends = ops[k].ends /\ log[k].prior = Prior(in, ops[k].kind, ops[k].ref)
                      /\ log[k].type = Type(in, ops[k].kind, ops[k].ref)
    OBVIOUS
  <2>1. PICK op : op = ops[k]
    OBVIOUS
  <2>2. log[k] = Event(in, k, op)
    BY <1>8, <2>1
  <2> QED  BY <2>1, <2>2, EventIs
<1>11. ASSUME NEW k \in 1..n PROVE Tells(in, log, k)
  <2>1. PICK op, e : op = ops[k] /\ e = log[k]
    OBVIOUS
  <2>2. /\ e.sequence = k /\ e.kind = op.kind /\ e.ref = op.ref /\ e.ends = op.ends
        /\ e.prior = Prior(in, op.kind, op.ref) /\ e.type = Type(in, op.kind, op.ref)
    BY <1>10, <2>1
  <2>3. CASE op.kind \in Endings
    <3>1. Lists(in, op)
      BY <2>3 DEF Lists, Endings
    <3>2. IsFiniteSet(e.prior)
      BY <1>3, <2>2, <3>1, PriorFinite
    <3> QED  BY <2>1, <2>2, <2>3, <3>2 DEF Tells, Endings
  <2>4. CASE \E j : EventOf(s, j, ops, k)
    <3>1. PICK j : EventOf(s, j, ops, k)
      BY <2>4
    <3>2. j \in DOMAIN s /\ s[j].do = "emit" /\ s[j] = op
      BY <2>1, <3>1 DEF EventOf
    <3>3. /\ Lists(in, op)
          /\ op.kind = "node.added" => op.ref \in AllNodes(in)
          /\ op.kind = "node.updated" => \E m \in 1..(j - 1) : Adds(s[m], op.ref)
          /\ op.kind = "edge.added" =>
                 /\ op.ref \in EdgeRef
                 /\ \A id \in op.ends : \E m \in 1..(j - 1) : Adds(s[m], id)
      BY <1>3, <1>4, <3>2, ScriptTells
    <3>4. IsFiniteSet(e.prior)
      BY <1>3, <2>2, <3>3, PriorFinite
    <3>5. ASSUME NEW m \in 1..(j - 1), NEW id, Adds(s[m], id)
          PROVE  /\ \E l \in 1..(k - 1) : log[l].kind = "node.added" /\ log[l].ref = id
                 /\ id \in AllNodes(in)
      <4>1. s[m].do = "emit" /\ s[m].kind = "node.added" /\ s[m].ref = id
        BY <3>5 DEF Adds
      <4>2. PICK l \in 1..(k - 1) : ops[l] = s[m]
        BY <3>1, <4>1 DEF EventOf
      <4>3. l \in 1..n
        BY <1>8
      <4>4. m \in DOMAIN s
        <5>1. IsList(s)
          BY <1>3, <1>4, ScriptList
        <5> QED  BY <3>2, <5>1, ListIs
      <4>5. id \in AllNodes(in)
        BY <1>3, <1>4, <4>1, <4>4, ScriptTells
      <4> QED  BY <1>10, <4>1, <4>2, <4>3, <4>5
    <3>6. AllNodes(in) \subseteq NodeNames(in)
      BY <1>3, AllNamed
    <3>7. ASSUME op.kind = "step.added" PROVE e.ref \notin NodeNames(in)
      BY <1>3, <2>2, <3>3, <3>7 DEF Lists, Apart, NodeNames
    <3>8. ASSUME op.kind = "round.planned" PROVE RoundId(e) \notin NodeNames(in)
      <4>1. PICK a \in DOMAIN in.cycle : op.ref = <<"cycle-round", a>>
        BY <3>3, <3>8 DEF Lists
      <4>2. RoundId(e) = <<"round", a>>
        BY <2>2, <4>1 DEF RoundId
      <4> QED  BY <1>3, <4>2 DEF Apart, NodeNames
    <3>9. ASSUME op.kind = "artifact.created"
          PROVE  /\ e.ref \in NodeNames(in)
                 /\ NodeType(in, e.ref) = IF e.type = "text_ml" THEN "text_theme" ELSE "analytical_artifact"
      <4>1. e.ref \in Artifacts(in)
        BY <2>2, <3>3, <3>9 DEF Lists
      <4>2. e.type = IF e.ref[1] = "analyze_text" THEN "text_ml" ELSE "analysis"
        BY <2>2, <3>9 DEF Type
      <4> QED  BY <1>3, <4>1, <4>2, ArtifactTypes
    <3>10. ASSUME op.kind \in {"node.added", "node.updated"}
           PROVE  e.ref \in NodeNames(in) /\ e.type = NodeType(in, e.ref) /\ e.type \notin OwnKinds
      <4>1. e.type = NodeType(in, e.ref)
        BY <2>2, <3>10 DEF Type
      <4>2. e.ref \in AllNodes(in)
        BY <2>2, <3>3, <3>5, <3>10
      <4> QED  BY <1>3, <3>6, <4>1, <4>2, NodeTypes
    <3>11. ASSUME op.kind = "node.updated"
           PROVE  \E l \in 1..(k - 1) : log[l].kind = "node.added" /\ log[l].ref = e.ref
      BY <2>2, <3>3, <3>5, <3>11
    <3>12. ASSUME op.kind = "edge.added"
           PROVE  /\ e.ref \in EdgeRef
                  /\ \A id \in e.ends : \E l \in 1..(k - 1) : log[l].kind = "node.added" /\ log[l].ref = id
      BY <2>2, <3>3, <3>5, <3>12
    <3> QED  BY <2>1, <2>2, <3>4, <3>7, <3>8, <3>9, <3>10, <3>11, <3>12 DEF Tells
  <2> QED  BY <1>9, <2>1, <2>3, <2>4
<1> QED  BY <1>1, <1>2, <1>6, <1>7, <1>8, <1>11 DEF Telling

\* The events of a run, f being the places in its script of m of them
Logged(r, s, log, n, f, m) ==
    LET closing == Closing(r, s) IN
    /\ m \in Nat /\ n = 1 + m + Len(closing) /\ log[1].kind = "run.started"
    /\ \A k \in 1..m : f[k] \in 1..(r.at - 1) /\ s[f[k]].do = "emit" /\ Says(r.in, log[1 + k], s[f[k]])
    /\ \A k \in 1..m, l \in 1..m : k < l => f[k] < f[l]
    /\ \A i \in 1..(r.at - 1) : s[i].do = "emit" => \E k \in 1..m : f[k] = i
    /\ IsList(closing) /\ \A c \in 1..Len(closing) : Says(r.in, log[1 + m + c], closing[c])

\* Each run has them.
LEMMA LogPicked ==
    ASSUME NEW i \in DOMAIN Runs
    PROVE  \E f, m : Logged(Runs[i], Script(Runs[i].in), Log(Runs[i]), Len(Log(Runs[i])), f, m)
<1>1. PICK r, in : r = Runs[i] /\ in = r.in
  OBVIOUS
<1>2. InputOK(in) /\ EndsAt(r, Script(in))
  BY <1>1, RunsOK
<1>3. PICK s : s = Script(in) /\ IsList(s)
  BY <1>2, ScriptList
<1>4. PICK ops : ops = Emitted(r, s)
  OBVIOUS
<1>5. PICK log, n : log = Log(r) /\ n = Len(log)
  OBVIOUS
<1>6. n = Len(ops) /\ n \in Nat /\ \A k \in 1..n : log[k] = Event(in, k, ops[k])
  BY <1>1, <1>3, <1>4, <1>5, LogIs, ListIs
<1>7. \A k \in 1..n : Says(in, log[k], ops[k])
  BY <1>6, EventSays
<1>8. PICK closing : closing = Closing(r, s)
  OBVIOUS
<1>9. PICK f, m :
           /\ IsList(closing) /\ Picked(f, m, s, r.at - 1, ops, 1)
           /\ ops[1].kind = "run.started"
           /\ Len(ops) = 1 + m + Len(closing)
           /\ \A c \in 1..Len(closing) : ops[1 + m + c] = closing[c]
  BY <1>2, <1>3, <1>4, <1>8, EmittedPicked
<1>10. PICK d \in Nat : d = Len(closing)
  BY <1>9, ListIs
<1>11. m \in Nat /\ n = 1 + m + d
  BY <1>6, <1>9, <1>10 DEF Picked
<1>12. log[1].kind = "run.started"
  <2>1. 1 \in 1..n
    BY <1>11
  <2> QED  BY <1>7, <1>9, <2>1 DEF Says
<1>13. ASSUME NEW k \in 1..m PROVE f[k] \in 1..(r.at - 1) /\ s[f[k]].do = "emit" /\ Says(in, log[1 + k], s[f[k]])
  <2>1. 1 + k \in 1..n
    BY <1>11
  <2> QED  BY <1>7, <1>9, <2>1 DEF Picked
<1>14. ASSUME NEW c \in 1..d PROVE Says(in, log[1 + m + c], closing[c])
  <2>1. 1 + m + c \in 1..n
    BY <1>11
  <2> QED  BY <1>7, <1>9, <1>10, <2>1
<1>15. /\ \A k \in 1..m, l \in 1..m : k < l => f[k] < f[l]
       /\ \A j \in 1..(r.at - 1) : s[j].do = "emit" => \E k \in 1..m : f[k] = j
  BY <1>9 DEF Picked
<1>16. Logged(r, s, log, n, f, m)
  BY <1>1, <1>8, <1>9, <1>10, <1>11, <1>12, <1>13, <1>14, <1>15 DEF Logged
<1> QED  BY <1>1, <1>3, <1>5, <1>16

\* Where an event of a log comes from: an end, or its place in the script
LEMMA LoggedFrom ==
    ASSUME NEW r, NEW s, NEW log, NEW n, NEW f, NEW m, Logged(r, s, log, n, f, m), NEW k \in 1..n
    PROVE  log[k].kind \in Endings \/ \E j \in 1..m : k = 1 + j
<1>1. PICK closing : closing = Closing(r, s)
  OBVIOUS
<1>2. PICK d \in Nat : d = Len(closing) /\ DOMAIN closing = 1..d
  BY <1>1, ListIs DEF Logged
<1>3. m \in Nat /\ n = 1 + m + d /\ \A c \in 1..d : Says(r.in, log[1 + m + c], closing[c])
  BY <1>1, <1>2 DEF Logged
<1>4. \A c \in 1..d : closing[c].kind \in Endings
  BY <1>1, <1>2, ClosingEnds DEF Ends
<1>5. CASE k = 1
  BY <1>5 DEF Logged, Endings
<1>6. CASE 1 < k /\ k <= 1 + m
  <2>1. k - 1 \in 1..m /\ k = 1 + (k - 1)
    BY <1>3, <1>6
  <2> QED  BY <2>1
<1>7. CASE 1 + m < k
  <2>1. PICK c : c = k - (1 + m)
    OBVIOUS
  <2>2. c \in 1..d /\ k = 1 + m + c
    BY <1>3, <1>7, <2>1
  <2>3. log[k].kind = closing[c].kind
    BY <1>3, <2>2 DEF Says
  <2> QED  BY <1>4, <2>2, <2>3
<1> QED  BY <1>3, <1>5, <1>6, <1>7

\* What the script emits before the run ends is in the log.
LEMMA LoggedHas ==
    ASSUME NEW r, NEW s, NEW log, NEW n, NEW f, NEW m, Logged(r, s, log, n, f, m),
           NEW i \in 1..(r.at - 1), s[i].do = "emit"
    PROVE  \E j \in 1..m : f[j] = i /\ 1 + j \in 1..n /\ log[1 + j].kind = s[i].kind /\ log[1 + j].ref = s[i].ref
<1>1. PICK j \in 1..m : f[j] = i
  BY DEF Logged
<1>2. m \in Nat /\ n = 1 + m + Len(Closing(r, s)) /\ Len(Closing(r, s)) \in Nat
  BY ListIs DEF Logged
<1>3. 1 + j \in 1..n
  BY <1>2
<1>4. log[1 + j].kind = s[i].kind /\ log[1 + j].ref = s[i].ref
  BY <1>1 DEF Logged, Says
<1> QED  BY <1>1, <1>3, <1>4

\* No node is announced twice.
LEMMA NodeOnce ==
    ASSUME NEW in, InputOK(in), Unambiguous(in), NEW s, s = Script(in),
           NEW i \in DOMAIN s, NEW j \in DOMAIN s, Emitting(s[i], "node.added"), Emitting(s[j], "node.added"),
           s[i].ref = s[j].ref
    PROVE  i = j
<1>1. s \in Showing(in) /\ Builds({}, s, AllNodes(in))
  BY ScriptShows, ScriptBuilds
<1>2. s \in Seq(Op) /\ \A k \in DOMAIN s : Shows(in, s, k)
  BY <1>1 DEF Showing
<1>3. Len(s) \in Nat /\ DOMAIN s = 1..Len(s)
  BY <1>2
<1>4. ASSUME NEW k \in DOMAIN s, Emitting(s[k], "node.added")
      PROVE  k - 1 \in DOMAIN s /\ SavesNode(s[k - 1]) /\ s[k - 1].ref = s[k].ref
  <2>1. k > 1 /\ SaidOf(s[k - 1], s[k])
    BY <1>2, <1>4 DEF Shows, Emitting, GraphKinds
  <2> QED  BY <1>3, <1>4, <2>1 DEF SaidOf, SavesNode, Emitting
<1>5. ASSUME NEW k \in DOMAIN s, NEW l \in DOMAIN s, k < l,
             Emitting(s[k], "node.added"), Emitting(s[l], "node.added"), s[k].ref = s[l].ref
      PROVE  FALSE
  <2>1. SavesNode(s[k - 1]) /\ SavesNode(s[l - 1]) /\ s[k - 1].ref = s[l - 1].ref /\ l - 1 \in DOMAIN s /\ k - 1 \in DOMAIN s
    BY <1>4, <1>5
  <2>2. k - 1 \in 1..((l - 1) - 1)
    BY <1>3, <1>5, <2>1
  <2>3. s[l - 1].ref \in Known({}, s, l - 1)
    BY <2>1, <2>2 DEF Known
  <2>4. s[l - 1].ref \notin Known({}, s, l - 1)
    BY <1>1, <2>1 DEF Builds
  <2> QED  BY <2>3, <2>4
<1>6. i \in Nat /\ j \in Nat /\ ~(i < j) /\ ~(j < i)
  BY <1>3, <1>5
<1> QED  BY <1>6

\* What the script emits once is once in the log.
LEMMA LoggedOnce ==
    ASSUME NEW r, NEW s, NEW log, NEW n, NEW f, NEW m, Logged(r, s, log, n, f, m), NEW kind, kind \notin Endings,
           \A i, j \in 1..(r.at - 1) :
               Emitting(s[i], kind) /\ Emitting(s[j], kind) /\ s[i].ref = s[j].ref => i = j,
           NEW k \in 1..n, NEW l \in 1..n, log[k].kind = kind, log[l].kind = kind, log[k].ref = log[l].ref
    PROVE  k = l
<1>1. PICK a \in 1..m : k = 1 + a
  BY LoggedFrom
<1>2. PICK b \in 1..m : l = 1 + b
  BY LoggedFrom
<1>3. m \in Nat
  BY DEF Logged
<1>4. /\ f[a] \in 1..(r.at - 1) /\ s[f[a]].do = "emit" /\ s[f[a]].kind = kind /\ s[f[a]].ref = log[k].ref
      /\ f[b] \in 1..(r.at - 1) /\ s[f[b]].do = "emit" /\ s[f[b]].kind = kind /\ s[f[b]].ref = log[l].ref
  BY <1>1, <1>2 DEF Logged, Says
<1>5. f[a] = f[b]
  BY <1>4 DEF Emitting
<1>6. (a < b => f[a] < f[b]) /\ (b < a => f[b] < f[a])
  BY DEF Logged
<1>7. ~(a < b) /\ ~(b < a)
  BY <1>4, <1>5, <1>6
<1>8. a = b
  BY <1>3, <1>7
<1> QED  BY <1>1, <1>2, <1>8

(* What a whole log tells of its run.                                       *)
Occurs(log, n, kind, ref) == \E k \in 1..n : log[k].kind = kind /\ log[k].ref = ref
\* Each round is completed once, with its artifact, and each step is announced.
Listens(in, log, n) ==
    /\ \A i \in DOMAIN in.cycle :
           /\ Occurs(log, n, "round.completed", <<"cycle-round", i>>)
           /\ IsCall(in.cycle[i]) => Occurs(log, n, "artifact.created", Id(in.cycle[i].call))
    /\ \A i \in DOMAIN in.steps : Occurs(log, n, "step.added", Id(in.steps[i].id))
    /\ \A k \in 1..n : log[k].kind = "round.completed" =>
           \E i \in DOMAIN in.cycle : /\ log[k].ref = <<"cycle-round", i>>
                                      /\ log[k].artifacts = IF IsCall(in.cycle[i]) THEN 1 ELSE 0
    /\ \A k, l \in 1..n : log[k].kind \in Counted /\ log[l].kind = log[k].kind /\ log[l].ref = log[k].ref => k = l
    /\ \A k \in 1..n : log[k].kind = "conflict.detected" =>
           \E j \in 1..(k - 1) : log[j].kind = "edge.added" /\ log[j].ref = log[k].ref
\* The report is announced for the first time when nothing is added any more.
Delivers(log, n) ==
    /\ \E k \in 1..n : log[k].kind = "report.generated"
    /\ \E q \in 1..n :
           /\ log[q].kind = "node.added" /\ log[q].ref = Reported
           /\ \A k \in 1..(q - 1) : log[k].kind \in {"node.added", "artifact.created"} => log[k].ref # Reported
           /\ \A k \in (q + 1)..n : log[k].kind \notin Adders
\* The last three events are those of a tool that failed.
Fails(log, n) ==
    /\ n > 3 /\ log[n - 2].kind = "tool.failed"
    /\ log[n - 1].kind = "step.failed" /\ log[n - 1].ref = log[n - 2].ref
    /\ log[n].kind = "run.failed"

\* The events of the plan and the cycle
LEMMA LogListens ==
    ASSUME NEW r, NEW in, in = r.in, InputOK(in), Unambiguous(in), NEW s, s = Script(in), EndsAt(r, s),
           NEW log, NEW n, NEW f, NEW m, Logged(r, s, log, n, f, m)
    PROVE  Listens(in, log, n)
<1>1. PICK N : N = Len(s) /\ N \in Nat /\ DOMAIN s = 1..N /\ s \in Seq(Op)
  BY ScriptList
<1>2. r.at \in 1..(N + 1)
  BY <1>1 DEF EndsAt
<1>3. r.at \in DOMAIN s \/ r.at = Len(s) + 1
  BY <1>1, <1>2
<1>4. r.at \in DOMAIN s => s[r.at].do \in {"poll", "invoke"}
  BY <1>1 DEF EndsAt
<1>5. PICK at : at = r.at /\ Begun(in, s, at)
  BY <1>3, <1>4, ScriptHas
<1>6. \A kind, ref : Before(s, at, kind, ref) => Occurs(log, n, kind, ref)
  BY <1>5, LoggedHas DEF Before, Emitting, Occurs
<1>7. /\ \A i \in DOMAIN in.cycle :
             /\ Occurs(log, n, "round.completed", <<"cycle-round", i>>)
             /\ IsCall(in.cycle[i]) => Occurs(log, n, "artifact.created", Id(in.cycle[i].call))
      /\ \A i \in DOMAIN in.steps : Occurs(log, n, "step.added", Id(in.steps[i].id))
  BY <1>5, <1>6 DEF Begun
<1>8. 1..(r.at - 1) \subseteq 1..N
  BY <1>1, <1>2
<1>9. PICK rounds, conflicts : rounds = "round.completed" /\ conflicts = "conflict.detected"
  OBVIOUS
<1>10. Numbers(rounds, 0, s, Len(in.cycle))
  BY <1>9, ScriptRounds DEF Upto
<1>11. Numbers(conflicts, 0, s, in.claims * (Claims(in) + 1))
  BY <1>9, ScriptConflicts DEF Upto
<1>12. ASSUME NEW k \in 1..n, log[k].kind = "round.completed"
       PROVE  \E i \in DOMAIN in.cycle : /\ log[k].ref = <<"cycle-round", i>>
                                         /\ log[k].artifacts = IF IsCall(in.cycle[i]) THEN 1 ELSE 0
  <2>1. PICK a \in 1..m : k = 1 + a
    BY <1>12, LoggedFrom DEF Endings
  <2>2. PICK op : op = s[f[a]] /\ f[a] \in 1..N /\ op.do = "emit" /\ Says(in, log[k], op)
    BY <1>8, <2>1 DEF Logged
  <2>3. op.kind = rounds /\ op.ref = log[k].ref
    BY <1>9, <1>12, <2>2 DEF Says
  <2>4. PICK i \in (0 + 1)..Len(in.cycle) : op.ref = Mark(rounds, i)
    BY <1>1, <1>10, <2>2, <2>3 DEF Numbers, Emitting
  <2>5. op.ref = <<"cycle-round", i>> /\ op.ref[2] = i
    BY <1>9, <2>4 DEF Mark
  <2>6. i \in DOMAIN in.cycle
    BY <2>4 DEF InputOK
  <2>7. log[k].artifacts = IF IsCall(in.cycle[i]) THEN 1 ELSE 0
    BY <1>9, <2>2, <2>3, <2>5 DEF Says
  <2> QED  BY <2>3, <2>5, <2>6, <2>7
<1>13. ASSUME NEW k \in 1..n, NEW l \in 1..n,
              log[k].kind \in Counted, log[l].kind = log[k].kind, log[l].ref = log[k].ref
       PROVE  k = l
  <2>1. PICK kind : kind = log[k].kind
    OBVIOUS
  <2>2. kind \notin Endings /\ kind \in {rounds, conflicts}
    BY <1>9, <1>13, <2>1 DEF Counted, Endings
  <2>3. \A i, j \in DOMAIN s : Emitting(s[i], kind) /\ Emitting(s[j], kind) /\ s[i].ref = s[j].ref => i = j
    BY <1>10, <1>11, <2>2 DEF Numbers
  <2>4. \A i, j \in 1..(r.at - 1) : Emitting(s[i], kind) /\ Emitting(s[j], kind) /\ s[i].ref = s[j].ref => i = j
    BY <1>1, <1>8, <2>3
  <2> QED  BY <1>13, <2>1, <2>2, <2>4, LoggedOnce
<1>14. ASSUME NEW k \in 1..n, log[k].kind = "conflict.detected"
       PROVE  \E j \in 1..(k - 1) : log[j].kind = "edge.added" /\ log[j].ref = log[k].ref
  <2>1. PICK a \in 1..m : k = 1 + a
    BY <1>14, LoggedFrom DEF Endings
  <2>2. f[a] \in 1..(r.at - 1) /\ s[f[a]].do = "emit" /\ s[f[a]].kind = conflicts /\ s[f[a]].ref = log[k].ref
    BY <1>9, <1>14, <2>1 DEF Logged, Says
  <2>3. Joined(s, f[a])
    BY <1>1, <1>8, <1>9, <1>11, <2>2 DEF Numbers, Emitting
  <2>4. PICK i \in 1..(f[a] - 1) : Emitting(s[i], "edge.added") /\ s[i].ref = s[f[a]].ref
    BY <2>3 DEF Joined
  <2>5. i \in 1..(r.at - 1) /\ i < f[a]
    BY <1>2, <2>2
  <2>6. PICK b \in 1..m : f[b] = i /\ log[1 + b].kind = "edge.added" /\ log[1 + b].ref = s[i].ref
    BY <2>4, <2>5, LoggedHas DEF Emitting
  <2>7. a < b => f[a] < f[b]
    BY DEF Logged
  <2>8. b # a /\ ~(a < b) /\ m \in Nat
    BY <1>2, <2>2, <2>5, <2>6, <2>7 DEF Logged
  <2>9. 1 + b \in 1..(k - 1)
    BY <2>1, <2>8
  <2> QED  BY <2>2, <2>4, <2>6, <2>9
<1> QED  BY <1>7, <1>12, <1>13, <1>14 DEF Listens

\* A run that completes delivers its report,
LEMMA LogDelivers ==
    ASSUME NEW r, NEW in, in = r.in, InputOK(in), Unambiguous(in), NEW s, s = Script(in), EndsAt(r, s),
           NEW log, NEW n, NEW f, NEW m, Logged(r, s, log, n, f, m), r.end = "completed"
    PROVE  Delivers(log, n)
<1>1. PICK N : N = Len(s) /\ N \in Nat /\ DOMAIN s = 1..N /\ s \in Seq(Op)
  BY ScriptList
<1>2. r.at - 1 = N
  BY <1>1 DEF EndsAt
<1>3. AddsLast(s) /\ Has(s, "report.generated", Id("graph"))
  BY ScriptEnds
<1>4. \E k \in 1..n : log[k].kind = "report.generated"
  <2>1. PICK l \in 1..(r.at - 1) : s[l].do = "emit" /\ s[l].kind = "report.generated"
    BY <1>1, <1>2, <1>3 DEF Has, Emitting
  <2> QED  BY <2>1, LoggedHas
<1>5. PICK q \in 1..N : /\ Emitting(s[q], "node.added") /\ s[q].ref = Reported
                        /\ \A l \in 1..N : l > q => ~Adding(s[l])
  BY <1>1, <1>3 DEF AddsLast
<1>6. PICK a \in 1..m : f[a] = q /\ 1 + a \in 1..n /\ log[1 + a].kind = "node.added" /\ log[1 + a].ref = Reported
  BY <1>2, <1>5, LoggedHas DEF Emitting
<1>7. m \in Nat /\ n \in Nat
  BY ListIs DEF Logged
<1>8. ASSUME NEW k \in 1..n, log[k].kind \in Adders
      PROVE  \E b \in 1..m : /\ k = 1 + b /\ f[b] \in 1..N /\ Emitting(s[f[b]], log[k].kind)
                             /\ s[f[b]].ref = log[k].ref /\ (a < b => q < f[b]) /\ (b < a => f[b] < q)
  <2>1. PICK b \in 1..m : k = 1 + b
    BY <1>8, LoggedFrom DEF Endings, Adders
  <2>2. f[b] \in 1..N /\ s[f[b]].do = "emit" /\ s[f[b]].kind = log[k].kind /\ s[f[b]].ref = log[k].ref
    BY <1>2, <2>1 DEF Logged, Says
  <2>3. (a < b => f[a] < f[b]) /\ (b < a => f[b] < f[a])
    BY DEF Logged
  <2> QED  BY <1>6, <2>1, <2>2, <2>3 DEF Emitting
<1>9. ASSUME NEW k \in (1 + a + 1)..n PROVE log[k].kind \notin Adders
  <2>1. SUFFICES ASSUME log[k].kind \in Adders PROVE FALSE
    OBVIOUS
  <2>2. k \in 1..n
    BY <1>7
  <2>3. PICK b \in 1..m : k = 1 + b /\ f[b] \in 1..N /\ Emitting(s[f[b]], log[k].kind) /\ (a < b => q < f[b])
    BY <1>8, <2>1, <2>2
  <2>4. a < b
    BY <1>7, <2>3
  <2>5. f[b] > q
    BY <2>3, <2>4
  <2> QED  BY <1>5, <2>1, <2>3, <2>5 DEF Adding, Emitting
<1>10. ASSUME NEW k \in 1..((1 + a) - 1), log[k].kind \in {"node.added", "artifact.created"}, log[k].ref = Reported
       PROVE  FALSE
  <2>1. k \in 1..n /\ log[k].kind \in Adders
    BY <1>6, <1>7, <1>10 DEF Adders
  <2>2. PICK b \in 1..m : /\ k = 1 + b /\ f[b] \in 1..N /\ Emitting(s[f[b]], log[k].kind)
                          /\ s[f[b]].ref = Reported /\ (b < a => f[b] < q)
    BY <1>8, <1>10, <2>1
  <2>3. b < a
    BY <1>7, <2>2
  <2>4. CASE log[k].kind = "node.added"
    <3>1. f[b] = q
      BY <1>1, <1>5, <2>2, <2>4, NodeOnce
    <3> QED  BY <2>2, <2>3, <3>1
  <2>5. CASE log[k].kind = "artifact.created"
    <3>1. PICK op : op = s[f[b]] /\ op.do = "emit" /\ op.kind = "artifact.created" /\ op.ref = Reported /\ f[b] \in DOMAIN s
      BY <1>1, <2>2, <2>5 DEF Emitting
    <3>2. Lists(in, op)
      BY <3>1, ScriptTells
    <3>3. Reported \in Artifacts(in)
      BY <3>1, <3>2 DEF Lists
    <3>4. PICK i \in DOMAIN in.cycle : Id("analysis-report") = Id(in.cycle[i].call)
      BY <3>3 DEF Artifacts, Calls, Reported
    <3>5. in.cycle[i].call = "analysis-report"
      BY <3>4 DEF Id
    <3> QED  BY <3>5 DEF InputOK, EngineNodes
  <2> QED  BY <1>10, <2>4, <2>5
<1> QED  BY <1>4, <1>6, <1>9, <1>10 DEF Delivers

\* and one that fails says so, of its tool and its step.
LEMMA LogFails ==
    ASSUME NEW r, NEW s, NEW log, NEW n, NEW f, NEW m, Logged(r, s, log, n, f, m), r.end = "failed"
    PROVE  Fails(log, n)
<1>1. PICK step : step = s[r.at].ref
  OBVIOUS
<1>2. PICK a, b, c : a = [do |-> "emit", kind |-> "tool.failed", ref |-> step, ends |-> {}]
                     /\ b = [do |-> "emit", kind |-> "step.failed", ref |-> step, ends |-> {}]
                     /\ c = [do |-> "emit", kind |-> "run.failed", ref |-> None, ends |-> {}]
  OBVIOUS
<1>3. Closing(r, s) = <<a>> \o <<b>> \o <<c>>
  <2>1. Closing(r, s) = Emit("tool.failed", step) \o Emit("step.failed", step) \o Emit("run.failed", None)
    BY <1>1 DEF Closing
  <2>2. Emit("tool.failed", step) = <<a>> /\ Emit("step.failed", step) = <<b>> /\ Emit("run.failed", None) = <<c>>
    BY <1>2 DEF Emit
  <2> QED  BY <2>1, <2>2
<1>4. PICK x, y, z : x = <<a>> /\ y = <<b>> /\ z = <<c>>
  OBVIOUS
<1>5. PICK closing : closing = Closing(r, s) /\ Len(closing) = 3
                     /\ closing[1] = a /\ closing[2] = b /\ closing[3] = c
  <2>1. \A op : <<op>> \in Seq({op}) /\ Len(<<op>>) = 1 /\ <<op>>[1] = op
    OBVIOUS
  <2>2. /\ IsList(x) /\ Len(x) = 1 /\ x[1] = a /\ IsList(y) /\ Len(y) = 1 /\ y[1] = b
        /\ IsList(z) /\ Len(z) = 1 /\ z[1] = c
    BY <1>4, <2>1 DEF IsList
  <2>3. PICK d : d = x \o y
    OBVIOUS
  <2>4. /\ IsList(d) /\ Len(d) = Len(x) + Len(y)
        /\ \A i \in 1..Len(x) : d[i] = x[i]
        /\ \A i \in 1..Len(y) : d[Len(x) + i] = y[i]
    <3>1. IsList(x) /\ IsList(y)
      BY <2>2
    <3> QED  BY <2>3, <3>1, ConcatList
  <2>5. IsList(d) /\ Len(d) = 2 /\ d[1] = a /\ d[2] = b
    BY <2>2, <2>4
  <2>6. PICK e : e = d \o z
    OBVIOUS
  <2>7. /\ Len(e) = Len(d) + Len(z)
        /\ \A i \in 1..Len(d) : e[i] = d[i]
        /\ \A i \in 1..Len(z) : e[Len(d) + i] = z[i]
    <3>1. IsList(d) /\ IsList(z)
      BY <2>2, <2>5
    <3> QED  BY <2>6, <3>1, ConcatList
  <2>8. Len(e) = 3 /\ e[1] = a /\ e[2] = b /\ e[3] = c
    BY <2>2, <2>5, <2>7
  <2>9. e = Closing(r, s)
    BY <1>3, <1>4, <2>3, <2>6
  <2> QED  BY <2>8, <2>9
<1>6. m \in Nat /\ n = 1 + m + 3 /\ \A k \in 1..3 : Says(r.in, log[1 + m + k], closing[k])
  BY <1>5 DEF Logged
<1>7. 1 + m + 1 = n - 2 /\ 1 + m + 2 = n - 1 /\ 1 + m + 3 = n /\ n > 3
  BY <1>6
<1>8. Says(r.in, log[n - 2], a) /\ Says(r.in, log[n - 1], b) /\ Says(r.in, log[n], c)
  BY <1>5, <1>6, <1>7
<1> QED  BY <1>2, <1>7, <1>8 DEF Says, Fails

\* The whole log of a run whose names are apart
LEMMA LogWhole ==
    ASSUME NEW i \in DOMAIN Runs, Apart(Runs[i].in)
    PROVE  LET r == Runs[i]  log == Log(r)  n == Len(log) IN
           /\ Listens(r.in, log, n)
           /\ r.end = "completed" => Delivers(log, n)
           /\ r.end = "failed" => Fails(log, n)
<1>1. PICK r, in, s : r = Runs[i] /\ in = r.in /\ s = Script(in)
  OBVIOUS
<1>2. InputOK(in) /\ EndsAt(r, s) /\ Unambiguous(in)
  BY <1>1, RunsOK DEF Apart
<1>3. PICK log, n : log = Log(r) /\ n = Len(log)
  OBVIOUS
<1>4. PICK f, m : Logged(r, s, log, n, f, m)
  BY <1>1, <1>3, LogPicked
<1>5. Listens(in, log, n)
  BY <1>1, <1>2, <1>4, LogListens
<1>6. r.end = "completed" => Delivers(log, n)
  BY <1>1, <1>2, <1>4, LogDelivers
<1>7. r.end = "failed" => Fails(log, n)
  BY <1>4, LogFails
<1> QED  BY <1>1, <1>3, <1>5, <1>6, <1>7

(****************************************************************************)
(* The progress, counted event by event.                                    *)
(****************************************************************************)
Advance(done, e) ==
    IF e.kind # "round.completed" THEN done
    ELSE [rounds |-> Max({done.rounds, e.ref[2]}), artifacts |-> done.artifacts + e.artifacts]
NoProgress == [rounds |-> 0, artifacts |-> 0]
Counting(log, f, n) == f = [s \in SUBSET (1..n) |->
    IF s = {} THEN NoProgress ELSE Advance(f[s \ {Max(s)}], log[Max(s)])]

\* There is such a fold, the set of positions being finite,
LEMMA Countings ==
    ASSUME NEW log, NEW n \in Nat
    PROVE  \E f : Counting(log, f, n)
<1> DEFINE Good == {m \in 0..n : \E f : Counting(log, f, m)}
<1>1. 0 \in Good
  <2>1. PICK f : f = [s \in SUBSET (1..0) |-> NoProgress]
    OBVIOUS
  <2>2. \A s \in SUBSET (1..0) : s = {}
    OBVIOUS
  <2>3. Counting(log, f, 0)
    BY <2>1, <2>2 DEF Counting
  <2> QED  BY <2>3
<1>2. ASSUME NEW m \in 0..(n - 1), m \in Good PROVE m + 1 \in Good
  <2>1. PICK f : Counting(log, f, m)
    BY <1>2
  <2> DEFINE N(g, s) == Advance(g[s \ {Max(s)}], log[Max(s)])
  <2>2. PICK g : g = [s \in SUBSET (1..(m + 1)) |-> IF m + 1 \in s THEN N(f, s) ELSE f[s]]
    OBVIOUS
  <2>3. ASSUME NEW s \in SUBSET (1..(m + 1)) PROVE g[s] = IF s = {} THEN NoProgress ELSE N(g, s)
    <3>1. CASE m + 1 \in s
      <4>1. Max(s) = m + 1
        BY <3>1, MaxIs
      <4>2. s \ {Max(s)} \in SUBSET (1..(m + 1)) /\ m + 1 \notin s \ {Max(s)}
        BY <4>1
      <4>3. g[s \ {Max(s)}] = f[s \ {Max(s)}]
        BY <2>2, <4>2
      <4> QED  BY <2>2, <3>1, <4>3
    <3>2. CASE m + 1 \notin s
      <4>0. \A i \in 1..(m + 1) : i # m + 1 => i \in 1..m
        OBVIOUS
      <4>1. s \in SUBSET (1..m) /\ s \ {Max(s)} \in SUBSET (1..m)
        BY <3>2, <4>0
      <4>2. g[s] = f[s]
        BY <2>2, <3>2
      <4>3. g[s \ {Max(s)}] = f[s \ {Max(s)}]
        BY <2>2, <3>2
      <4>4. f[s] = IF s = {} THEN NoProgress ELSE N(f, s)
        BY <2>1, <4>1 DEF Counting
      <4> QED  BY <4>2, <4>3, <4>4
    <3> QED  BY <3>1, <3>2
  <2>4. Counting(log, g, m + 1)
    <3> HIDE DEF N
    <3>1. g = [s \in SUBSET (1..(m + 1)) |-> g[s]]
      BY <2>2
    <3>2. g = [s \in SUBSET (1..(m + 1)) |-> IF s = {} THEN NoProgress ELSE N(g, s)]
      BY <2>3, <3>1
    <3> QED  BY <3>2 DEF Counting, N
  <2>5. m + 1 \in 0..n
    OBVIOUS
  <2> QED  BY <2>4, <2>5
<1>3. \A i \in 0..n : i \in Good
  <2> HIDE DEF Good
  <2> QED  BY <1>1, <1>2, UpTo
<1>4. n \in 0..n
  OBVIOUS
<1> QED  BY <1>3, <1>4

\* and FoldLeft is one.
LEMMA ProgressFold ==
    ASSUME NEW log, NEW n \in Nat, DOMAIN log = 1..n
    PROVE  \E f : Counting(log, f, n) /\ CycleProgress(log) = f[1..n]
<1>1. PICK f : f = CHOOSE g : Counting(log, g, n)
  OBVIOUS
<1>2. Counting(log, f, n)
  BY <1>1, Countings
<1>3. CycleProgress(log) = f[1..n]
  BY <1>1 DEF CycleProgress, FoldLeft, MapThenFoldSet, Counting, Advance, NoProgress
<1> QED  BY <1>2, <1>3

\* The progress of each prefix of the events follows from the one before.
LEMMA ProgressIs ==
    ASSUME NEW log, NEW n \in Nat, DOMAIN log = 1..n
    PROVE  \E f : /\ f[0] = NoProgress /\ CycleProgress(log) = f[n]
                  /\ \A m \in 0..(n - 1) : f[m + 1] = Advance(f[m], log[m + 1])
<1>1. PICK f : Counting(log, f, n) /\ CycleProgress(log) = f[1..n]
  BY ProgressFold
<1>2. PICK g : g = [m \in 0..n |-> f[1..m]]
  OBVIOUS
<1>3. g[0] = NoProgress
  <2>1. 1..0 = {} /\ 1..0 \in SUBSET (1..n) /\ 0 \in 0..n
    OBVIOUS
  <2>2. f[1..0] = NoProgress
    BY <1>1, <2>1 DEF Counting
  <2> QED  BY <1>2, <2>1, <2>2
<1>4. ASSUME NEW m \in 0..(n - 1) PROVE g[m + 1] = Advance(g[m], log[m + 1])
  <2>0. m \in Nat /\ m + 1 <= n /\ m \in 0..n /\ m + 1 \in 0..n
    OBVIOUS
  <2>1. 1..(m + 1) \in SUBSET (1..n) /\ m + 1 \in 1..(m + 1)
    <3>1. m + 1 \in 1..(m + 1)
      BY <2>0
    <3>2. \A i \in 1..(m + 1) : i \in 1..n
      BY <2>0
    <3> QED  BY <3>1, <3>2
  <2>2. Max(1..(m + 1)) = m + 1
    BY <2>0, <2>1, MaxIs
  <2>3. (1..(m + 1)) \ {m + 1} = 1..m
    OBVIOUS
  <2>4. PICK s : s = 1..(m + 1)
    OBVIOUS
  <2>5. f[s] = Advance(f[s \ {Max(s)}], log[Max(s)])
    BY <1>1, <2>1, <2>4 DEF Counting
  <2>6. Max(s) = m + 1 /\ s \ {Max(s)} = 1..m
    BY <2>2, <2>3, <2>4
  <2>7. f[1..(m + 1)] = Advance(f[1..m], log[m + 1])
    BY <2>4, <2>5, <2>6
  <2> QED  BY <1>2, <2>0, <2>7
<1>5. n \in 0..n
  OBVIOUS
<1> QED  BY <1>1, <1>2, <1>3, <1>4, <1>5

\* The rounds that are completed by some of the events, and their artifacts
Completed(log, m, i) == Occurs(log, m, "round.completed", <<"cycle-round", i>>)
Made(in, log, m) == {id \in Artifacts(in) :
    \E i \in DOMAIN in.cycle : id = Id(in.cycle[i].call) /\ Completed(log, m, i)}
Progressed(in, log, m, done) ==
    /\ done = [rounds |-> done.rounds, artifacts |-> done.artifacts]
    /\ done.rounds \in 0..Len(in.cycle) /\ \A i \in DOMAIN in.cycle : Completed(log, m, i) => i <= done.rounds
    /\ IsFiniteSet(Made(in, log, m)) /\ done.artifacts = Cardinality(Made(in, log, m))

\* One event more
LEMMA OccursNext ==
    ASSUME NEW log, NEW m \in Nat, NEW kind, NEW ref
    PROVE  Occurs(log, m + 1, kind, ref) <=>
               Occurs(log, m, kind, ref) \/ (log[m + 1].kind = kind /\ log[m + 1].ref = ref)
<1>1. \A k \in 1..(m + 1) : k \in 1..m \/ k = m + 1
  OBVIOUS
<1>2. m + 1 \in 1..(m + 1) /\ \A k \in 1..m : k \in 1..(m + 1)
  OBVIOUS
<1> QED  BY <1>1, <1>2 DEF Occurs

\* The greater of two numbers
LEMMA MaxOfTwo ==
    ASSUME NEW a \in Nat, NEW b \in Nat
    PROVE  Max({a, b}) \in {a, b} /\ Max({a, b}) >= a /\ Max({a, b}) >= b
<1>1. \E x \in {a, b} : \A y \in {a, b} : x >= y
  OBVIOUS
<1> QED  BY <1>1 DEF Max

\* One event more that completes a round
LEMMA RoundCounts ==
    ASSUME NEW in, InputOK(in), Unambiguous(in), NEW log, NEW m \in Nat, NEW done, Progressed(in, log, m, done),
           NEW i \in DOMAIN in.cycle, log[m + 1].kind = "round.completed", log[m + 1].ref = <<"cycle-round", i>>,
           log[m + 1].artifacts = IF IsCall(in.cycle[i]) THEN 1 ELSE 0, ~Completed(log, m, i)
    PROVE  Progressed(in, log, m + 1, Advance(done, log[m + 1]))
<1>1. in.cycle \in Seq([call : Names, prior : SUBSET Names]) /\ Len(in.cycle) \in Nat /\ i \in 1..Len(in.cycle)
  BY DEF InputOK
<1>2. \A j \in DOMAIN in.cycle : Completed(log, m + 1, j) <=> Completed(log, m, j) \/ j = i
  <2>1. \A j \in DOMAIN in.cycle : <<"cycle-round", i>> = <<"cycle-round", j>> <=> i = j
    OBVIOUS
  <2> QED  BY <2>1, OccursNext DEF Completed
<1>3. PICK next : next = Advance(done, log[m + 1])
  OBVIOUS
<1>4. PICK top : top = Max({done.rounds, i})
  OBVIOUS
<1>5. done.rounds \in Nat /\ done.rounds <= Len(in.cycle)
  BY <1>1 DEF Progressed
<1>6. top \in {done.rounds, i} /\ top >= done.rounds /\ top >= i
  BY <1>1, <1>4, <1>5, MaxOfTwo
<1>7. log[m + 1].ref[2] = i
  OBVIOUS
<1>8. next = [rounds |-> top, artifacts |-> done.artifacts + log[m + 1].artifacts]
  BY <1>3, <1>4, <1>7 DEF Advance
<1>9. next.rounds = top /\ next.artifacts = done.artifacts + log[m + 1].artifacts
      /\ next = [rounds |-> next.rounds, artifacts |-> next.artifacts]
  BY <1>8
<1>10. next.rounds \in 0..Len(in.cycle)
  BY <1>1, <1>5, <1>6, <1>9
<1>11. \A j \in DOMAIN in.cycle : Completed(log, m + 1, j) => j <= next.rounds
  <2>1. ASSUME NEW j \in DOMAIN in.cycle, Completed(log, m, j) PROVE j <= top
    <3>1. j \in Nat /\ j <= done.rounds
      BY <1>1, <2>1 DEF Progressed
    <3> QED  BY <1>1, <1>5, <1>6, <3>1
  <2>2. i <= top
    BY <1>1, <1>5, <1>6
  <2> QED  BY <1>2, <1>9, <2>1, <2>2
<1>12. IsFiniteSet(Made(in, log, m)) /\ done.artifacts = Cardinality(Made(in, log, m))
  BY DEF Progressed
<1>13. Cardinality(Made(in, log, m)) \in Nat
  BY <1>12, FS_CardinalityType
<1>14. CASE IsCall(in.cycle[i])
  <2>1. Id(in.cycle[i].call) \in Artifacts(in)
    BY <1>14 DEF IsCall, Artifacts, Calls
  <2>2. \A j \in DOMAIN in.cycle : Id(in.cycle[i].call) = Id(in.cycle[j].call) => i = j
    BY <1>14 DEF Id, Unambiguous, Repeats
  <2>3. Id(in.cycle[i].call) \notin Made(in, log, m)
    BY <2>2 DEF Made
  <2>4. Made(in, log, m + 1) = Made(in, log, m) \cup {Id(in.cycle[i].call)}
    BY <1>2, <2>1 DEF Made
  <2>5. IsFiniteSet(Made(in, log, m + 1)) /\ Cardinality(Made(in, log, m + 1)) = Cardinality(Made(in, log, m)) + 1
    BY <1>12, <2>3, <2>4, FS_AddElement
  <2>6. next.artifacts = Cardinality(Made(in, log, m + 1))
    BY <1>9, <1>12, <1>14, <2>5
  <2> QED  BY <1>3, <1>9, <1>10, <1>11, <2>5, <2>6 DEF Progressed
<1>15. CASE ~IsCall(in.cycle[i])
  <2>1. Id(in.cycle[i].call) \notin Artifacts(in)
    BY <1>15 DEF IsCall, Artifacts, Calls, Id
  <2>2. Made(in, log, m + 1) = Made(in, log, m)
    BY <1>2, <2>1 DEF Made
  <2>3. next.artifacts = Cardinality(Made(in, log, m + 1))
    BY <1>9, <1>12, <1>13, <1>15, <2>2
  <2> QED  BY <1>3, <1>9, <1>10, <1>11, <1>12, <2>2, <2>3 DEF Progressed
<1> QED  BY <1>14, <1>15

\* The progress of a whole run is that of all rounds and their artifacts.
LEMMA ProgressCounts ==
    ASSUME NEW in, InputOK(in), Unambiguous(in), NEW log, NEW n \in Nat, DOMAIN log = 1..n, Listens(in, log, n)
    PROVE  /\ CycleProgress(log).rounds = Len(in.cycle)
           /\ CycleProgress(log).artifacts = Cardinality(Artifacts(in))
<1>1. PICK f : /\ f[0] = NoProgress /\ CycleProgress(log) = f[n]
               /\ \A m \in 0..(n - 1) : f[m + 1] = Advance(f[m], log[m + 1])
  BY ProgressIs
<1>2. in.cycle \in Seq([call : Names, prior : SUBSET Names]) /\ Len(in.cycle) \in Nat /\ DOMAIN in.cycle = 1..Len(in.cycle)
  BY DEF InputOK
<1> DEFINE Good == {m \in 0..n : Progressed(in, log, m, f[m])}
<1>3. 0 \in Good
  <2>1. 1..0 = {} /\ 0 \in 0..n
    OBVIOUS
  <2>2. \A i : ~Completed(log, 0, i)
    BY <2>1 DEF Completed, Occurs
  <2>3. Made(in, log, 0) = {}
    BY <2>2 DEF Made
  <2>4. IsFiniteSet(Made(in, log, 0)) /\ Cardinality(Made(in, log, 0)) = 0
    BY <2>3, FS_EmptySet
  <2>5. f[0].rounds = 0 /\ f[0].artifacts = 0 /\ f[0] = [rounds |-> f[0].rounds, artifacts |-> f[0].artifacts]
    BY <1>1 DEF NoProgress
  <2>6. f[0].rounds \in 0..Len(in.cycle)
    BY <1>2, <2>5
  <2> QED  BY <2>1, <2>2, <2>4, <2>5, <2>6 DEF Progressed
<1>4. ASSUME NEW m \in 0..(n - 1), m \in Good PROVE m + 1 \in Good
  <2>1. m \in Nat /\ m + 1 \in 1..n /\ m + 1 \in 0..n /\ \A k \in 1..m : k \in 1..n /\ k # m + 1
    OBVIOUS
  <2>2. PICK done : done = f[m] /\ Progressed(in, log, m, done) /\ f[m + 1] = Advance(done, log[m + 1])
    BY <1>1, <1>4
  <2>3. CASE log[m + 1].kind # "round.completed"
    <3>1. f[m + 1] = done
      BY <2>2, <2>3 DEF Advance
    <3>2. \A i : Completed(log, m + 1, i) <=> Completed(log, m, i)
      BY <2>1, <2>3, OccursNext DEF Completed
    <3>3. Made(in, log, m + 1) = Made(in, log, m)
      BY <3>2 DEF Made
    <3>4. Progressed(in, log, m + 1, done)
      BY <2>2, <3>2, <3>3 DEF Progressed
    <3> QED  BY <2>1, <3>1, <3>4
  <2>4. CASE log[m + 1].kind = "round.completed"
    <3>1. PICK i \in DOMAIN in.cycle : /\ log[m + 1].ref = <<"cycle-round", i>>
                                       /\ log[m + 1].artifacts = IF IsCall(in.cycle[i]) THEN 1 ELSE 0
      BY <2>1, <2>4 DEF Listens
    <3>2. ~Completed(log, m, i)
      <4>1. "round.completed" \in Counted
        BY DEF Counted
      <4>2. \A k \in 1..m : log[k].kind = "round.completed" => log[k].ref # log[m + 1].ref
        BY <2>1, <2>4, <4>1 DEF Listens
      <4> QED  BY <3>1, <4>2 DEF Completed, Occurs
    <3>3. Progressed(in, log, m + 1, Advance(done, log[m + 1]))
      BY <2>1, <2>2, <2>4, <3>1, <3>2, RoundCounts
    <3> QED  BY <2>1, <2>2, <3>3
  <2> QED  BY <2>3, <2>4
<1>5. \A m \in 0..n : m \in Good
  <2> HIDE DEF Good
  <2> QED  BY <1>3, <1>4, UpTo
<1>6. Progressed(in, log, n, f[n])
  <2>1. n \in 0..n
    OBVIOUS
  <2> QED  BY <1>5, <2>1
<1>7. \A i \in DOMAIN in.cycle : Completed(log, n, i)
  BY DEF Listens, Completed
<1>8. f[n].rounds = Len(in.cycle)
  <2>1. f[n].rounds \in 0..Len(in.cycle) /\ \A i \in DOMAIN in.cycle : i <= f[n].rounds
    BY <1>6, <1>7 DEF Progressed
  <2>2. Len(in.cycle) > 0 => Len(in.cycle) <= f[n].rounds
    BY <1>2, <2>1
  <2> QED  BY <1>2, <2>1, <2>2
<1>9. Made(in, log, n) = Artifacts(in)
  BY <1>7 DEF Made, Artifacts, Calls
<1> QED  BY <1>1, <1>6, <1>8, <1>9 DEF Progressed

(****************************************************************************)
(* The drawing of a whole run.                                              *)
(****************************************************************************)
\* One event of a run, from one drawing to the next
Moves(in, log, k, p, q) ==
    /\ Pictures(in, log, k, p) /\ Pictures(in, log, k + 1, q)
    /\ Keeps(p, q) /\ Draws(p, log[k + 1], q) /\ Notes(p, log[k + 1], q)

\* The drawings follow each other.
LEMMA MovesAre ==
    ASSUME NEW in, NEW log, NEW n, Telling(in, log, n), NEW ps, ps = Projections(log)
    PROVE  \A k \in 0..(n - 1) : Moves(in, log, k, ps[k + 1], ps[k + 2])
<1>1. n \in Nat /\ DOMAIN log = 1..n /\ \A i \in 1..n : Tells(in, log, i)
  BY DEF Telling
<1>2. ps[1] = Empty /\ \A k \in 1..n : ps[k + 1] = Project(ps[k], log[k])
  BY <1>1, ProjectionsAre
<1>3. /\ \A k \in 0..n : Pictures(in, log, k, ps[k + 1])
      /\ \A j, k \in 0..n : j <= k => Keeps(ps[j + 1], ps[k + 1])
  BY <1>1, PicturesAre
<1>4. ASSUME NEW k \in 0..(n - 1), ps[k + 1].last = k
      PROVE  Moves(in, log, k, ps[k + 1], ps[k + 2]) /\ ps[k + 2].last = k + 1
  <2>1. /\ k \in Nat /\ k \in 0..n /\ k + 1 \in 0..n /\ k + 1 \in 1..n
        /\ (k + 1) + 1 = k + 2 /\ k <= k + 1 /\ ~(k + 1 <= k)
    BY <1>1
  <2>2. PICK p, q, e : p = ps[k + 1] /\ q = ps[k + 2] /\ e = log[k + 1]
    OBVIOUS
  <2>3. q = Project(p, e)
    BY <1>2, <2>1, <2>2
  <2>4. e.sequence = k + 1 /\ IsFiniteSet(e.prior)
    BY <1>1, <2>1, <2>2 DEF Tells
  <2>5. Pictures(in, log, k, p) /\ Pictures(in, log, k + 1, q) /\ Keeps(p, q)
    BY <1>3, <2>1, <2>2
  <2>6. IsDrawing(p) /\ p.last = k
    BY <1>4, <2>2, <2>5 DEF Pictures
  <2>7. Draws(p, e, q) /\ Notes(p, e, q) /\ q.last = e.sequence
    BY <2>1, <2>3, <2>4, <2>6, ProjectDraws
  <2> QED  BY <2>2, <2>4, <2>5, <2>7 DEF Moves
<1> DEFINE Good == {k \in 0..n : ps[k + 1].last = k}
<1>5. 0 \in Good
  BY <1>1, <1>2, EmptyDrawing
<1>6. ASSUME NEW k \in 0..(n - 1), k \in Good PROVE k + 1 \in Good
  <2>1. (k + 1) + 1 = k + 2 /\ k + 1 \in 0..n
    BY <1>1
  <2> QED  BY <1>4, <1>6, <2>1
<1>7. \A k \in 0..n : k \in Good
  <2> HIDE DEF Good
  <2> QED  BY <1>1, <1>5, <1>6, UpTo
<1>8. \A k \in 0..(n - 1) : k \in 0..n
  BY <1>1
<1> QED  BY <1>4, <1>7, <1>8

\* The edges that are marked are those that a conflict was detected on.
Marked(p) == {i \in DOMAIN p.edges : p.edges[i].conflicted}
Disputes(log, k, p) ==
    /\ IsFiniteSet(Marked(p)) /\ p.conflicts = Cardinality(Marked(p))
    /\ \A i \in Marked(p) : Occurs(log, k, "conflict.detected", p.edges[i].id)

\* A conflict marks one edge more.
LEMMA DisputesNext ==
    ASSUME NEW in, NEW log, NEW n \in Nat, Listens(in, log, n), NEW k \in 0..(n - 1),
           NEW p, NEW q, Moves(in, log, k, p, q), Disputes(log, k, p)
    PROVE  Disputes(log, k + 1, q)
<1>1. k \in Nat /\ k + 1 \in 1..n /\ (k + 1) - 1 = k /\ \A j \in 1..k : j \in 1..n /\ j # k + 1
  OBVIOUS
<1>2. PICK e : e = log[k + 1]
  OBVIOUS
<1>3. IsDrawing(p) /\ IsDrawing(q) /\ Keeps(p, q) /\ Notes(p, e, q)
  BY <1>2 DEF Moves, Pictures
<1>4. \A i \in DOMAIN p.edges : i \in DOMAIN q.edges /\ p.edges[i].id = q.edges[i].id
  BY <1>3, DrawingIs DEF Keeps, SameEdge
<1>5. CASE e.kind # "conflict.detected"
  <2>1. q.conflicts = p.conflicts
        /\ \A i \in DOMAIN q.edges : q.edges[i].conflicted <=> i \in DOMAIN p.edges /\ p.edges[i].conflicted
    BY <1>3, <1>5 DEF Notes
  <2>2. Marked(q) = Marked(p)
    BY <1>4, <2>1 DEF Marked
  <2>3. \A i \in Marked(q) : Occurs(log, k + 1, "conflict.detected", q.edges[i].id)
    <3>1. \A i \in Marked(p) : i \in DOMAIN p.edges /\ Occurs(log, k + 1, "conflict.detected", p.edges[i].id)
      BY <1>1, OccursNext DEF Disputes, Marked
    <3> QED  BY <1>4, <2>2, <3>1
  <2> QED  BY <2>1, <2>2, <2>3 DEF Disputes
<1>6. CASE e.kind = "conflict.detected"
  <2>1. q.conflicts = p.conflicts + 1
        /\ \A i \in DOMAIN q.edges : q.edges[i].conflicted <=>
               i \in DOMAIN p.edges /\ (p.edges[i].conflicted \/ p.edges[i].id = e.ref)
    BY <1>3, <1>6 DEF Notes
  <2>2. EdgeDrawn(p, e.ref)
    <3>1. \E j \in 1..k : log[j].kind = "edge.added" /\ log[j].ref = e.ref
      BY <1>1, <1>2, <1>6 DEF Listens
    <3>2. Pictures(in, log, k, p)
      BY DEF Moves
    <3> QED  BY <3>1, <3>2 DEF Pictures
  <2>3. PICK j \in DOMAIN p.edges : p.edges[j].id = e.ref
    BY <2>2 DEF EdgeDrawn
  <2>4. \A i \in DOMAIN p.edges : p.edges[i].id = e.ref => i = j
    BY <2>3 DEF Moves, Pictures
  <2>5. ~Occurs(log, k, "conflict.detected", e.ref)
    <3>1. "conflict.detected" \in Counted
      BY DEF Counted
    <3> QED  BY <1>1, <1>2, <1>6, <3>1 DEF Occurs, Listens
  <2>6. j \notin Marked(p)
    BY <2>3, <2>5 DEF Disputes
  <2>7. Marked(q) = Marked(p) \cup {j}
    BY <1>4, <2>1, <2>3, <2>4 DEF Marked
  <2>8. IsFiniteSet(Marked(q)) /\ Cardinality(Marked(q)) = Cardinality(Marked(p)) + 1
    BY <2>6, <2>7, FS_AddElement DEF Disputes
  <2>9. q.conflicts = Cardinality(Marked(q))
    BY <2>1, <2>8 DEF Disputes
  <2>10. \A i \in Marked(q) : Occurs(log, k + 1, "conflict.detected", q.edges[i].id)
    <3>1. \A i \in Marked(p) : i \in DOMAIN p.edges /\ Occurs(log, k + 1, "conflict.detected", p.edges[i].id)
      BY <1>1, OccursNext DEF Disputes, Marked
    <3>2. Occurs(log, k + 1, "conflict.detected", p.edges[j].id)
      BY <1>1, <1>2, <1>6, <2>3, OccursNext
    <3> QED  BY <1>4, <2>3, <2>7, <3>1, <3>2
  <2> QED  BY <2>8, <2>9, <2>10 DEF Disputes
<1> QED  BY <1>5, <1>6

\* The steps of the plan are drawn, and the report is converged on.
Reaches(log, k, p) ==
    /\ \A id : Occurs(log, k, "step.added", id) => Drawn(p, id)
    /\ (\E j \in 1..k : log[j].kind = "report.generated") => p.converged = TRUE
LEMMA ReachesNext ==
    ASSUME NEW in, NEW log, NEW k \in Nat, NEW p, NEW q, Moves(in, log, k, p, q), Reaches(log, k, p)
    PROVE  Reaches(log, k + 1, q)
<1>1. PICK e : e = log[k + 1]
  OBVIOUS
<1>2. IsDrawing(p) /\ IsDrawing(q) /\ Keeps(p, q) /\ Draws(p, e, q) /\ Notes(p, e, q)
  BY <1>1 DEF Moves, Pictures
<1>3. \A id : Drawn(p, id) => Drawn(q, id)
  BY <1>2, KeepsDrawn
<1>4. e.kind = "step.added" => Drawn(q, e.ref)
  <2>1. SUFFICES ASSUME e.kind = "step.added", ~Drawn(p, e.ref) PROVE Drawn(q, e.ref)
    BY <1>3
  <2>2. AddsNode(p, q, e.ref, "tool_step", LaneForTool(e.type))
    BY <1>2, <2>1 DEF Draws, DrawsNode
  <2>3. Len(q.nodes) \in DOMAIN q.nodes
    BY <1>2, <2>2, DrawingIs DEF AddsNode
  <2> QED  BY <2>2, <2>3 DEF AddsNode, Drawn
<1>5. \A id : Occurs(log, k + 1, "step.added", id) => Drawn(q, id)
  <2> TAKE id
  <2>1. Occurs(log, k + 1, "step.added", id) <=>
            Occurs(log, k, "step.added", id) \/ (e.kind = "step.added" /\ e.ref = id)
    BY <1>1, OccursNext
  <2> QED  BY <1>3, <1>4, <2>1 DEF Reaches
<1>6. (\E j \in 1..(k + 1) : log[j].kind = "report.generated") => q.converged = TRUE
  <2>1. \A j \in 1..(k + 1) : j \in 1..k \/ j = k + 1
    OBVIOUS
  <2>2. e.kind = "report.generated" => q.converged = TRUE
    BY <1>2 DEF Notes
  <2>3. e.kind # "report.generated" => q.converged = p.converged
    BY <1>2 DEF Notes
  <2> QED  BY <1>1, <2>1, <2>2, <2>3 DEF Reaches
<1> QED  BY <1>5, <1>6 DEF Reaches

\* Both are so of the whole run.
LEMMA RunReaches ==
    ASSUME NEW in, NEW log, NEW n, Telling(in, log, n), Listens(in, log, n), NEW ps, ps = Projections(log)
    PROVE  Disputes(log, n, ps[n + 1]) /\ Reaches(log, n, ps[n + 1])
<1>1. n \in Nat /\ DOMAIN log = 1..n
  BY DEF Telling
<1>2. \A k \in 0..(n - 1) : Moves(in, log, k, ps[k + 1], ps[k + 2])
  BY MovesAre
<1> DEFINE Good == {k \in 0..n : Disputes(log, k, ps[k + 1]) /\ Reaches(log, k, ps[k + 1])}
<1>3. 0 \in Good
  <2>1. ps[0 + 1] = Empty
    BY <1>1, ProjectionsAre
  <2>2. Empty.edges = <<>> /\ Empty.conflicts = 0
    BY DEF Empty
  <2>3. Marked(Empty) = {}
    BY <2>2, EmptyList DEF Marked
  <2>4. IsFiniteSet(Marked(Empty)) /\ Cardinality(Marked(Empty)) = 0
    BY <2>3, FS_EmptySet
  <2>5. Disputes(log, 0, Empty)
    BY <2>2, <2>3, <2>4 DEF Disputes
  <2>6. 1..0 = {}
    OBVIOUS
  <2>7. Reaches(log, 0, Empty)
    BY <2>6 DEF Reaches, Occurs
  <2> QED  BY <1>1, <2>1, <2>5, <2>7
<1>4. ASSUME NEW k \in 0..(n - 1), k \in Good PROVE k + 1 \in Good
  <2>1. k \in Nat /\ (k + 1) + 1 = k + 2 /\ k + 1 \in 0..n
    BY <1>1
  <2>2. PICK p, q : p = ps[k + 1] /\ q = ps[k + 2]
    OBVIOUS
  <2>3. Moves(in, log, k, p, q) /\ Disputes(log, k, p) /\ Reaches(log, k, p)
    BY <1>2, <1>4, <2>2
  <2>4. Disputes(log, k + 1, q)
    BY <1>1, <2>3, DisputesNext
  <2>5. Reaches(log, k + 1, q)
    BY <2>1, <2>3, ReachesNext
  <2> QED  BY <2>1, <2>2, <2>4, <2>5
<1>5. \A k \in 0..n : k \in Good
  <2> HIDE DEF Good
  <2> QED  BY <1>1, <1>3, <1>4, UpTo
<1>6. n \in 0..n
  BY <1>1
<1> QED  BY <1>5, <1>6

\* The report is drawn last.
EndsWith(p, id) == p.nodes # <<>> /\ Len(p.nodes) \in DOMAIN p.nodes /\ p.nodes[Len(p.nodes)].id = id

\* An event that adds no node leaves the last one,
LEMMA LastStays ==
    ASSUME NEW in, NEW log, NEW k \in Nat, NEW p, NEW q, Moves(in, log, k, p, q), log[k + 1].kind \notin Adders,
           NEW id, EndsWith(p, id)
    PROVE  EndsWith(q, id)
<1>1. PICK e : e = log[k + 1]
  OBVIOUS
<1>2. IsDrawing(p) /\ IsDrawing(q) /\ Keeps(p, q) /\ Draws(p, e, q) /\ e.kind \notin Adders
  BY <1>1 DEF Moves, Pictures
<1>3. Len(q.nodes) = Len(p.nodes)
  <2>1. CASE e.kind = "edge.added"
    <3>1. DrawsEdge(p, q, e.ref, e.ends)
      BY <1>2, <2>1 DEF Draws
    <3> QED  BY <3>1 DEF DrawsEdge, AddsEdge, Redraws
  <2>2. CASE e.kind # "edge.added"
    <3>1. Redraws(p, q)
      BY <1>2, <2>2 DEF Draws, Adders
    <3> QED  BY <3>1 DEF Redraws
  <2> QED  BY <2>1, <2>2
<1>4. Len(p.nodes) \in DOMAIN p.nodes /\ p.nodes[Len(p.nodes)].id = id
  BY DEF EndsWith
<1>5. q.nodes[Len(p.nodes)].id = id
  BY <1>2, <1>4 DEF Keeps, SameNode
<1>6. Len(q.nodes) \in DOMAIN q.nodes
  BY <1>2, <1>3, <1>4, DrawingIs
<1>7. q.nodes # <<>>
  BY <1>6, EmptyList
<1> QED  BY <1>3, <1>5, <1>6, <1>7 DEF EndsWith

\* and one that announces a node for the first time makes it the last.
LEMMA LastAdded ==
    ASSUME NEW in, NEW log, NEW k \in Nat, NEW p, NEW q, Moves(in, log, k, p, q), log[k + 1].kind = "node.added",
           log[k + 1].ref \in NodeNames(in), ~Announced(log, k, log[k + 1].ref)
    PROVE  EndsWith(q, log[k + 1].ref)
<1>1. PICK e : e = log[k + 1]
  OBVIOUS
<1>2. Pictures(in, log, k, p) /\ IsDrawing(q) /\ Draws(p, e, q)
  BY <1>1 DEF Moves, Pictures
<1>3. ~Drawn(p, e.ref)
  <2>1. \A i \in DOMAIN p.nodes : Origin(in, log, k, p.nodes[i])
    BY <1>2 DEF Pictures
  <2> QED  BY <1>1, <2>1 DEF Origin, Drawn
<1>4. AddsNode(p, q, e.ref, e.type, LaneForKind(e.type))
  BY <1>1, <1>2, <1>3 DEF Draws, DrawsNode
<1>5. IsDrawing(p)
  BY <1>2 DEF Pictures
<1>6. Len(q.nodes) = Len(p.nodes) + 1 /\ q.nodes[Len(q.nodes)].id = e.ref
  BY <1>4 DEF AddsNode
<1>7. Len(q.nodes) \in DOMAIN q.nodes
  BY <1>2, <1>5, <1>6, DrawingIs
<1>8. q.nodes # <<>>
  BY <1>7, EmptyList
<1> QED  BY <1>1, <1>6, <1>7, <1>8 DEF EndsWith

\* The report is a node of its own.
LEMMA ReportNamed ==
    ASSUME NEW in, InputOK(in), Unambiguous(in)
    PROVE  Reported \in NodeNames(in) /\ NodeType(in, Reported) = "report"
<1>1. Reported = <<"analysis-report", 0>> /\ Reported[1] = "analysis-report"
  BY DEF Reported, Id
<1>2. "analysis-report" \in EngineNodes
  BY DEF EngineNodes
<1>3. Reported \in OtherNodes(in)
  <2>1. Reported \in {Id(name) : name \in EngineNodes \cup {in.cycle[i].call : i \in DOMAIN in.cycle}}
    BY <1>2 DEF Reported
  <2> QED  BY <2>1 DEF OtherNodes
<1>4. Reported \notin Hypotheses(in)
  BY <1>3 DEF Unambiguous, Hypotheses
<1>5. Reported \notin Artifacts(in)
  BY <1>1, <1>2 DEF Artifacts, Calls, Id, InputOK
<1>6. Single("analysis-report") = "report"
  BY DEF Single
<1> QED  BY <1>1, <1>3, <1>4, <1>5, <1>6 DEF NodeType, NodeNames

\* A run that completes ends with its report.
LEMMA RunDelivers ==
    ASSUME NEW in, InputOK(in), Unambiguous(in),
           NEW log, NEW n, Telling(in, log, n), Delivers(log, n), NEW ps, ps = Projections(log)
    PROVE  EndsWith(ps[n + 1], Reported)
<1>1. n \in Nat
  BY DEF Telling
<1>2. \A k \in 0..(n - 1) : Moves(in, log, k, ps[k + 1], ps[k + 2])
  BY MovesAre
<1>3. PICK r \in 1..n :
          /\ log[r].kind = "node.added" /\ log[r].ref = Reported
          /\ \A k \in 1..(r - 1) : log[k].kind \in {"node.added", "artifact.created"} => log[k].ref # Reported
          /\ \A k \in (r + 1)..n : log[k].kind \notin Adders
  BY DEF Delivers
<1>4. PICK h \in 0..(n - 1) : r = h + 1
  <2>1. r - 1 \in 0..(n - 1) /\ r = (r - 1) + 1
    BY <1>1
  <2> QED  BY <2>1
<1>5. ~Announced(log, h, Reported)
  <2>1. r - 1 = h
    BY <1>1, <1>4
  <2> QED  BY <1>3, <2>1 DEF Announced
<1>6. EndsWith(ps[h + 2], Reported)
  <2>1. PICK p, q : p = ps[h + 1] /\ q = ps[h + 2]
    OBVIOUS
  <2>2. Moves(in, log, h, p, q) /\ h \in Nat
    BY <1>1, <1>2, <2>1
  <2>3. log[h + 1].kind = "node.added" /\ log[h + 1].ref = Reported /\ Reported \in NodeNames(in)
    BY <1>3, <1>4, ReportNamed
  <2>4. EndsWith(q, log[h + 1].ref)
    BY <1>5, <2>2, <2>3, LastAdded
  <2> QED  BY <2>1, <2>3, <2>4
<1> DEFINE Good == {k \in 0..n : k > h => EndsWith(ps[k + 1], Reported)}
<1>7. 0 \in Good
  BY <1>1, <1>4
<1>8. ASSUME NEW k \in 0..(n - 1), k \in Good PROVE k + 1 \in Good
  <2>1. k \in Nat /\ (k + 1) + 1 = k + 2 /\ k + 1 \in 0..n
    BY <1>1
  <2>2. CASE k < h
    BY <1>1, <1>4, <2>1, <2>2
  <2>3. CASE k = h
    BY <1>6, <2>1, <2>3
  <2>4. CASE k > h
    <3>1. PICK p, q : p = ps[k + 1] /\ q = ps[k + 2]
      OBVIOUS
    <3>2. k + 1 \in (r + 1)..n
      BY <1>1, <1>4, <2>1, <2>4
    <3>3. Moves(in, log, k, p, q) /\ log[k + 1].kind \notin Adders /\ EndsWith(p, Reported)
      BY <1>2, <1>3, <1>8, <2>4, <3>1, <3>2
    <3>4. EndsWith(q, Reported)
      BY <2>1, <3>3, LastStays
    <3> QED  BY <2>1, <3>1, <3>4
  <2> QED  BY <1>1, <1>4, <2>2, <2>3, <2>4
<1>9. \A k \in 0..n : k \in Good
  <2> HIDE DEF Good
  <2> QED  BY <1>1, <1>7, <1>8, UpTo
<1>10. n \in 0..n /\ n > h
  BY <1>1, <1>4
<1> QED  BY <1>9, <1>10

\* One that fails shows the tool and the step.
LEMMA RunFails ==
    ASSUME NEW in, NEW log, NEW n, Telling(in, log, n), Fails(log, n), NEW ps, ps = Projections(log),
           NEW p, p = ps[n + 1]
    PROVE  /\ p.tool.state = "failed"
           /\ \A i \in DOMAIN p.nodes : p.nodes[i].id = p.tool.step => p.nodes[i].status = "contradicted"
<1>1. n \in Nat /\ n > 3
  BY DEF Telling, Fails
<1>2. \A k \in 0..(n - 1) : Moves(in, log, k, ps[k + 1], ps[k + 2])
  BY MovesAre
<1>3. PICK k \in Nat : n = k + 3
  <2>1. n - 3 \in Nat /\ n = (n - 3) + 3
    BY <1>1
  <2> QED  BY <2>1
<1>4. /\ n - 2 = k + 1 /\ n - 1 = k + 2 /\ (k + 1) + 1 = k + 2 /\ (k + 1) + 2 = k + 3
      /\ (k + 2) + 1 = k + 3 /\ (k + 2) + 2 = n + 1
      /\ k \in 0..(n - 1) /\ k + 1 \in 0..(n - 1) /\ k + 2 \in 0..(n - 1)
  BY <1>3
<1>5. PICK a, b, c : a = ps[k + 1] /\ b = ps[k + 2] /\ c = ps[k + 3]
  OBVIOUS
<1>6. Notes(a, log[k + 1], b) /\ Notes(b, log[k + 2], c) /\ Notes(c, log[k + 3], p)
  BY <1>2, <1>4, <1>5 DEF Moves
<1>7. /\ log[k + 1].kind = "tool.failed" /\ log[k + 2].kind = "step.failed" /\ log[k + 3].kind = "run.failed"
      /\ log[k + 2].ref = log[k + 1].ref
  BY <1>3, <1>4 DEF Fails
<1>8. b.tool = [step |-> log[k + 1].ref, state |-> "failed"]
  BY <1>6, <1>7 DEF Notes
<1>9. c.tool = b.tool /\ \A i \in DOMAIN c.nodes : c.nodes[i].id = log[k + 2].ref => c.nodes[i].status = "contradicted"
  BY <1>6, <1>7 DEF Notes, ToolEvents
<1>10. p.tool = c.tool /\ p.nodes = c.nodes
  BY <1>6, <1>7 DEF Notes, ToolEvents
<1> QED  BY <1>7, <1>8, <1>9, <1>10

\* What is to be seen of a whole run over its final graph
Outcome(in, r, log, g, p) ==
    LET status == [id \in Ids(p.nodes) |-> p.nodes[CHOOSE i \in DOMAIN p.nodes : p.nodes[i].id = id].status]
        planned == {Id(in.steps[i].id) : i \in DOMAIN in.steps}
    IN  /\ \A id \in DOMAIN g : status[id] = g[id].status
        /\ p.conflicts = Cardinality({i \in DOMAIN p.edges : p.edges[i].conflicted})
        /\ CycleProgress(log).rounds = Len(in.cycle)
        /\ CycleProgress(log).artifacts = Cardinality(Ids(p.nodes) \cap Artifacts(in))
        /\ r.end = "completed" => p.converged /\ Last(p.nodes).kind = "report"
        /\ r.end = "failed" =>
               p.tool.state = "failed" /\ (p.tool.step \in planned => status[p.tool.step] = "contradicted")

\* It is, of each run whose names are apart.
LEMMA OutcomeIs ==
    ASSUME NEW in, InputOK(in), Apart(in), NEW log, NEW n, Telling(in, log, n), Listens(in, log, n),
           NEW r, r.end = "completed" => Delivers(log, n), r.end = "failed" => Fails(log, n),
           NEW p0, p0 = Projections(log)[n + 1], NEW g, Saying(in, log, g, n), NEW p, p = Enrich(p0, g)
    PROVE  Outcome(in, r, log, g, p)
<1>1. n \in Nat /\ n \in 0..n /\ DOMAIN log = 1..n /\ \A i \in 1..n : Tells(in, log, i)
  BY DEF Telling
<1>2. PICK ps : ps = Projections(log) /\ p0 = ps[n + 1]
  OBVIOUS
<1>3. Unambiguous(in)
  BY DEF Apart
<1>4. Pictures(in, log, n, p0)
  BY <1>1, <1>2, PicturesAre
<1>5. IsDrawing(p0)
  BY <1>4 DEF Pictures
<1>6. /\ p.edges = p0.edges /\ Len(p.nodes) = Len(p0.nodes) /\ DOMAIN p.nodes = DOMAIN p0.nodes
      /\ p.conflicts = p0.conflicts /\ p.converged = p0.converged /\ p.tool = p0.tool
      /\ \A i \in DOMAIN p0.nodes :
             /\ p.nodes[i].id = p0.nodes[i].id
             /\ p.nodes[i].status = IF p0.nodes[i].id \in DOMAIN g THEN g[p0.nodes[i].id].status
                                    ELSE p0.nodes[i].status
  BY <1>5, EnrichIs
<1>7. Disputes(log, n, p0) /\ Reaches(log, n, p0)
  BY <1>2, RunReaches
<1>8. PICK status : status = [id \in Ids(p.nodes) |->
                                  p.nodes[CHOOSE i \in DOMAIN p.nodes : p.nodes[i].id = id].status]
  OBVIOUS
<1>9. ASSUME NEW id, Drawn(p0, id)
      PROVE  \E i \in DOMAIN p0.nodes : p0.nodes[i].id = id /\ id \in Ids(p.nodes) /\ status[id] = p.nodes[i].status
  <2>1. \E i \in DOMAIN p.nodes : p.nodes[i].id = id
    BY <1>6, <1>9 DEF Drawn
  <2>2. PICK i : i = CHOOSE j \in DOMAIN p.nodes : p.nodes[j].id = id
    OBVIOUS
  <2>3. i \in DOMAIN p.nodes /\ p.nodes[i].id = id
    BY <2>1, <2>2
  <2>4. id \in Ids(p.nodes)
    BY <2>3 DEF Ids
  <2>5. status[id] = p.nodes[i].status
    BY <1>8, <2>2, <2>4
  <2> QED  BY <1>6, <2>3, <2>4, <2>5
<1>10. ASSUME NEW id, Announced(log, n, id) PROVE Drawn(p0, id)
  BY <1>4, <1>10 DEF Pictures
<1>11. ASSUME NEW id \in DOMAIN g PROVE status[id] = g[id].status
  <2>1. Announced(log, n, id)
    BY <1>1, <1>11, SavedAnnounced
  <2>2. PICK i \in DOMAIN p0.nodes : p0.nodes[i].id = id /\ status[id] = p.nodes[i].status
    BY <1>9, <1>10, <2>1
  <2> QED  BY <1>6, <1>11, <2>2
<1>12. p.conflicts = Cardinality({i \in DOMAIN p.edges : p.edges[i].conflicted})
  BY <1>6, <1>7 DEF Disputes, Marked
<1>13. CycleProgress(log).rounds = Len(in.cycle) /\ CycleProgress(log).artifacts = Cardinality(Artifacts(in))
  BY <1>1, <1>3, ProgressCounts
<1>14. Ids(p.nodes) \cap Artifacts(in) = Artifacts(in)
  <2>1. ASSUME NEW ref \in Artifacts(in) PROVE ref \in Ids(p.nodes)
    <3>1. PICK i \in DOMAIN in.cycle : ref = Id(in.cycle[i].call) /\ in.cycle[i].call # "finish"
      BY <2>1 DEF Artifacts, Calls
    <3>2. Occurs(log, n, "artifact.created", ref)
      BY <3>1 DEF Listens, IsCall
    <3>3. Announced(log, n, ref)
      BY <3>2 DEF Occurs, Announced
    <3> QED  BY <1>9, <1>10, <3>3
  <2> QED  BY <2>1
<1>15. ASSUME r.end = "completed" PROVE p.converged /\ Last(p.nodes).kind = "report"
  <2>1. Delivers(log, n)
    BY <1>15
  <2>2. p.converged = TRUE
    BY <1>6, <1>7, <2>1 DEF Delivers, Reaches
  <2>3. EndsWith(p0, Reported)
    BY <1>2, <1>3, <2>1, RunDelivers
  <2>4. PICK m : m = Len(p0.nodes) /\ m \in DOMAIN p0.nodes /\ p0.nodes[m].id = Reported
    BY <2>3 DEF EndsWith
  <2>5. Origin(in, log, n, p0.nodes[m])
    BY <1>4, <2>4 DEF Pictures
  <2>6. p0.nodes[m].kind = "report"
    BY <1>3, <2>4, <2>5, ReportNamed DEF Origin
  <2>7. SameNode(p0.nodes[m], p.nodes[m])
    BY <1>1, <1>4, <2>4, EnrichKeeps
  <2>8. p.nodes[m].kind = "report"
    BY <2>6, <2>7 DEF SameNode
  <2>9. Last(p.nodes) = p.nodes[m]
    BY <1>6, <2>4 DEF Last
  <2> QED  BY <2>2, <2>8, <2>9
<1>16. ASSUME r.end = "failed"
       PROVE  /\ p.tool.state = "failed"
              /\ \A i \in DOMAIN in.steps : p.tool.step = Id(in.steps[i].id) => status[p.tool.step] = "contradicted"
  <2>1. Fails(log, n)
    BY <1>16
  <2>2. /\ p0.tool.state = "failed"
        /\ \A i \in DOMAIN p0.nodes : p0.nodes[i].id = p0.tool.step => p0.nodes[i].status = "contradicted"
    BY <1>2, <2>1, RunFails
  <2>3. ASSUME NEW i \in DOMAIN in.steps, p.tool.step = Id(in.steps[i].id)
        PROVE  status[p.tool.step] = "contradicted"
    <3>1. PICK id : id = p.tool.step /\ id = Id(in.steps[i].id)
      BY <2>3
    <3>2. Drawn(p0, id)
      BY <1>7, <3>1 DEF Listens, Reaches
    <3>3. id \notin DOMAIN g
      <4>1. id \notin NodeNames(in)
        BY <3>1 DEF Apart, NodeNames
      <4> QED  BY <1>1, <4>1, SavedAnnounced
    <3>4. PICK j \in DOMAIN p0.nodes : p0.nodes[j].id = id /\ status[id] = p.nodes[j].status
      BY <1>9, <3>2
    <3>5. p.nodes[j].status = p0.nodes[j].status /\ p0.nodes[j].status = "contradicted"
      BY <1>6, <2>2, <3>1, <3>3, <3>4
    <3> QED  BY <3>1, <3>4, <3>5
  <2> QED  BY <1>6, <2>2, <2>3
<1> QED  BY <1>8, <1>11, <1>12, <1>13, <1>14, <1>15, <1>16 DEF Outcome

\* What the canvas draws, of the run that is shown
LEMMA Shown ==
    ASSUME NEW i \in DOMAIN Runs
    PROVE  LET log == Log(Runs[i])  n == Len(log) IN
           /\ n \in Nat /\ DOMAIN log = 1..n
           /\ Films[i].log = log
           /\ \A k \in 0..n : Films[i].graphs[k + 1] = Saved(log, k)
           /\ \A k \in 0..n, j \in 0..Batches : Films[i].scenes[k + 1][j + 1] =
                  Scene(Enrich(Projections(log)[k + 1], Saved(log, Part(n, j))))
<1>1. PICK log : log = Log(Runs[i])
  OBVIOUS
<1>2. PICK n \in Nat : n = Len(log) /\ DOMAIN log = 1..n
  BY <1>1, LogList
<1>3. Films[i] = FilmOf(log)
  BY <1>1, RunsAre
<1>4. /\ FilmOf(log).log = log
      /\ \A k \in 0..n : FilmOf(log).graphs[k + 1] = Saved(log, k)
      /\ \A k \in 0..n, j \in 0..Batches : FilmOf(log).scenes[k + 1][j + 1] =
             Scene(Enrich(Projections(log)[k + 1], Saved(log, Part(n, j))))
  BY <1>2, FilmIs
<1> QED  BY <1>1, <1>2, <1>3, <1>4

\* The least of some numbers
LEMMA MinIn ==
    ASSUME NEW S \in SUBSET Nat, S # {}
    PROVE  Min(S) \in S
BY Least DEF Min

\* Of the events that there are, those that have arrived are a part,
LEMMA Sized == ASSUME TypeOK PROVE Size \in Nat /\ \A j \in 0..Batches : Arrived(j) \in 0..Size
<1>1. Size \in Nat
  <2>1. run \in DOMAIN Runs
    BY DEF TypeOK
  <2>2. Films[run].log = Log(Runs[run]) /\ Len(Log(Runs[run])) \in Nat
    BY <2>1, Shown
  <2> QED  BY <2>2 DEF Size
<1> QED  BY <1>1, PartIs DEF Arrived

\* those that are played a part of those known,
LEMMA CurrentIs == ASSUME TypeOK PROVE Visible \in 0..known /\ known \in 0..Size /\ Size \in Nat
<1>1. known \in 0..Size /\ Size \in Nat /\ playback.count \in Nat
  BY Sized DEF TypeOK
<1>2. Min({playback.count, known}) \in {playback.count, known}
  BY <1>1, MinIn
<1>3. Min({playback.count, known}) \in 0..known
  <2>1. PICK m \in {playback.count, known} : \A j \in {playback.count, known} : m <= j
    BY <1>1
  <2>2. \E i \in {playback.count, known} : \A j \in {playback.count, known} : i <= j
    BY <2>1
  <2>3. Min({playback.count, known}) <= known
    BY <2>2 DEF Min
  <2> QED  BY <1>1, <1>2, <2>3
<1>4. Current \in 0..known
  BY <1>1, <1>3 DEF Current
<1> QED  BY <1>1, <1>4 DEF Visible

\* and so is the next milestone.
LEMMA NextReadableIs == ASSUME TypeOK, NEW from \in Nat PROVE NextReadable(from) \in Nat
<1>1. known \in Nat
  BY Sized DEF TypeOK
<1>2. PICK ahead : ahead = {i \in (from + 1)..known : RunEvents[i].kind \in Milestones}
  OBVIOUS
<1>3. ahead \in SUBSET Nat
  BY <1>1, <1>2
<1>4. ahead # {} => Min(ahead) \in Nat
  BY <1>3, MinIn
<1> QED  BY <1>1, <1>2, <1>4 DEF NextReadable

\* The state is what it is meant to be: what is known of the run, and what of
\* it is played, are some of its events.
THEOREM CanvasAlwaysTyped == Spec => []TypeOK
<1>1. Init => TypeOK
  <2> SUFFICES ASSUME Init PROVE TypeOK
    OBVIOUS
  <2>1. run \in DOMAIN Runs /\ known = 0 /\ graph = 0 /\ playback = Fresh(0) /\ switches = 0 /\ reduced \in BOOLEAN
    BY DEF Init
  <2>2. Len(Films[run].log) \in Nat
    BY <2>1, Shown
  <2>3. Fresh(0) \in [run : {0} \cup DOMAIN Runs, count : Nat, follow : BOOLEAN, paused : BOOLEAN]
    BY DEF Fresh
  <2> QED  BY <2>1, <2>2, <2>3, CanvasOK DEF TypeOK, Size
<1>2. TypeOK /\ [Next]_vars => TypeOK'
  <2> SUFFICES ASSUME TypeOK, [Next]_vars PROVE TypeOK'
    OBVIOUS
  <2>0. /\ reduced \in BOOLEAN /\ run \in DOMAIN Runs /\ known \in 0..Size /\ graph \in 0..Batches
        /\ playback \in [run : {0} \cup DOMAIN Runs, count : Nat, follow : BOOLEAN, paused : BOOLEAN]
        /\ switches \in 0..MaxSwitches
    BY DEF TypeOK
  <2>1. RunId \in {0} \cup DOMAIN Runs /\ known \in Nat
    BY <2>0, Sized DEF RunId
  <2>2. Fresh(RunId) \in [run : {0} \cup DOMAIN Runs, count : Nat, follow : BOOLEAN, paused : BOOLEAN]
    BY <2>1 DEF Fresh
  <2>3. run' = run => Size' = Size
    BY DEF Size
  <2>4. CASE Reset
    BY <2>0, <2>2, <2>3, <2>4 DEF Reset, Same, TypeOK
  <2>5. CASE Tick
    <3>1. NextReadable(playback.count) \in Nat
      BY <2>0, NextReadableIs
    <3>2. playback' \in [run : {0} \cup DOMAIN Runs, count : Nat, follow : BOOLEAN, paused : BOOLEAN]
      BY <2>0, <2>5, <3>1 DEF Tick
    <3> QED  BY <2>0, <2>3, <2>5, <3>2 DEF Tick, Same, TypeOK
  <2>6. CASE RevealLatest
    BY <2>0, <2>1, <2>3, <2>6 DEF RevealLatest, Same, TypeOK
  <2>7. CASE TogglePaused
    BY <2>0, <2>3, <2>7 DEF TogglePaused, Same, TypeOK
  <2>8. CASE Arrive
    <3>1. known' \in 0..Size
      BY <2>8, Sized DEF Arrive
    <3> QED  BY <2>0, <2>3, <2>8, <3>1 DEF Arrive, Same, TypeOK
  <2>9. CASE Refresh
    BY <2>0, <2>3, <2>9 DEF Refresh, Same, TypeOK
  <2>10. CASE Switch
    <3>1. run' \in DOMAIN Runs /\ \E i \in 0..Batches : known' = Part(Len(Films[run'].log), i)
      BY <2>10 DEF Switch
    <3>2. Len(Films[run'].log) \in Nat
      BY <3>1, Shown
    <3>3. known' \in 0..Size'
      BY <3>1, <3>2, PartIs DEF Size
    <3>4. switches' \in 0..MaxSwitches
      BY <2>0, <2>10, CanvasOK DEF Switch
    <3> QED  BY <2>0, <2>10, <3>1, <3>3, <3>4 DEF Switch, TypeOK
  <2>11. CASE Remount
    <3>1. switches' \in 0..MaxSwitches
      BY <2>0, <2>11, CanvasOK DEF Remount
    <3> QED  BY <2>0, <2>2, <2>3, <2>11, <3>1 DEF Remount, TypeOK
  <2>12. CASE UNCHANGED vars
    BY <2>0, <2>3, <2>12 DEF vars, TypeOK
  <2> QED  BY <2>4, <2>5, <2>6, <2>7, <2>8, <2>9, <2>10, <2>11, <2>12 DEF Next
<1> QED  BY <1>1, <1>2, PTL DEF Spec

\* A part of what there is
LEMMA PartShown == ASSUME TypeOK, NEW j \in 0..Batches PROVE Part(Size, j) \in 0..Size
BY Sized, PartIs

\* What is on the canvas, of what is told
OnCanvas == Apart(Runs[run].in) =>
    LET in == Runs[run].in  log == Log(Runs[run])  n == Len(log)
        p == Projections(log)[Visible + 1]  g == Saved(log, Part(n, graph))
    IN  /\ Telling(in, log, n) /\ RunEvents = log
        /\ Visible \in 0..n /\ Part(n, graph) \in 0..n
        /\ Pictures(in, log, Visible, p) /\ Saying(in, log, g, Part(n, graph))
        /\ Drawing = Enrich(p, g) /\ Layout = Places(Enrich(p, g))
        /\ Films[run].graphs[Visible + 1] = Saved(log, Visible)

\* What is on the canvas follows from what is told.
LEMMA CanvasDraws == TypeOK => OnCanvas
<1> SUFFICES ASSUME TypeOK, Apart(Runs[run].in) PROVE OnCanvas
  BY DEF OnCanvas
<1>1. run \in DOMAIN Runs /\ graph \in 0..Batches
  BY DEF TypeOK
<1>2. PICK log : log = Log(Runs[run])
  OBVIOUS
<1>3. PICK n : n = Len(log)
  OBVIOUS
<1>4. /\ n \in Nat /\ DOMAIN log = 1..n /\ Films[run].log = log
      /\ \A k \in 0..n : Films[run].graphs[k + 1] = Saved(log, k)
      /\ \A k \in 0..n, j \in 0..Batches : Films[run].scenes[k + 1][j + 1] =
             Scene(Enrich(Projections(log)[k + 1], Saved(log, Part(n, j))))
  BY <1>1, <1>2, <1>3, Shown
<1>5. Telling(Runs[run].in, log, n)
  BY <1>1, <1>2, <1>3, LogTells
<1>6. Size = n /\ RunEvents = log
  BY <1>3, <1>4 DEF Size, RunEvents
<1>7. Visible \in 0..n
  BY <1>6, CurrentIs
<1>8. Part(n, graph) \in 0..n
  BY <1>1, <1>4, PartIs
<1>9. Pictures(Runs[run].in, log, Visible, Projections(log)[Visible + 1])
  BY <1>5, <1>7, PicturesAre DEF Telling
<1>10. Saying(Runs[run].in, log, Saved(log, Part(n, graph)), Part(n, graph))
  BY <1>5, <1>8, SavedSays
<1>11. SceneNow = Scene(Enrich(Projections(log)[Visible + 1], Saved(log, Part(n, graph))))
  BY <1>1, <1>4, <1>7 DEF SceneNow
<1>12. /\ Drawing = Enrich(Projections(log)[Visible + 1], Saved(log, Part(n, graph)))
       /\ Layout = Places(Enrich(Projections(log)[Visible + 1], Saved(log, Part(n, graph))))
  BY <1>11 DEF Drawing, Layout, Scene
<1> QED  BY <1>2, <1>3, <1>4, <1>5, <1>6, <1>7, <1>8, <1>9, <1>10, <1>12 DEF OnCanvas

\* Whatever of a run is shown over whichever graph, the canvas draws each node
\* and edge once, exactly those that were announced.
THEOREM CanvasAlwaysDrawsWhatIsSaved == Spec => []DrawsWhatIsSaved
<1>1. TypeOK => DrawsWhatIsSaved
  <2> SUFFICES ASSUME TypeOK, Apart(Runs[run].in) PROVE DrawsWhatIsSaved
    BY DEF DrawsWhatIsSaved
  <2>1. PICK in, log, n, p0, m, g :
            /\ in = Runs[run].in /\ log = Log(Runs[run]) /\ n = Len(log)
            /\ p0 = Projections(log)[Visible + 1] /\ m = Part(n, graph) /\ g = Saved(log, m)
    OBVIOUS
  <2>2. /\ Telling(in, log, n) /\ RunEvents = log /\ Visible \in 0..n /\ m \in 0..n
        /\ Pictures(in, log, Visible, p0) /\ Saying(in, log, g, m)
        /\ Drawing = Enrich(p0, g) /\ Films[run].graphs[Visible + 1] = Saved(log, Visible)
    BY <2>1, CanvasDraws DEF OnCanvas
  <2>3. PICK h : h = Saved(log, Visible) /\ Saying(in, log, h, Visible)
    BY <2>2, SavedSays
  <2>4. PICK shown : shown = SubSeq(RunEvents, 1, Visible)
    OBVIOUS
  <2>5. DOMAIN shown = 1..Visible /\ \A i \in 1..Visible : shown[i] = log[i]
    <3>1. PICK k \in Nat : k = Visible
      BY <2>2 DEF Telling
    <3>2. PICK U : U = {log[i] : i \in 1..k}
      OBVIOUS
    <3>3. \A i \in 1..k : log[i] \in U
      BY <3>2
    <3>4. shown = SubSeq(log, 1, k)
      BY <2>2, <2>4, <3>1
    <3>5. shown \in Seq(U) /\ Len(shown) = k /\ \A i \in 1..k : shown[i] = log[i]
      <4>1. /\ SubSeq(log, 1, k) \in Seq(U)
            /\ Len(SubSeq(log, 1, k)) = IF 1 <= k THEN k - 1 + 1 ELSE 0
            /\ \A i \in 1..(k - 1 + 1) : SubSeq(log, 1, k)[i] = log[1 + i - 1]
        BY <3>3, SubSeqProperties
      <4> QED  BY <3>4, <4>1
    <3> QED  BY <3>1, <3>5
  <2>6. PICK p, k : p = Drawing /\ k = Visible
    OBVIOUS
  <2>7. /\ Cardinality(Ids(p.nodes)) = Len(p.nodes) /\ Cardinality(Ids(p.edges)) = Len(p.edges)
        /\ OwnNodes(p) = DOMAIN h \cup CreatedIn(shown)
        /\ Linked(shown, p)
    <3>1. /\ Telling(in, log, n) /\ k \in 0..n /\ m \in 0..n /\ Pictures(in, log, k, p0)
          /\ Saying(in, log, g, m) /\ Saying(in, log, h, k) /\ p = Enrich(p0, g)
          /\ DOMAIN shown = 1..k /\ \A i \in 1..k : shown[i] = log[i]
      BY <2>2, <2>3, <2>5, <2>6
    <3> QED  BY <3>1, DrawsSaved
  <2>8. DOMAIN h = DOMAIN Films[run].graphs[Visible + 1]
    BY <2>2, <2>3
  <2> QED  BY <2>4, <2>6, <2>7, <2>8 DEF DrawsWhatIsSaved, OwnNodes, CreatedIn, Linked, OwnKinds
<1> QED  BY <1>1, CanvasAlwaysTyped, PTL

\* The last part is the whole.
LEMMA WholePart ==
    ASSUME NEW size \in Nat
    PROVE  Part(size, Batches) = size
BY CanvasOK DEF Part

\* Once a whole run is drawn over its final graph, the canvas shows how it went:
\* the saved statuses, the marked conflicts, the rounds and the artifacts, and
\* the report or the tool that failed.
THEOREM OutcomeAlwaysShown == Spec => []OutcomeIsShown
<1>1. TypeOK => OutcomeIsShown
  <2> SUFFICES ASSUME TypeOK, Apart(Runs[run].in), AllShown, Full PROVE OutcomeIsShown
    BY DEF OutcomeIsShown
  <2>1. PICK in, log, n, r, p0, g :
            /\ r = Runs[run] /\ in = r.in /\ log = Log(r) /\ n = Len(log)
            /\ p0 = Projections(log)[n + 1] /\ g = Saved(log, n)
    OBVIOUS
  <2>2. run \in DOMAIN Runs /\ InputOK(in)
    BY <2>1, RunsOK DEF TypeOK
  <2>3. /\ Telling(in, log, n) /\ RunEvents = log
        /\ Drawing = Enrich(Projections(log)[Visible + 1], Saved(log, Part(n, graph)))
    BY <2>1, CanvasDraws DEF OnCanvas
  <2>4. n \in Nat /\ n \in 0..n
    BY <2>3 DEF Telling
  <2>5. Size = n /\ Visible = n
    BY <2>1, <2>3 DEF Size, RunEvents, AllShown
  <2>6. Part(n, graph) = n /\ Arrived(graph) = n
    BY <2>4, <2>5, WholePart DEF Full, Arrived
  <2>7. Drawing = Enrich(p0, g)
    BY <2>1, <2>3, <2>5, <2>6
  <2>8. Saying(in, log, g, n)
    BY <2>1, <2>3, <2>4, SavedSays
  <2>9. SavedGraph = g
    BY <2>1, <2>2, <2>4, <2>6, Shown DEF SavedGraph
  <2>10. /\ Listens(in, log, n)
         /\ r.end = "completed" => Delivers(log, n)
         /\ r.end = "failed" => Fails(log, n)
    BY <2>1, <2>2, LogWhole
  <2>11. PICK p : p = Drawing
    OBVIOUS
  <2>12. Outcome(in, r, log, g, p)
    BY <2>1, <2>2, <2>3, <2>7, <2>8, <2>10, <2>11, OutcomeIs
  <2>13. Outcome(Runs[run].in, Runs[run], RunEvents, SavedGraph, Drawing)
    BY <2>1, <2>3, <2>9, <2>11, <2>12
  <2> QED  BY <2>13 DEF OutcomeIsShown, Outcome
<1> QED  BY <1>1, CanvasAlwaysTyped, PTL

\* A node stays where it was drawn, whatever arrives and whichever graph is
\* shown, until another run is.
THEOREM NodesAlwaysStay == Spec => NodesStay
<1>1. TypeOK /\ OnCanvas /\ OnCanvas' /\ [Next]_vars =>
          (Apart(Runs[run].in) /\ switches' = switches /\ Visible' >= Visible => Layout \subseteq Layout')
  <2> SUFFICES ASSUME TypeOK, OnCanvas, OnCanvas', [Next]_vars, Apart(Runs[run].in), switches' = switches, Visible' >= Visible
               PROVE  Layout \subseteq Layout'
    OBVIOUS
  <2>1. run' = run
    <3>1. switches \in Nat
      BY CanvasOK DEF TypeOK
    <3>2. ~Switch /\ ~Remount
      BY <3>1 DEF Switch, Remount
    <3> QED  BY <3>2 DEF Next, vars, Reset, Tick, RevealLatest, TogglePaused, Arrive, Refresh, Same
  <2>2. PICK in, log, n : in = Runs[run].in /\ log = Log(Runs[run]) /\ n = Len(log)
    OBVIOUS
  <2>3. PICK p, g, a, v : p = Projections(log)[Visible + 1] /\ a = Part(n, graph) /\ g = Saved(log, a) /\ v = Visible
    OBVIOUS
  <2>4. PICK q, h, b, w : q = Projections(log)[Visible' + 1] /\ b = Part(n, graph') /\ h = Saved(log, b) /\ w = Visible'
    OBVIOUS
  <2>5. /\ Telling(in, log, n) /\ v \in 0..n /\ a \in 0..n
        /\ Pictures(in, log, v, p) /\ Saying(in, log, g, a) /\ Layout = Places(Enrich(p, g))
    BY <2>2, <2>3 DEF OnCanvas
  <2>6. /\ w \in 0..n /\ b \in 0..n
        /\ Pictures(in, log, w, q) /\ Saying(in, log, h, b) /\ Layout' = Places(Enrich(q, h))
    <3>1. Apart(Runs[run'].in)
      BY <2>1
    <3>2. LET inn == Runs[run'].in  logg == Log(Runs[run'])  nn == Len(logg)
              pp == Projections(logg)[Visible' + 1]  gg == Saved(logg, Part(nn, graph'))
          IN  /\ Visible' \in 0..nn /\ Part(nn, graph') \in 0..nn
              /\ Pictures(inn, logg, Visible', pp) /\ Saying(inn, logg, gg, Part(nn, graph'))
              /\ Layout' = Places(Enrich(pp, gg))
      BY <3>1 DEF OnCanvas
    <3> QED  BY <2>1, <2>2, <2>4, <3>2
  <2>7. Keeps(p, q)
    <3>1. v <= w
      BY <2>3, <2>4, <2>5, <2>6
    <3> QED  BY <2>3, <2>4, <2>5, <2>6, <3>1, PicturesAre DEF Telling
  <2> QED  BY <2>5, <2>6, <2>7, PlacesStay
<1>2. TypeOK => OnCanvas
  BY CanvasDraws
<1> QED  BY <1>1, <1>2, CanvasAlwaysTyped, PTL DEF Spec, NodesStay
==============================================================================
