----------------------------- MODULE PageProofs -----------------------------
(****************************************************************************)
(* What holds of the pages' views for any tasks and sources and any number  *)
(* of runs, requests and failures: of the task that the workbench shows     *)
(* (TaskViews), and of the import of a source (SourceImport).               *)
(****************************************************************************)
EXTENDS TaskViews, SourceImport, FiniteSetTheorems, WellFoundedInduction, TLAPS

(****************************************************************************)
(* TaskViews.  Every answer that is still to come carries the run it is of, *)
(* so the argument is about what has been asked for: each request, stream   *)
(* and listed run is of a run that exists and, unless the shell was given   *)
(* another task, of the one selected.  A graph that was read is one that the*)
(* run has had, since graphs only grow.  What is shown is one of these.     *)
(****************************************************************************)
Run == [task : Tasks, graph : 0..MaxGraph, ended : BOOLEAN]
RunsTyped ==
    /\ runs \in Seq(Run) /\ Len(runs) <= MaxRuns
    /\ saved \in [1..MaxRuns -> Nat]

\* The task of the shell, and that nothing is shown when there is none.
AppTyped ==
    /\ opened \in Nat /\ shell \in 0..opened /\ selected \in Tasks \cup {NoTask}
    /\ onboarding \in BOOLEAN /\ (shell = 0) = (selected = NoTask \/ onboarding)
    /\ imports \subseteq Tasks /\ moved \in BOOLEAN /\ running \in BOOLEAN
    /\ shell = 0 => /\ shown = NoRun /\ history = {} /\ moved = FALSE
                    /\ restore = NoRestore /\ listings = {}

\* A run that was created, with a graph that it has had by now, and of the
\* selected task unless the shell was given another one.
Had(r, graph) == r \in Runs /\ graph \in Nat /\ graph <= runs[r].graph
OfTask(r) == ~moved => runs[r].task = selected

ShownRun == [run : Nat, events : Nat, of : Nat, graph : Nat, by : {"none", "start", "load"}]
ShownFits ==
    /\ shown \in ShownRun /\ shown.of = shown.run /\ shown.events = shown.run
    /\ shown.run # 0 => Had(shown.run, shown.graph) /\ OfTask(shown.run)
HistoryFits == \A r \in history : r \in Runs /\ OfTask(r)
RestoreFits ==
    /\ restore \in [state : {"none", "listing", "loading", "loaded"}, run : Nat, graph : Nat, ended : BOOLEAN]
    /\ restore.state \in {"loading", "loaded"} => restore.run \in Runs /\ OfTask(restore.run)
    /\ restore.state = "loaded" => Had(restore.run, restore.graph)
\* A list of runs that is asked for is of the shell's task, and so is one that
\* is put back.
ListingFits(l) ==
    /\ l \in [task : Tasks, by : {"effect", "end", "replay"}, old : SUBSET Nat]
    /\ ~moved => l.task = selected
    /\ \A r \in l.old : r \in Runs /\ OfTask(r)

\* A run that is to be shown again or repeated is of the task of the shell that
\* asks.
ReplayFits(p) ==
    /\ p \in [state : {"replay", "retry", "answered"}, shell : Nat, task : Tasks, old : SUBSET Nat,
              run : Nat, graph : Nat]
    /\ p.shell \in 1..opened /\ p.run \in Runs /\ p.old \subseteq Runs
    /\ p.state = "answered" => Had(p.run, p.graph)
    /\ p.shell = shell => OfTask(p.run) /\ \A r \in p.old : OfTask(r)
    /\ p.shell = shell /\ ~moved => p.task = selected

\* A request to start a run is of a shell and its task.
StartFits(s) ==
    /\ s \in [shell : Nat, task : Tasks, run : Nat] /\ s.shell \in 1..opened
    /\ s.run # 0 => s.run \in Runs /\ runs[s.run].task = s.task
    /\ ~moved /\ s.shell = shell => s.task = selected

\* A stream is of a run of its shell's task, ...
Stream == [run : Nat, shell : Nat, open : BOOLEAN, from : Nat, cursor : Nat,
           refresh : {"idle", "asked", "answered", "lost"}, graph : Nat, pending : BOOLEAN,
           final : BOOLEAN, buffered : BOOLEAN, by : {"start", "load", "late"}]
StreamFits(s) ==
    /\ s \in Stream /\ s.run \in Runs /\ s.shell \in 1..opened
    /\ s.refresh = "answered" => Had(s.run, s.graph)
    /\ s.open /\ s.shell # shell => s.by = "late"
    /\ s.shell = shell => OfTask(s.run)
\* ... and the only one of it that is open.
OneOpen(S) == \A s, u \in S : s.open /\ u.open /\ s.shell = u.shell => s = u
StreamsFit == (\A s \in streams : StreamFits(s)) /\ OneOpen(streams)

Fits ==
    /\ RunsTyped /\ AppTyped
    /\ ShownFits /\ HistoryFits /\ RestoreFits
    /\ (\A l \in listings : ListingFits(l)) /\ (\A p \in replays : ReplayFits(p))
    /\ (\A s \in starts : StartFits(s)) /\ StreamsFit

\* A set of runs has a latest one, ...
LEMMA LatestIsOne ==
    ASSUME NEW n \in Nat, NEW S \in SUBSET (1..n), S # {}
    PROVE  Max(S) \in S
<1> DEFINE Below == {n - i : i \in S}
<1>1. Below \subseteq Nat /\ Below # {}
  <2>1. PICK e \in S : TRUE
    OBVIOUS
  <2>2. n - e \in Below
    OBVIOUS
  <2> QED BY <2>2
<1>2. PICK m \in Below : \A k \in Below : ~(k < m)
  <2>1. PICK m \in Below : \A k \in Below : <<k, m>> \notin OpToRel(<, Nat)
    BY <1>1, NatLessThanWellFounded, WFMin
  <2> QED BY <1>1, <2>1 DEF OpToRel
<1>3. PICK i \in S : m = n - i
  OBVIOUS
<1>4. \A j \in S : i >= j
  <2> TAKE j \in S
  <2>1. n - j \in Below
    OBVIOUS
  <2> QED BY <1>2, <1>3, <2>1
<1> QED BY <1>4 DEF Max

\* ... and of two cursors one is further on.
LEMMA FurtherOn ==
    ASSUME NEW a \in Nat, NEW b \in Nat
    PROVE  Max({a, b}) \in Nat
<1>1. \E x \in {a, b} : \A y \in {a, b} : x >= y
  OBVIOUS
<1> QED BY <1>1 DEF Max

\* The runs of earlier visits are of the tasks visited.
LEMMA VisitedRuns ==
    /\ Cardinality(Visited) \in Nat
    /\ \A r \in 1..Cardinality(Visited) : SetToSeq(Visited)[r] \in Tasks
<1>1. Cardinality(Visited) \in Nat /\ ExistsBijection(1..Cardinality(Visited), Visited)
  BY ViewsOK, FS_CardinalityType
<1>2. \E f \in [1..Cardinality(Visited) -> Visited] : IsInjective(f)
  BY <1>1 DEF ExistsBijection, Bijection, Injection
<1>3. SetToSeq(Visited) \in [1..Cardinality(Visited) -> Visited]
  BY <1>2 DEF SetToSeq
<1> QED BY <1>1, <1>3, ViewsOK

\* What is known of runs.
LEMMA RunTypes ==
    ASSUME RunsTyped
    PROVE  /\ Len(runs) \in Nat /\ MaxRuns \in Nat /\ MaxGraph \in Nat /\ Runs \subseteq 1..MaxRuns
           /\ \A r \in Runs : /\ runs[r] \in Run /\ runs[r].task \in Tasks /\ runs[r].ended \in BOOLEAN
                              /\ runs[r].graph \in Nat /\ Had(r, runs[r].graph)
<1>1. Len(runs) \in Nat /\ MaxRuns \in Nat /\ MaxGraph \in Nat
  BY ViewsOK DEF RunsTyped
<1>2. \A r \in Runs : runs[r] \in Run
  BY DEF RunsTyped, Runs
<1> QED BY <1>1, <1>2 DEF Runs, Run, RunsTyped, Had

\* Runs are added and get on, and stay those of their tasks.
RunsGrow == \A r \in Runs : r \in Runs' /\ runs'[r].task = runs[r].task /\ runs[r].graph <= runs'[r].graph

\* No run has changed.
LEMMA SameRuns ==
    ASSUME RunsTyped, runs' = runs
    PROVE  RunsGrow
BY RunTypes DEF RunsGrow, Runs

\* So what was known of a run is known of it later.
LEMMA HadStays ==
    ASSUME RunsTyped, RunsTyped', RunsGrow, UNCHANGED <<moved, selected>>, NEW r \in Runs
    PROVE  /\ r \in Runs'
           /\ \A graph : Had(r, graph) => Had(r, graph)'
           /\ OfTask(r) => OfTask(r)'
<1>1. r \in Runs' /\ runs'[r].task = runs[r].task /\ runs[r].graph <= runs'[r].graph
  BY DEF RunsGrow
<1>2. runs[r] \in Run /\ runs'[r] \in Run
  BY <1>1 DEF RunsTyped, Runs
<1>3. runs[r].graph \in Nat /\ runs'[r].graph \in Nat
  BY <1>2, ViewsOK DEF Run
<1> QED BY <1>1, <1>3 DEF Had, OfTask

\* Of a step in the same shell only what it changes has to be looked at.
LEMMA Keeps ==
    ASSUME Fits, RunsTyped', RunsGrow, UNCHANGED <<app, opened>>, running' \in BOOLEAN,
           shell = 0 => UNCHANGED <<shown, history, restore, listings>>,
           shown' = shown \/ ShownFits', history' = history \/ HistoryFits',
           restore' = restore \/ RestoreFits',
           \A l \in listings' : l \in listings \/ ListingFits(l)',
           \A p \in replays' : p \in replays \/ ReplayFits(p)',
           \A s \in starts' : s \in starts \/ StartFits(s)',
           streams' = streams \/ StreamsFit'
    PROVE  Fits'
<1>1. RunsTyped /\ UNCHANGED <<moved, selected, shell, opened, onboarding, imports>>
  BY DEF Fits, app
<1>2. AppTyped'
  BY <1>1 DEF Fits, AppTyped
<1>3. shown' = shown => ShownFits'
  <2> SUFFICES ASSUME shown' = shown PROVE ShownFits'
    OBVIOUS
  <2>1. ShownFits
    BY DEF Fits
  <2>2. shown.run # 0 => shown.run \in Runs
    BY <2>1 DEF ShownFits, Had
  <2>3. shown.run # 0 => Had(shown.run, shown.graph)' /\ OfTask(shown.run)'
    BY <1>1, <2>1, <2>2, HadStays DEF ShownFits
  <2> QED BY <2>1, <2>3 DEF ShownFits
<1>4. history' = history => HistoryFits'
  BY <1>1, HadStays DEF Fits, HistoryFits
<1>5. restore' = restore => RestoreFits'
  BY <1>1, HadStays DEF Fits, RestoreFits
<1>6. ASSUME NEW l \in listings PROVE ListingFits(l)'
  <2>1. ListingFits(l)
    BY DEF Fits
  <2> QED BY <1>1, <2>1, HadStays DEF ListingFits
<1>7. ASSUME NEW p \in replays PROVE ReplayFits(p)'
  <2>1. ReplayFits(p)
    BY DEF Fits
  <2>2. p.old \subseteq Runs'
    BY <1>1, <2>1, HadStays DEF ReplayFits
  <2>3. p.shell = shell => \A r \in p.old : OfTask(r)'
    BY <1>1, <2>1, HadStays DEF ReplayFits
  <2>4. p.run \in Runs' /\ (p.shell = shell => OfTask(p.run)')
    BY <1>1, <2>1, HadStays DEF ReplayFits
  <2>5. p.state = "answered" => Had(p.run, p.graph)'
    BY <1>1, <2>1, HadStays DEF ReplayFits
  <2> QED BY <1>1, <2>1, <2>2, <2>3, <2>4, <2>5 DEF ReplayFits
<1>8. ASSUME NEW s \in starts PROVE StartFits(s)'
  <2>1. StartFits(s)
    BY <1>8 DEF Fits
  <2> QED BY <1>1, <2>1 DEF StartFits, RunsGrow
<1>9. streams' = streams => StreamsFit'
  <2>1. ASSUME NEW s \in streams PROVE StreamFits(s)'
    <3>1. StreamFits(s)
      BY DEF Fits, StreamsFit
    <3> QED BY <1>1, <3>1, HadStays DEF StreamFits
  <2> QED BY <2>1 DEF Fits, StreamsFit
<1> QED BY <1>2, <1>3, <1>4, <1>5, <1>6, <1>8, <1>9, <1>7 DEF Fits

\* What is left of streams are some of them.
LEMMA LiveOnes ==
    ASSUME NEW S
    PROVE  Live(S) \subseteq S
BY DEF Live

\* A stream goes on, for its shell, and is not opened again.
LEMMA GoesOn ==
    ASSUME Fits, RunsTyped', RunsGrow, UNCHANGED <<app, opened>>,
           NEW s \in streams, NEW t, StreamFits(t), t.shell = s.shell, t.open => s.open, Becomes(s, t)
    PROVE  StreamsFit'
<1>1. RunsTyped /\ UNCHANGED <<moved, selected, shell, opened>>
  BY DEF Fits, app
<1>2. streams' \subseteq (streams \ {s}) \cup {t}
  BY LiveOnes DEF Becomes
<1>3. ASSUME NEW u \in streams' PROVE StreamFits(u)'
  <2>1. StreamFits(u)
    BY <1>2 DEF Fits, StreamsFit
  <2> QED BY <1>1, <2>1, HadStays DEF StreamFits
<1>4. OneOpen(streams')
  BY <1>2 DEF Fits, StreamsFit, OneOpen
<1> QED BY <1>3, <1>4 DEF StreamsFit, OneOpen

\* A stream is opened for a shell, and takes the place of its open one.
LEMMA IsAttached ==
    ASSUME Fits, UNCHANGED <<runs, app, opened>>, NEW r \in Runs, NEW after \in Nat,
           NEW k \in 1..opened, NEW by \in {"start", "load"}, k = shell => OfTask(r),
           streams' = Attached(r, after, k, by)
    PROVE  StreamsFit'
<1>1. RunsTyped /\ UNCHANGED <<runs, moved, selected, shell, opened>>
  BY DEF Fits, app
<1>2. PICK new : /\ streams' = Closed(k) \cup {new} /\ new \in Stream
                 /\ new.run = r /\ new.shell = k /\ new.open /\ new.refresh = "idle"
                 /\ new.by = IF k = shell THEN by ELSE "late"
  <2>1. PICK from : from = Max({after, saved[r]})
    OBVIOUS
  <2>2. saved[r] \in Nat
    BY <1>1, RunTypes DEF RunsTyped
  <2>3. from \in Nat
    BY <2>1, <2>2, FurtherOn
  <2>4. r \in Nat /\ k \in Nat
    BY <1>1, RunTypes DEF Runs, Fits, AppTyped
  <2>5. streams' = Closed(k) \cup {[run |-> r, shell |-> k, open |-> TRUE, from |-> from, cursor |-> from,
                     refresh |-> "idle", graph |-> 0, pending |-> FALSE, final |-> FALSE,
                     buffered |-> FALSE, by |-> IF k = shell THEN by ELSE "late"]}
    BY <2>1 DEF Attached
  <2> DEFINE new == [run |-> r, shell |-> k, open |-> TRUE, from |-> from, cursor |-> from,
                     refresh |-> "idle", graph |-> 0, pending |-> FALSE, final |-> FALSE,
                     buffered |-> FALSE, by |-> IF k = shell THEN by ELSE "late"]
  <2>6. /\ new \in Stream /\ new.run = r /\ new.shell = k /\ new.open /\ new.refresh = "idle"
        /\ new.by = IF k = shell THEN by ELSE "late"
    BY <2>3, <2>4 DEF Stream
  <2>7. streams' = Closed(k) \cup {new}
    BY <2>5
  <2> QED BY <2>6, <2>7
<1>3. ASSUME NEW u \in Closed(k) PROVE StreamFits(u) /\ (u.open => u \in streams /\ u.shell # k)
  <2>1. PICK s \in streams : u = IF s.shell = k THEN [s EXCEPT !.open = FALSE, !.buffered = FALSE] ELSE s
    BY LiveOnes DEF Closed
  <2>2. StreamFits(s)
    BY DEF Fits, StreamsFit
  <2> QED BY <2>1, <2>2 DEF StreamFits, Stream
<1>4. StreamFits(new)
  BY <1>2 DEF StreamFits, Stream
<1>5. \A u \in streams' : StreamFits(u)'
  BY <1>1, <1>2, <1>3, <1>4 DEF StreamFits, Had, OfTask, Runs
<1>6. OneOpen(streams')
  BY <1>2, <1>3 DEF Fits, StreamsFit, OneOpen
<1> QED BY <1>5, <1>6 DEF StreamsFit, OneOpen

------------------------------------------------------------------------------
\* The server's steps: a run gets on, or a new one is added.
LEMMA RunAdded ==
    ASSUME RunsTyped, Len(runs) < MaxRuns, saved' = saved,
           NEW t \in Tasks, NEW graph \in 0..MaxGraph, NEW ended \in BOOLEAN,
           runs' = NewRun(t, graph, ended)
    PROVE  /\ RunsTyped' /\ RunsGrow
           /\ Len(runs) + 1 \in Runs' /\ runs'[Len(runs) + 1].task = t
           /\ runs'[Len(runs) + 1].graph = graph
<1>1. /\ runs \in Seq(Run) /\ Len(runs) \in Nat /\ MaxRuns \in Nat
      /\ [task |-> t, graph |-> graph, ended |-> ended] \in Run
  BY RunTypes DEF RunsTyped, Run
<1>2. PICK new \in Run : new = [task |-> t, graph |-> graph, ended |-> ended]
  BY <1>1
<1>3. runs' = Append(runs, new)
  BY <1>2 DEF NewRun
<1>4. runs' \in Seq(Run) /\ Len(runs') = Len(runs) + 1 /\ runs'[Len(runs) + 1] = new
      /\ \A r \in 1..Len(runs) : runs'[r] = runs[r]
  BY <1>1, <1>3
<1>5. \A r \in 1..Len(runs) : runs[r].graph \in Nat
  BY RunTypes DEF Runs
<1>6. RunsGrow
  BY <1>1, <1>4, <1>5 DEF RunsGrow, Runs
<1>7. RunsTyped'
  BY <1>1, <1>4 DEF RunsTyped
<1>8. Len(runs) + 1 \in Runs'
  BY <1>1, <1>4 DEF Runs
<1> QED BY <1>2, <1>4, <1>6, <1>7, <1>8

\* A run got on: its graph grew or it ended.
LEMMA EvolveFits ==
    ASSUME Fits, NEW r \in Runs, Evolve(r)
    PROVE  Fits'
<1>1. RunsTyped /\ UNCHANGED <<saved, app, view, starts, streams, bounds>>
  BY DEF Fits, Evolve
<1>2. /\ runs \in Seq(Run) /\ Len(runs) \in Nat /\ MaxGraph \in Nat
      /\ \A q \in Runs : runs[q] \in Run /\ runs[q].graph \in Nat
  BY <1>1, RunTypes DEF RunsTyped
<1>3. PICK new \in Run : /\ runs' = [runs EXCEPT ![r] = new]
                         /\ new.task = runs[r].task /\ runs[r].graph <= new.graph
  <2>1. CASE runs[r].graph < MaxGraph /\ runs' = [runs EXCEPT ![r].graph = @ + 1]
    <3>1. PICK new : new = [runs[r] EXCEPT !.graph = @ + 1]
      OBVIOUS
    <3>2. new \in Run /\ new.task = runs[r].task /\ runs[r].graph <= new.graph
      BY <1>2, <2>1, <3>1 DEF Run
    <3>3. runs' = [runs EXCEPT ![r] = new]
      BY <2>1, <3>1
    <3> QED BY <3>2, <3>3
  <2>2. CASE runs' = [runs EXCEPT ![r].ended = TRUE]
    <3>1. PICK new : new = [runs[r] EXCEPT !.ended = TRUE]
      OBVIOUS
    <3>2. new \in Run /\ new.task = runs[r].task /\ runs[r].graph <= new.graph
      <4>1. runs[r] \in Run /\ runs[r].graph \in Nat
        BY <1>2
      <4>2. new \in Run /\ new.task = runs[r].task /\ new.graph = runs[r].graph
        BY <3>1, <4>1 DEF Run
      <4> QED BY <4>1, <4>2
    <3>3. runs' = [runs EXCEPT ![r] = new]
      BY <2>2, <3>1
    <3> QED BY <3>2, <3>3
  <2> QED BY <2>1, <2>2 DEF Evolve
<1>4. runs' \in Seq(Run) /\ Len(runs') = Len(runs)
      /\ \A q \in Runs : runs'[q] = IF q = r THEN new ELSE runs[q]
  BY <1>2, <1>3 DEF Runs
<1>5. RunsTyped' /\ RunsGrow
  BY <1>1, <1>2, <1>3, <1>4 DEF RunsTyped, RunsGrow, Runs
<1> QED BY <1>1, <1>5, Keeps DEF view, bounds, Fits, AppTyped
------------------------------------------------------------------------------
\* The steps of a stream.  What it is of stays.
LEMMA StreamTypes ==
    ASSUME Fits, NEW s \in streams
    PROVE  /\ RunsTyped /\ StreamFits(s) /\ s \in Stream /\ s.run \in Runs
           /\ s.cursor \in Nat /\ s.run \in DOMAIN saved
<1>1. RunsTyped /\ StreamFits(s)
  BY DEF Fits, StreamsFit
<1> QED BY <1>1, RunTypes DEF StreamFits, Stream, RunsTyped

\* A request for the graph that is asked for or put off is of the same run.
LEMMA ScheduleFits ==
    ASSUME NEW s, StreamFits(s)
    PROVE  /\ StreamFits(Schedule(s)) /\ Schedule(s).shell = s.shell /\ Schedule(s).open = s.open
BY DEF StreamFits, Stream, Schedule, Had

\* So is a stream whose request has been answered.
LEMMA IdleFits ==
    ASSUME NEW s, StreamFits(s), NEW failed \in BOOLEAN
    PROVE  /\ StreamFits(Idle(s, failed)) /\ Idle(s, failed).shell = s.shell
           /\ Idle(s, failed).open = s.open
BY DEF StreamFits, Stream, Idle, Had

\* The buffered events are those of the run on display.
LEMMA WithEventsFits ==
    ASSUME Fits, NEW s \in streams, WithEvents(s), UNCHANGED <<runs, app>>
    PROVE  shown' = shown \/ (ShownFits' /\ shell # 0)
<1> SUFFICES ASSUME shown' # shown PROVE ShownFits' /\ shell # 0
  OBVIOUS
<1>1. s.shell = shell /\ shown.run = s.run /\ shown' = [shown EXCEPT !.events = s.run]
  BY DEF WithEvents
<1>2. ShownFits /\ StreamFits(s) /\ AppTyped
  BY DEF Fits, StreamsFit
<1>3. s.run \in Nat /\ s.shell \in 1..opened
  BY <1>2 DEF StreamFits, Stream
<1>4. /\ shown' \in ShownRun /\ shown'.run = shown.run /\ shown'.of = shown.of /\ shown'.graph = shown.graph
      /\ shown'.events = shown.run
  BY <1>1, <1>2, <1>3 DEF ShownFits, ShownRun
<1>5. ShownFits'
  BY <1>2, <1>4 DEF ShownFits, Had, OfTask, Runs, app
<1> QED BY <1>1, <1>2, <1>3, <1>5 DEF AppTyped

\* An event: the tab's cursor moves on, the graph is asked for, and at the end
\* the list of the task's runs is.
LEMMA DeliverFits ==
    ASSUME Fits, NEW s \in streams, Deliver(s)
    PROVE  Fits'
<1>1. /\ StreamFits(s) /\ s \in Stream /\ s.run \in Runs /\ s.run \in DOMAIN saved /\ s.cursor \in Nat /\ RunsTyped
      /\ AppTyped /\ UNCHANGED <<runs, app, history, restore, replays, starts, opened>>
  BY StreamTypes DEF Deliver, bounds, Fits
<1>2. RunsTyped' /\ RunsGrow
  <2>1. saved' \in [1..MaxRuns -> Nat]
    BY <1>1 DEF Deliver, RunsTyped
  <2> QED BY <1>1, <2>1, SameRuns DEF RunsTyped
<1>3. running' \in BOOLEAN
  BY DEF Deliver, Fits, AppTyped
<1>4. PICK t : t = [s EXCEPT !.cursor = @ + 1, !.buffered = s.by # "late"]
  OBVIOUS
<1>5. StreamFits(t) /\ t.shell = s.shell /\ t.open = s.open
  <2>1. PICK c \in Nat : c = s.cursor + 1
    BY <1>1
  <2>2. t = [s EXCEPT !.cursor = c, !.buffered = TRUE] \/ t = [s EXCEPT !.cursor = c, !.buffered = FALSE]
    <3>1. CASE s.by = "late"
      BY <1>4, <2>1, <3>1
    <3>2. CASE s.by # "late"
      BY <1>4, <2>1, <3>2
    <3> QED BY <3>1, <3>2
  <2>3. t \in Stream /\ t.run = s.run /\ t.shell = s.shell /\ t.open = s.open /\ t.refresh = s.refresh
        /\ t.graph = s.graph /\ t.by = s.by
    BY <1>1, <2>1, <2>2 DEF Stream
  <2> QED BY <1>1, <2>3 DEF StreamFits
<1>6. PICK u : /\ u \in {t, Schedule(t)}
               /\ Becomes(s, u) \/ Becomes(s, [u EXCEPT !.open = FALSE, !.final = TRUE, !.buffered = FALSE])
  BY <1>4 DEF Deliver
<1>7. StreamFits(u) /\ u.shell = s.shell /\ u.open = s.open
  BY <1>5, <1>6, ScheduleFits
<1>8. PICK v : Becomes(s, v) /\ StreamFits(v) /\ v.shell = s.shell /\ (v.open => s.open)
  <2>1. PICK v : v = [u EXCEPT !.open = FALSE, !.final = TRUE, !.buffered = FALSE]
    OBVIOUS
  <2>2. StreamFits(v) /\ v.shell = s.shell /\ ~v.open
    BY <1>7, <2>1 DEF StreamFits, Stream, Had
  <2> QED BY <1>6, <1>7, <2>1, <2>2
<1>9. StreamsFit'
  BY <1>1, <1>2, <1>8, GoesOn
<1>10. shown' = shown \/ (ShownFits' /\ shell # 0)
  BY <1>1, WithEventsFits DEF Deliver
<1>11. listings' = listings \/ (shell # 0 /\ \A l \in listings' : l \in listings \/ ListingFits(l)')
  <2> SUFFICES ASSUME listings' # listings
               PROVE  shell # 0 /\ \A l \in listings' : l \in listings \/ ListingFits(l)'
    OBVIOUS
  <2>1. s.shell = shell /\ listings' = listings \cup {[task |-> runs[s.run].task, by |-> "end", old |-> {}]}
    BY DEF Deliver, Relist
  <2>2. PICK l : l = [task |-> runs[s.run].task, by |-> "end", old |-> {}]
    OBVIOUS
  <2>3. runs[s.run].task \in Tasks /\ OfTask(s.run) /\ s.shell \in 1..opened
    BY <1>1, <2>1, RunTypes DEF StreamFits
  <2>4. ListingFits(l)'
    BY <1>1, <2>2, <2>3 DEF ListingFits, OfTask, app
  <2>5. shell # 0
    BY <1>1, <2>1, <2>3 DEF AppTyped
  <2>6. listings' = listings \cup {l}
    BY <2>1, <2>2
  <2> QED BY <2>4, <2>5, <2>6
<1> QED BY <1>1, <1>2, <1>3, <1>9, <1>10, <1>11, Keeps

\* A frame: the buffered events are added.
LEMMA FlushFits ==
    ASSUME Fits, NEW s \in streams, Flush(s)
    PROVE  Fits'
<1>1. /\ StreamFits(s) /\ s \in Stream /\ RunsTyped
      /\ UNCHANGED <<runs, saved, app, running, history, restore, listings, replays, starts, opened>>
  BY StreamTypes DEF Flush, bounds, server
<1>2. RunsTyped' /\ RunsGrow /\ running' \in BOOLEAN
  BY <1>1, SameRuns DEF RunsTyped, Fits, AppTyped
<1>3. PICK t : t = [s EXCEPT !.buffered = FALSE] /\ Becomes(s, t)
  BY DEF Flush
<1>4. StreamFits(t) /\ t.shell = s.shell /\ t.open = s.open
  BY <1>1, <1>3 DEF StreamFits, Stream, Had
<1>5. StreamsFit'
  BY <1>1, <1>2, <1>3, <1>4, GoesOn
<1>6. shown' = shown \/ (ShownFits' /\ shell # 0)
  BY <1>1, WithEventsFits DEF Flush
<1> QED BY <1>1, <1>2, <1>5, <1>6, Keeps

\* The server reads the graph: it is one that the run has.
LEMMA GraphReadFits ==
    ASSUME Fits, NEW s \in streams, GraphRead(s)
    PROVE  Fits'
<1>1. /\ StreamFits(s) /\ s \in Stream /\ RunsTyped
      /\ UNCHANGED <<runs, saved, app, shown, running, history, restore, listings, replays, starts, opened>>
  BY StreamTypes DEF GraphRead, bounds, server, view
<1>2. RunsTyped' /\ RunsGrow /\ running' \in BOOLEAN
  BY <1>1, SameRuns DEF RunsTyped, Fits, AppTyped
<1>3. PICK t : t = [s EXCEPT !.refresh = "answered", !.graph = runs[s.run].graph]
  OBVIOUS
<1>4. StreamFits(t) /\ t.shell = s.shell /\ t.open = s.open
  BY <1>1, <1>3, RunTypes DEF StreamFits, Stream, Had
<1>5. StreamsFit'
  BY <1>1, <1>2, <1>3, <1>4, GoesOn DEF GraphRead
<1> QED BY <1>1, <1>2, <1>5, Keeps

\* The graph is shown if the stream's run still is.
LEMMA GraphAnsweredFits ==
    ASSUME Fits, NEW s \in streams, GraphShown(s) \/ GraphFails(s)
    PROVE  Fits'
<1>1. /\ StreamFits(s) /\ s \in Stream /\ RunsTyped
      /\ UNCHANGED <<runs, saved, app, running, history, restore, listings, replays, starts, opened>>
  BY StreamTypes DEF GraphShown, GraphFails, bounds, server, view
<1>2. RunsTyped' /\ RunsGrow /\ running' \in BOOLEAN
  BY <1>1, SameRuns DEF RunsTyped, Fits, AppTyped
<1>3. StreamsFit'
  <2>1. PICK failed \in BOOLEAN : Becomes(s, Idle(s, failed))
    BY DEF GraphShown, GraphFails
  <2> QED BY <1>1, <1>2, <2>1, IdleFits, GoesOn
<1>4. shown' = shown \/ (ShownFits' /\ shell # 0)
  <2> SUFFICES ASSUME shown' # shown PROVE ShownFits' /\ shell # 0
    OBVIOUS
  <2>1. /\ s.refresh = "answered" /\ s.shell = shell /\ shown.run = s.run
        /\ shown' = [shown EXCEPT !.of = s.run, !.graph = s.graph]
    BY DEF GraphShown, GraphFails, view
  <2>2. /\ Had(s.run, s.graph) /\ OfTask(s.run) /\ s.shell \in 1..opened /\ s.run \in Nat /\ s.graph \in Nat
    BY <1>1, <2>1 DEF StreamFits, Stream
  <2>3. ShownFits /\ AppTyped
    BY DEF Fits
  <2>4. shown' \in ShownRun /\ shown'.run = s.run /\ shown'.of = s.run /\ shown'.graph = s.graph
        /\ shown'.events = s.run
    BY <2>1, <2>2, <2>3 DEF ShownFits, ShownRun
  <2>5. ShownFits'
    BY <1>1, <2>2, <2>4 DEF ShownFits, Had, OfTask, Runs, app
  <2> QED BY <2>1, <2>2, <2>3, <2>5 DEF AppTyped
<1> QED BY <1>1, <1>2, <1>3, <1>4, Keeps

\* At the end of its run a stream is closed; the run is read once more.
LEMMA EndFits ==
    ASSUME Fits, NEW s \in streams, EndShown(s) \/ EndLost(s)
    PROVE  Fits'
<1>1. /\ StreamFits(s) /\ s \in Stream /\ s.run \in Runs /\ RunsTyped
      /\ UNCHANGED <<runs, saved, app, running, history, restore, listings, replays, starts, opened>>
  BY StreamTypes DEF EndShown, EndLost, bounds, server, view
<1>2. RunsTyped' /\ RunsGrow /\ running' \in BOOLEAN
  BY <1>1, SameRuns DEF RunsTyped, Fits, AppTyped
<1>3. StreamsFit'
  <2>1. PICK t : t = [s EXCEPT !.final = FALSE] /\ Becomes(s, t)
    BY DEF EndShown, EndLost
  <2>2. StreamFits(t) /\ t.shell = s.shell /\ t.open = s.open
    BY <1>1, <2>1 DEF StreamFits, Stream, Had
  <2> QED BY <1>1, <1>2, <2>1, <2>2, GoesOn
<1>4. shown' = shown \/ (ShownFits' /\ shell # 0)
  <2> SUFFICES ASSUME shown' # shown PROVE ShownFits' /\ shell # 0
    OBVIOUS
  <2>1. s.shell = shell /\ shown.run = s.run /\ shown' = Shown(s.run, runs[s.run].graph, "load")
    BY DEF EndShown, EndLost, view
  <2>2. OfTask(s.run) /\ s.shell \in 1..opened /\ Had(s.run, runs[s.run].graph) /\ s.run \in Nat /\ AppTyped
        /\ runs[s.run].graph \in Nat
    BY <1>1, <2>1, RunTypes DEF StreamFits, Stream, Fits
  <2> QED BY <1>1, <2>1, <2>2 DEF ShownFits, ShownRun, Shown, Had, OfTask, Runs, app, AppTyped
<1> QED BY <1>1, <1>2, <1>3, <1>4, Keeps

\* A list of runs is the task's, or the one there was.
LEMMA RelistFits ==
    ASSUME Fits, NEW l \in listings, Relisted(l) \/ RelistFails(l)
    PROVE  Fits'
<1>1. /\ RunsTyped /\ AppTyped /\ ListingFits(l) /\ shell # 0
      /\ UNCHANGED <<runs, saved, app, shown, running, restore, replays, starts, streams, opened>>
      /\ listings' \subseteq listings
  BY DEF Fits, AppTyped, Relisted, RelistFails, server, bounds
<1>2. RunsTyped' /\ RunsGrow /\ running' \in BOOLEAN
  BY <1>1, SameRuns DEF RunsTyped, AppTyped
<1>3. history' = history \/ HistoryFits'
  <2>1. history' \in {history, l.old, RunsOf(l.task)}
    BY DEF Relisted, RelistFails
  <2>2. CASE history' = l.old
    BY <1>1, <2>2 DEF ListingFits, HistoryFits, OfTask, Runs, app
  <2>3. CASE history' = RunsOf(l.task)
    BY <1>1, <2>3 DEF ListingFits, HistoryFits, RunsOf, OfTask, Runs, app
  <2> QED BY <2>1, <2>2, <2>3
<1> QED BY <1>1, <1>2, <1>3, Keeps
------------------------------------------------------------------------------
\* Restoring a run.
LEMMA RestorableIs ==
    ASSUME RunsTyped, RunsOf(selected) # {}
    PROVE  Restorable(selected) \in RunsOf(selected)
<1>1. PICK S \in SUBSET RunsOf(selected) : S # {} /\ Restorable(selected) = Max(S)
  BY DEF Restorable
<1>2. Len(runs) \in Nat /\ S \subseteq 1..Len(runs)
  BY RunTypes DEF RunsOf, Runs
<1> QED BY <1>1, <1>2, LatestIsOne

\* Each step of the effect is of the run that it took from the list.
LEMMA RestoreKeeps ==
    ASSUME Fits, Listed \/ RestoreRead \/ Restored \/ RestoreFails
    PROVE  Fits'
<1>1. /\ RunsTyped /\ AppTyped /\ RestoreFits /\ restore.state # "none" /\ shell # 0 /\ selected \in Tasks
      /\ UNCHANGED <<runs, saved, app, replays, starts, opened>>
  BY DEF Listed, RestoreRead, Restored, RestoreFails, Fits, AppTyped, NoRestore, server, bounds
<1>2. RunsTyped' /\ RunsGrow
  BY <1>1, SameRuns DEF RunsTyped
<1>3. NoRestore \in [state : {"none", "listing", "loading", "loaded"}, run : Nat, graph : Nat, ended : BOOLEAN]
      /\ NoRestore.state = "none"
  BY DEF NoRestore
<1>4. ASSUME history' = RunsOf(selected) \/ history' = {} PROVE HistoryFits'
  BY <1>1, <1>4 DEF HistoryFits, RunsOf, OfTask, Runs, app
<1>5. CASE Listed
  <2>1. HistoryFits'
    BY <1>4, <1>5 DEF Listed
  <2>2. RestoreFits'
    <3>1. CASE RunsOf(selected) = {}
      <4>1. restore' = NoRestore
        BY <1>5, <3>1 DEF Listed
      <4> QED BY <1>3, <4>1 DEF RestoreFits
    <3>2. CASE RunsOf(selected) # {}
      <4>1. PICK r : r = Restorable(selected)
        OBVIOUS
      <4>2. r \in RunsOf(selected)
        BY <1>1, <3>2, <4>1, RestorableIs
      <4>3. r \in Nat /\ r \in Runs /\ runs[r].task = selected
        BY <1>1, <4>2, RunTypes DEF RunsOf, Runs
      <4>4. restore' = [NoRestore EXCEPT !.state = "loading", !.run = r]
        BY <1>5, <3>2, <4>1 DEF Listed
      <4>5. restore'.state = "loading" /\ restore'.run = r
            /\ restore' \in [state : {"none", "listing", "loading", "loaded"}, run : Nat, graph : Nat, ended : BOOLEAN]
        BY <4>3, <4>4 DEF NoRestore
      <4> QED BY <1>1, <4>3, <4>5 DEF RestoreFits, Runs, OfTask, app
    <3> QED BY <3>1, <3>2
  <2> QED BY <1>1, <1>2, <1>5, <2>1, <2>2, Keeps DEF Listed, AppTyped
<1>6. CASE RestoreRead
  <2>1. /\ restore.run \in Runs /\ OfTask(restore.run) /\ Had(restore.run, runs[restore.run].graph)
        /\ runs[restore.run].graph \in Nat /\ runs[restore.run].ended \in BOOLEAN
    BY <1>1, <1>6, RunTypes DEF RestoreRead, RestoreFits
  <2>2. /\ restore'.state = "loaded" /\ restore'.run = restore.run /\ restore'.graph = runs[restore.run].graph
        /\ restore' \in [state : {"none", "listing", "loading", "loaded"}, run : Nat, graph : Nat, ended : BOOLEAN]
    BY <1>1, <1>6, <2>1 DEF RestoreRead, RestoreFits
  <2>3. RestoreFits'
    BY <1>1, <2>1, <2>2 DEF RestoreFits, Had, Runs, OfTask, app
  <2> QED BY <1>1, <1>2, <1>6, <2>3, Keeps DEF RestoreRead, AppTyped
<1>7. CASE Restored
  <2>1. PICK r : r = restore.run
    OBVIOUS
  <2>2. /\ Had(r, restore.graph) /\ OfTask(r) /\ r \in Runs /\ r \in Nat /\ restore.graph \in Nat
        /\ restore.ended \in BOOLEAN
    BY <1>1, <1>7, <2>1 DEF Restored, RestoreFits
  <2>3. /\ shown' = Shown(r, restore.graph, "load") /\ running' = ~restore.ended /\ restore' = NoRestore
        /\ streams' = streams \/ streams' = Attached(r, restore.graph, shell, "load")
        /\ history' = history
        /\ listings' = listings \/ listings' = listings \cup {[task |-> selected, by |-> "effect", old |-> {}]}
    BY <1>7, <2>1 DEF Restored, Relist
  <2>4. ShownFits'
    BY <1>1, <2>2, <2>3 DEF ShownFits, ShownRun, Shown, Had, OfTask, Runs, app
  <2>5. RestoreFits'
    BY <1>3, <2>3 DEF RestoreFits
  <2>6. shell \in 1..opened
    BY <1>1 DEF AppTyped
  <2>7. streams' = streams \/ StreamsFit'
    BY <1>1, <2>2, <2>3, <2>6, IsAttached
  <2>8. \A l \in listings' : l \in listings \/ ListingFits(l)'
    <3>1. PICK l : l = [task |-> selected, by |-> "effect", old |-> {}]
      OBVIOUS
    <3>2. ListingFits(l)'
      BY <1>1, <3>1 DEF ListingFits, app
    <3> QED BY <2>3, <3>1, <3>2
  <2>9. running' \in BOOLEAN
    BY <2>2, <2>3
  <2> QED BY <1>1, <1>2, <2>3, <2>4, <2>5, <2>7, <2>8, <2>9, Keeps
<1>8. CASE RestoreFails
  <2>1. restore' = NoRestore /\ (history' = history \/ history' = {}) /\ UNCHANGED <<shown, running, listings, streams>>
    BY <1>8 DEF RestoreFails
  <2>2. RestoreFits'
    BY <1>3, <2>1 DEF RestoreFits
  <2>3. history' = history \/ HistoryFits'
    BY <1>4, <2>1
  <2> QED BY <1>1, <1>2, <2>1, <2>2, <2>3, Keeps DEF AppTyped
<1> QED BY <1>5, <1>6, <1>7, <1>8


------------------------------------------------------------------------------
\* Selecting a task.
LEMMA NoneTypes ==
    /\ NoRun \in ShownRun /\ NoRun.run = 0 /\ NoRun.of = 0 /\ NoRun.events = 0
    /\ NoRestore \in [state : {"none", "listing", "loading", "loaded"}, run : Nat, graph : Nat, ended : BOOLEAN]
    /\ NoRestore.state = "none"
BY DEF NoRun, ShownRun, NoRestore

\* The effect starts over without a run, and asks for no other list.
LEMMA EffectsFit ==
    ASSUME Effects
    PROVE  RestoreFits' /\ listings' \subseteq listings
<1>1. restore'.state = "listing"
      /\ restore' \in [state : {"none", "listing", "loading", "loaded"}, run : Nat, graph : Nat, ended : BOOLEAN]
  BY DEF Effects, NoRestore
<1>2. listings' \subseteq listings
  BY DEF Effects
<1> QED BY <1>1, <1>2 DEF RestoreFits

\* A request to show or repeat a run is of the same shell and of the same run as
\* long as this shell has not been given another task.
LEMMA ReplayStays ==
    ASSUME RunsTyped, UNCHANGED <<runs, opened>>, NEW p, ReplayFits(p),
           p.shell = shell' => p.shell = shell /\ (~moved' => ~moved /\ selected' = selected)
    PROVE  ReplayFits(p)'
<1>1. Runs' = Runs
  BY DEF Runs
<1>2. p.state = "answered" => Had(p.run, p.graph)'
  BY <1>1 DEF ReplayFits, Had
<1>3. p.shell = shell' => OfTask(p.run)' /\ \A r \in p.old : OfTask(r)'
  BY DEF ReplayFits, OfTask
<1> QED BY <1>1, <1>2, <1>3 DEF ReplayFits

\* A new shell has shown nothing and asked for nothing yet.
LEMMA NewShellFits ==
    ASSUME Fits, shell = 0, NEW t \in Tasks, NewShell(t), imports' \subseteq imports, onboarding' = FALSE,
           UNCHANGED <<server, moved, shown, running, history, replays, starts, streams>>
    PROVE  Fits'
<1>1. /\ RunsTyped /\ AppTyped /\ opened \in Nat /\ shown = NoRun /\ history = {} /\ listings = {}
      /\ selected' = t /\ shell' = opened + 1 /\ opened' = opened + 1 /\ t # NoTask /\ onboarding' = FALSE
      /\ UNCHANGED <<runs, saved, moved, shown, running, history, replays, starts, streams>>
  BY ViewsOK DEF Fits, AppTyped, NewShell, server
<1>2. RunsTyped'
  BY <1>1 DEF RunsTyped
<1>3. AppTyped'
  <2>1. opened' \in Nat /\ shell' \in 0..opened' /\ shell' # 0 /\ selected' \in Tasks \cup {NoTask}
    BY <1>1
  <2>2. onboarding' \in BOOLEAN /\ (shell' = 0) = (selected' = NoTask \/ onboarding')
    BY <1>1, <2>1
  <2>3. imports' \subseteq Tasks /\ moved' \in BOOLEAN /\ running' \in BOOLEAN
    BY <1>1 DEF AppTyped
  <2> QED BY <2>1, <2>2, <2>3 DEF AppTyped
<1>4. ShownFits' /\ HistoryFits'
  BY <1>1, NoneTypes DEF ShownFits, HistoryFits
<1>5. RestoreFits' /\ listings' = {}
  BY <1>1, EffectsFit DEF NewShell
<1>6. ASSUME NEW s \in starts PROVE StartFits(s)'
  <2>1. StartFits(s)
    BY DEF Fits
  <2> QED BY <1>1, <2>1 DEF StartFits, Runs
<1>7. ASSUME NEW s \in streams PROVE StreamFits(s)'
  <2>1. StreamFits(s)
    BY DEF Fits, StreamsFit
  <2> QED BY <1>1, <2>1 DEF StreamFits, Had, Runs
<1>8. StreamsFit'
  BY <1>1, <1>7 DEF Fits, StreamsFit
<1>9. ASSUME NEW p \in replays PROVE ReplayFits(p)'
  <2>1. ReplayFits(p)
    BY DEF Fits
  <2>2. p.shell \in 1..opened /\ p.shell # shell' /\ p.shell \in 1..opened'
    BY <1>1, <2>1 DEF ReplayFits
  <2> QED BY <1>1, <2>1, <2>2 DEF ReplayFits, Had, Runs
<1> QED BY <1>1, <1>2, <1>3, <1>4, <1>5, <1>6, <1>8, <1>9 DEF Fits

\* Opening a task makes a new shell.
LEMMA OpenFits ==
    ASSUME Fits, NEW t \in Tasks, Open(t)
    PROVE  Fits'
BY NewShellFits DEF Open

\* An import changes the task of a shell, which it then has to answer for; while
\* there is none it only changes the task that is selected, or opens it.
LEMMA ImportedFits ==
    ASSUME Fits, NEW t \in Tasks, Imported(t)
    PROVE  Fits'
<1>1. /\ RunsTyped /\ AppTyped /\ imports' \subseteq imports /\ t # NoTask
      /\ onboarding \in BOOLEAN /\ moved \in BOOLEAN
      /\ UNCHANGED <<runs, saved, onboarding, shown, running, history, replays, starts, streams>>
  BY ViewsOK DEF Fits, AppTyped, Imported, server
<1>2. RunsTyped'
  BY <1>1 DEF RunsTyped
<1>3. CASE shell = 0 /\ NewShell(t) /\ ~onboarding
  <2>1. UNCHANGED <<server, moved>>
    BY <1>3 DEF Imported, NewShell, AppTyped, Fits
  <2> QED BY <1>1, <1>3, <2>1, NewShellFits
<1>4. CASE shell' = shell /\ opened' = opened /\ selected' = t
           /\ (shell = 0 => onboarding /\ UNCHANGED <<moved, restore, listings>>)
           /\ (shell # 0 => ~onboarding /\ Effects /\ moved' = (moved \/ t # selected))
  <2>1. shell # 0 => (~moved' => ~moved /\ selected' = selected)
    BY <1>4
  <2>2. AppTyped'
    BY <1>1, <1>4 DEF AppTyped
  <2>3. RestoreFits' /\ listings' \subseteq listings
    <3>1. CASE shell = 0
      BY <1>1, <1>4, <3>1, NoneTypes DEF AppTyped, RestoreFits
    <3>2. CASE shell # 0
      BY <1>4, <3>2, EffectsFit
    <3> QED BY <3>1, <3>2
  <2>4. ShownFits' /\ HistoryFits'
    <3>1. ShownFits /\ HistoryFits
      BY DEF Fits
    <3>2. CASE shell = 0
      BY <1>1, <3>2, NoneTypes DEF AppTyped, ShownFits, HistoryFits
    <3>3. CASE shell # 0
      BY <1>1, <2>1, <3>1, <3>3 DEF ShownFits, HistoryFits, Had, OfTask, Runs
    <3> QED BY <3>2, <3>3
  <2>5. ASSUME NEW l \in listings' PROVE ListingFits(l)'
    <3>1. ListingFits(l) /\ shell # 0
      BY <1>1, <2>3 DEF Fits, AppTyped
    <3> QED BY <1>1, <2>1, <3>1 DEF ListingFits, OfTask, Runs
  <2>6. ASSUME NEW s \in starts PROVE StartFits(s)'
    <3>1. StartFits(s)
      BY DEF Fits
    <3>2. s.shell # 0
      BY <3>1 DEF StartFits, Fits, AppTyped
    <3> QED BY <1>1, <1>4, <2>1, <3>1, <3>2 DEF StartFits, Runs
  <2>7. ASSUME NEW s \in streams PROVE StreamFits(s)'
    <3>1. StreamFits(s)
      BY DEF Fits, StreamsFit
    <3>2. s.shell # 0
      BY <3>1 DEF StreamFits, Fits, AppTyped
    <3> QED BY <1>1, <1>4, <2>1, <3>1, <3>2 DEF StreamFits, Had, OfTask, Runs
  <2>8. StreamsFit'
    BY <1>1, <2>7 DEF Fits, StreamsFit
  <2>9. ASSUME NEW p \in replays PROVE ReplayFits(p)'
    <3>1. ReplayFits(p)
      BY DEF Fits
    <3>2. p.shell # 0
      BY <3>1 DEF ReplayFits, Fits, AppTyped
    <3> QED BY <1>1, <1>4, <2>1, <3>1, <3>2, ReplayStays
  <2> QED BY <1>1, <1>2, <2>2, <2>3, <2>4, <2>5, <2>6, <2>8, <2>9 DEF Fits
<1> QED BY <1>1, <1>3, <1>4 DEF Imported, AppTyped

\* What goes on after the shell has gone was not its own.
LEMMA LeaveFits ==
    ASSUME Fits, Leave
    PROVE  Fits'
<1>1. /\ RunsTyped /\ AppTyped /\ opened \in Nat
      /\ shell' = 0 /\ moved' = FALSE
      /\ shown' = NoRun /\ running' = FALSE /\ history' = {} /\ restore' = NoRestore /\ listings' = {}
      /\ replays' \subseteq replays /\ streams' = {s \in streams : s.open /\ s.shell # shell}
      /\ UNCHANGED <<runs, saved, imports, starts, opened>>
  BY DEF Fits, AppTyped, Leave, Away, Blank, server
<1>2. RunsTyped' /\ AppTyped'
  <2>1. RunsTyped'
    BY <1>1 DEF RunsTyped
  <2>2. 0 \in 0..opened /\ imports \subseteq Tasks
    BY <1>1 DEF AppTyped
  <2>3. /\ selected' \in Tasks \cup {NoTask} /\ onboarding' \in BOOLEAN
        /\ selected' = NoTask \/ onboarding'
    BY <1>1 DEF AppTyped, Leave, Away
  <2>4. AppTyped'
    BY <1>1, <2>2, <2>3 DEF AppTyped
  <2> QED BY <2>1, <2>4
<1>3. ShownFits' /\ HistoryFits' /\ RestoreFits'
  BY <1>1, NoneTypes DEF ShownFits, HistoryFits, RestoreFits
<1>4. ASSUME NEW s \in starts PROVE StartFits(s)'
  <2>1. StartFits(s)
    BY DEF Fits
  <2> QED BY <1>1, <2>1 DEF StartFits, Runs
<1>5. ASSUME NEW s \in streams' PROVE StreamFits(s)'
  <2>1. StreamFits(s) /\ s.by = "late"
    BY <1>1 DEF Fits, StreamsFit, StreamFits
  <2> QED BY <1>1, <2>1 DEF StreamFits, Had, Runs
<1>6. StreamsFit'
  BY <1>1, <1>5 DEF Fits, StreamsFit, OneOpen
<1>7. ASSUME NEW p \in replays' PROVE ReplayFits(p)'
  <2>1. ReplayFits(p)
    BY <1>1 DEF Fits
  <2>2. p.shell # 0
    BY <2>1 DEF ReplayFits, Fits, AppTyped
  <2> QED BY <1>1, <2>1, <2>2, ReplayStays
<1> QED BY <1>1, <1>2, <1>3, <1>4, <1>6, <1>7 DEF Fits

\* That data are being imported matters only when they have been.
LEMMA ImportFits ==
    ASSUME Fits, Import \/ \E t \in Tasks : ImportFails(t)
    PROVE  Fits'
<1>1. /\ RunsTyped /\ AppTyped /\ imports' \subseteq Tasks
      /\ UNCHANGED <<runs, saved, selected, shell, onboarding, moved, view, starts, streams, opened>>
  BY DEF Fits, AppTyped, Import, ImportFails, server
<1> QED BY <1>1 DEF Fits, view, RunsTyped, AppTyped, ShownFits, HistoryFits, RestoreFits, ListingFits, ReplayFits,
                    StartFits, StreamsFit, StreamFits, Had, OfTask, Runs
------------------------------------------------------------------------------
\* Starting and replaying runs.
LEMMA StartKeeps ==
    ASSUME Fits, Start
    PROVE  Fits'
<1>1. /\ RunsTyped /\ AppTyped /\ shell # 0 /\ selected # NoTask /\ running' = TRUE
      /\ starts' = starts \cup {[shell |-> shell, task |-> selected, run |-> 0]}
      /\ UNCHANGED <<runs, saved, app, shown, history, restore, listings, replays, streams, opened>>
  BY DEF Fits, AppTyped, Start, server
<1>2. RunsTyped' /\ RunsGrow
  BY <1>1, SameRuns DEF RunsTyped
<1>3. PICK new : new = [shell |-> shell, task |-> selected, run |-> 0]
  OBVIOUS
<1>4. StartFits(new)'
  BY <1>1, <1>3 DEF AppTyped, StartFits, app
<1> QED BY <1>1, <1>2, <1>3, <1>4, Keeps

\* The server creates the run for the task that was asked for.
LEMMA CreatedFits ==
    ASSUME Fits, NEW s \in starts, Created(s)
    PROVE  Fits'
<1>1. /\ RunsTyped /\ AppTyped /\ StartFits(s) /\ Len(runs) < MaxRuns
      /\ runs' = NewRun(s.task, 0, FALSE)
      /\ starts' = (starts \ {s}) \cup {[s EXCEPT !.run = Len(runs) + 1]}
      /\ UNCHANGED <<saved, app, shown, running, history, restore, listings, replays, streams, opened>>
  BY DEF Fits, Created, view, bounds
<1>2. /\ RunsTyped' /\ RunsGrow
      /\ Len(runs) + 1 \in Runs' /\ runs'[Len(runs) + 1].task = s.task
  <2>1. s.task \in Tasks /\ 0 \in 0..MaxGraph /\ FALSE \in BOOLEAN
    BY <1>1, RunTypes DEF StartFits
  <2> QED BY <1>1, <2>1, RunAdded
<1>3. PICK new : new = [s EXCEPT !.run = Len(runs) + 1]
  OBVIOUS
<1>4. StartFits(new)'
  <2>1. Len(runs) + 1 \in Nat
    BY <1>1, RunTypes
  <2>2. /\ new \in [shell : Nat, task : Tasks, run : Nat] /\ new.shell = s.shell /\ new.task = s.task
        /\ new.run = Len(runs) + 1
    BY <1>1, <1>3, <2>1 DEF StartFits
  <2> QED BY <1>1, <1>2, <2>2 DEF StartFits, app
<1>5. running' \in BOOLEAN
  BY <1>1 DEF AppTyped
<1> QED BY <1>1, <1>2, <1>3, <1>4, <1>5, Keeps

\* The answer shows the run if its shell still is there.
LEMMA StartedFits ==
    ASSUME Fits, NEW s \in starts, Started(s) \/ StartFails(s)
    PROVE  Fits'
<1>1. /\ RunsTyped /\ AppTyped /\ StartFits(s) /\ starts' \subseteq starts /\ running' \in BOOLEAN
      /\ UNCHANGED <<runs, saved, app, history, restore, listings, replays, opened>>
  BY DEF Fits, AppTyped, Started, StartFails, server, bounds
<1>2. RunsTyped' /\ RunsGrow
  BY <1>1, SameRuns DEF RunsTyped
<1>3. CASE Started(s)
  <2>1. /\ s.run # 0 /\ s.run \in Runs /\ s.run \in Nat /\ s.shell \in 1..opened
        /\ s.shell = shell => OfTask(s.run) /\ shell # 0
    BY <1>1, <1>3, RunTypes DEF Started, StartFits, AppTyped, OfTask, Runs
  <2>2. StreamsFit'
    BY <1>1, <1>3, <2>1, IsAttached DEF Started
  <2>3. shown' = shown \/ (ShownFits' /\ shell # 0)
    <3> SUFFICES ASSUME shown' # shown PROVE ShownFits' /\ shell # 0
      OBVIOUS
    <3>1. s.shell = shell /\ shown' = Shown(s.run, 0, "start")
      BY <1>3 DEF Started
    <3>2. Had(s.run, 0) /\ OfTask(s.run)
      BY <1>1, <2>1, <3>1, RunTypes DEF Had
    <3> QED BY <1>1, <2>1, <3>1, <3>2 DEF ShownFits, ShownRun, Shown, Had, OfTask, Runs, app
  <2> QED BY <1>1, <1>2, <2>2, <2>3, Keeps
<1>4. CASE StartFails(s)
  BY <1>1, <1>2, <1>4, Keeps DEF StartFails
<1> QED BY <1>3, <1>4

\* What is replayed or repeated was in the history, and so of the task.
LEMMA ReplayKeeps ==
    ASSUME Fits, NEW r \in Runs, Replay(r)
    PROVE  Fits'
<1>1. /\ RunsTyped /\ AppTyped /\ HistoryFits /\ r \in history /\ shell # 0 /\ selected \in Tasks
      /\ UNCHANGED <<runs, saved, app, shown, running, history, restore, listings, starts, streams, opened>>
  BY DEF Fits, AppTyped, Replay, server
<1>2. RunsTyped' /\ RunsGrow /\ running' \in BOOLEAN
  BY <1>1, SameRuns DEF RunsTyped, AppTyped
<1>3. PICK p : /\ \E kind \in {"replay", "retry"} :
                    p = [state |-> kind, shell |-> shell, task |-> selected, old |-> history, run |-> r, graph |-> 0]
               /\ replays' = replays \cup {p}
  BY DEF Replay
<1>4. OfTask(r) /\ r \in Nat /\ history \subseteq Runs /\ history \subseteq Nat /\ \A q \in history : OfTask(q)
  BY <1>1, RunTypes DEF HistoryFits, Runs
<1>5. p \in [state : {"replay", "retry", "answered"}, shell : Nat, task : Tasks, old : SUBSET Nat,
             run : Nat, graph : Nat]
      /\ p.shell = shell /\ p.shell \in 1..opened /\ p.task = selected /\ p.run = r /\ p.old = history
      /\ p.state # "answered"
  BY <1>1, <1>3, <1>4 DEF AppTyped
<1>6. ReplayFits(p)'
  BY <1>1, <1>4, <1>5 DEF ReplayFits, OfTask, Runs, app
<1> QED BY <1>1, <1>2, <1>3, <1>6, Keeps

\* The server reads it, or adds a run of the same task.
LEMMA ReplayReadFits ==
    ASSUME Fits, NEW p \in replays, ReplayRead(p)
    PROVE  Fits'
<1>1. /\ RunsTyped /\ AppTyped /\ ReplayFits(p) /\ p.run \in Runs
      /\ UNCHANGED <<saved, app, shown, running, history, restore, listings, starts, streams, opened>>
  BY DEF Fits, ReplayFits, ReplayRead, bounds
<1>2. running' \in BOOLEAN /\ runs[p.run].task \in Tasks /\ runs[p.run].graph \in Nat /\ MaxGraph \in Nat
      /\ Len(runs) + 1 \in Nat
  BY <1>1, RunTypes DEF AppTyped
<1>3. PICK q \in Nat, graph \in Nat :
          /\ RunsTyped' /\ RunsGrow /\ q \in Runs' /\ runs'[q].task = runs[p.run].task /\ graph <= runs'[q].graph
          /\ replays' \subseteq (replays \ {p}) \cup {[p EXCEPT !.state = "answered", !.run = q, !.graph = graph]}
          /\ \A u \in replays' : u \in replays \/ p.shell = shell
  <2>1. CASE runs' = runs /\ p.state = "replay"
    <3>1. RunsTyped' /\ RunsGrow /\ p.run \in Runs' /\ p.run \in Nat
      BY <1>1, <2>1, SameRuns DEF RunsTyped, Runs
    <3>2. PICK graph \in Nat : graph = runs[p.run].graph
      BY <1>2
    <3>3. /\ replays' \subseteq (replays \ {p}) \cup {[p EXCEPT !.state = "answered", !.run = p.run, !.graph = graph]}
          /\ \A u \in replays' : u \in replays \/ p.shell = shell
      BY <2>1, <3>2 DEF ReplayRead
    <3>4. runs'[p.run].task = runs[p.run].task /\ graph <= runs'[p.run].graph
      BY <2>1, <3>2
    <3> QED BY <3>1, <3>2, <3>3, <3>4
  <2>2. CASE Len(runs) < MaxRuns /\ runs' = NewRun(runs[p.run].task, MaxGraph, TRUE) /\ p.state = "retry"
    <3>1. MaxGraph \in 0..MaxGraph /\ TRUE \in BOOLEAN
      BY <1>2
    <3>2. /\ RunsTyped' /\ RunsGrow /\ Len(runs) + 1 \in Runs' /\ runs'[Len(runs) + 1].task = runs[p.run].task
          /\ runs'[Len(runs) + 1].graph = MaxGraph
      BY <1>1, <1>2, <2>2, <3>1, RunAdded
    <3>3. PICK q \in Nat : q = Len(runs) + 1
      BY <1>2
    <3>4. /\ replays' \subseteq (replays \ {p}) \cup {[p EXCEPT !.state = "answered", !.run = q, !.graph = MaxGraph]}
          /\ \A u \in replays' : u \in replays \/ p.shell = shell
      BY <2>2, <3>3 DEF ReplayRead
    <3>5. MaxGraph <= MaxGraph
      BY <1>2
    <3> QED BY <1>2, <3>2, <3>3, <3>4, <3>5
  <2> QED BY <2>1, <2>2 DEF ReplayRead
<1>4. ASSUME NEW u \in replays', u \notin replays PROVE ReplayFits(u)'
  <2>1. u = [p EXCEPT !.state = "answered", !.run = q, !.graph = graph] /\ p.shell = shell
    BY <1>3, <1>4
  <2>2. /\ u \in [state : {"replay", "retry", "answered"}, shell : Nat, task : Tasks, old : SUBSET Nat,
                   run : Nat, graph : Nat]
        /\ u.shell = shell /\ u.task = p.task /\ u.old = p.old /\ u.run = q /\ u.graph = graph
        /\ u.state = "answered"
    BY <1>1, <1>3, <2>1 DEF ReplayFits
  <2>3. OfTask(p.run) /\ p.old \subseteq Runs /\ p.shell \in 1..opened /\ (~moved => p.task = selected)
        /\ \A o \in p.old : OfTask(o)
    BY <1>1, <2>1 DEF ReplayFits
  <2>4. Had(q, graph)' /\ OfTask(q)'
    BY <1>1, <1>3, <2>3 DEF Had, OfTask, app
  <2>5. p.old \subseteq Runs' /\ \A o \in p.old : OfTask(o)'
    BY <1>1, <1>3, <2>3 DEF OfTask, RunsGrow, app
  <2>6. u.shell \in 1..opened' /\ u.run \in Runs' /\ u.old \subseteq Runs'
    BY <1>1, <1>3, <2>1, <2>2, <2>3, <2>5
  <2>7. OfTask(u.run)' /\ Had(u.run, u.graph)' /\ \A o \in u.old : OfTask(o)'
    BY <2>2, <2>4, <2>5
  <2>8. ~moved' => u.task = selected'
    BY <1>1, <2>2, <2>3 DEF app
  <2> QED BY <2>2, <2>6, <2>7, <2>8 DEF ReplayFits
<1> QED BY <1>1, <1>2, <1>3, <1>4, Keeps

\* It is shown by the shell that asked for it, which lists the runs again.
LEMMA ReplayedFits ==
    ASSUME Fits, NEW p \in replays, Replayed(p) \/ ReplayFails(p)
    PROVE  Fits'
<1>1. /\ RunsTyped /\ AppTyped /\ ReplayFits(p) /\ replays' \subseteq replays
      /\ UNCHANGED <<runs, saved, app, running, history, restore, starts, streams, opened>>
  BY DEF Fits, Replayed, ReplayFails, server, bounds
<1>2. RunsTyped' /\ RunsGrow /\ running' \in BOOLEAN
  BY <1>1, SameRuns DEF RunsTyped, AppTyped
<1>3. CASE Replayed(p)
  <2>1. /\ p.shell = shell /\ shell # 0 /\ shown' = Shown(p.run, p.graph, "load")
        /\ Had(p.run, p.graph) /\ OfTask(p.run) /\ p.run \in Nat /\ p.graph \in Nat
    BY <1>1, <1>3 DEF Replayed, ReplayFits, AppTyped
  <2>2. ShownFits'
    BY <1>1, <2>1 DEF ShownFits, ShownRun, Shown, Had, OfTask, Runs, app
  <2>3. PICK l : l = [task |-> p.task, by |-> "replay", old |-> p.old] /\ listings' = listings \cup {l}
    BY <1>3 DEF Replayed, Relist
  <2>4. l \in [task : Tasks, by : {"effect", "end", "replay"}, old : SUBSET Nat]
        /\ l.task = p.task /\ l.old = p.old
    BY <1>1, <2>3 DEF ReplayFits
  <2>5. ListingFits(l)'
    BY <1>1, <2>1, <2>4 DEF ListingFits, ReplayFits, OfTask, Runs, app
  <2> QED BY <1>1, <1>2, <2>1, <2>2, <2>3, <2>5, Keeps
<1>4. CASE ReplayFails(p)
  BY <1>1, <1>2, <1>4, Keeps DEF ReplayFails
<1> QED BY <1>3, <1>4
------------------------------------------------------------------------------
\* The runs of earlier visits are there at the start, and nothing is shown.
LEMMA InitFits == Init => Fits
<1> SUFFICES ASSUME Init PROVE Fits
  OBVIOUS
<1>1. PICK n : n = Cardinality(Visited)
  OBVIOUS
<1>2. n \in Nat /\ n <= MaxRuns /\ MaxGraph \in Nat /\ MaxRuns \in Nat
  BY <1>1, VisitedRuns, ViewsOK
<1>3. ASSUME NEW r \in 1..n PROVE [task |-> SetToSeq(Visited)[r], graph |-> MaxGraph, ended |-> TRUE] \in Run
  BY <1>1, <1>2, VisitedRuns DEF Run
<1>4. runs \in [1..n -> Run]
  <2>1. runs = [r \in 1..n |-> [task |-> SetToSeq(Visited)[r], graph |-> MaxGraph, ended |-> TRUE]]
    BY <1>1 DEF Init
  <2> QED BY <1>3, <2>1
<1>5. runs \in Seq(Run) /\ Len(runs) = n
  BY <1>2, <1>4
<1>6. RunsTyped
  BY <1>2, <1>5 DEF Init, RunsTyped
<1>7. AppTyped
  <2>1. opened = 0 /\ shell = 0 /\ selected = NoTask /\ imports = {} /\ moved = FALSE /\ running = FALSE
        /\ shown = NoRun /\ history = {} /\ restore = NoRestore /\ listings = {} /\ onboarding = FALSE
    BY DEF Init
  <2>2. 0 \in Nat /\ 0 \in 0..0 /\ {} \subseteq Tasks
    OBVIOUS
  <2>3. opened \in Nat /\ shell \in 0..opened /\ imports \subseteq Tasks
    BY <2>1, <2>2
  <2>4. onboarding \in BOOLEAN /\ (shell = 0) = (selected = NoTask \/ onboarding)
    BY <2>1
  <2> QED BY <2>1, <2>3, <2>4 DEF AppTyped
<1>8. ShownFits /\ HistoryFits /\ RestoreFits
  BY NoneTypes DEF Init, ShownFits, HistoryFits, RestoreFits
<1> QED BY <1>6, <1>7, <1>8 DEF Init, Fits, StreamsFit, OneOpen

\* Every step, of the user, the server or an answer, keeps it.
LEMMA StepFits == Fits /\ [Next]_vars => Fits'
<1> SUFFICES ASSUME Fits, [Next]_vars PROVE Fits'
  OBVIOUS
<1>1. CASE UNCHANGED vars
  <2>1. UNCHANGED <<runs, saved, app, shown, running, history, restore, listings, replays, starts, streams, opened>>
    BY <1>1 DEF vars, server, view, bounds
  <2>2. RunsTyped' /\ RunsGrow /\ running' \in BOOLEAN
    BY <2>1, SameRuns DEF Fits, RunsTyped, AppTyped
  <2> QED BY <2>1, <2>2, Keeps
<1>2. CASE Next
  BY <1>2, EvolveFits, ReplayKeeps, DeliverFits, FlushFits, GraphReadFits, GraphAnsweredFits, EndFits, OpenFits,
     ImportedFits, ImportFits, LeaveFits, StartKeeps, CreatedFits, StartedFits, RestoreKeeps, RelistFits,
     ReplayReadFits, ReplayedFits DEF Next
<1> QED BY <1>1, <1>2

\* So it always holds.
LEMMA AlwaysFits == Spec => []Fits
BY InitFits, StepFits, PTL DEF Spec

\* For any tasks, runs, shells and answers that are late, lost or overtake each
\* other: attachRunStream and the effect that restores a run never leave the
\* events of one run on display with the evidence graph of another, nor a graph
\* that the run does not have yet.
THEOREM OneRunShown == Spec => []DataOfOneRun
<1>1. Fits => DataOfOneRun
  <2> SUFFICES ASSUME Fits PROVE DataOfOneRun
    OBVIOUS
  <2>1. TypeOK
    BY DEF Fits, TypeOK, RunsTyped, Run, AppTyped, ShownFits, ShownRun, HistoryFits, StreamsFit, StreamFits, Had
  <2> QED BY <2>1 DEF Fits, DataOfOneRun, ShownFits, Had
<1> QED BY <1>1, AlwaysFits, PTL

\* However often runs are started, restored, replayed and repeated: TaskShell
\* closes a stream before it opens the next one and when it goes, so a shell has
\* one at most; what goes on without its shell was started by a late answer.
THEOREM StreamsDoNotPileUp == Spec => []BackgroundStreams
<1>1. Fits => BackgroundStreams
  <2> SUFFICES ASSUME Fits PROVE BackgroundStreams
    OBVIOUS
  <2>1. ASSUME NEW k \in 1..opened PROVE Cardinality({s \in streams : s.open /\ s.shell = k}) <= 1
    <3>1. PICK S : S = {s \in streams : s.open /\ s.shell = k}
      OBVIOUS
    <3>2. \A s, u \in S : s = u
      BY <3>1 DEF Fits, StreamsFit, OneOpen
    <3>3. S = {} \/ \E s : S = {s}
      BY <3>2
    <3>4. Cardinality(S) <= 1
      <4>1. CASE S = {}
        BY <4>1, FS_EmptySet
      <4>2. ASSUME NEW s, S = {s} PROVE Cardinality(S) <= 1
        <5>1. Cardinality({s}) = 1
          BY FS_Singleton
        <5> QED BY <4>2, <5>1
      <4> QED BY <3>3, <4>1, <4>2
    <3> QED BY <3>1, <3>4
  <2> QED BY <2>1 DEF Fits, StreamsFit, StreamFits, BackgroundStreams
<1> QED BY <1>1, AlwaysFits, PTL

\* The run and the history of a shell are of the selected task, whatever was
\* asked for in other shells, unless an import answered late gave it another
\* task (App.updateCurrentTask).
THEOREM OfSelectedTask == Spec => []TaskOfShown
<1>1. Fits => TaskOfShown
  BY DEF Fits, ShownFits, HistoryFits, OfTask, TaskOfShown, RunsOf
<1> QED BY <1>1, AlwaysFits, PTL

(****************************************************************************)
(* SourceImport.  In the workbench path, preview and plan are always of one *)
(* source.  In the older page they are as long as its requests come one at  *)
(* a time: the only one that leaves them apart is the preview of an upload, *)
(* and nothing can be applied before its answer without an overlap.         *)
(****************************************************************************)
Request == [id : Nat, kind : Kinds \cup {"preview", "propose", "apply", "attach"}, source : Sources,
            plan : Sources \cup {None}, live : BOOLEAN, orderly : BOOLEAN]

ImportTypes ==
    /\ page \in {"workbench", "legacy"} /\ open \in BOOLEAN
    /\ tab \in {TabOf(kind) : kind \in Kinds}
    /\ path \in Sources \cup {None} /\ preview \in Sources \cup {None} /\ plan \in Sources \cup {None}
    /\ busy \in BOOLEAN /\ (busy => Workbench)
    /\ requests \subseteq Request /\ sent \in Nat
    /\ orderly \in BOOLEAN /\ faults \in Nat

\* What is shown belongs together.
ChoiceFits ==
    /\ plan # None => preview # None /\ Fields[plan] \subseteq Fields[preview]
    /\ Workbench => plan \in {None, path}

\* The older page, one request at a time.
OneAtATime == Legacy /\ orderly =>
    /\ \A r, q \in requests : r = q
    /\ \A r \in requests : r.kind \in {"preview", "propose"} => path = r.source
    /\ (\A r \in requests : r.kind # "preview") => plan \in {None, path}

\* Only the older page asks for a plan, and only when it shows a preview; only
\* the workbench adds what was converted to a task.
OfOlderPage == \A r \in requests :
    /\ r.kind = "propose" => Legacy /\ preview # None
    /\ r.kind = "attach" => Workbench

AppliesFit == \A r \in requests : r.kind = "apply" =>
    r.plan \in Sources /\ (r.source = r.plan \/ (Legacy /\ ~r.orderly))

ConvertedFit == \A c \in converted : c.source = c.plan \/ (Legacy /\ ~c.orderly)

ImportInv == ImportTypes /\ ChoiceFits /\ OneAtATime /\ OfOlderPage /\ AppliesFit /\ ConvertedFit

\* No source is called "none".
LEMMA NoneIsNoSource == None \notin Sources
  BY ImportOK DEF None

\* Nothing is shown and nothing under way.
LEMMA InitImport == ImportInit => ImportInv
<1> SUFFICES ASSUME ImportInit PROVE ImportInv
  OBVIOUS
<1>1. "path" = TabOf("path") /\ "path" \in Kinds
  BY DEF TabOf, Kinds
<1>2. page \in {"workbench", "legacy"}
  BY ImportOK DEF ImportInit
<1> QED BY <1>1, <1>2 DEF ImportInit, ImportInv, ImportTypes, ChoiceFits, OneAtATime, OfOlderPage, AppliesFit, ConvertedFit, None

\* What a new request is, and what it says of the requests before it.
LEMMA AskedIs ==
    ASSUME ImportTypes, NEW kind \in Kinds \cup {"propose", "apply"}, NEW source \in Sources,
           NEW by \in Sources \cup {None}, Ask(kind, source, by)
    PROVE  \E r \in Request :
             /\ r.kind = kind /\ r.source = source /\ r.plan = by /\ r.orderly = orderly'
             /\ requests' = requests \cup {r} /\ orderly' = (orderly /\ requests = {})
             /\ sent' \in Nat /\ orderly' \in BOOLEAN
<1> DEFINE r == [id |-> sent + 1, kind |-> kind, source |-> source, plan |-> by,
                 live |-> TRUE, orderly |-> orderly']
<1>1. orderly' = (orderly /\ requests = {}) /\ sent' = sent + 1 /\ requests' = requests \cup {r}
  BY DEF Ask
<1>2. orderly' \in BOOLEAN
  BY <1>1 DEF ImportTypes
<1>3. r \in Request
  BY <1>2 DEF Request, ImportTypes
<1>4. sent' \in Nat
  BY <1>1 DEF ImportTypes
<1>5. r.kind = kind /\ r.source = source /\ r.plan = by /\ r.orderly = orderly'
  OBVIOUS
<1> QED BY <1>1, <1>2, <1>3, <1>4, <1>5

\* A request that keeps the rules of its kind keeps those of the import.
LEMMA AskKeeps ==
    ASSUME ImportInv, NEW kind \in Kinds \cup {"propose", "apply"}, NEW source \in Sources,
           NEW by \in Sources \cup {None}, Ask(kind, source, by),
           kind = "propose" => source = path /\ Legacy /\ preview # None,
           kind = "apply" => source = path /\ by = plan /\ by \in Sources,
           busy' = (IF kind = "propose" THEN busy ELSE Workbench),
           UNCHANGED <<page, open, tab, path, preview, plan, converted, faults>>
    PROVE  ImportInv'
<1>1. PICK r \in Request :
        /\ r.kind = kind /\ r.source = source /\ r.plan = by /\ r.orderly = orderly'
        /\ requests' = requests \cup {r} /\ orderly' = (orderly /\ requests = {})
        /\ sent' \in Nat /\ orderly' \in BOOLEAN
  <2>1. ImportTypes
    BY DEF ImportInv
  <2> QED BY <2>1, AskedIs
<1>2. ImportTypes'
  BY <1>1 DEF ImportInv, ImportTypes, TabOf, Legacy, Workbench
<1>3. ChoiceFits'
  BY DEF ImportInv, ChoiceFits, Workbench
<1>4. OneAtATime'
  <2> SUFFICES ASSUME Legacy, orderly' PROVE OneAtATime'
    BY DEF OneAtATime, Legacy
  <2>1. requests' = {r} /\ orderly /\ requests = {}
    BY <1>1
  <2>2. plan \in {None, path}
    BY <2>1 DEF ImportInv, OneAtATime
  <2>3. r.kind # "preview"
    BY <1>1 DEF Kinds
  <2> QED BY <1>1, <2>1, <2>2, <2>3 DEF OneAtATime, Kinds
<1>5. AppliesFit'
  <2> SUFFICES ASSUME kind = "apply"
               PROVE  r.source = r.plan \/ (Legacy /\ ~r.orderly)
    BY <1>1 DEF ImportInv, AppliesFit, Legacy
  <2>1. r.source = path /\ r.plan = plan /\ plan # None
    BY <1>1, NoneIsNoSource
  <2>2. CASE Workbench
    BY <2>1, <2>2 DEF ImportInv, ChoiceFits
  <2>3. CASE Legacy /\ r.orderly
    <3>1. orderly /\ requests = {}
      BY <1>1, <2>3
    <3> QED BY <2>1, <2>3, <3>1 DEF ImportInv, OneAtATime
  <2> QED BY <2>2, <2>3 DEF ImportInv, ImportTypes, Workbench, Legacy
<1>6. ConvertedFit'
  BY DEF ImportInv, ConvertedFit, Legacy
<1>7. OfOlderPage'
  BY <1>1 DEF ImportInv, OfOlderPage, Legacy, Workbench, Kinds
<1> QED BY <1>2, <1>3, <1>4, <1>5, <1>6, <1>7 DEF ImportInv

\* One request fewer: what is said of all of them is said of the rest.
LEMMA FewerRequests ==
    ASSUME ImportInv, NEW r \in requests, requests' = requests \ {r},
           page' = page, orderly' => orderly, preview # None => preview' # None,
           Legacy /\ orderly' => plan' \in {None, path'}
    PROVE  OneAtATime' /\ OfOlderPage' /\ AppliesFit'
<1>1. AppliesFit'
  BY DEF ImportInv, AppliesFit, Legacy
<1>2. OfOlderPage'
  BY DEF ImportInv, OfOlderPage, Legacy, Workbench
<1>3. ASSUME Legacy, orderly' PROVE requests' = {}
  BY <1>3 DEF ImportInv, OneAtATime
<1> QED BY <1>1, <1>2, <1>3 DEF OneAtATime, Legacy

\* What is converted was asked for.
LEMMA ConvertKeeps ==
    ASSUME ImportInv, NEW r \in requests, Convertible(r), Convert(r), page' = page
    PROVE  ConvertedFit'
  BY DEF ImportInv, AppliesFit, ConvertedFit, Convertible, Convert, Legacy

\* What is left of the requests of an import that is gone.
LEMMA UnheardKeeps ==
    ASSUME ImportInv, NEW rs, rs \subseteq requests
    PROVE  /\ Unheard(rs) \subseteq Request
           /\ \A r \in Unheard(rs) :
              /\ r.kind \in {"apply", "attach"}
              /\ r.kind = "apply" => r.plan \in Sources /\ (r.source = r.plan \/ (Legacy /\ ~r.orderly))
<1> SUFFICES ASSUME NEW q \in rs, q.kind \in {"apply", "attach"}
             PROVE  LET r == [q EXCEPT !.live = FALSE] IN
                    /\ r \in Request /\ r.kind \in {"apply", "attach"}
                    /\ r.kind = "apply" => r.plan \in Sources /\ (r.source = r.plan \/ (Legacy /\ ~r.orderly))
  BY DEF Unheard
<1>1. q \in Request
      /\ (q.kind = "apply" => q.plan \in Sources /\ (q.source = q.plan \/ (Legacy /\ ~q.orderly)))
  BY DEF ImportInv, ImportTypes, AppliesFit
<1> QED BY <1>1 DEF Request

\* An import that is gone leaves nothing shown that its requests do not fit.
LEMMA GoneKeeps ==
    ASSUME ImportInv, Workbench, NEW rs, rs \subseteq requests, requests' = Unheard(rs), page' = page
    PROVE  OneAtATime' /\ OfOlderPage' /\ AppliesFit'
  BY UnheardKeeps DEF OneAtATime, OfOlderPage, AppliesFit, Workbench, Legacy
------------------------------------------------------------------------------
\* Another tab: the workbench forgets what is shown.
LEMMA ChangeModeKeeps ==
    ASSUME ImportInv, NEW kind \in Kinds, ChangeMode(TabOf(kind))
    PROVE  ImportInv'
<1>1. ImportTypes'
  BY DEF ImportInv, ImportTypes, ChangeMode, TabOf, Legacy, Workbench, choice
<1>2. ChoiceFits' /\ ConvertedFit'
  BY DEF ImportInv, ChoiceFits, ConvertedFit, ChangeMode, Legacy, Workbench, choice
<1>3. OneAtATime' /\ OfOlderPage' /\ AppliesFit'
  BY DEF ImportInv, OneAtATime, OfOlderPage, AppliesFit, ChangeMode, Legacy, Workbench, choice
<1> QED BY <1>1, <1>2, <1>3 DEF ImportInv

\* The three actions that make a request keep the rules of its kind.
LEMMA RequestsKeep ==
    ASSUME ImportInv, (\E kind \in Kinds, s \in Sources : Prepare(kind, s)) \/ Propose \/ Apply
    PROVE  ImportInv'
<1>1. ASSUME NEW kind \in Kinds, NEW s \in Sources, Prepare(kind, s) PROVE ImportInv'
  <2>1. kind # "propose" /\ kind # "apply"
    BY DEF Kinds
  <2> QED BY <1>1, <2>1, AskKeeps DEF Prepare, choice
<1>2. CASE Propose
  <2>1. path \in Sources
    BY <1>2 DEF ImportInv, ImportTypes, Propose
  <2> QED BY <1>2, <2>1, AskKeeps DEF Propose, choice
<1>3. CASE Apply
  <2>1. path \in Sources /\ plan \in Sources
    BY <1>3 DEF ImportInv, ImportTypes, Apply
  <2> QED BY <1>3, <2>1, AskKeeps DEF Apply, choice
<1> QED BY <1>1, <1>2, <1>3

\* The preview of an uploaded file is asked for; the older page takes its path.
LEMMA UploadedKeeps ==
    ASSUME ImportInv, NEW r \in requests, Uploaded(r)
    PROVE  ImportInv'
<1> DEFINE q == [r EXCEPT !.kind = "preview"]
<1>1. r \in Request /\ q \in Request /\ q.kind = "preview" /\ q.source = r.source
  BY DEF ImportInv, ImportTypes, Request
<1>2. requests' = (requests \ {r}) \cup {q} /\ path' = IF Legacy THEN r.source ELSE path
  BY DEF Uploaded
<1>3. ImportTypes'
  BY <1>1, <1>2 DEF ImportInv, ImportTypes, Request, Uploaded, TabOf, Legacy, Workbench
<1>4. ChoiceFits' /\ ConvertedFit'
  BY <1>2 DEF ImportInv, ChoiceFits, ConvertedFit, Uploaded, Legacy, Workbench
<1>5. OneAtATime'
  <2> SUFFICES ASSUME Legacy, orderly PROVE requests' = {q}
    BY <1>1, <1>2 DEF OneAtATime, Uploaded, Legacy
  <2> QED BY <1>2 DEF ImportInv, OneAtATime
<1>6. OfOlderPage' /\ AppliesFit'
  BY <1>1, <1>2 DEF ImportInv, OfOlderPage, AppliesFit, Uploaded, Legacy, Workbench
<1> QED BY <1>3, <1>4, <1>5, <1>6 DEF ImportInv

\* A preview comes with its own plan.
LEMMA PreviewedKeeps ==
    ASSUME ImportInv, NEW r \in requests, Previewed(r)
    PROVE  ImportInv'
<1>1. r.source \in Sources /\ r.source # None
  BY NoneIsNoSource DEF ImportInv, ImportTypes, Request
<1>2. page' = page /\ plan' \in {None, r.source} /\ preview' = r.source /\ path' \in {path, r.source}
  BY DEF Previewed
<1>3. ImportTypes'
  <2>1. /\ open' = open /\ tab' = tab /\ busy' = FALSE /\ sent' = sent
        /\ requests' = requests \ {r} /\ orderly' = orderly /\ faults' = faults
    BY DEF Previewed
  <2>2. path' \in Sources \cup {None} /\ preview' \in Sources \cup {None} /\ plan' \in Sources \cup {None}
    BY <1>1, <1>2 DEF ImportInv, ImportTypes
  <2> QED BY <1>2, <2>1, <2>2 DEF ImportInv, ImportTypes, TabOf, Legacy
<1>4. Workbench => path' = r.source
  BY DEF Previewed, Workbench, ImportInv, OfOlderPage, Legacy
<1>5. ChoiceFits' /\ ConvertedFit'
  BY <1>1, <1>2, <1>4 DEF ImportInv, ChoiceFits, ConvertedFit, Previewed, Legacy, Workbench
<1>6. Legacy /\ orderly' => path' = r.source
  BY DEF ImportInv, OneAtATime, Previewed
<1>7. OneAtATime' /\ OfOlderPage' /\ AppliesFit'
  BY <1>1, <1>2, <1>6, FewerRequests DEF Previewed
<1> QED BY <1>3, <1>5, <1>7 DEF ImportInv

\* A plan that was asked for is taken if the preview has its fields.
LEMMA ProposedKeeps ==
    ASSUME ImportInv, NEW r \in requests, Proposed(r)
    PROVE  ImportInv'
<1>1. r.source \in Sources /\ preview # None /\ Legacy
  BY DEF ImportInv, ImportTypes, Request, OfOlderPage, Proposed
<1>2. plan' = plan \/ (plan' = r.source /\ Fields[r.source] \subseteq Fields[preview])
  BY DEF Proposed
<1>3. ImportTypes'
  BY <1>1, <1>2 DEF ImportInv, ImportTypes, Proposed, TabOf, Legacy, Workbench
<1>4. ChoiceFits' /\ ConvertedFit'
  BY <1>1, <1>2 DEF ImportInv, ChoiceFits, ConvertedFit, Proposed, Legacy, Workbench
<1>5. orderly => path = r.source /\ plan \in {None, path}
  BY <1>1 DEF ImportInv, OneAtATime, Proposed
<1>6. OneAtATime' /\ OfOlderPage' /\ AppliesFit'
  BY <1>2, <1>5, FewerRequests DEF Proposed
<1> QED BY <1>3, <1>4, <1>6 DEF ImportInv
------------------------------------------------------------------------------
\* Something was converted; the workbench has yet to add it to the task.
LEMMA AppliedKeeps ==
    ASSUME ImportInv, NEW r \in requests, Applied(r)
    PROVE  ImportInv'
<1>1. page' = page /\ ConvertedFit' /\ r.kind = "apply" /\ orderly' = orderly
  BY ConvertKeeps DEF Applied, Convertible
<1>2. ChoiceFits'
  BY DEF ImportInv, ChoiceFits, Applied, choice, Workbench
<1>3. CASE Legacy
  <2>1. requests' = requests \ {r}
    BY <1>3 DEF Applied
  <2>2. ImportTypes'
    BY <1>3, <2>1 DEF ImportInv, ImportTypes, Applied, choice, TabOf, Legacy, Workbench
  <2>3. orderly => plan \in {None, path}
    BY <1>1, <1>3 DEF ImportInv, OneAtATime
  <2>4. OneAtATime' /\ OfOlderPage' /\ AppliesFit'
    BY <1>1, <2>1, <2>3, FewerRequests DEF Applied, choice
  <2> QED BY <1>1, <1>2, <2>2, <2>4 DEF ImportInv
<1>4. CASE ~Legacy
  <2>1. PICK q : q = [r EXCEPT !.kind = "attach"] /\ requests' = (requests \ {r}) \cup {q}
    BY <1>4 DEF Applied
  <2>2. q \in Request /\ q.kind = "attach" /\ Workbench /\ page' = "workbench"
    BY <1>1, <1>4, <2>1 DEF ImportInv, ImportTypes, Request, Legacy, Workbench
  <2>3. ImportTypes'
    BY <2>1, <2>2 DEF ImportInv, ImportTypes, Applied, choice, TabOf, Legacy, Workbench
  <2>4. OneAtATime'
    BY <2>2 DEF OneAtATime, Legacy
  <2>5. OfOlderPage' /\ AppliesFit'
    BY <1>1, <2>1, <2>2 DEF ImportInv, OfOlderPage, AppliesFit, Applied, choice, Legacy, Workbench
  <2> QED BY <1>1, <1>2, <2>3, <2>4, <2>5 DEF ImportInv
<1> QED BY <1>3, <1>4

\* It is added to the task, and the import is gone.
LEMMA AddedKeeps ==
    ASSUME ImportInv, NEW r \in requests, AddedToTask(r)
    PROVE  ImportInv'
<1>1. requests' = Unheard(requests \ {r}) /\ Workbench /\ page' = page
  BY DEF ImportInv, OfOlderPage, AddedToTask
<1>2. Unheard(requests \ {r}) \subseteq Request
  BY UnheardKeeps
<1>3. ImportTypes' /\ ChoiceFits' /\ ConvertedFit'
  BY <1>1, <1>2 DEF ImportInv, ImportTypes, ChoiceFits, ConvertedFit, AddedToTask, choice, TabOf, Legacy, Workbench
<1>4. OneAtATime' /\ OfOlderPage' /\ AppliesFit'
  BY <1>1, GoneKeeps
<1> QED BY <1>3, <1>4 DEF ImportInv

\* A request is refused or fails, perhaps after its work is done.
LEMMA LostKeeps ==
    ASSUME ImportInv, NEW r \in requests, Refused(r) \/ RequestFails(r)
    PROVE  ImportInv'
<1>1. /\ requests' = requests \ {r} /\ busy' = Free(r) /\ sent' = sent
      /\ page' = page /\ open' = open /\ tab' = tab
      /\ path' = path /\ preview' = preview /\ plan' = plan
  BY DEF Refused, RequestFails, choice
<1>2. orderly' \in BOOLEAN /\ (orderly' => orderly) /\ faults' \in Nat
  <2>1. CASE Refused(r)
    BY <2>1 DEF Refused, ImportInv, ImportTypes
  <2>2. CASE RequestFails(r)
    <3>1. orderly' = (orderly /\ r.kind # "preview") /\ faults' = faults + 1
      BY <2>2 DEF RequestFails
    <3>2. faults \in Nat
      BY DEF ImportInv, ImportTypes
    <3>3. orderly' \in BOOLEAN /\ (orderly' => orderly)
      BY <3>1
    <3>4. faults' \in Nat
      BY <3>1, <3>2
    <3> QED BY <3>3, <3>4
  <2> QED BY <2>1, <2>2
<1>3. ImportTypes'
  BY <1>1, <1>2 DEF ImportInv, ImportTypes, Free, TabOf, Legacy, Workbench
<1>4. ChoiceFits'
  BY <1>1 DEF ImportInv, ChoiceFits, Workbench
<1>5. ConvertedFit'
  <2>1. CASE UNCHANGED converted
    BY <1>1, <2>1 DEF ImportInv, ConvertedFit, Legacy
  <2> QED BY <1>1, <2>1, ConvertKeeps DEF Refused, RequestFails
<1>6. Legacy /\ orderly' => r.kind # "preview"
  BY DEF Refused, RequestFails
<1>7. Legacy /\ orderly' => plan \in {None, path}
  BY <1>2, <1>6 DEF ImportInv, OneAtATime
<1>8. OneAtATime' /\ OfOlderPage' /\ AppliesFit'
  BY <1>1, <1>2, <1>7, FewerRequests
<1> QED BY <1>3, <1>4, <1>5, <1>8 DEF ImportInv

\* Another tab of the shell.
LEMMA LeaveImportKeeps == ImportInv /\ LeaveImport => ImportInv'
<1> SUFFICES ASSUME ImportInv, LeaveImport PROVE ImportInv'
  OBVIOUS
<1>1. Unheard(requests) \subseteq Request
  BY UnheardKeeps
<1>2. TabOf("path")' = "path" /\ "path" \in Kinds
  BY DEF TabOf, Kinds
<1>3. ImportTypes' /\ ChoiceFits' /\ ConvertedFit'
  BY <1>1, <1>2 DEF ImportInv, ImportTypes, ChoiceFits, ConvertedFit, LeaveImport, Workbench, Legacy
<1>4. OneAtATime' /\ OfOlderPage' /\ AppliesFit'
  BY GoneKeeps DEF LeaveImport
<1> QED BY <1>3, <1>4 DEF ImportInv

\* Every step keeps the invariant.
LEMMA StepImport == ImportInv /\ [ImportNext]_importVars => ImportInv'
<1> SUFFICES ASSUME ImportInv, [ImportNext]_importVars PROVE ImportInv'
  OBVIOUS
<1>1. CASE UNCHANGED importVars
  BY <1>1 DEF ImportInv, ImportTypes, ChoiceFits, OneAtATime, OfOlderPage, AppliesFit, ConvertedFit,
              importVars, choice, TabOf, Legacy, Workbench
<1>2. ASSUME NEW kind \in Kinds, ChangeMode(TabOf(kind)) PROVE ImportInv'
  BY <1>2, ChangeModeKeeps
<1>3. CASE (\E kind \in Kinds, s \in Sources : Prepare(kind, s)) \/ Propose \/ Apply
  BY <1>3, RequestsKeep
<1>4. CASE LeaveImport
  BY <1>4, LeaveImportKeeps
<1>5. ASSUME NEW r \in requests, Answered(r) \/ RequestFails(r) PROVE ImportInv'
  BY <1>5, UploadedKeeps, PreviewedKeeps, ProposedKeeps, AppliedKeeps, AddedKeeps, LostKeeps DEF Answered
<1> QED BY <1>1, <1>2, <1>3, <1>4, <1>5 DEF ImportNext

\* The invariant says what PlansFit says.
LEMMA ImportInvFits == ImportInv => PlansFit
<1> SUFFICES ASSUME ImportInv PROVE PlansFit
  OBVIOUS
<1>1. ImportTypeOK
  BY DEF ImportInv, ImportTypes, ImportTypeOK
<1> QED BY <1>1 DEF ImportInv, ChoiceFits, ConvertedFit, PlansFit

\* For any sources, however their requests overtake each other: the plan shown
\* fits the preview shown, and what is converted is converted by the plan that
\* was shown for it, in the older page as long as requests do not overlap.
THEOREM PlansAlwaysFit == ImportSpec => []PlansFit
<1>1. ImportSpec => []ImportInv
  BY InitImport, StepImport, PTL DEF ImportSpec
<1> QED BY <1>1, ImportInvFits, PTL
==============================================================================
