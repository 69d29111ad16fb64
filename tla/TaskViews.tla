------------------------------ MODULE TaskViews ------------------------------
(****************************************************************************)
(* The workbench page: the task that is selected (App) and the shell that   *)
(* shows it (TaskShell), with its runs, the one on display, the stream that *)
(* keeps this one up to date and the refreshes of its evidence graph.       *)
(* The shell is one instance for as long as some task is selected, so its   *)
(* requests may be answered after it is gone, or after another task has     *)
(* taken its place; a request that is answered late is what this is about.  *)
(*                                                                          *)
(* A run is its number; its events are the versions of its graph, counted,  *)
(* and a terminal one.  How events get to the tab is in RunStream, how they *)
(* are drawn in FlowCanvas.                                                 *)
(****************************************************************************)
EXTENDS Naturals, Sequences, SequencesExt

CONSTANTS
    Tasks, NoTask,
    Visited,        \* tasks with a run of an earlier visit, which is over
    MaxRuns,        \* runs that are created
    MaxGraph,       \* versions of a run's graph
    MaxUses,        \* things that the user does
    MaxFailures     \* requests that fail

ASSUME ViewsOK ==
    /\ NoTask \notin Tasks /\ IsFiniteSet(Visited) /\ Visited \subseteq Tasks
    /\ {MaxRuns, MaxGraph, MaxUses, MaxFailures} \subseteq Nat
    /\ Cardinality(Visited) <= MaxRuns     \* these are runs as well

VARIABLES
    runs,       \* the server's: task, version of the graph, ended
    saved,      \* the session's cursor of each run
    selected,   \* the task that the page is about
    shell,      \* the instance that shows it, 0 for none
    onboarding, \* a new task is being set up in place of what is selected
    imports,    \* tasks that data or documents are being imported to
    shown,      \* the run on display, those its latest events and its graph are
                \* of, and that graph
    running,    \* the shell takes its run to be running
    history,    \* runs it lists
    restore,    \* the current effect that looks for a run to show
    listings,   \* requests to list the shell's runs again
    replays,    \* requests of runs of the history
    starts,     \* requests to start a run: by which shell, and the run created
    streams,    \* streams of runs, while anything of them is going on
    moved,      \* the shell was given another task
    opened, uses, failures

server == <<runs, saved>>
app == <<selected, shell, onboarding, imports, moved>>
view == <<shown, running, history, restore, listings, replays>>
bounds == <<opened, uses, failures>>
vars == <<server, app, view, starts, streams, bounds>>

NoRun == [run |-> 0, events |-> 0, of |-> 0, graph |-> 0, by |-> "none"]
NoRestore == [state |-> "none", run |-> 0, graph |-> 0, ended |-> FALSE]
Runs == 1..Len(runs)
RunsOf(t) == {r \in Runs : runs[r].task = t}
Events(r) == runs[r].graph + (IF runs[r].ended THEN 1 ELSE 0)
Shown(r, graph, by) == [run |-> r, events |-> r, of |-> r, graph |-> graph, by |-> by]

Init ==
    /\ runs = [r \in 1..Cardinality(Visited) |-> [task |-> SetToSeq(Visited)[r], graph |-> MaxGraph, ended |-> TRUE]]
    /\ saved = [r \in 1..MaxRuns |-> 0]
    /\ selected = NoTask /\ shell = 0 /\ onboarding = FALSE /\ imports = {} /\ moved = FALSE
    /\ shown = NoRun /\ running = FALSE /\ history = {}
    /\ restore = NoRestore /\ listings = {} /\ replays = {}
    /\ starts = {} /\ streams = {}
    /\ opened = 0 /\ uses = 0 /\ failures = 0
------------------------------------------------------------------------------
\* The server: an engine saves a version of the graph, then announces it; a run
\* ends, also because it was stopped.

Evolve(r) ==
    /\ ~runs[r].ended
    /\ \/ runs[r].graph < MaxGraph /\ runs' = [runs EXCEPT ![r].graph = @ + 1]
       \/ runs' = [runs EXCEPT ![r].ended = TRUE]
    /\ UNCHANGED <<saved, app, view, starts, streams, bounds>>

NewRun(t, graph, ended) == Append(runs, [task |-> t, graph |-> graph, ended |-> ended])
------------------------------------------------------------------------------
\* Streams

\* What is still going on: what a shell that is gone is answered is lost on it.
Live(S) == {s \in S : s.open \/ (s.shell = shell /\ (s.final \/ s.refresh \in {"asked", "answered"}))}

\* closeRunStream.current: no more events, also of those that the buffer holds,
\* but what was asked is answered.
Closed(k) == Live({IF s.shell = k THEN [s EXCEPT !.open = FALSE, !.buffered = FALSE] ELSE s : s \in streams})

\* attachRunStream takes the place of the shell's stream; openRunEventStream
\* begins where the session's cursor is, if that is further on.  It is late if
\* the shell that asked for it is not there any more.
Attached(r, after, k, by) ==
    LET from == Max({after, saved[r]}) IN
    Closed(k) \cup {[run |-> r, shell |-> k, open |-> TRUE, from |-> from, cursor |-> from,
                     refresh |-> "idle", graph |-> 0, pending |-> FALSE, final |-> FALSE,
                     buffered |-> FALSE, by |-> IF k = shell THEN by ELSE "late"]}

\* Mutant: while a request for the graph is under way no other is planned.
ScheduleOnce(s) == IF s.refresh \in {"asked", "answered"} THEN s ELSE [s EXCEPT !.refresh = "asked"]
\* schedule: of the requests asked for during one, a single one follows it.
Schedule(s) ==
    IF s.refresh \in {"asked", "answered"} THEN [s EXCEPT !.pending = TRUE]
    ELSE [s EXCEPT !.refresh = "asked"]

Becomes(s, t) == streams' = Live((streams \ {s}) \cup {t})

\* The event buffer is emptied into the run on display, if that is the one the
\* events are of.
WithEvents(s) ==
    shown' = IF s.shell = shell /\ shown.run = s.run THEN [shown EXCEPT !.events = s.run] ELSE shown

Relist(t, by, old) == listings \cup {[task |-> t, by |-> by, old |-> old]}

\* The next event of a stream: a version of the graph, of which the latest is
\* asked for, or the end, at which the run as a whole is asked for too, and its
\* task's runs.
Deliver(s) ==
    LET t == [s EXCEPT !.cursor = @ + 1, !.buffered = s.by # "late"] IN
    /\ s.open /\ s.cursor < Events(s.run)
    /\ saved' = [saved EXCEPT ![s.run] = s.cursor + 1]
    /\ IF t.cursor > runs[s.run].graph
       THEN /\ Becomes(s, [(IF s.by = "late" THEN t ELSE Schedule(t))
                              EXCEPT !.open = FALSE, !.final = TRUE, !.buffered = FALSE])
            /\ running' = (running /\ s.shell # shell)
            /\ listings' = IF s.shell = shell THEN Relist(runs[s.run].task, "end", {}) ELSE listings
            /\ WithEvents(s)
       ELSE Becomes(s, IF s.by = "late" THEN t ELSE Schedule(t)) /\ UNCHANGED <<running, shown, listings>>
    /\ UNCHANGED <<runs, app, history, restore, replays, starts, bounds>>

\* Mutant: the events are added to whatever run is on display.
FlushToAny(s) ==
    /\ s.buffered
    /\ shown' = IF s.shell = shell /\ shown.run # 0 THEN [shown EXCEPT !.events = s.run] ELSE shown
    /\ Becomes(s, [s EXCEPT !.buffered = FALSE])
    /\ UNCHANGED <<server, app, running, history, restore, listings, replays, starts, bounds>>
\* A frame of the browser, in which the events are added.
Flush(s) ==
    /\ s.buffered
    /\ WithEvents(s)
    /\ Becomes(s, [s EXCEPT !.buffered = FALSE])
    /\ UNCHANGED <<server, app, running, history, restore, listings, replays, starts, bounds>>

GraphRead(s) ==
    /\ s.refresh = "asked"
    /\ Becomes(s, [s EXCEPT !.refresh = "answered", !.graph = runs[s.run].graph])
    /\ UNCHANGED <<server, app, view, starts, bounds>>

\* The request is over, and the one that was planned follows.
Idle(s, failed) ==
    [s EXCEPT !.refresh = IF s.pending THEN "asked" ELSE IF failed THEN "lost" ELSE "idle",
              !.pending = FALSE, !.graph = 0]

\* Mutant: an answer is shown whatever run is on display.
GraphForAny(s) ==
    /\ s.refresh = "answered"
    /\ shown' = IF s.shell = shell /\ shown.run # 0
                THEN [shown EXCEPT !.of = s.run, !.graph = s.graph] ELSE shown
    /\ Becomes(s, Idle(s, FALSE))
    /\ UNCHANGED <<server, app, running, history, restore, listings, replays, starts, bounds>>

\* An answer is for the run that is on display, or is dropped.
GraphShown(s) ==
    /\ s.refresh = "answered"
    /\ shown' = IF s.shell = shell /\ shown.run = s.run
                THEN [shown EXCEPT !.of = s.run, !.graph = s.graph] ELSE shown
    /\ Becomes(s, Idle(s, FALSE))
    /\ UNCHANGED <<server, app, running, history, restore, listings, replays, starts, bounds>>

Fails == failures < MaxFailures /\ failures' = failures + 1

GraphFails(s) ==
    /\ s.refresh \in {"asked", "answered"} /\ Fails
    /\ Becomes(s, Idle(s, TRUE))
    /\ UNCHANGED <<server, app, view, starts, opened, uses>>

\* At the end the run as a whole is shown, if it is still on display.
EndShown(s) ==
    /\ s.final
    /\ shown' = IF s.shell = shell /\ shown.run = s.run
                THEN Shown(s.run, runs[s.run].graph, "load") ELSE shown
    /\ Becomes(s, [s EXCEPT !.final = FALSE])
    /\ UNCHANGED <<server, app, running, history, restore, listings, replays, starts, bounds>>

EndLost(s) ==
    /\ s.final /\ Fails
    /\ Becomes(s, [s EXCEPT !.final = FALSE])
    /\ UNCHANGED <<server, app, view, starts, opened, uses>>

\* A list of runs takes the place of the one there is ...
Relisted(l) ==
    /\ history' = RunsOf(l.task) /\ listings' = listings \ {l}
    /\ UNCHANGED <<server, app, shown, running, restore, replays, starts, streams, bounds>>

\* ... and for one that does not come, after a replay, so does the list that
\* there was when the replay was asked for.
RelistFails(l) ==
    /\ listings' = listings \ {l} /\ Fails
    /\ history' = IF l.by = "replay" THEN l.old ELSE history
    /\ UNCHANGED <<server, app, shown, running, restore, replays, starts, streams, opened, uses>>
------------------------------------------------------------------------------
\* What is shown of a task

\* Every render of App hands the shell new functions, so that its effect runs
\* again; what it asked for before is dropped.
Effects ==
    /\ restore' = [NoRestore EXCEPT !.state = "listing"]
    /\ listings' = {l \in listings : l.by # "effect"}

\* The run to restore: one of the task's that is not over, or else its newest.
Restorable(t) ==
    LET unfinished == {r \in RunsOf(t) : ~runs[r].ended}
    IN  Max(IF unfinished # {} THEN unfinished ELSE RunsOf(t))

Listed ==
    /\ restore.state = "listing"
    /\ history' = RunsOf(selected)
    /\ restore' = IF RunsOf(selected) = {} THEN NoRestore
                  ELSE [NoRestore EXCEPT !.state = "loading", !.run = Restorable(selected)]
    /\ UNCHANGED <<server, app, shown, running, listings, replays, starts, streams, bounds>>

RestoreRead ==
    /\ restore.state = "loading"
    /\ restore' = [restore EXCEPT !.state = "loaded", !.graph = runs[restore.run].graph,
                                  !.ended = runs[restore.run].ended]
    /\ UNCHANGED <<server, app, shown, running, history, listings, replays, starts, streams, bounds>>

Restored ==
    LET r == restore.run IN
    /\ restore.state = "loaded"
    /\ shown' = Shown(r, restore.graph, "load") /\ running' = ~restore.ended
    /\ streams' = IF restore.ended THEN streams ELSE Attached(r, restore.graph, shell, "load")
    /\ listings' = IF restore.ended THEN Relist(selected, "effect", {}) ELSE listings
    /\ restore' = NoRestore
    /\ UNCHANGED <<server, app, history, replays, starts, bounds>>

RestoreFails ==
    /\ restore.state # "none" /\ Fails
    /\ restore' = NoRestore
    /\ history' = IF restore.state = "listing" THEN {} ELSE history
    /\ UNCHANGED <<server, app, shown, running, listings, replays, starts, streams, opened, uses>>
------------------------------------------------------------------------------
\* Selecting a task

Use == uses < MaxUses /\ uses' = uses + 1

NewShell(t) ==
    /\ selected' = t /\ shell' = opened + 1 /\ opened' = opened + 1
    /\ Effects

\* The task is one of the list, or one that has just been set up.
Open(t) ==
    /\ shell = 0 /\ Use /\ (onboarding => RunsOf(t) = {})
    /\ NewShell(t) /\ onboarding' = FALSE
    /\ UNCHANGED <<server, imports, moved, shown, running, history, replays, starts, streams, failures>>

Blank ==
    /\ shown' = NoRun /\ running' = FALSE /\ history' = {}
    /\ restore' = NoRestore /\ listings' = {}
    /\ replays' = {p \in replays : p.state = "retry" /\ Len(runs) < MaxRuns}

\* Back to the list of tasks, or on to a new task.
Away ==
    /\ shell' = 0 /\ moved' = FALSE
    /\ \/ selected' = NoTask /\ UNCHANGED onboarding
       \/ onboarding' = TRUE /\ UNCHANGED selected

\* Mutant: the stream is left to itself.
LeaveOpen ==
    /\ shell # 0 /\ Use
    /\ Away /\ Blank
    /\ UNCHANGED <<server, imports, starts, streams, opened, failures>>
\* The shell is gone, and what its requests are answered has nowhere to go; the
\* server repeats a run nevertheless.
Leave ==
    /\ shell # 0 /\ Use
    /\ Away /\ Blank
    /\ streams' = {s \in streams : s.open /\ s.shell # shell}
    /\ UNCHANGED <<server, imports, starts, opened, failures>>

\* DataImport and DocumentImport: the task's assets change on the server ...
Import ==
    /\ shell # 0 /\ selected \notin imports /\ Use
    /\ imports' = imports \cup {selected}
    /\ UNCHANGED <<server, selected, shell, onboarding, moved, view, starts, streams, opened, failures>>

\* ... and updateCurrentTask makes it the selected one, wherever the user is by
\* now: setting up a task, on the home page, in this task, or in another one in
\* the same shell.
Imported(t) ==
    /\ t \in imports /\ imports' = imports \ {t}
    /\ \/ onboarding /\ selected' = t /\ UNCHANGED <<shell, moved, restore, listings, opened>>
       \/ selected = NoTask /\ ~onboarding /\ NewShell(t) /\ UNCHANGED moved
       \/ /\ shell # 0 /\ selected' = t /\ moved' = (moved \/ t # selected)
          /\ Effects /\ UNCHANGED <<shell, opened>>
    /\ UNCHANGED <<server, onboarding, shown, running, history, replays, starts, streams, uses, failures>>

ImportFails(t) ==
    /\ t \in imports /\ imports' = imports \ {t} /\ Fails
    /\ UNCHANGED <<server, selected, shell, onboarding, moved, view, starts, streams, opened, uses>>
------------------------------------------------------------------------------
\* Runs

\* runAnalysis: the button is there only while nothing runs.
Start ==
    /\ shell # 0 /\ ~running /\ Len(runs) + Cardinality(starts) < MaxRuns /\ Use
    /\ running' = TRUE
    /\ starts' = starts \cup {[shell |-> shell, task |-> selected, run |-> 0]}
    /\ UNCHANGED <<server, app, shown, history, restore, listings, replays, streams, opened, failures>>

Created(s) ==
    /\ s.run = 0 /\ Len(runs) < MaxRuns
    /\ runs' = NewRun(s.task, 0, FALSE)
    /\ starts' = (starts \ {s}) \cup {[s EXCEPT !.run = Len(runs) + 1]}
    /\ UNCHANGED <<saved, app, view, streams, bounds>>

\* Mutant: it is shown wherever the user is by now.
StartedAnywhere(s) ==
    /\ s.run # 0 /\ starts' = starts \ {s}
    /\ shown' = IF shell # 0 THEN Shown(s.run, 0, "start") ELSE shown
    /\ streams' = Attached(s.run, 0, s.shell, "start")
    /\ UNCHANGED <<server, app, running, history, restore, listings, replays, bounds>>
\* The run is shown by the shell that asked for it; a stream is opened even if
\* that shell is gone, and nothing closes it then but the end of the run.
Started(s) ==
    /\ s.run # 0 /\ starts' = starts \ {s}
    /\ shown' = IF s.shell = shell THEN Shown(s.run, 0, "start") ELSE shown
    /\ streams' = Attached(s.run, 0, s.shell, "start")
    /\ UNCHANGED <<server, app, running, history, restore, listings, replays, bounds>>

\* The run may have been created nevertheless.
StartFails(s) ==
    /\ starts' = starts \ {s} /\ Fails
    /\ running' = (running /\ s.shell # shell)
    /\ UNCHANGED <<server, app, shown, history, restore, listings, replays, streams, opened, uses>>

\* RunHistory: a run is loaded to be shown again, also while others are ...
Replay(r) ==
    /\ r \in history /\ Use
    /\ \E kind \in {"replay", "retry"} :
          /\ kind = "retry" => Len(runs) + Cardinality(starts) < MaxRuns
          /\ replays' = replays \cup {[state |-> kind, shell |-> shell, task |-> selected, old |-> history,
                                      run |-> r, graph |-> 0]}
    /\ UNCHANGED <<server, app, shown, running, history, restore, listings, starts, streams, opened, failures>>

\* ... or repeated as a new run of its task, which ends before the answer.
ReplayRead(p) ==
    LET answered(r, graph) ==
            IF p.shell = shell THEN {[p EXCEPT !.state = "answered", !.run = r, !.graph = graph]} ELSE {}
    IN
    /\ \/ /\ p.state = "replay" /\ UNCHANGED runs
          /\ replays' = (replays \ {p}) \cup answered(p.run, runs[p.run].graph)
       \/ /\ p.state = "retry" /\ Len(runs) < MaxRuns
          /\ runs' = NewRun(runs[p.run].task, MaxGraph, TRUE)
          /\ replays' = (replays \ {p}) \cup answered(Len(runs) + 1, MaxGraph)
    /\ UNCHANGED <<saved, app, shown, running, history, restore, listings, starts, streams, bounds>>

\* onReplay: whatever runs, and is streamed, goes on behind what is shown.
Replayed(p) ==
    /\ p.state = "answered" /\ p.shell = shell
    /\ shown' = Shown(p.run, p.graph, "load")
    /\ listings' = Relist(p.task, "replay", p.old) /\ replays' = replays \ {p}
    /\ UNCHANGED <<server, app, running, history, restore, starts, streams, bounds>>

ReplayFails(p) ==
    /\ Fails /\ replays' = replays \ {p}
    /\ UNCHANGED <<server, app, shown, running, history, restore, listings, starts, streams, opened, uses>>
------------------------------------------------------------------------------
Next ==
    \/ \E r \in Runs : Evolve(r) \/ Replay(r)
    \/ \E s \in streams : \/ Deliver(s) \/ Flush(s) \/ GraphRead(s) \/ GraphShown(s) \/ GraphFails(s)
                          \/ EndShown(s) \/ EndLost(s)
    \/ \E t \in Tasks : Open(t) \/ Imported(t) \/ ImportFails(t)
    \/ Leave \/ Import \/ Start
    \/ \E s \in starts : Created(s) \/ Started(s) \/ StartFails(s)
    \/ Listed \/ RestoreRead \/ Restored \/ RestoreFails
    \/ \E l \in listings : Relisted(l) \/ RelistFails(l)
    \/ \E p \in replays : ReplayRead(p) \/ Replayed(p) \/ ReplayFails(p)

\* Requests for the graph are answered, or fail.  Neither the user nor an
\* engine has to do anything, and no stream has to deliver.
Answering == \E s \in streams : GraphRead(s) \/ GraphShown(s)

Spec == Init /\ [][Next]_vars
FairSpec == Spec /\ WF_vars(Answering)
------------------------------------------------------------------------------
TypeOK ==
    /\ runs \in Seq([task : Tasks, graph : 0..MaxGraph, ended : BOOLEAN]) /\ Len(runs) <= MaxRuns
    /\ selected \in Tasks \cup {NoTask} /\ (shell = 0) = (selected = NoTask \/ onboarding)
    /\ imports \subseteq Tasks /\ history \subseteq Runs /\ shown.run \in {0} \cup Runs
    /\ {s.run : s \in streams} \subseteq Runs /\ running \in BOOLEAN

\* What is on display is one run: its events and its evidence graph are never
\* of two runs, whichever answers arrive while runs are started, restored and
\* replayed, and no graph is shown that its run does not have yet.
DataOfOneRun ==
    /\ TypeOK
    /\ shown.of = shown.run /\ shown.events = shown.run
    /\ (shown.run # 0 => shown.graph <= runs[shown.run].graph)

\* A shell has one stream at most; a stream that goes on after its shell is
\* gone is one of a run whose start was answered only then.
BackgroundStreams ==
    LET ofShell(k) == {s \in streams : s.open /\ s.shell = k}
    IN  /\ \A k \in 1..opened : Cardinality(ofShell(k)) <= 1
        /\ \A s \in streams : s.open /\ s.shell # shell => s.by = "late"

\* Unless an answer put another task into the shell, what it shows, the run and
\* the history, is of the task that is selected.
TaskOfShown ==
    /\ ~moved /\ shown.run # 0 => runs[shown.run].task = selected
    /\ ~moved => history \subseteq RunsOf(selected)

\* The graph shown of a run that was just started gets at least as far as the
\* events that its stream has delivered, without further events and without
\* waiting for the end, unless the stream's last request for it failed.  (Not
\* so if the run had been found by the restoring effect before: an answer to
\* the first stream may then come last, with an older graph.)
Behind(s) ==
    /\ s.shell = shell /\ s.run = shown.run /\ shown.by = "start"
    /\ s.by = "start" /\ s.from = 0 /\ s.refresh # "lost"
    /\ shown.graph < Min({s.cursor, runs[s.run].graph})
GraphCatchesUp == (\E s \in streams : Behind(s)) ~> ~(\E s \in streams : Behind(s))
==============================================================================
