# A formal model of data2doc2data

data2doc2data is a local analysis workbench: a Python host (`src/src/data2doc2data`)
that profiles tables and documents, runs bounded analysis tools, talks to a local
agent (Codex, WorkBuddy) and persists everything in one SQLite workspace, and a React
client (`src/web/src`) that follows the runs. This directory holds TLA+ models of its
core, TLC configurations that check them on small instances, and TLAPS proofs for
every instance. Paths below are relative to `src/src/data2doc2data` unless they say
otherwise. `PROJECT.json` lists the components, the runs, the mutants of every
property, the source lines behind every definition, the findings, the hazards and the
theorems.

Contents: 1 inventory, 2 plan, 3 modules, 4 runs, 5 fairness, 6 proofs,
7 what the checks found, 8 what is not modelled.

## 1. Inventory

| Component | State it keeps | Operations | Interacts with |
|---|---|---|---|
| Analysis cycle (`analysis_cycle.py`, `cycle_runner.py`, `artifacts.py`) | cycle row, executions, checkpoint, artifact files | run, resume, decide, execute a round, interrupt, wait, checkpoint | store, tools, planner, MCP server, CLI |
| Flow engine (`flow_engine.py`, `run_events.py`, `evidence_graph.py`, `text_dashboard.py`) | run row, event log, evidence graph revisions | execute a plan, emit, add and update nodes, cancel, fail | cycle, store, workbench API |
| Workbench API (`workbench_api.py`) | run controls and threads | tasks, assets, runs, retries, imports, event pages | store, flow engine, browser |
| Workspace store (`workspace.py`, `workspace_store.py`) | SQLite tables | compare-and-set saves, idempotency records | everything |
| Knowledge ledger (`knowledge.py`) | append-only versions | propose, verify, reject, supersede | flow engine, API |
| Planner (`cycle_planner.py`, retry policy of `cycle_runner.py`) | none | decide, retry, give up | agent gateway |
| Agent API (`agent_api.py`, `sessions.py`, `permissions.py`) | browser sessions, event buffers, turns, approvals | start turn, approve, interrupt, route events | gateway, browser |
| Agent adapters (`agents/`) | connection, sessions, queues | connect, stream, reconnect, time out | external agents |
| Server and event stream (`server.py`, `web/src/api/client.ts`) | HTTP and SSE connections, client cursor and buffers | stream, replay, poll, reload | API, client |
| Browser sessions and API client (`agent_api.py`, `web/src/api/client.ts`, `static/api.js`) | cookie, owners, leases, tokens, calls under way | call, be denied, renew, repeat | server, every page |
| Task shell and page (`web/src/app/App.tsx`, `web/src/features/tasks`) | selected task, run on display, its graph and stream, history, requests under way | open, import, start, restore, replay, retry, stop | client, canvas |
| Flow canvas (`web/src/features/flow`) | playback position and pace | project events, enrich by the graph, play, pause, follow | task shell |
| Assistant drawer and older panel (`web/src/features/assistant`, `static/assistant-panel.js`) | session, turn, event stream, cursor, approval cards | connect, send, stop, approve, reconnect | agent API |
| Source import (`web/src/features/data`, `static/ingest-panel.js`) | path, preview, plan, requests under way | preview, propose, apply, cancel | API |
| Plugin and MCP (`plugin_service.py`, `mcp_server.py`, `cli.py`) | session artifact of a task | one call per tool | store, cycle, flow engine |
| Ingestion (`ingestion.py`, `source_resolver.py`, `config.py`) | files, profiles | plan, apply, fetch | API |
| Analysis algorithms (`diagnostics.py`, `analysis.py`, `metrics.py`, `rules.py`, `hypotheses.py`, `text_ml.py`, ...) | none | pure functions | flow tools |
| Reporting (`reporting.py`, `dashboard.py`) | none | render | flow engine |

How they interact. The web server, the MCP server and the command line are separate
processes that open the same SQLite database and the same artifact directory; SQLite
makes each transaction atomic, and nothing makes two of them so. Within the web
server every request has a thread, every streamed run has another one, every Codex
turn another one, and each adapter has a thread that reads from its agent. They share
the adapter's tables, the run controls and the browsers' event buffers, each with a
lock of its own that is held for single accesses. The browser keeps a cursor that
survives a reload and learns everything else from the API and from two server-sent
event streams.

What is hard, and what makes each component correct:

- *Analysis cycle*: several drivers of one cycle, each reading, working and writing in
  separate steps, and dying in between. Correct if a recorded execution is never
  replaced, a completed round is always backed by one, copies of the cycle agree, and
  a resumed cycle repeats nothing and completes.
- *Flow engine*: a run is hundreds of separate writes, any of which may fail, be
  preceded by a cancellation or be the last one. Correct if the log is a legal run
  (one start, answers to calls, one end), what it announces exists, the status
  follows it, and the run ends.
- *Knowledge ledger*: decisions are read-modify-write by several clients. Correct if
  histories only grow, along the allowed transitions, with the evidence kept.
- *Codex turns*: one process, one reader, several turns that time out, are
  interrupted and outlive processes. Correct if each turn ends exactly once, by its
  own end, and the tables that interrupt and approve it stay usable.
- *Run stream*: pages, breaks, reloads and answers that overlap, and a server that may
  no longer know the browser it streams to. Correct if every event is handed on once and
  in order, and the end of the run becomes visible unless the stream was refused.
- *Browser sessions*: tabs share a cookie and not a token, several calls are denied by
  one lost lease, answers are lost. Correct if a call is executed once or not at all,
  a loss that could be repaired is hidden, and the browser keeps its owner.
- *Task shell*: one instance serves several tasks, and every request may be answered
  after the user has moved on. Correct if what is shown is of one run of the selected
  task, and if the graph catches up with the events.
- *Flow canvas*: events and graph are read separately and replaced at any time, and
  playback is restarted by both. Correct if each element is drawn once, keeps its place,
  ends up as it is saved, and playback gets to the end.
- *Assistants*: a stream that is closed and reopened over a bounded buffer, answers that
  are lost, a server that starts anew. Correct if events are handled once and in order,
  approvals are decided once, and no page waits for ever.
- *Source import*: previews, proposals and applications overlap. Correct if a source is
  converted by the plan that is shown for it.
- *WorkBuddy adapter*: a connection that a thread restores while users connect and
  close. Correct if a connection ID always has a live thread behind it.
- *Tasks and retries*: read-modify-write of tasks, a key that must start one run only.
- *Algorithms*: pure; correct if they equal a reference definition on bounded inputs.

## 2. Plan

The order is by weight: first what is persisted and shared, then what is concurrent
in memory, then what is pure. Steps 1 to 10 are done, each with its runs.

1. `AnalysisCycle`: durable cycles and their drivers; proved about in `WorkspaceProofs`.
2. `FlowScript` (what a run does), `RunLog` (what a run promises) and `FlowRun` (how a
   thread carries it out), the last shown to implement `RunLog`; `FlowScriptProofs` and
   `FlowRunProofs`.
3. `KnowledgeFacts` (what the ledger promises) and `KnowledgeLedger`, shown to implement
   it; also in `WorkspaceProofs`.
4. `CodexTurns`: turn threads, reader and server process; `CodexTurnsProofs`.
5. `RunStream`: engine, server and tab; proved about in `BrowserProofs`.
6. `ClientSession`: cookies, owners, leases and tokens; also in `BrowserProofs`.
7. `FlowProjection` (pure) and `FlowCanvas`, which composes it with `FlowScript`: the
   events drawn are those the engine's script makes; `FlowCanvasProofs`.
8. `TaskViews`: the selected task, its shell, runs and late answers; proved about in
   `PageProofs`.
9. `Assistants`: a page and the server's event buffer; `AssistantsProofs`.
10. `SourceImport`; also in `PageProofs`.

Left, in this order:

11. `WorkBuddyLink`: the connection supervisor of `agents/workbuddy.py` (connect,
    event loop, restore, close, requests), implementing an abstract `Link` that is up
    only while a thread serves it. Theorem: one serving thread per connection.
12. `TaskRuns`: tasks, owners, snapshots, retries with their idempotency records and the
    session artifact of plugin hosts, with crashes and two processes. To be proved: a
    key is answered by one run, except after a crash.
13. `PlannerRetry`: attempts, delays and deadline of one round, refining the single
    step that `AnalysisCycle` makes of it.
14. `Algorithms`: permission decisions, dates and fields of ingestion, rules and counts,
    each against a reference definition on bounded inputs.

The runs are kept few: a new module shares a run with another small one, or replaces one.

## 3. Modules

### AnalysisCycle

One cycle, any number of processes. State: the `analysis_cycles` row (`cycle`), the
recorded executions (`exec`), each artifact file as absent, torn or full (`files`),
whether a checkpoint exists, and for each process its program counter, kind of driver,
copy of the cycle and current decision. Each action is the code between two disk
accesses: `ResumeRead` and `ResumeSave` are the two halves of `resume`, `CheckFile`,
`CreateFile` and `WriteFile` those of `ArtifactStore.save` (the file is created before
it is written), `RecordRead` and `RecordInsert` those of `save_cycle_execution`. A
driver may die (`Crash`) before any of them, tools and writes may raise. A *call* is a
tool with its arguments; since an artifact is named by its contents and snapshots are
locked, the call names the artifact. The demo policy (`DemoDecision`) is the code's own
over the presence of documents, dimensions and anomalies; a connected planner chooses
any valid call.

### FlowScript, RunLog, FlowRun

`FlowScript` computes the sequence of operations `AgentFlowEngine.execute` performs
for given inputs: which events it emits, which elements it saves before them, which
tools it runs, where it looks at the cancel flag and what it raises. `InputOK` says which
inputs there are: a plan is `_demo_plan`'s or one that `validate_flow_plan` accepts
(`PlanOK`: no name twice, no unknown need, no circle), rounds and hypotheses have any
names but that no artifact is named like one of the engine's own nodes, and conflicts
are pairs of claims. Names are the constant `Names`, all stable identifiers; the engine
names some of its nodes itself (`EngineNodes`), and a proposed hypothesis may have any
name, that of such a node included. `Unambiguous` are the inputs whose graph can be
built: a proposal that `parse_hypotheses` takes (one that is `malformed` fails the run
before its plan is announced), no conflict with a claim that was dropped, no call twice,
no hypothesis named like another node. Documents may all be unreadable: they then have
steps of the plan, but no node and no claims (`indexed`). `FlowRun` executes
such a script one operation at a time, as the thread does, with the handlers of
`run` around it: completion, failure, interruption, each an event and then a status,
and a database error or a death at any operation. A client may cancel while the
control is registered. `RunLog` is the abstract specification: what a reader of the
persisted run may rely on. `RL` in `FlowRun` maps a log to the kinds of its events.

### KnowledgeFacts, KnowledgeLedger

The rows of each knowledge ID, and per client the decision it has read for but not yet
appended. Reading and appending are separate transactions; the append checks revision,
immutable fields and transition again, as `append_knowledge_version` does. Clients'
clocks are in no order. Superseding reads the replacement in one more transaction. Its
specification is named `LedgerSpec`, so that `WorkspaceProofs` can take in both modules
of what the store keeps. `KnowledgeFacts` is the abstract specification: a piece of
knowledge has a state, evidence, grounds and a replacement, and is proposed, verified,
rejected or superseded in one step each. `known` maps a history to its fact, that is,
to its latest version, with the evidence of the second one, the verified one, as its
grounds.

### CodexTurns

Sessions share one Codex process. `process` is the server with its reader thread, and
the reader of a previous process if it is still about (`zombie`): `connect` does not
wait for it when the process exited by itself. `adapter` is what the threads share:
event queues, open approvals, active turns. Each session's turn thread (`pc`) resumes
its session on a fresh process, sends `turn/start`, awaits the reply, passes events on
and returns. To reconnect (`_reconnect_session`) is three steps: the lock is taken
(`Reconnect`), the reader is waited for and the tables are cleared (`Forget`), and a
process is started and the thread resumed (`Resume`). Only reconnecting sessions take
that lock, so `create_session` of another one may start a process between the steps: the
tables cleared are then those of the new process (`crossed`), which
`InterruptFindsTurn` and `WaitingIsOpen` except. A turn may also fail at the shorter
deadline per event, without an interrupt, and stays in the table (`Silence`). Server
messages count from when the reader routes them. `MaxTurns` bounds turns, `MaxFaults`
deaths and unusable messages. Still one step each: `connect`'s look at the process with
the start of another one (lines 131 to 151), so two sessions that both start a process
at once are left out; a reconnecting session's look at the process with the moment it
lets go of it (237 to 241); and the clearing of the tables (250 to 259).

### RunStream

The engine's appends and status, the server's side of one stream (`conn`, `wire`), and
the tab: its `EventSource`, its cursor (kept in the session storage), what it has
buffered for the next animation frame and what it shows, and requests that load the
run as a whole, whose answer consists of two reads. `Drop` breaks a connection,
`Reload` reloads the page, `Rerender` runs the shell's effect again. `access` is what the
server knows of the browser that owns the run. Each connection of the stream is
authorized (`server.py:697`), and the answer to a lease that lapsed, or to a browser the
server has forgotten, is an error in JSON (`Refused`): an `EventSource` closes itself for
good on such an answer. The tab then shows the run as running and follows nothing,
until a page that has a lease again loads the run (`Reload`, `Rerender`). `LoseLease` is
a lease that runs out or an owner that was idle too long, `Renew` the heartbeat. `Restart`
is a new server process: the owners, which are in memory, are gone, so the run can no
longer be reached by anybody's page, and its thread is gone too, so it stays "running" in
the store. An event is its sequence number. `stale` and `n <= DetailLimit` mark what the properties except: an
older answer that replaced newer events, and a run longer than what one answer holds.

### ClientSession

One browser: its cookie, and per tab the page it shows, its token and its request for a
new one; per call who made it, with what, and whether it was executed. The server
remembers owners of sessions and leases each a token, which every answer to
`GET /api/agents` replaces. `Lapse` is a lease that runs out, `Forget` an owner that was
idle too long or crowded out, or a server that starts anew. The two pages differ where
their code does: `client.ts` asks for a new token whenever a call is denied, `api.js`
only if the tab's token is still the one the call was made with. What a call does is
an `executed` count; what matters is that it is the server's decision, made once.

### FlowProjection, FlowCanvas

`FlowProjection` is `flow-projection.ts`: a fold of `reduceEvent` over the events and
the enrichment by the stored graph. `FlowCanvas` makes the events of a run from
`FlowScript`, delivers them in batches together with a graph that was read at any other
moment, and plays them back by the reducer of `readable-event-stream.ts` (`Reset`,
`Tick`, pause, follow the latest). Its state is small: the run, how many events are
known, the batch the graph is from, and the hook's state; everything drawn is a function
of it. In the code, and here: while the user follows the latest event, another run
flashes by as a whole before its reset; a demo step whose hypothesis has no structured
test stays pending; an artifact is announced as verified although it is saved as
insufficient; and the graph may give an element a status ahead of the playback.

### TaskViews

`App` (selected task, imports, the set-up of a new task) and `TaskShell` (the run on
display, graph, stream, history, restore effect, listings, replays and retries). `shown`
has the run on display and the runs whose latest events and whose graph are displayed;
each request is a record that outlives the shell that sent it, and each action that
answers one says what the code does when the shell is gone or has another task. Events
are buffered until the next frame (`Flush`), and the buffer has a check of its own
that its run is still on display. At the end of a run two requests are sent, for the
run (`EndShown`) and for the list of runs (`Relisted`). `BackgroundStreams` bounds what a
start answered after unmounting leaves behind: a stream that is read until the run ends
and moves the cursor on. Also as in the code: a late answer to an import throws the page
back to its task, or changes the task selected behind the set-up of a new one
(`onboarding`); the restoring effect runs again with every render of `App` and may
replace a run just started; several runs of the history may be replayed and repeated at
once, and the list a failed refresh puts back is the one of when its replay was asked for;
a retry that was asked for by a shell that is gone still makes its run; stopping cancels
the run on display, whichever it is; the answer to a superseded stream's graph request may
come last. Requests are sets of records: two that agree in all of them, as two listings of
one task, count as one.

### Assistants

One page, drawer or older panel, and the server's side of its session: the numbered
log, of which `MaxKept` events are kept, the turn and its two ends (the terminal event,
and the moment the session is no longer busy), pending approvals. `source` is the
`EventSource`: its state, where it began and the last event it got, from which the
browser resumes, while the page itself reopens from `cursor`. As in the code: a message
sent between the two ends is refused and its text lost; the older page accepts another
message during its own analysis; an output that is a list mark and nothing else is more
than its `renderMarkdown` can take, which ends the turn for the page; approvals stay
listed across turns; terminal events carry no turn, so the end of one is that of any;
the broker may refuse what the card says was approved, because it is no longer open; and
the server takes an approval off its list before the provider is told, so that a decision
the provider cannot be given is lost (`Undecided`). The older page may connect after
messages were analysed without an agent, and the drawer connects anew when its provider
asks for authentication: log, approvals and cursor are those of the latest session, and
what is left of an earlier one, whose cards can only be answered with an error, is not
followed. `Die` is a stream that is refused, by a server that started anew or because the
browser's lease lapsed while the session is known.

### SourceImport

Path, preview and plan, each named by the source it is of, and the requests under way; a
request has what the page read when it was sent. What a page sends as two requests, one
after the other's answer, is two here: a file is uploaded and then previewed, and the
workbench has a source converted and then added to its task, either of which may fail
alone (`Uploaded`, `Applied`, `AddedToTask`). `DataImport` disables its buttons while
a request is under way and is not heard after it was left; `ingest-panel.js` lets
requests overlap, and takes an uploaded file's path before its preview is answered. In
both, a preview that is answered late appears under whatever tab is open by then. Three
sources, two of which have the same fields, separate "the plan is of another source"
from "the plan does not fit". `orderly` records whether requests of the older page came
one at a time, which is what its properties except.

### MC modules and proofs

`MC...` modules only name model values and inputs; `...Proofs` modules hold the
theorems, `WorkspaceProofs` those of `AnalysisCycle` and `KnowledgeLedger`, `BrowserProofs` those
of `ClientSession` and `RunStream`, and `PageProofs` those of the two page views
`TaskViews` and `SourceImport` (whose names therefore differ). Definitions commented `Mutant:` are changes a bug could make;
PROJECT.json pairs each with the property that detects it. No specification uses them.

## 4. Runs

| Run | Instance | States | What it shows |
|---|---|---|---|
| `cycle_demo` | 1 process, demo policy, 3 rounds, 2 crashes, 1 fault | 459 | a resumed cycle replays its executions, runs nothing twice, only grows and completes |
| `cycle_drivers` | 2 processes, one connected run and demo resumes, 2 rounds, 1 crash, 1 fault | 74,248 | two drivers keep rounds backed, artifacts whole, executions unchanged and agree; a waiting cycle has its checkpoint |
| `cycle_torn` | as `cycle_demo` | violation | a crash while an artifact is written makes the cycle fail later |
| `flow_safe` | nine inputs: demo with and without documents, connected, too many claims, repeated call, equal hypotheses, a hypothesis named like a node, documents of which none can be read, a proposal that is refused; 2 waits, 1 error, 1 database error, 1 crash, a cancellation | 245,406 | log, graph, answers, cancellation, end of the run; refinement of `RunLog` |
| `knowledge_race` | 2 IDs, 2 clients, 1 source, 1 evidence, 2 times, symmetry | 4,750 | histories stay legal, evidence is kept; refinement of `KnowledgeFacts` |
| `codex_turns` | 2 sessions, 2 turns in all, 1 fault | 764,494 | one end per turn, interrupts and approvals find what they need, every turn ends |
| `run_stream` | 5 events, pages of 2, answers of 4, 2 loads, 2 breaks, 2 lapses, a restart of the server | 650,223 | no event skipped, none missing while streamed, the end shows all, the tab catches up or was refused, and it is refused only after a lapse or a restart |
| `client_session` | 2 tabs of either page, 2 calls, 2 losses, 1 fault | 309,734 | a call is executed at most once, the older page hides one loss, the owner is kept, no call waits for ever |
| `flow_canvas` | 4 runs (demo completed and failed, connected completed and interrupted), 3 batches, 1 switch | 24,304 | what is drawn is what is saved, nodes stay, the outcome is shown, playback ends |
| `task_views` | 2 tasks, one with a run of an earlier visit, 1 run started, graphs of 2 versions, 4 uses, 1 failed request | 1,642,803 | events and graph of one run, of the selected task, streams do not pile up, the graph catches up |
| `assistants` | either page, 2 messages, 4 events of which 2 are kept, 2 faults | 905,845 | events once and in order, approvals decided once, waiting ends |
| `source_import` | either page, 3 sources, 4 requests, 1 fault | 312,590 | plans fit what they are shown with and applied to; the workbench lets the user go on |

The bounds, and why they suffice for the questions asked. *Cycle*: three rounds are what
the demo policy takes with its finish, so every decision it can make occurs; two
processes are enough for a read to be overtaken, and a second crash hits a resumed
driver. The two runs differ because the replay properties hold of one driver at a time
and the agreement ones are about several. *Flow*: each input takes another branch of the
script, with at most two of whatever is repeated (claims, hypotheses, rounds,
conflicts), so that first, later and last of each differ; the 200 claims the dashboard
keeps become `MaxClaims = 2`; one fault at any of some hundred operations is every
placement of one. *Knowledge*: two clients and two IDs allow a decision in between and a
replacement superseded meanwhile; a history has at most three versions by its
transitions, so nothing else is bounded. *Codex*: the second turn shows what the first
left behind, the second session what it does to others; one fault is a death at any
step. *Stream*: five events make three pages, the last one short, and exceed an answer;
two loads and two breaks overlap with each other and with the end; of two lapses one
may be a lease that comes back and the other one an owner that does not. *Sessions*: two calls
are denied by one loss, in one tab or in two, and the second loss hits a renewal; the
lost request or answer hits any of them. *Canvas*: the runs take every branch of the
projection and of its enrichment; of three batches there is a first, a middle and a
last, and the switch takes place in any of them, to the same run as well. *Views*: four
uses are enough to open, start, go away and come back with answers outstanding; one run
is of an earlier visit, the other one is started, for the same task or the other.
*Assistants*: four events are a message's output, approval and end and one of the next;
with two kept, a break loses some; two faults are a lost answer and a new start, or a
refused stream.
*Import*: a preview, a proposal, another preview and an application overlap in every
order.

Deadlock is not checked: every one of these systems stops when its cycle, run, turns or
bounds are used up.

## 5. Fairness

Fairness is assumed of running code, never of users, agents, faults or crashes.

- `AnalysisCycle`: a live driver executes its next statement (`WF(Step(p))`); starting,
  resuming, failing and dying are free.
- `FlowRun`: the run's thread executes its next operation, including the reports of a
  planner that waits; such a wait is bounded by the retry policy. Cancellation, errors
  and crashes are free.
- `CodexTurns`: a turn thread runs on. Every wait of it has a deadline in the code (the
  reply's and the turn's), and the deadline is one of the outcomes of the step. The
  server and its reader owe nothing.
- `RunStream`: the handler's thread polls, requests are answered, the tab's event loop
  runs (`WF` of each of the three). The engine may stall. One fairness for all steps of
  the tab suffices because a tab's step is never repeated for ever while another waits,
  except where the stream of an ended run is opened again and again; `CatchesUp` leaves
  that case out (section 7).
- `ClientSession`: a request is served and its answer arrives, unless it is lost; users,
  losses and lapses are free.
- `FlowCanvas`: React runs the effect of a new run (`Reset`), and the timer fires
  (`Tick`). The hook starts its timer anew whenever the events change, so the second
  assumes a stream that pauses for half a second now and then.
- `TaskViews`: requests for the graph are answered or fail. Users, engines and streams
  owe nothing.
- `Assistants`: turns end (which `CodexTurns` shows), posts are answered, the stream is
  connected to and delivers, one to a server that is gone breaks or is refused, and the
  older page's 15 seconds pass. Users, lost answers and refusals by a server that knows
  the session are free.
- `SourceImport`: a request is answered or fails.

## 6. Proofs

All theorems are for every value of the constants that meets the named assumptions:
any number of processes, clients, events, crashes and faults.

- **WorkspaceProofs**, of two modules. Of `AnalysisCycle` (from `ConstantsOK`): `TypeCorrect`, `RecordsAlwaysHold`,
  `DriversAlwaysAgree`, `ExecutionsNeverChange`. The stored cycle is saved from a
  driver's copy, so the invariant says that *every copy* is backed by executions; it
  adds per driver that a round about to be completed has its record
  (`RecordsBeforeCompleting`), that a round about to be recorded has its whole artifact
  (`HasArtifact`), and that neither is a finish (`HasCall`). Executions and whole files
  only grow (`StepGrows`, `StepFilesKeep`), so what other drivers know stays true.
  Agreement follows: copies backed by the same records agree.
  `WaitingAlwaysCheckpointed`: the status is saved before the checkpoint, so the
  invariant (`Waits`) says who is in between: a driver that is about to store it, or
  nobody because it died. `ResumesReplay` has a hypothesis, `OneDemoDriver`: one process,
  of the local policy, whose decision is a function of the rounds. Its invariant
  (`Replays`) says that at most the round in progress is recorded ahead of the rounds
  (`LastRecord`), with the decision that the policy takes again (`Policy`). With a
  planner, or with two drivers, the property does not hold.
  Of `KnowledgeLedger` (from `TimeOK`, `NoneOK`, `NoneIsNoRecord`): `LedgerTypeCorrect`,
  `HistoriesAlwaysLegal`, `FactsAlwaysHold`, `DecisionsContinueTheRead`,
  `HistoriesOnlyGrow`, `LedgerImplementsFacts`. The key is `ReadsOK`: what a client has
  read is a prefix of the history, because histories only grow; so equal lengths at the
  append mean that nothing happened in between, and the version, legal for what was
  read, is legal now. For the refinement the invariant also says which decision each
  held version is (`HeldDecision`), and a history has one version per stage (`Stages`):
  a replacement read as verified is the second version of its history for good, so its
  grounds are what was read, although it may have been superseded since.
- **FlowScriptProofs** (from `NamesOK`, `MaxClaimsOK`) is about the scripts of all inputs,
  however long their plans and cycles and however many claims, conflicts and hypotheses
  they have. Loops of the engine are `FlattenSeq`s of their bodies and `_ordered_steps` is
  a recursive function: what holds of them is proved by an induction over the set of the
  numbers for which it holds (`UpTo`), for a rule that takes an operator is out of reach.
  `ScriptPieces`: a script is put together from pieces, in each of which every
  announcement follows its save and every call of a tool has its answer, with nothing
  in between that could fail but that tool. `OrderedIsSorted` and `OrderedHasAll`: of an
  accepted plan some step is always ready, since the remaining ones have no circle
  (`SomeReady`), so the order has all steps, each after what it needs. `ScriptInOrder`:
  so has the script, also that of a demonstration, where `execute` itself has the order
  of `_demo_plan`. `ScriptBuilds`: for unambiguous inputs each node is new when it is
  added, each edge and update is of nodes added before, and nothing is raised.
  `ScriptRounds`, `ScriptConflicts`: each round is completed once and each conflict
  detected once, after its edge; both are numbered in the order in which the loops come
  to them. `ScriptHas`: by the first poll or tool a script has told of all its rounds,
  their artifacts and the steps of its plan. `ScriptEnds`: after the report nothing is
  added.
- **FlowRunProofs** (from `InputsOK`, the inputs are ones the engine may get, which TLC
  evaluates for those of the runs): `TypeCorrect`, `AnnouncedAlwaysPersisted`,
  `CancelAlwaysStops`, `FlowRunImplementsRunLog`. The invariant ties the phase of the
  thread to the status and the latest event (`Lifecycle`) and to the operations passed:
  what they save is in the graph, and none after a cancellation was a check (`Passed`).
  `CallsAlwaysPairUp`: with what `ScriptPieces` says of calls, at most one call is
  pending at a time (`OnePending`); while the thread runs, the latest call of that step
  is open, and no other is as long as no write has failed (`PendingIsOpen`,
  `OnlyPendingOpen`). That no tool runs before those its step needs follows from
  `StepsAlwaysOrdered`, that is, `ScriptInOrder`. `FailsAlwaysForAReason`: the nodes of
  the saved graph are those that the operations passed have added (`NodesSaved`), so by
  `ScriptBuilds` no assertion of the graph fails, and without an error or a fault the
  thread never gets to a phase that leads to a failure (`Unharmed`).
  The refinement maps each step to `Start`, `Report`, `Revoke`, `Close` or a stutter.
- **CodexTurnsProofs** (from `TurnsOK`): `TurnsEndOnce`, `EndsAreOwn`. Everything can be
  said of one session at a time (`Good`); what others do reaches it only as the loss of
  its process (`Lost`) or as errors at the end of its queue (`OneSession`). The
  invariant relates the queue to the server and to the ends shown (`Fits`): an end in
  the queue is of a turn that is over, is there once, and was not shown. Without it
  clean turns would not be inductive: an end shown a second time ends another turn.
  `TablesAreRight` is about the adapter's tables. What clears them for all sessions at
  once is the loss of the process. By then every session that streams finds an error in
  its queue, or an older reader will put one there (`Told`), so a turn that is streamed
  and missing in the table is about to end (`Found`); and a turn that stayed in the
  table was given up, as was each one since (`GivenUp`). A reconnection may clear the
  tables of a process younger than the one it found dead; once one has, `crossed` says so
  for good (`CrossedStays`).
- **BrowserProofs**, of two modules. Of `RunStream` (from `StreamOK`):
  `StreamAlwaysTyped`, `RunsAreFollowed`, `NoEventIsSkipped`. What is on the wire continues the tab's cursor and ends at the
  server's (`WireContinues`), and there is a wire only while the tab streams
  (`OneConnection`), so no break leaves something on it. `RunsAreFollowed` says of every
  tab that shows its run as running that it follows the run or was refused, and that the
  server lost it before (`LossIsCounted`). `TheRunIsShown` rests on what
  an answer is worth when it arrives: the run may have grown since, but an answer that
  says the run is over has all of it (`AnswersOfEnd`), and the answer that opens a
  page that does not stream yet reaches its cursor (`OpensAhead`).
  Of `ClientSession` (from `SessionOK`): `ExecutedAtMostOnce`, `OwnerAlwaysKept`.
  The first needs at each state of a call whether it has been executed: only an
  authorized call is, and only a denied one is repeated. The second needs that a token
  on its way is for the session it was asked with, if the server still knows it.
  `OneLossHidden` follows what each call and each tab has been through since the first
  loss (`CallHides`, `TabHides`): a denied call either brings the first new token or
  finds it, and the tab does not ask for another.
- **FlowCanvasProofs** (from `CanvasOK`, `RunsOK`, and what `FlowScriptProofs` rests on)
  is about any runs, completed, failed or interrupted anywhere, of any inputs whose
  steps, rounds and nodes have names of their own (`Apart`): `CanvasAlwaysTyped`,
  `CanvasAlwaysDrawsWhatIsSaved`, `OutcomeAlwaysShown`, `NodesAlwaysStay`. The state says
  little; what counts is what the films hold, and that follows an event on its way. The script announces a
  node right after saving it, by the name and kind that the inputs give it, and updates
  and links only nodes announced before (`ScriptTells`, by `ScriptPieces` and
  `ScriptBuilds`). The log of a run is a part of the script's events in their order, and
  then ends that draw nothing (`EmittedAre`, `LogTells`). A projection is a fold, that
  is, a function over the sets of positions, whose next value follows from the one before
  (`ProjectionsAre`, by induction over the events). Each event draws what it is about at
  the end and moves nothing (`ProjectDraws`), so the drawing after k events has each node
  once, of the announced kind, and those before it (`PictureNext`). The graph of
  whichever moment has the same kinds (`SavedSays`), so that enriching changes no lane
  (`EnrichKeeps`), and the rows, counted from the nodes before, stay (`PlacesStay`).
  Without `Apart` a step named like a node would keep that node from being drawn.
  `OutcomeAlwaysShown` is about the whole run. Its log has what its script emits up to the
  point where it ends, in that order, and then its end (`Logged`), and so all that the
  script tells before it can stop (`LogWhole`). A conflict finds its edge drawn and not yet
  marked, so each marks one more (`DisputesNext`); a round is completed once, so each adds
  its own artifact (`RoundCounts`); the report, first drawn when all else is, stays last
  (`LastStays`), and a failed tool and its step stay as its last three events leave them
  (`RunFails`).
- **AssistantsProofs** (from `AssistantsOK`): `EventsAlwaysOnce`, `DecisionsAlwaysHold`.
  Whether the browser resumes from the last event it got or the page opens a stream from
  the last event it handled, both are the cursor. What the provider was told of is not
  pending any more, so a second decision is refused.
- **PageProofs**, of two modules. Of `TaskViews` (from `ViewsOK`): `OneRunShown`,
  `StreamsDoNotPileUp`, `OfSelectedTask`. What arrives late was asked for earlier, so
  the invariant (`Fits`) is about requests: every stream, listed run and start that is
  still to be answered is of a run that exists and, unless an import gave the shell
  another task, of the task selected (`StreamFits`, `RestoreFits`, `ReplayFits`,
  `StartFits`); a graph that was read is one its run has had, and graphs only grow
  (`Had`). What is shown is one of these; one stream of a shell is open (`OneOpen`).
  Of `SourceImport` (from `ImportOK`): `PlansAlwaysFit`. In the workbench path, preview
  and plan are of one source. In the older page they are unless an upload is being
  previewed, and nothing is applied before that is answered without an overlap.

Only model-checked:

- all liveness (`ResumeCompletes`, `RunEnds`, `TurnEnds`, `CatchesUp`, `CallsEnd`,
  `PlaybackCatchesUp`, `GraphCatchesUp`, `WaitingEnds`, `BusyEnds`), which the prover
  does not reach. All invariants and action properties of the passing runs are proved.

## 7. What the checks found

One run must end in a violation, and is an entry under "findings": `cycle_torn`.
`ArtifactStore.save` creates and then writes its file; a process that dies in between
leaves a torn one, and every later attempt at the round fails.

Other disagreements between the code and what its documentation, comments or messages
say have no run of their own. Each is excepted, as narrowly as possible, by a property
that some run checks and that would not hold without the exception.

| Where | What happens | Excepted by |
|---|---|---|
| `cycle_runner.py:324` | `DemoCycleRunner.resume` decides by the demo policy even if a connected planner decided the recorded round, and then refuses its own record | `ResumeReplays` is checked of a demo cycle |
| `flow_engine.py:626` | conflicts are looked for among all claims, the dashboard keeps 200; a conflict with a dropped claim fails the run | `FailsOnlyWhenAmbiguous` |
| `analysis_cycle.py:238` | a round may repeat any round but the previous one, yet an artifact enters the evidence graph once only; such a run fails when its graph is built | `FailsOnlyWhenAmbiguous` |
| `agents/codex.py:226` | the terminal event of a turn that timed out may still arrive and is taken for the end of the next turn | `CleanTurnsOwnEnds` is of turns after clean ones |
| `workbench_api.py:264` | the run is read before its events; a tab told of the terminal event but not of the terminal status follows a stream that is at its end, and shows the run as running | `CatchesUp` needs an event to come |
| `web/src/api/client.ts:304` | a denied call always asks for a new token, which takes away the one another call has just been given; that one is denied for good | `LossIsHidden` is of the older page |
| `web/src/features/assistant/AssistantDrawer.tsx:43` | a stream that is refused is reported with the words that the message can be sent again, but the drawer goes on waiting for its turn (line 163) | `WaitingEnds` leaves out pages whose stream was refused and that have no timer for it |
| `web/src/features/tasks/TaskShell.tsx:174` | whatever breaks a stream, the tab says that the browser will go on by itself; a connection that is refused (`server.py:697`, `:741`), as after a restart of the server, is closed for good, and the tab shows a running run that nobody follows | `RunningIsFollowed` and `CatchesUp` leave out the tab that was refused, the first only after a lapse or a restart |
| `agents/codex.py:250` | a session that reconnects clears the approvals and active turns of all, also those of a process that `create_session` of another one has started since: an approval the server waits for cannot be answered, and a turn not interrupted | `TablesHold` leaves out tables cleared like this (`crossed`) |
| `static/ingest-panel.js:166` | the path of an upload is taken before its preview is answered; if that fails, the previous source's plan is applied to the new file | `PlansFit` requires `orderly` of the older page |

The tab that was refused has no run of its own to end in a violation: the property
without the exception fails at once, by a restart while the tab streams.

Other lines of the code that a reader of the models will meet again: the quirks named
with each module in section 3.

## 8. What is not modelled

- The WorkBuddy adapter, tasks and retries, the planner's retry deadline: planned, see
  section 2; two of their hazards are listed without a property. Known, and not listed:
  `attach_assets` and `update_task` save a task computed from an earlier read
  (`workbench_api.py:176`); a death between saving a task and assigning it leaves it
  without an owner (`:127`); the digest of a data file is compared before the file is
  read (`:573`); `run_diagnostic_step` of plugin hosts is a read-modify-write
  (`plugin_service.py:233`); an error after `busy` is set leaves it set
  (`agent_api.py:258`); budgets of a cycle other than its rounds
  (`cycle_runner.py:166`); `ingest_apply` rewrites the profile while the page may save it.
- Contents: numbers, texts, charts, reports, prompts. The models know which artifact,
  event or element something is, not what it says.
- Below the steps of the models: two sessions that both find no Codex process and start
  one each (`codex.py:131`), or one that lets go of a process another has just started
  (`:237`); tables of the Codex adapter written between the statements that clear them
  (`:250` to `:259`); a second connection of the drawer that is asked for
  while a first one is, by a button that stays enabled; cards of an earlier session of the
  drawer; requests of the page that agree in all that is recorded of them.
- Time: deadlines are choices that may be taken at any moment; only the order of
  events matters to what is checked.
- SQLite and the file system beyond this: a transaction happens at once, a file is
  created before it is written, and neither loses what it has accepted.
- Ingestion, analysis algorithms, reporting: pure functions of their input, left to
  `Algorithms` where they count or order, and out of reach where they compute with
  floating point numbers.
- The rest of the browser: forms and views that keep no state after an answer (data
  panel and pipeline of the older page, dashboards, onboarding, downloads); of the
  modelled views the geometry of the canvas, autofit, selection and playback speed.
