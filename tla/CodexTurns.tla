------------------------------ MODULE CodexTurns ------------------------------
(****************************************************************************)
(* Turns of browser sessions with the Codex App Server.  All sessions share *)
(* one server process; a reader thread routes what it prints to the reply   *)
(* somebody waits for, or to the event queue of a session.  Each turn has a *)
(* thread of its own that sends turn/start, waits for the reply, and passes *)
(* events on to the browser until a terminal one, an error or its deadline. *)
(*                                                                          *)
(* The server is external: here it starts, asks for one approval, sends     *)
(* something unusable, and ends each turn whenever it likes.  Its messages  *)
(* count from when the reader routes them, which may be after it has died.  *)
(* A user's interrupt changes nothing here: it reads active and asks the    *)
(* server to end that turn, which it may do anyway.                         *)
(****************************************************************************)
EXTENDS Naturals, Sequences, Functions

CONSTANTS
    Sessions,   \* browser sessions, each with a Codex thread
    MaxTurns,   \* turns of all sessions
    MaxFaults   \* ends of server processes, and events a browser cannot be passed

ASSUME TurnsOK == MaxTurns \in Nat

Turns == 1..MaxTurns
None == 0
Event == [kind: {"approval", "bad", "end", "error"}, turn: {None} \cup Turns]
Error == [kind |-> "error", turn |-> None]

VARIABLES
    alive,      \* the server process runs
    reader,     \* its reader thread
    zombie,     \* the reader of an earlier process, if it was not waited for
    loaded,     \* sessions whose thread the process has loaded
    server,     \* per session and turn: what the server makes of it
    queue,      \* _event_queues
    open,       \* _approvals: approval requests not yet answered
    active,     \* _active_turns
    pc, reply,  \* of each session's turn thread, and the reply it waits for
    turn,       \* turns started so far; the session is busy unless pc is idle
    shown,      \* approvals the browser may decide on
    ends,       \* per turn: the turns whose terminal event it showed, or None
    crossed,    \* the tables of a process were cleared by who reconnected to an older one
    faults

process == <<alive, reader, zombie, loaded, server, faults>>
adapter == <<queue, open, active, crossed>>
web == <<pc, reply, turn, shown, ends>>
vars == <<process, adapter, web>>

Idle == [s \in Sessions |-> None]

\* The sessions have been created; the process may have exited since.
Init ==
    /\ alive \in BOOLEAN /\ reader = IF alive THEN "running" ELSE "ended"
    /\ zombie = "none" /\ loaded = Sessions
    /\ server = [s \in Sessions |-> [t \in Turns |-> "absent"]]
    /\ queue = [s \in Sessions |-> <<>>] /\ open = {} /\ active = Idle /\ crossed = FALSE
    /\ pc = [s \in Sessions |-> "idle"] /\ reply = [s \in Sessions |-> "none"]
    /\ turn = Idle /\ shown = [s \in Sessions |-> {}]
    /\ ends = [s \in Sessions |-> [t \in Turns |-> <<>>]]
    /\ faults = 0

Goto(s, l) == pc' = [pc EXCEPT ![s] = l]
\* The turn appends a terminal event to the browser's events.
Show(s, t) == ends' = [ends EXCEPT ![s][turn[s]] = Append(@, t)]
Put(s, kind, t) == queue' = [queue EXCEPT ![s] = Append(@, [kind |-> kind, turn |-> t])]
Serve(s, t, state) == server' = [server EXCEPT ![s][t] = state]
------------------------------------------------------------------------------
\* The server and the reader

Lost == [s \in Sessions |-> [t \in Turns |->
            IF server[s][t] = "absent" THEN "absent" ELSE "over"]]

\* turn/start is answered with the turn, or with an error if the thread is
\* unknown to this process; nobody may be waiting for the answer any more.
ServerStarts(s) ==
    \E t \in Turns :
        /\ reader = "running" /\ server[s][t] = "asked"
        /\ Serve(s, t, IF s \in loaded THEN "running" ELSE "over")
        /\ reply' = IF pc[s] = "asked" /\ turn[s] = t /\ reply[s] = "none"
                    THEN [reply EXCEPT ![s] = IF s \in loaded THEN "turn" ELSE "error"]
                    ELSE reply
        /\ UNCHANGED <<alive, reader, zombie, loaded, faults, adapter, pc, turn, shown, ends>>

\* _route_server_request
ServerAsks(s) ==
    \E t \in Turns :
        /\ reader = "running" /\ server[s][t] = "running"
        /\ Serve(s, t, "waiting") /\ Put(s, "approval", t)
        /\ open' = open \cup {<<s, t>>}
        /\ UNCHANGED <<alive, reader, zombie, loaded, faults, active, crossed, web>>

ServerSpoils(s) ==
    \E t \in Turns :
        /\ reader = "running" /\ server[s][t] \in {"running", "decided"} /\ faults < MaxFaults
        /\ Put(s, "bad", t)
        /\ faults' = faults + 1
        /\ UNCHANGED <<alive, reader, zombie, loaded, server, open, active, crossed, web>>

\* turn/completed, whatever its status
ServerEnds(s) ==
    \E t \in Turns :
        /\ reader = "running" /\ server[s][t] \in {"running", "waiting", "decided"}
        /\ Serve(s, t, "over") /\ Put(s, "end", t)
        /\ UNCHANGED <<alive, reader, zombie, loaded, faults, open, active, crossed, web>>

\* The process exits.
Die ==
    /\ alive /\ faults < MaxFaults
    /\ alive' = FALSE /\ faults' = faults + 1
    /\ UNCHANGED <<reader, zombie, loaded, server, adapter, web>>

\* Mutant: only who waits for a reply hears of the end.
ReaderEndedQuietly(errors) ==
    /\ open' = {}
    /\ reply' = [s \in Sessions |->
                    IF pc[s] \in {"asked", "stopping"} /\ reply[s] = "none" THEN "failure" ELSE reply[s]]
    /\ UNCHANGED <<queue, active, crossed, pc, turn, shown, ends>>

\* _reader_ended: no approval is pending any more, all sessions and all that
\* wait for a reply hear of it, though it may be the reply of a new process.
ReaderEnded(errors) ==
    /\ open' = {}
    /\ queue' = [s \in Sessions |-> queue[s] \o errors]
    /\ reply' = [s \in Sessions |->
                    IF pc[s] \in {"asked", "stopping"} /\ reply[s] = "none" THEN "failure" ELSE reply[s]]
    /\ UNCHANGED <<active, crossed, pc, turn, shown, ends>>

ReaderEnds ==
    /\ ~alive /\ reader = "running"
    /\ reader' = "ended"
    /\ ReaderEnded(<<Error>>)
    /\ UNCHANGED <<alive, zombie, loaded, server, faults>>

\* After an invalid message the reader says so, ends the process and ends.
ReaderFails ==
    /\ alive /\ reader = "running" /\ faults < MaxFaults
    /\ alive' = FALSE /\ reader' = "ended" /\ faults' = faults + 1
    /\ ReaderEnded(<<Error, Error>>)
    /\ UNCHANGED <<zombie, loaded, server>>

ZombieEnds ==
    /\ zombie = "running"
    /\ zombie' = "ended"
    /\ ReaderEnded(<<Error>>)
    /\ UNCHANGED <<alive, reader, loaded, server, faults>>

\* Popen and a new reader; the threads of the old process are gone.
NewProcess(threads) ==
    /\ alive' = TRUE /\ reader' = "running" /\ server' = Lost
    /\ loaded' = threads
    /\ zombie' = IF reader = "running" THEN "running" ELSE zombie

\* create_session of yet another session, or of one that has had no turn, takes
\* no part in the lock of those that reconnect: it connects without waiting for
\* them, or for the reader of the process that has ended.
Connect ==
    \E threads \in {{}} \cup {{s} : s \in {r \in Sessions : turn[r] = None}} :
        /\ ~alive
        /\ NewProcess(threads)
        /\ queue' = [s \in Sessions |-> IF s \in threads THEN <<>> ELSE queue[s]]
        /\ UNCHANGED <<faults, open, active, crossed, web>>
------------------------------------------------------------------------------
\* A turn

\* AgentWebService.start_turn, unless the session is busy
StartTurn(s) ==
    /\ pc[s] = "idle" /\ turn[s] < MaxTurns /\ FoldFunction(+, 0, turn) < MaxTurns
    /\ turn' = [turn EXCEPT ![s] = @ + 1]
    /\ Goto(s, "entered")
    /\ UNCHANGED <<process, adapter, reply, shown, ends>>

\* stream_turn sends turn/start to a process that runs.
Ask(s) ==
    /\ pc[s] \in {"entered", "resumed"} /\ alive
    /\ Serve(s, turn[s], "asked")
    /\ reply' = [reply EXCEPT ![s] = "none"]
    /\ Goto(s, "asked")
    /\ UNCHANGED <<alive, reader, zombie, loaded, faults, adapter, turn, shown, ends>>

\* _reconnect_session: one at a time, unless the process runs by now.
Reconnect(s) ==
    /\ pc[s] = "entered" /\ ~alive
    /\ \A r \in Sessions : pc[r] \notin {"joining", "reconnecting"}
    /\ Goto(s, "joining")
    /\ UNCHANGED <<process, adapter, reply, turn, shown, ends>>

\* The reader is waited for at most two seconds, and then all sessions'
\* approvals and active turns are forgotten, and this one's events: also those
\* of a process that another session has connected to in the meantime.
Forget(s) ==
    /\ pc[s] = "joining"
    /\ IF alive THEN UNCHANGED <<reader, zombie>>
       ELSE /\ reader' = "ended"
            /\ zombie' = IF reader = "running" THEN "running" ELSE zombie
    /\ open' = {} /\ active' = Idle
    /\ queue' = [queue EXCEPT ![s] = <<>>]
    /\ crossed' = (crossed \/ alive)
    /\ Goto(s, "reconnecting")
    /\ UNCHANGED <<alive, loaded, server, faults, reply, turn, shown, ends>>

\* ... then connect, unless another session has done so, and thread/resume.
Resume(s) ==
    /\ pc[s] = "reconnecting"
    /\ IF alive THEN loaded' = loaded \cup {s} /\ UNCHANGED <<alive, reader, zombie, server>>
       ELSE NewProcess({s})
    /\ Goto(s, "resumed")
    /\ UNCHANGED <<faults, adapter, reply, turn, shown, ends>>

\* The turn ends with an error of its own.
EndFailed(s) == Show(s, None) /\ Goto(s, "failed")

\* The process does not start or does not know the thread.
ResumeFails(s) ==
    /\ pc[s] = "reconnecting"
    /\ EndFailed(s)
    /\ \/ UNCHANGED <<alive, reader, zombie, loaded, server>>
       \/ ~alive /\ NewProcess({})
    /\ UNCHANGED <<faults, adapter, reply, turn, shown>>

\* Once resumed, a process that has died again is an error.
AskFails(s) ==
    /\ pc[s] = "resumed" /\ ~alive
    /\ EndFailed(s)
    /\ UNCHANGED <<process, adapter, reply, turn, shown>>

\* Mutant: the reply is waited for without a timeout.
GetReplyAtLast(s) ==
    /\ pc[s] = "asked" /\ reply[s] # "none"
    /\ IF reply[s] = "turn"
       THEN active' = [active EXCEPT ![s] = turn[s]] /\ Goto(s, "streaming") /\ UNCHANGED ends
       ELSE EndFailed(s) /\ UNCHANGED active
    /\ UNCHANGED <<process, queue, open, crossed, reply, turn, shown>>

\* The reply is the turn, an error, the end of a reader, or late.
GetReply(s) ==
    /\ pc[s] = "asked"
    /\ IF reply[s] = "turn"
       THEN active' = [active EXCEPT ![s] = turn[s]] /\ Goto(s, "streaming") /\ UNCHANGED ends
       ELSE EndFailed(s) /\ UNCHANGED active
    /\ UNCHANGED <<process, queue, open, crossed, reply, turn, shown>>

\* Mutant: an answer settles all approvals of its session.
AnswerAll(s, t) ==
    /\ open' = {a \in open : a[1] # s}
    /\ Serve(s, t, IF server[s][t] = "waiting" THEN "decided" ELSE server[s][t])

\* An answer reaches the server if it still waits for one.
Answer(s, t) ==
    /\ open' = open \ {<<s, t>>}
    /\ Serve(s, t, IF server[s][t] = "waiting" THEN "decided" ELSE server[s][t])
Answerable(s, t) == alive /\ <<s, t>> \in open

\* Mutant: the event that was read stays in the queue.
NextEventKept(s) ==
    /\ pc[s] = "streaming" /\ queue[s] # <<>>
    /\ UNCHANGED queue

NextEvent(s) ==
    /\ pc[s] = "streaming" /\ queue[s] # <<>>
    /\ queue' = [queue EXCEPT ![s] = Tail(@)]

\* A terminal event, whichever turn it is of: it is shown, and the stream ends.
ReadEnd(s) ==
    /\ NextEvent(s)
    /\ Head(queue[s]).kind \in {"end", "error"}
    /\ Show(s, Head(queue[s]).turn) /\ Goto(s, "returning")
    /\ UNCHANGED <<process, open, active, crossed, reply, turn, shown>>

\* _route_event: an approval request is shown to the user ...
ReadApproval(s) ==
    /\ NextEvent(s) /\ Head(queue[s]).kind = "approval"
    /\ shown' = [shown EXCEPT ![s] = @ \cup {Head(queue[s]).turn}]
    /\ UNCHANGED <<process, open, active, crossed, pc, reply, turn, ends>>

\* ... or decided by the broker, which is an error if it is no longer open.
ReadDecided(s) ==
    LET t == Head(queue[s]).turn IN
    /\ NextEvent(s) /\ Head(queue[s]).kind = "approval"
    /\ IF Answerable(s, t) THEN Answer(s, t) /\ UNCHANGED <<pc, ends>>
       ELSE EndFailed(s) /\ UNCHANGED <<open, server>>
    /\ UNCHANGED <<alive, reader, zombie, loaded, faults, active, crossed, reply, turn, shown>>

\* The consumer gives up in the middle of the stream: the turn stays active.
ReadBad(s) ==
    /\ NextEvent(s) /\ Head(queue[s]).kind = "bad"
    /\ EndFailed(s)
    /\ UNCHANGED <<process, open, active, crossed, reply, turn, shown>>

\* Mutant: an interrupt that fails keeps the turn from ending.
TimeOutUnended(s) ==
    /\ pc[s] = "streaming"
    /\ IF alive /\ active[s] # None
       THEN Goto(s, "stopping") /\ reply' = [reply EXCEPT ![s] = "none"] /\ UNCHANGED <<active, ends>>
       ELSE Goto(s, "failed") /\ UNCHANGED <<active, reply, ends>>
    /\ UNCHANGED <<process, queue, open, crossed, turn, shown>>

\* _timeout_turn at the deadline: interrupt the active turn, if there is one.
TimeOut(s) ==
    /\ pc[s] = "streaming"
    /\ IF alive /\ active[s] # None
       THEN Goto(s, "stopping") /\ reply' = [reply EXCEPT ![s] = "none"] /\ UNCHANGED <<active, ends>>
       ELSE active' = [active EXCEPT ![s] = None] /\ EndFailed(s) /\ UNCHANGED reply
    /\ UNCHANGED <<process, queue, open, crossed, turn, shown>>

\* With a shorter deadline per event the turn fails before its own, and nobody
\* interrupts it.
Silence(s) ==
    /\ pc[s] = "streaming" /\ queue[s] = <<>>
    /\ EndFailed(s)
    /\ UNCHANGED <<process, adapter, reply, turn, shown>>

\* Whatever comes of the interrupt, the turn ends with a timeout error.
Stopped(s) ==
    /\ pc[s] = "stopping"
    /\ active' = [active EXCEPT ![s] = None]
    /\ EndFailed(s)
    /\ UNCHANGED <<process, queue, open, crossed, reply, turn, shown>>

\* Mutant: the turn stays active.
ReturnActive(s) ==
    /\ pc[s] = "returning"
    /\ Goto(s, "idle")
    /\ UNCHANGED <<process, adapter, reply, turn, shown, ends>>

\* The stream returns after its terminal event, and the session is not busy.
Return(s) ==
    /\ pc[s] = "returning"
    /\ active' = [active EXCEPT ![s] = None]
    /\ Goto(s, "idle")
    /\ UNCHANGED <<process, queue, open, crossed, reply, turn, shown, ends>>

Fail(s) ==
    /\ pc[s] = "failed"
    /\ Goto(s, "idle")
    /\ UNCHANGED <<process, adapter, reply, turn, shown, ends>>

\* decide_approval: the browser's decision, or its expiry, is passed on once;
\* if nobody waits for it any more the browser gets an error.
Decide(s) ==
    \E t \in shown[s] :
        /\ shown' = [shown EXCEPT ![s] = @ \ {t}]
        /\ IF Answerable(s, t) THEN Answer(s, t) ELSE UNCHANGED <<open, server>>
        /\ UNCHANGED <<alive, reader, zombie, loaded, faults, queue, active, crossed, pc, reply, turn, ends>>

Step(s) ==
    \/ Ask(s) \/ Reconnect(s) \/ Forget(s) \/ Resume(s) \/ ResumeFails(s) \/ AskFails(s) \/ GetReply(s)
    \/ ReadEnd(s) \/ ReadApproval(s) \/ ReadDecided(s) \/ ReadBad(s)
    \/ TimeOut(s) \/ Silence(s) \/ Stopped(s) \/ Return(s) \/ Fail(s)

Next ==
    \/ \E s \in Sessions :
           \/ StartTurn(s) \/ Step(s) \/ Decide(s)
           \/ ServerStarts(s) \/ ServerAsks(s) \/ ServerSpoils(s) \/ ServerEnds(s)
    \/ Die \/ ReaderEnds \/ ReaderFails \/ ZombieEnds \/ Connect

Spec == Init /\ [][Next]_vars

\* A turn thread runs on; its waits have deadlines.
FairSpec == Spec /\ \A s \in Sessions : WF_vars(Step(s))
------------------------------------------------------------------------------
Labels == {"idle", "entered", "joining", "reconnecting", "resumed", "asked", "streaming", "stopping",
           "returning", "failed"}
TypeOK ==
    /\ alive \in BOOLEAN /\ reader \in {"running", "ended"}
    /\ zombie \in {"none", "running", "ended"} /\ loaded \subseteq Sessions
    /\ server \in [Sessions -> [Turns -> {"absent", "asked", "running", "waiting", "decided", "over"}]]
    /\ queue \in [Sessions -> Seq(Event)] /\ open \subseteq Sessions \X Turns
    /\ active \in [Sessions -> {None} \cup Turns] /\ crossed \in BOOLEAN
    /\ pc \in [Sessions -> Labels]
    /\ reply \in [Sessions -> {"none", "turn", "error", "failure"}]
    /\ turn \in [Sessions -> {None} \cup Turns] /\ shown \in [Sessions -> SUBSET Turns]
    /\ ends \in [Sessions -> [Turns -> Seq({None} \cup Turns)]]
    /\ faults \in Nat

\* Whatever fails, and on whichever side, the browser is shown exactly one
\* terminal event per turn, and before the session takes the next turn.
OneEnd == \A s \in Sessions : \A t \in Turns :
    Len(ends[s][t]) =
        IF t < turn[s] \/ (t = turn[s] /\ pc[s] \in {"returning", "failed", "idle"}) THEN 1 ELSE 0

\* A turn can only be ended by the event of another one if some turn before
\* it was given up: as long as turns see their own ends, so does the next.
CleanTurnsOwnEnds == \A s \in Sessions : \A t \in Turns :
    (\A u \in 1..(t - 1) : ends[s][u] = <<u>>) => ends[s][t] \in {<<>>, <<None>>, <<t>>}

\* An interrupt finds the turn that is streamed, though the adapter keeps
\* one active turn per session in a table that reconnecting sessions clear,
\* unless the process of that turn has ended and its session is being told, or
\* who reconnected to an older process has cleared the table of this one.
InterruptFindsTurn == \A s \in Sessions :
    pc[s] = "streaming" /\ active[s] # turn[s] =>
        /\ active[s] = None
        /\ crossed \/ zombie = "running" \/ \E i \in DOMAIN queue[s] : queue[s][i] = Error

\* An idle session has no active turn to interrupt, unless that turn, and
\* each one since, was given up.
IdleIsInactive == \A s \in Sessions :
    pc[s] = "idle" /\ active[s] # None => \A t \in active[s]..turn[s] : ends[s][t] = <<None>>

\* The approval a server waits for can be answered: it is in the table, though
\* readers and reconnecting sessions clear that.  A reader that outlives the
\* start of the next process may clear it, and a session that reconnected to an
\* older one.
WaitingIsOpen == \A s \in Sessions : \A t \in Turns :
    alive /\ reader = "running" /\ server[s][t] = "waiting" /\ zombie # "ended" /\ ~crossed
        => <<s, t>> \in open

\* What the adapter knows of the sessions is what interrupts and decisions
\* need, though reconnecting sessions and ending readers clear it for all.
TablesHold == TypeOK /\ InterruptFindsTurn /\ IdleIsInactive /\ WaitingIsOpen

\* Every turn ends, whatever becomes of the server.
TurnEnds == \A s \in Sessions : pc[s] # "idle" ~> pc[s] = "idle"
==============================================================================
