------------------------------ MODULE RunStream ------------------------------
(****************************************************************************)
(* How a browser tab follows an analysis run.  The engine's thread appends  *)
(* events to the run and, in a transaction of its own, saves its status;    *)
(* the server streams the events page by page; the tab keeps a cursor, also *)
(* across reloads, buffers events until the next frame, reconnects when the *)
(* stream breaks, and loads the run as a whole when it is opened or ends.   *)
(* The server streams and answers to the browser that owns the run, as long *)
(* as it knows it: a lease may lapse, and a restart forgets the owner.  A   *)
(* stream that is then refused is closed for good.                          *)
(*                                                                          *)
(* An event is its sequence number, the last one being terminal.  That a    *)
(* completed run may turn out failed is in FlowRun; here it just ends.      *)
(****************************************************************************)
EXTENDS Naturals, Sequences, FiniteSetsExt

CONSTANTS
    MaxEvents,      \* events of the run
    PageSize,       \* events the server reads for the stream at a time
    DetailLimit,    \* events it returns at most when the run is loaded
    MaxLoads,       \* reloads of the page and of the run
    MaxDrops,       \* connections that break
    MaxLapses       \* leases that lapse, and owners that are forgotten

ASSUME StreamOK ==
    /\ {MaxEvents, PageSize, DetailLimit} \subseteq Nat \ {0}
    /\ {MaxLoads, MaxDrops, MaxLapses} \subseteq Nat

VARIABLES
    n,          \* events persisted
    status,     \* of the persisted run
    over,       \* its terminal event is persisted
    alive,      \* the process that runs it has not been restarted
    access,     \* what the server knows of the run's owner: its lease, at best
    conn,       \* the server's end of the stream: its state and its cursor
    wire,       \* events sent and not received
    source,     \* the tab's EventSource
    cursor,     \* its cursor, the one in the session storage if there is none
    pending,    \* events buffered until the next frame
    shown,      \* events of the run on display
    running,    \* the tab shows the run as running
    load,       \* the request for the whole run: when opened, and at the end
    stale,      \* such an answer replaced events while they were streamed
    loads, drops, lapses

run == <<n, status, over>>
host == <<alive, access, lapses>>
stream == <<conn, wire>>
tab == <<source, cursor, pending, shown, running, load, stale>>
streamVars == <<run, host, stream, tab, loads, drops>>

Events == 1..MaxEvents
NoConn == [state |-> "none", cursor |-> 0]
NoLoad == [state |-> "none", status |-> "absent", events |-> 0]
Openings == {"open", "end"}
AtMost(a, b) == IF a < b THEN a ELSE b

StreamInit ==
    /\ n = 0 /\ status = "absent" /\ over = FALSE
    /\ alive = TRUE /\ access = "leased" /\ conn = NoConn /\ wire = <<>>
    /\ source = "starting" /\ cursor = 0 /\ pending = {} /\ shown = {} /\ running = TRUE
    /\ load = [o \in Openings |-> NoLoad] /\ stale = FALSE
    /\ loads = 0 /\ drops = 0 /\ lapses = 0
------------------------------------------------------------------------------
\* The engine's thread

\* create_run, with its first event
Create ==
    /\ alive /\ status = "absent"
    /\ n' = 1 /\ status' = "running" /\ UNCHANGED over
    /\ UNCHANGED <<host, stream, tab, loads, drops>>

AppendEvent ==
    /\ alive /\ status = "running" /\ ~over /\ n < MaxEvents
    /\ n' = n + 1 /\ over' \in BOOLEAN
    /\ UNCHANGED <<status, host, stream, tab, loads, drops>>

SaveStatus ==
    /\ alive /\ status = "running" /\ over
    /\ status' = "ended"
    /\ UNCHANGED <<n, over, host, stream, tab, loads, drops>>
------------------------------------------------------------------------------
\* The server's end of the stream

\* Mutant: the page is announced as one.
PollLatest ==
    /\ conn.state = "polling"
    /\ IF n > conn.cursor
       THEN /\ wire' = Append(wire, n)
            /\ conn' = [state |-> IF over THEN "closed" ELSE "polling", cursor |-> n]
       ELSE conn' = [conn EXCEPT !.state = "checking"] /\ UNCHANGED wire
    /\ UNCHANGED <<run, host, tab, loads, drops>>

\* A page of the events after the cursor is sent; a terminal one is the last.
Poll ==
    LET last == AtMost(n, conn.cursor + PageSize) IN
    /\ conn.state = "polling"
    /\ IF n > conn.cursor
       THEN /\ wire' = wire \o [i \in 1..(last - conn.cursor) |-> conn.cursor + i]
            /\ conn' = [state |-> IF over /\ last = n THEN "closed" ELSE "polling", cursor |-> last]
       ELSE conn' = [conn EXCEPT !.state = "checking"] /\ UNCHANGED wire
    /\ UNCHANGED <<run, host, tab, loads, drops>>

\* Without news, and in another transaction, it looks whether the run is over.
Check ==
    /\ conn.state = "checking"
    /\ conn' = [conn EXCEPT !.state = IF status = "ended" THEN "closed" ELSE "polling"]
    /\ UNCHANGED <<run, host, wire, tab, loads, drops>>
------------------------------------------------------------------------------
\* The tab's end of the stream

\* attachRunStream: what the previous stream had buffered is dropped; the new
\* one begins where the session's cursor is, if that is further on.
Attach(after) ==
    /\ source' = "connecting" /\ cursor' = Max({after, cursor}) /\ pending' = {}
    /\ conn' = NoConn /\ wire' = <<>>

\* The request that starts the run is answered once the run is created ...
Started ==
    /\ source = "starting" /\ n > 0
    /\ Attach(0)
    /\ UNCHANGED <<run, host, shown, running, load, stale, loads, drops>>

\* ... or, after two seconds, with an error, and the run goes on regardless.
StartFails ==
    /\ source = "starting"
    /\ source' = "none" /\ running' = FALSE
    /\ UNCHANGED <<run, host, stream, cursor, pending, shown, load, stale, loads, drops>>

\* Each connection is authorized.  The server begins after both the cursor in
\* the address and the last event the browser has received, the tab's cursor.
Connect ==
    /\ source = "connecting" /\ access = "leased"
    /\ source' = "streaming" /\ conn' = [state |-> "polling", cursor |-> cursor]
    /\ UNCHANGED <<run, host, wire, cursor, pending, shown, running, load, stale, loads, drops>>

\* A lease that has lapsed is answered 403, and the new owner of a browser that
\* was forgotten 404: no EventSource tries again, and the tab only says so.
Refused ==
    /\ source = "connecting" /\ access # "leased"
    /\ source' = "refused"
    /\ UNCHANGED <<run, host, stream, cursor, pending, shown, running, load, stale, loads, drops>>

Ask(o) == load' = [load EXCEPT ![o] = [NoLoad EXCEPT !.state = "asked"]]

\* Mutant: the tab is told of the end and forgets what waits for the frame.
ShowEndAlone(event) ==
    /\ shown' = shown \cup {event} /\ pending' = {} /\ running' = FALSE
    /\ source' = "ended" /\ conn' = NoConn /\ wire' = <<>>
    /\ Ask("end")
\* A terminal event is shown at once with all that is buffered, the stream is
\* closed and the run is loaded for good.
ShowEnd(event) ==
    /\ shown' = shown \cup pending \cup {event} /\ pending' = {} /\ running' = FALSE
    /\ source' = "ended" /\ conn' = NoConn /\ wire' = <<>>
    /\ Ask("end")

\* The event is buffered; one that is not new is ignored.
Receive ==
    /\ source = "streaming" /\ wire # <<>>
    /\ LET event == Head(wire) IN
       IF event <= cursor
       THEN wire' = Tail(wire) /\ UNCHANGED <<conn, source, cursor, pending, shown, running, load>>
       ELSE /\ cursor' = event
            /\ IF over /\ event = n THEN ShowEnd(event)
               ELSE /\ pending' = pending \cup {event} /\ wire' = Tail(wire)
                    /\ UNCHANGED <<conn, source, shown, running, load>>
    /\ UNCHANGED <<run, host, stale, loads, drops>>

\* Mutant: of a batch only the latest event is shown.
FrameLatest ==
    /\ pending # {}
    /\ shown' = shown \cup {Max(pending)} /\ pending' = {}
    /\ UNCHANGED <<run, host, stream, source, cursor, running, load, stale, loads, drops>>

\* requestAnimationFrame: the batch is shown.
Frame ==
    /\ pending # {}
    /\ shown' = shown \cup pending /\ pending' = {}
    /\ UNCHANGED <<run, host, stream, source, cursor, running, load, stale, loads, drops>>

\* Mutant: a stream that ends without an error is not opened again.
EndOfStreamForGood ==
    /\ source = "streaming" /\ conn.state = "closed" /\ wire = <<>>
    /\ source' = "none" /\ conn' = NoConn
    /\ UNCHANGED <<run, host, wire, cursor, pending, shown, running, load, stale, loads, drops>>

\* The EventSource opens any stream again that ends before it is closed.
EndOfStream ==
    /\ source = "streaming" /\ conn.state = "closed" /\ wire = <<>>
    /\ source' = "connecting" /\ conn' = NoConn
    /\ UNCHANGED <<run, host, wire, cursor, pending, shown, running, load, stale, loads, drops>>

Drop ==
    /\ source = "streaming" /\ drops < MaxDrops
    /\ source' = "connecting" /\ conn' = NoConn /\ wire' = <<>> /\ drops' = drops + 1
    /\ UNCHANGED <<run, host, cursor, pending, shown, running, load, stale, loads>>
------------------------------------------------------------------------------
\* What the server knows of the browser

\* A browser that sends nothing for long, as one that sleeps, loses its lease,
\* and its owner later or when others crowd it out.  An open stream goes on.
LoseLease ==
    /\ access # "forgotten" /\ lapses < MaxLapses
    /\ access' \in {"lapsed", "forgotten"} \ {access} /\ lapses' = lapses + 1
    /\ UNCHANGED <<run, alive, stream, tab, loads, drops>>

\* The heartbeat, or any other request, is given a new lease.
Renew ==
    /\ access = "lapsed" /\ access' = "leased"
    /\ UNCHANGED <<run, alive, lapses, stream, tab, loads, drops>>

\* The server restarts: the engine's thread ends with it, streams and requests
\* break, and the browsers are forgotten.
Restart ==
    /\ alive
    /\ alive' = FALSE /\ access' = "forgotten"
    /\ conn' = NoConn /\ wire' = <<>>
    /\ source' = IF source = "streaming" THEN "connecting" ELSE source
    /\ load' = [o \in Openings |-> IF load[o].state = "answered" THEN load[o] ELSE NoLoad]
    /\ UNCHANGED <<run, lapses, cursor, pending, shown, running, stale, loads, drops>>
------------------------------------------------------------------------------
\* Loading the run

\* The page is loaded anew; only the cursor survives.
Reload ==
    /\ loads < MaxLoads
    /\ loads' = loads + 1
    /\ source' = "none" /\ conn' = NoConn /\ wire' = <<>>
    /\ pending' = {} /\ shown' = {} /\ running' = FALSE /\ stale' = FALSE
    /\ load' = [load EXCEPT !["open"] = [NoLoad EXCEPT !.state = "asked"], !["end"] = NoLoad]
    /\ UNCHANGED <<run, host, cursor, drops>>

\* An update of the task renders the shell anew and runs its effect again; the
\* answer to an earlier one no longer counts.
Rerender ==
    /\ loads < MaxLoads /\ source # "starting"
    /\ loads' = loads + 1
    /\ Ask("open")
    /\ UNCHANGED <<run, host, stream, source, cursor, pending, shown, running, stale, drops>>

\* run_detail reads the run, and then its events.  A run that is not created
\* yet, or whose owner is forgotten, is not found; a denied request asks for a
\* new lease and is repeated.
ReadStatus ==
    \E o \in Openings :
        /\ load[o].state = "asked"
        /\ load' = [load EXCEPT ![o] = IF status = "absent" \/ access = "forgotten" THEN NoLoad
                                       ELSE [@ EXCEPT !.state = "reading", !.status = status]]
        /\ access' = IF access = "lapsed" THEN "leased" ELSE access
        /\ UNCHANGED <<run, alive, lapses, stream, source, cursor, pending, shown, running, stale, loads, drops>>

ReadEvents ==
    \E o \in Openings :
        /\ load[o].state = "reading"
        /\ load' = [load EXCEPT ![o].state = "answered", ![o].events = AtMost(n, DetailLimit)]
        /\ UNCHANGED <<run, host, stream, source, cursor, pending, shown, running, stale, loads, drops>>

\* Mutant: a running run is shown, and not followed.
OpenedUnfollowed ==
    LET answer == load["open"] IN
    /\ answer.state = "answered"
    /\ load' = [load EXCEPT !["open"] = NoLoad]
    /\ shown' = 1..answer.events /\ stale' = (stale \/ source = "streaming")
    /\ running' = (answer.status = "running")
    /\ UNCHANGED <<run, host, stream, source, cursor, pending, loads, drops>>

\* The answer replaces what is shown; a running run is followed from there.
Opened ==
    LET answer == load["open"] IN
    /\ answer.state = "answered"
    /\ load' = [load EXCEPT !["open"] = NoLoad]
    /\ shown' = 1..answer.events /\ stale' = (stale \/ source # "none")
    /\ running' = (answer.status = "running")
    /\ IF answer.status = "running" THEN Attach(answer.events)
       ELSE UNCHANGED <<stream, source, cursor, pending>>
    /\ UNCHANGED <<run, host, loads, drops>>

LoadedAtEnd ==
    /\ load["end"].state = "answered"
    /\ load' = [load EXCEPT !["end"] = NoLoad]
    /\ shown' = 1..load["end"].events
    /\ UNCHANGED <<run, host, stream, source, cursor, pending, running, stale, loads, drops>>

Engine == Create \/ AppendEvent \/ SaveStatus
Server == Poll \/ Check \/ ReadStatus \/ ReadEvents
Tab == Started \/ StartFails \/ Connect \/ Refused \/ Receive \/ Frame \/ EndOfStream \/ Opened \/ LoadedAtEnd

StreamNext == Engine \/ Server \/ Tab \/ Drop \/ Reload \/ Rerender \/ LoseLease \/ Renew \/ Restart

StreamSpec == StreamInit /\ [][StreamNext]_streamVars

\* The handler's thread and the tab's event loop run on, and requests are
\* answered; the engine may take as long as it likes.
FairStream ==
    /\ StreamSpec
    /\ WF_streamVars(Poll \/ Check) /\ WF_streamVars(ReadStatus \/ ReadEvents)
    /\ WF_streamVars(Tab)
------------------------------------------------------------------------------
Following == {"starting", "connecting", "streaming"}
Answers == [state: {"none", "asked", "reading", "answered"},
            status: {"absent", "running", "ended"}, events: 0..n]
StreamTypeOK ==
    /\ n \in 0..MaxEvents /\ status \in {"absent", "running", "ended"} /\ over \in BOOLEAN
    /\ alive \in BOOLEAN /\ access \in {"leased", "lapsed", "forgotten"}
    /\ conn \in [state: {"none", "polling", "checking", "closed"}, cursor: 0..n]
    /\ wire \in Seq(1..n)
    /\ source \in Following \cup {"none", "refused", "ended"}
    /\ cursor \in 0..n /\ pending \subseteq 1..n /\ shown \subseteq 1..n
    /\ running \in BOOLEAN /\ stale \in BOOLEAN
    /\ load \in [Openings -> Answers]
    /\ loads \in 0..MaxLoads /\ drops \in 0..MaxDrops /\ lapses \in 0..MaxLapses

\* The stream hands on every event, once and in order, through pages, breaks
\* and reconnections: the cursor skips none, except to where a loaded run ends.
NoEventSkipped ==
    [][cursor' # cursor => cursor' = cursor + 1 \/ (source' = "connecting" /\ cursor' \in shown')]_streamVars

\* While the run is streamed, and when a stream is refused, no event before the
\* cursor is missing, though some wait for the frame and the cursor is kept
\* across reloads.  Not so if an answer that was read earlier replaced what is
\* shown, or is cut short.
NoGap == ~stale /\ n <= DetailLimit /\ source \in Following \cup {"refused"}
             => 1..cursor \subseteq shown \cup pending

\* The tab that has been told of the end shows the whole run at once, and what
\* an earlier answer took away as soon as no answer is outstanding, if its owner
\* is not forgotten.
EndShowsAll == source = "ended" =>
    /\ ~stale /\ n <= DetailLimit => shown = 1..n
    /\ load = [o \in Openings |-> NoLoad] /\ access # "forgotten" => shown = 1..AtMost(n, DetailLimit)

\* What the tab shows is the run up to its cursor, and all of it in the end.
ShowsTheRun == StreamTypeOK /\ NoGap /\ EndShowsAll

\* A tab that shows the run as running follows it, or it would never stop.  The
\* one that does not was refused, which takes a lapse of its lease, or a
\* restart, since it loaded the run or had it started.
RunningIsFollowed == running => \/ source \in Following
                                \/ source = "refused" /\ (lapses > 0 \/ ~alive)

\* A tab that lags behind the end of the run catches up, whatever breaks, or is
\* refused.
Behind == over /\ running /\ cursor < n
CatchesUp == Behind ~> (~Behind \/ source = "refused")
==============================================================================
