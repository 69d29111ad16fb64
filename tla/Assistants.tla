------------------------------ MODULE Assistants ------------------------------
(****************************************************************************)
(* A conversation with an agent, as the browser shows it: the drawer of the *)
(* workbench (AssistantDrawer, ApprovalCard) or the panel of the older page *)
(* (assistant-panel.js).  The page posts a message, follows                 *)
(* the events of its session over a stream that may break, and passes on    *)
(* what the user decides.  The server numbers the events, keeps the latest  *)
(* of them, and forgets the session when it is started anew.                *)
(*                                                                          *)
(* What the agent does in a turn is in CodexTurns, which shows that a turn  *)
(* has one terminal event; how requests are authorised in ClientSession.    *)
(* To stop a turn is to ask for its end.  The drawer connects to a new      *)
(* session when its provider has to be authenticated anew: what is left of  *)
(* the earlier one, whose cards can only be answered with an error then, is *)
(* not followed further.                                                    *)
(****************************************************************************)
EXTENDS Naturals, Sequences, FiniteSets

CONSTANTS
    Pages,          \* what the browser may show
    MaxMessages,    \* messages the user sends
    MaxEvents,      \* events of the session
    MaxKept,        \* of these the server keeps
    MaxFaults       \* connections and answers that are lost, starts of the server

ASSUME AssistantsOK ==
    /\ Pages \subseteq {"workbench", "legacy"}
    /\ {MaxMessages, MaxEvents, MaxFaults} \subseteq Nat /\ MaxKept \in Nat \ {0}

VARIABLES
    page,
    session,    \* "none", "asked" or "connected"; what follows is of this session
    message,    \* messages sent so far; the last one's number is the current turn's
    active,     \* the page waits for the end of a turn
    analyses,   \* turns that the deterministic analysis is under way for
    posts,      \* messages on their way to the agent, and the answers to them
    source,     \* the EventSource: its state, where it began, its last event
    timer,      \* the older page gives up on the stream unless it is back in time
    cursor,     \* lastEventId
    seen,       \* events handled
    card,       \* approvals shown, and what became of them
    log,        \* events of the session
    agent,      \* the server's turn: idle, running, or ended and still busy
    pending,    \* approvals the server waits for
    told,       \* what the provider was told of each
    known,      \* the server knows the session
    faults

tab == <<page, session, message, active, analyses, posts, timer>>
stream == <<source, cursor, seen>>
server == <<log, agent, pending, told, known>>
vars == <<tab, stream, card, server, faults>>

NoSource == [state |-> "none", after |-> 0, last |-> 0]
Ids == 1..MaxEvents
Workbench == page = "workbench"
Legacy == page = "legacy"

Init ==
    /\ page \in Pages /\ session = "none" /\ message = 0 /\ active = FALSE
    /\ analyses = {} /\ posts = {} /\ timer = FALSE
    /\ source = NoSource /\ cursor = 0 /\ seen = <<>>
    /\ card = [i \in Ids |-> "none"]
    /\ log = <<>> /\ agent = "idle" /\ pending = {} /\ told = [i \in Ids |-> <<>>]
    /\ known = TRUE /\ faults = 0

Fault == faults < MaxFaults /\ faults' = faults + 1
------------------------------------------------------------------------------
\* Connecting and sending

Attached == [state |-> "connecting", after |-> cursor, last |-> 0]
\* A stream there is, even one that is dead, is not opened again.
AttachedIfNone == IF source = NoSource THEN Attached ELSE source

\* At first, and in the drawer again when the provider is to be authenticated
\* anew; the older page may have sent messages before.
Connect ==
    /\ session = "none"
    /\ session' = "asked"
    /\ UNCHANGED <<page, message, active, analyses, posts, timer, stream, card, server, faults>>

\* A new session: its events are counted from the first one, and messages to
\* an earlier one are answered as they may be.
Connected ==
    /\ session = "asked" /\ session' = "connected"
    /\ \E answer \in {"accepted", "refused"} :
          posts' = {[p EXCEPT !.state = IF @ = "sent" THEN answer ELSE @] : p \in posts}
    /\ source' = [NoSource EXCEPT !.state = "connecting"] /\ cursor' = 0 /\ seen' = <<>>
    /\ card' = [i \in Ids |-> "none"] /\ told' = [i \in Ids |-> <<>>] /\ pending' = {}
    /\ log' = <<>> /\ agent' = "idle" /\ known' = TRUE
    /\ UNCHANGED <<page, message, active, analyses, timer, faults>>

NotConnected ==
    /\ session = "asked" /\ session' = "none" /\ Fault
    /\ UNCHANGED <<page, message, active, analyses, posts, timer, stream, card, server>>

Post(t) == posts' = posts \cup {[turn |-> t, state |-> "sent"]}

\* The drawer's submit.
Send ==
    /\ Workbench /\ session = "connected" /\ ~active /\ message < MaxMessages
    /\ message' = message + 1 /\ active' = TRUE
    /\ source' = AttachedIfNone /\ Post(message + 1)
    /\ UNCHANGED <<page, session, analyses, timer, cursor, seen, card, server, faults>>

\* The older page has each message analysed first, and until that is done
\* another one may be sent.
Ask ==
    /\ Legacy /\ ~active /\ message < MaxMessages
    /\ message' = message + 1 /\ analyses' = analyses \cup {message + 1}
    /\ UNCHANGED <<page, session, active, posts, timer, stream, card, server, faults>>

\* runDeterministicAnalysis, whatever comes of it, and startAssistantTurn.
Analysed(t) ==
    /\ t \in analyses /\ analyses' = analyses \ {t}
    /\ IF session = "connected"
       THEN active' = TRUE /\ source' = AttachedIfNone /\ Post(t)
       ELSE UNCHANGED <<active, source, posts>>
    /\ UNCHANGED <<page, session, message, timer, cursor, seen, card, server, faults>>

\* The page no longer waits: the drawer keeps its stream open after an error.
\* The timer is one of the stream.
StopWaiting(close) ==
    /\ active' = FALSE /\ timer' = (timer /\ ~close)
    /\ source' = IF close THEN NoSource ELSE source

Answer(p, state) == posts' = (posts \ {p}) \cup {[p EXCEPT !.state = state]}

\* start_turn: one turn at a time; it begins with an event of its own.
TurnStarts(p) ==
    /\ p.state = "sent" /\ known /\ agent = "idle" /\ Len(log) + 1 < MaxEvents
    /\ agent' = "running" /\ log' = Append(log, [kind |-> "output", turn |-> p.turn])
    /\ Answer(p, "accepted")
    /\ UNCHANGED <<page, session, message, active, analyses, timer, stream, card, pending, told, known, faults>>

TurnRefused(p) ==
    /\ p.state = "sent" /\ (~known \/ agent # "idle" \/ Len(log) + 1 >= MaxEvents)
    /\ Answer(p, "refused")
    /\ UNCHANGED <<page, session, message, active, analyses, timer, stream, card, server, faults>>

PostAnswered(p) ==
    /\ p.state # "sent" /\ posts' = posts \ {p}
    /\ IF p.state = "refused" THEN StopWaiting(Legacy) ELSE UNCHANGED <<active, source, timer>>
    /\ UNCHANGED <<page, session, message, analyses, cursor, seen, card, server, faults>>

\* No answer arrives, whether or not the turn has been started.
PostLost(p) ==
    /\ posts' = posts \ {p} /\ Fault
    /\ StopWaiting(Legacy)
    /\ UNCHANGED <<page, session, message, analyses, cursor, seen, card, server>>
------------------------------------------------------------------------------
\* The server's turn

Turn == log[Len(log)].turn
Emit(kind) == log' = Append(log, [kind |-> kind, turn |-> Turn])

\* What the agent says, asks, or reports of its connection, as far as the page
\* tells it apart.  A list mark that nothing follows yet is more than
\* renderMarkdown of the older page can take.
Kinds == {"output"} \cup (IF Workbench THEN {"failed", "auth"} ELSE {"mark"})

Progress ==
    /\ agent = "running" /\ Len(log) + 1 < MaxEvents
    /\ \/ \E kind \in Kinds : Emit(kind) /\ UNCHANGED pending
       \/ Emit("approval") /\ pending' = pending \cup {Len(log) + 1}
    /\ UNCHANGED <<tab, stream, card, agent, told, known, faults>>

\* The terminal event, and only then the session is free again.
End ==
    /\ agent = "running"
    /\ Emit("end") /\ agent' = "ended"
    /\ UNCHANGED <<tab, stream, card, pending, told, known, faults>>

Free ==
    /\ agent = "ended"
    /\ agent' = "idle"
    /\ UNCHANGED <<tab, stream, card, log, pending, told, known, faults>>

\* The server is started anew: no session of before is known any more.
Restart ==
    /\ known /\ Fault
    /\ known' = FALSE /\ agent' = "idle" /\ pending' = {}
    /\ UNCHANGED <<tab, stream, card, log, told>>
------------------------------------------------------------------------------
\* The stream of events

\* Mutant: a full buffer takes no more events.
KeptFirst(after) == {i \in 1..Len(log) : i > after /\ i <= MaxKept}
\* EventBuffer.after: of the events, the latest are kept.
Kept(after) == {i \in 1..Len(log) : i > after /\ i > Len(log) - MaxKept}

AtMost(a, b) == IF a < b THEN b ELSE a
First(S) == CHOOSE i \in S : \A j \in S : i <= j

\* Mutant: it begins again where it had begun.
OpenAgain ==
    /\ source.state = "connecting" /\ known
    /\ source' = [source EXCEPT !.state = "open", !.last = source.after]
    /\ timer' = FALSE
    /\ UNCHANGED <<page, session, message, active, analyses, posts, cursor, seen, card, server, faults>>
\* _send_events: after the last event of the stream, or where it began.
Open ==
    /\ source.state = "connecting" /\ known
    /\ source' = [source EXCEPT !.state = "open", !.last = AtMost(source.after, source.last)]
    /\ timer' = FALSE
    /\ UNCHANGED <<page, session, message, active, analyses, posts, cursor, seen, card, server, faults>>

\* onerror of the older page: while a turn is on, there are 15 seconds left.
OnError == timer' = (timer \/ (Legacy /\ active))

\* The connection breaks and the browser connects again by itself ...
Break ==
    /\ source.state = "open" /\ (IF known THEN Fault ELSE UNCHANGED faults)
    /\ source' = [source EXCEPT !.state = "connecting"]
    /\ OnError
    /\ UNCHANGED <<page, session, message, active, analyses, posts, cursor, seen, card, server>>

\* ... but not after an answer that is an error: the session is not known, or
\* the browser's lease has lapsed (what renews it is in ClientSession).
Die ==
    /\ source.state = "connecting" /\ (IF known THEN Fault ELSE UNCHANGED faults)
    /\ source' = [source EXCEPT !.state = "dead"]
    /\ OnError
    /\ UNCHANGED <<page, session, message, active, analyses, posts, cursor, seen, card, server>>

GiveUp ==
    /\ timer /\ StopWaiting(TRUE)
    /\ UNCHANGED <<page, session, message, analyses, posts, cursor, seen, card, server, faults>>

\* What an event ends: the drawer handles what becomes of its provider, the
\* older page stumbles over list marks.
Ending(kind) == kind \in {"end", "failed", "auth", "mark"}

\* handleEvent, handleAgentEvent: the next event is shown.  A terminal one ends
\* the page's turn whichever turn it is of.
Deliver ==
    LET i == First(Kept(source.last))
        kind == log[i].kind
    IN
    /\ source.state = "open" /\ Kept(source.last) # {}
    /\ seen' = Append(seen, i) /\ cursor' = AtMost(cursor, i)
    /\ active' = (active /\ ~Ending(kind))
    /\ source' = IF Ending(kind) /\ kind # "failed" THEN NoSource ELSE [source EXCEPT !.last = i]
    /\ timer' = (timer /\ source' # NoSource)
    /\ session' = IF Workbench /\ kind = "auth" THEN "none" ELSE session
    /\ card' = IF kind = "approval" /\ card[i] = "none" THEN [card EXCEPT ![i] = "shown"] ELSE card
    /\ UNCHANGED <<page, message, analyses, posts, server, faults>>
------------------------------------------------------------------------------
\* Approvals

\* The user decides once, or again after an error if the card offers it.
Choose(i) ==
    /\ session = "connected" /\ card[i] \in {"shown"} \cup (IF Workbench THEN {"error"} ELSE {})
    /\ \E c \in {"approve", "reject"} : card' = [card EXCEPT ![i] = c]
    /\ UNCHANGED <<tab, stream, server, faults>>

Outcome(i, c, refused) ==
    card' = [card EXCEPT ![i] = IF refused THEN "error" ELSE IF c = "approve" THEN "approved" ELSE "rejected"]

\* Mutant: the approval stays pending until the provider has been told.
DecideKept(i) ==
    \E passed \in BOOLEAN, lost \in BOOLEAN :
        /\ card[i] \in {"approve", "reject"}
        /\ passed => card[i] = "approve"
        /\ i \in pending /\ told' = [told EXCEPT ![i] = Append(@, passed)]
        /\ IF lost THEN Fault /\ UNCHANGED pending ELSE UNCHANGED faults /\ pending' = pending \ {i}
        /\ Outcome(i, card[i], lost)
        /\ UNCHANGED <<tab, stream, log, agent, known>>
\* decide_approval takes it and tells the provider, that it is rejected if it
\* has expired or the broker does not agree; the answer may get lost.
Decide(i) ==
    \E passed \in BOOLEAN, lost \in BOOLEAN :
        /\ card[i] \in {"approve", "reject"}
        /\ passed => card[i] = "approve"
        /\ i \in pending /\ pending' = pending \ {i}
        /\ told' = [told EXCEPT ![i] = Append(@, passed)]
        /\ IF lost THEN Fault ELSE UNCHANGED faults
        /\ Outcome(i, card[i], lost)
        /\ UNCHANGED <<tab, stream, log, agent, known>>

\* It has expired, or the provider cannot be told any more, which the server
\* learns when it has taken the approval already; or there is none to decide.
Undecided(i) ==
    /\ card[i] \in {"approve", "reject"}
    /\ \/ /\ i \in pending /\ pending' = pending \ {i}
          /\ told' \in {told, [told EXCEPT ![i] = Append(@, FALSE)]}
       \/ i \notin pending /\ UNCHANGED <<pending, told>>
    /\ Outcome(i, card[i], TRUE)
    /\ UNCHANGED <<tab, stream, log, agent, known, faults>>

\* The decision never reaches the server.
DecisionLost(i) ==
    /\ card[i] \in {"approve", "reject"} /\ Fault
    /\ Outcome(i, card[i], TRUE)
    /\ UNCHANGED <<tab, stream, server>>
------------------------------------------------------------------------------
Posting(p) == TurnStarts(p) \/ TurnRefused(p) \/ PostAnswered(p)

Next ==
    \/ Connect \/ Connected \/ NotConnected \/ Send \/ Ask
    \/ \E t \in analyses : Analysed(t)
    \/ \E p \in posts : Posting(p) \/ PostLost(p)
    \/ Progress \/ End \/ Free \/ Restart
    \/ Open \/ Break \/ Die \/ GiveUp \/ Deliver
    \/ \E i \in Ids : Choose(i) \/ Decide(i) \/ Undecided(i) \/ DecisionLost(i)

Spec == Init /\ [][Next]_vars

\* Turns end (CodexTurns), requests are answered, a stream is connected to and
\* delivers, one to a server that is gone breaks, and time passes.
FairSpec ==
    /\ Spec
    /\ WF_vars(End) /\ WF_vars(Free) /\ WF_vars(\E p \in posts : Posting(p))
    /\ WF_vars(Open) /\ WF_vars(Deliver) /\ WF_vars(~known /\ Die) /\ WF_vars(~known /\ Break)
    /\ WF_vars(GiveUp)
------------------------------------------------------------------------------
TypeOK ==
    /\ session \in {"none", "asked", "connected"} /\ message \in 0..MaxMessages
    /\ posts \subseteq [turn : 1..MaxMessages, state : {"sent", "accepted", "refused"}]
    /\ analyses \subseteq 1..message
    /\ source.state \in {"none", "connecting", "open", "dead"}
    /\ pending \cup {i \in Ids : told[i] # <<>>} \subseteq {i \in 1..Len(log) : log[i].kind = "approval"}

\* However often the stream is closed, broken and opened again, events are
\* handled once and in their order, and none is passed over unless as many as
\* the server keeps have come after it.
EventsOnce ==
    /\ TypeOK
    /\ \A a, b \in 1..Len(seen) : a < b => seen[a] < seen[b]
    /\ \A i \in 1..cursor : i \in {seen[a] : a \in 1..Len(seen)} \/ i + MaxKept <= Len(log)

\* The provider is told of an approval once, to go on only if the user said so,
\* and that it is rejected whenever the card says that it is; also when an
\* answer is lost and the user decides again.
DecisionsHold ==
    \A i \in Ids : /\ Len(told[i]) <= 1
                   /\ card[i] \in {"none", "shown"} => told[i] = <<>>
                   /\ card[i] = "approved" => Len(told[i]) = 1
                   /\ card[i] = "rejected" => told[i] = <<FALSE>>

\* A page that waits for a turn does not wait for ever, though events are
\* dropped, streams break and are refused and the server is started anew; only
\* one whose stream was refused and that has no timer for it does: the drawer,
\* and the older page if it was before the message.
WaitingEnds == active ~> (~active \/ (source.state = "dead" /\ ~timer))
==============================================================================
