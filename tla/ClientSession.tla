---------------------------- MODULE ClientSession ----------------------------
(****************************************************************************)
(* How the browser keeps its authority to read and change things.  Its tabs *)
(* share one cookie, that of a session; the server leases the session a     *)
(* token, which every answer to GET /api/agents replaces.  A tab that is    *)
(* denied asks for a new token, once for all of its calls, and repeats the  *)
(* call once.  The tabs show the workbench (client.ts) or the older page    *)
(* (api.js), which differ in when they ask.                                 *)
(*                                                                          *)
(* Sessions and tokens are numbered in the order they are issued; 0 is none.*)
(* A session has an owner of its own, so its number stands for both.        *)
(****************************************************************************)
EXTENDS Naturals, FiniteSets

CONSTANTS
    Tabs, Calls,
    Pages,          \* what a tab may show
    MaxLosses,      \* leases that lapse, and sessions the server forgets
    MaxFaults       \* requests and answers that are lost

ASSUME SessionOK ==
    /\ 0 \notin Tabs /\ Pages \subseteq {"workbench", "legacy"}
    /\ MaxLosses \in Nat /\ MaxFaults \in Nat

VARIABLES
    page,       \* what each tab shows
    cookie,     \* the browser's session
    token,      \* each tab's token
    renewal,    \* each tab's request for a token
    call,       \* the calls of the pages to the server
    owners,     \* sessions whose owner the server remembers
    lease,      \* the token leased to each of them, 0 if it lapsed
    issued,     \* tokens, and sessions, issued so far
    losses, faults

browser == <<page, cookie, token, renewal, call>>
server == <<owners, lease, issued>>
vars == <<browser, server, losses, faults>>

NoRenewal == [state |-> "none", session |-> 0, token |-> 0, known |-> 0]
NoCall == [state |-> "idle", tab |-> 0, kind |-> "read", session |-> 0, token |-> 0,
           retried |-> FALSE, executed |-> 0]
Kinds == {"read", "mutate"}

Init ==
    /\ page \in [Tabs -> Pages]
    /\ cookie = 0 /\ token = [t \in Tabs |-> 0] /\ renewal = [t \in Tabs |-> NoRenewal]
    /\ call = [c \in Calls |-> NoCall]
    /\ owners = {} /\ lease = <<>> /\ issued = [tokens |-> 0, sessions |-> 0]
    /\ losses = 0 /\ faults = 0

In(c, states) == call[c].state \in states
Page(c) == page[call[c].tab]
------------------------------------------------------------------------------
\* The tab

\* bootstrap, refreshAgentAuthorization: one request at a time, for all calls
Renewing(t) ==
    renewal' = IF renewal[t].state # "none" THEN renewal
               ELSE [renewal EXCEPT ![t] = [NoRenewal EXCEPT !.state = "asked", !.known = cookie]]

Send(c, tok) == [call[c] EXCEPT !.state = "sent", !.session = cookie, !.token = tok]

\* A call of a tab without a token waits for one (ensureSession); only the
\* workbench reads without one.
Start(c, t, kind) ==
    LET new == [NoCall EXCEPT !.tab = t, !.kind = kind] IN
    /\ call[c].state = "idle"
    /\ page[t] = "legacy" => kind = "mutate"
    /\ IF token[t] = 0 /\ kind = "mutate"
       THEN Renewing(t) /\ call' = [call EXCEPT ![c] = [new EXCEPT !.state = "waiting"]]
       ELSE /\ call' = [call EXCEPT ![c] =
                  [new EXCEPT !.state = "sent", !.session = cookie, !.token = token[t]]]
            /\ UNCHANGED renewal
    /\ UNCHANGED <<page, cookie, token, server, losses, faults>>

\* Mutant: a tab that has been told of a failure never asks again.
KeepRenewal(t) == [renewal EXCEPT ![t].state = "broken"]

\* finally: the request is forgotten, so that the next call may ask again
ForgetRenewal(t) == [renewal EXCEPT ![t] = NoRenewal]

\* The answer sets the cookie and the tab's token, and wakes its calls.
Renewed(t) ==
    /\ renewal[t].state = "answered"
    /\ cookie' = renewal[t].session
    /\ token' = [token EXCEPT ![t] = renewal[t].token]
    /\ renewal' = ForgetRenewal(t)
    /\ call' = [c \in Calls |->
           IF call[c].state = "waiting" /\ call[c].tab = t
           THEN [call[c] EXCEPT !.state = "sent", !.session = renewal[t].session,
                                !.token = renewal[t].token]
           ELSE call[c]]
    /\ UNCHANGED <<page, server, losses, faults>>

RenewalFails(t) ==
    /\ renewal[t].state \in {"asked", "answered"} /\ faults < MaxFaults
    /\ faults' = faults + 1
    /\ renewal' = ForgetRenewal(t)
    /\ call' = [c \in Calls |-> IF call[c].state = "waiting" /\ call[c].tab = t
                                THEN [call[c] EXCEPT !.state = "failed"] ELSE call[c]]
    /\ UNCHANGED <<page, cookie, token, server, losses>>

Succeed(c) ==
    /\ In(c, {"answered"})
    /\ call' = [call EXCEPT ![c].state = "done"]
    /\ UNCHANGED <<page, cookie, token, renewal, server, losses, faults>>

Repeat(c) == [Send(c, token[call[c].tab]) EXCEPT !.retried = TRUE]
Await(c) == Renewing(call[c].tab)
            /\ call' = [call EXCEPT ![c].state = "waiting", ![c].retried = TRUE]

\* Mutant: the older page, too, asks whatever has happened in the meantime.
DeniedLegacyAsks(c) ==
    /\ Page(c) = "legacy" /\ ~call[c].retried
    /\ Await(c)

\* agentRequest: a token that is no longer the denied one is used at once.
DeniedLegacy(c) ==
    /\ Page(c) = "legacy" /\ ~call[c].retried
    /\ IF token[call[c].tab] = call[c].token THEN Await(c)
       ELSE call' = [call EXCEPT ![c] = Repeat(c)] /\ UNCHANGED renewal

\* mutate and read: a new token is always asked for, except by a tab that
\* reads before it has one.
DeniedWorkbench(c) ==
    /\ Page(c) = "workbench" /\ ~call[c].retried
    /\ IF call[c].kind = "read" /\ token[call[c].tab] = 0
       THEN call' = [call EXCEPT ![c].state = "denied"] /\ UNCHANGED renewal
       ELSE Await(c)

DeniedAgain(c) ==
    /\ call[c].retried
    /\ call' = [call EXCEPT ![c].state = "denied"] /\ UNCHANGED renewal

Denied(c) ==
    /\ In(c, {"forbidden"})
    /\ DeniedLegacy(c) \/ DeniedWorkbench(c) \/ DeniedAgain(c)
    /\ UNCHANGED <<page, cookie, token, server, losses, faults>>

\* Mutant: any failure is taken for a denial and the call repeated.
LostRepeats(c) ==
    /\ In(c, {"sent", "answered", "forbidden"}) /\ faults < MaxFaults
    /\ faults' = faults + 1
    /\ call' = [call EXCEPT ![c] = IF call[c].retried THEN [@ EXCEPT !.state = "failed"] ELSE Repeat(c)]
    /\ UNCHANGED <<page, cookie, token, renewal, server, losses>>

\* A request or its answer is lost; such a call is not repeated.
Lost(c) ==
    /\ In(c, {"sent", "answered", "forbidden"}) /\ faults < MaxFaults
    /\ faults' = faults + 1
    /\ call' = [call EXCEPT ![c].state = "failed"]
    /\ UNCHANGED <<page, cookie, token, renewal, server, losses>>
------------------------------------------------------------------------------
\* The server

\* Mutant: each answer begins a session.
IssueAnew(session) == issued.sessions + 1

\* A session that is not forgotten goes on.
SessionFor(session) == IF session \in owners THEN session ELSE issued.sessions + 1

\* BrowserSessions.issue
Issue(t) ==
    LET session == SessionFor(renewal[t].known)
        new == issued.tokens + 1 IN
    /\ renewal[t].state = "asked"
    /\ issued' = [tokens |-> new, sessions |-> IF session \in owners THEN issued.sessions ELSE session]
    /\ owners' = owners \cup {session}
    /\ lease' = [s \in DOMAIN lease \cup {session} |-> IF s = session THEN new ELSE lease[s]]
    /\ renewal' = [renewal EXCEPT ![t].state = "answered", ![t].session = session, ![t].token = new]
    /\ UNCHANGED <<page, cookie, token, call, losses, faults>>

\* BrowserSessions.authorize and authorize_mutation: a read needs a lease, a
\* change its token as well.
Authorized(c) ==
    /\ call[c].session \in owners
    /\ lease[call[c].session] # 0
    /\ \/ Page(c) = "workbench" /\ call[c].kind = "read"
       \/ lease[call[c].session] = call[c].token

Serve(c) ==
    /\ In(c, {"sent"})
    /\ call' = IF Authorized(c)
               THEN [call EXCEPT ![c].state = "answered", ![c].executed = @ + 1]
               ELSE [call EXCEPT ![c].state = "forbidden"]
    /\ UNCHANGED <<page, cookie, token, renewal, server, losses, faults>>

\* _expire: a lease lapses, which each authorized call would have put off ...
Lapse(s) ==
    /\ s \in owners /\ lease[s] # 0 /\ losses < MaxLosses
    /\ lease' = [lease EXCEPT ![s] = 0] /\ losses' = losses + 1
    /\ UNCHANGED <<browser, owners, issued, faults>>

\* ... and the owner is forgotten later, when others crowd it out, or when
\* the server restarts.
Forget(S) ==
    /\ S # {} /\ S \subseteq owners /\ losses < MaxLosses
    /\ owners' = owners \ S
    /\ lease' = [s \in DOMAIN lease |-> IF s \in S THEN 0 ELSE lease[s]]
    /\ losses' = losses + 1
    /\ UNCHANGED <<browser, issued, faults>>
------------------------------------------------------------------------------
Answer(c) == Succeed(c) \/ Denied(c)

Next ==
    \/ \E c \in Calls, t \in Tabs, kind \in Kinds : Start(c, t, kind)
    \/ \E c \in Calls : Answer(c) \/ Lost(c) \/ Serve(c)
    \/ \E t \in Tabs : Renewed(t) \/ RenewalFails(t) \/ Issue(t)
    \/ \E s \in owners : Lapse(s)
    \/ \E S \in SUBSET owners : Forget(S)

Spec == Init /\ [][Next]_vars

\* Requests are served and their answers arrive, unless they are lost.
FairSpec ==
    /\ Spec
    /\ \A c \in Calls : WF_vars(Serve(c)) /\ WF_vars(Answer(c))
    /\ \A t \in Tabs : WF_vars(Issue(t)) /\ WF_vars(Renewed(t))
------------------------------------------------------------------------------
Flying == {"waiting", "sent", "answered", "forbidden"}
TypeOK ==
    /\ page \in [Tabs -> Pages]
    /\ issued \in [tokens : Nat, sessions : Nat]
    /\ owners \subseteq 1..issued.sessions
    /\ lease \in [1..issued.sessions -> 0..issued.tokens]
    /\ cookie \in 0..issued.sessions /\ token \in [Tabs -> 0..issued.tokens]
    /\ renewal \in [Tabs -> [state : {"none", "asked", "answered"}, session : 0..issued.sessions,
                             token : 0..issued.tokens, known : 0..issued.sessions]]
    /\ call \in [Calls -> [state : Flying \cup {"idle", "done", "denied", "failed"},
                           tab : Tabs \cup {0}, kind : Kinds, session : 0..issued.sessions,
                           token : 0..issued.tokens, retried : BOOLEAN, executed : 0..1]]
    /\ losses \in 0..MaxLosses /\ faults \in 0..MaxFaults

\* Whatever is denied, renewed and repeated, a call is executed once if it
\* succeeds and not at all if it is denied in the end.
ExecutedOnce == TypeOK /\ \A c \in Calls :
    /\ In(c, {"done"}) => call[c].executed = 1
    /\ In(c, {"waiting", "denied"}) => call[c].executed = 0

\* A lost lease is noticed by several calls at once: on the older page they
\* share one new token, so that none of them is refused, unless another tab
\* takes the token away or the lease is lost again.
Alone(t) == \A c \in Calls : call[c].tab \in {t, 0}
LossIsHidden == \A c \in Calls :
    In(c, {"denied"}) /\ Page(c) = "legacy" /\ Alone(call[c].tab) => losses > 1

\* The browser keeps its owner, and with it its tasks, as long as the server
\* remembers it; only a tab that asked before the browser had a session may
\* come with another one.
OwnerKept == [][\A t \in Tabs :
    cookie \in owners /\ cookie' # cookie /\ renewal'[t] # renewal[t] => renewal[t].known # cookie]_vars

\* No call waits for ever for a token that several of them have asked for.
CallsEnd == \A c \in Calls : call[c].state \in Flying ~> call[c].state \notin Flying
==============================================================================
