---------------------------- MODULE BrowserProofs ----------------------------
(****************************************************************************)
(* What holds of a browser tab's calls and of the stream it follows.        *)
(*                                                                          *)
(* For any number of tabs, calls, losses and faults, a call is executed     *)
(* once or not at all, and the browser keeps its owner.  The first needs to *)
(* know of a call at each state whether it has been executed; the second,   *)
(* of a token that is on its way, that it is for the session it was asked   *)
(* with as long as the server remembers that one.                           *)
(*                                                                          *)
(* For runs and pages of any length and any number of breaks and reloads,   *)
(* the stream hands on every event once and in order.  The server keeps no  *)
(* state between two connections, so the argument is about one: what is on  *)
(* the wire continues the tab's cursor, and ends where the server's own     *)
(* cursor is.  Its second part is about the page: the run that it shows is  *)
(* the one that was asked for.                                              *)
(****************************************************************************)
EXTENDS ClientSession, RunStream, TLAPS

(* The calls of the tabs.                                                   *)
States == Flying \cup {"idle", "done", "denied", "failed"}
CallSet == [state : States, tab : Tabs \cup {0}, kind : Kinds, session : 0..issued.sessions,
            token : 0..issued.tokens, retried : BOOLEAN, executed : 0..1]
RenewalSet == [state : {"none", "asked", "answered"}, session : 0..issued.sessions,
               token : 0..issued.tokens, known : 0..issued.sessions]

\* A call has been executed when it is answered, and not before.
Executions(x) ==
    /\ x.state # "idle" => x.tab \in Tabs
    /\ x.state \in {"idle", "waiting", "sent", "forbidden", "denied"} => x.executed = 0
    /\ x.state \in {"answered", "done"} => x.executed = 1
CallsHold == \A c \in Calls : Executions(call[c])

\* A token on its way is for the session it was asked with.
SameOwner == \A t \in Tabs :
    renewal[t].state = "answered" /\ renewal[t].known \in owners => renewal[t].session = renewal[t].known

Inv == TypeOK /\ CallsHold /\ SameOwner

\* Nothing has been issued, nothing sent.
LEMMA InitInv == Init => Inv
<1> SUFFICES ASSUME Init PROVE Inv
  OBVIOUS
<1>1. TypeOK
  <2>1. lease \in [1..issued.sessions -> 0..issued.tokens]
    BY DEF Init
  <2>2. \A c \in Calls : call[c] \in CallSet
    BY DEF Init, CallSet, States, NoCall, Kinds
  <2>3. \A t \in Tabs : renewal[t] \in RenewalSet
    BY DEF Init, RenewalSet, NoRenewal
  <2> QED BY SessionOK, <2>1, <2>2, <2>3 DEF Init, TypeOK, CallSet, States, RenewalSet
<1>2. CallsHold /\ SameOwner
  BY DEF Init, CallsHold, Executions, SameOwner, NoCall, NoRenewal
<1> QED BY <1>1, <1>2 DEF Inv

\* Steps of the tabs leave the server alone: what is to be shown of them is
\* what becomes of the calls, the requests for a token, cookie and tokens.
LEMMA TabKeeps ==
    ASSUME Inv, UNCHANGED <<page, server, losses>>, faults' \in 0..MaxFaults,
           cookie' \in 0..issued.sessions, token' \in [Tabs -> 0..issued.tokens],
           renewal' \in [Tabs -> RenewalSet], call' \in [Calls -> CallSet],
           \A c \in Calls : Executions(call'[c]),
           \A t \in Tabs : renewal'[t] = renewal[t] \/ renewal'[t].state # "answered"
    PROVE  Inv'
<1>1. TypeOK'
  BY DEF Inv, TypeOK, RenewalSet, CallSet, States, server
<1>2. CallsHold' /\ SameOwner'
  BY DEF Inv, CallsHold, Executions, SameOwner, server
<1> QED BY <1>1, <1>2 DEF Inv

\* The types of what the tabs read.
LEMMA Types ==
    Inv => /\ call \in [Calls -> CallSet] /\ renewal \in [Tabs -> RenewalSet]
           /\ token \in [Tabs -> 0..issued.tokens] /\ cookie \in 0..issued.sessions
           /\ issued.tokens \in Nat /\ issued.sessions \in Nat /\ faults \in 0..MaxFaults
  BY DEF Inv, TypeOK, CallSet, RenewalSet, States

\* No call and no request for a token have their types.
LEMMA NothingYet == Inv => NoRenewal \in RenewalSet /\ NoCall \in CallSet
<1> SUFFICES ASSUME Inv PROVE NoRenewal \in RenewalSet /\ NoCall \in CallSet
  OBVIOUS
<1>1. 0 \in 0..issued.sessions /\ 0 \in 0..issued.tokens /\ 0 \in 0..1
  BY Types
<1> QED BY <1>1 DEF NoRenewal, RenewalSet, NoCall, CallSet, States, Kinds

\* A new call has its type.
LEMMA NewCall ==
    ASSUME Inv, NEW t \in Tabs, NEW kind \in Kinds
    PROVE  [NoCall EXCEPT !.tab = t, !.kind = kind] \in CallSet
  BY NothingYet DEF CallSet

\* The request for a token that a call waits for.
LEMMA RenewingIs ==
    ASSUME Inv, NEW t \in Tabs, Renewing(t)
    PROVE  /\ renewal' \in [Tabs -> RenewalSet]
           /\ \A u \in Tabs : renewal'[u] = renewal[u] \/ renewal'[u].state # "answered"
<1> DEFINE asked == [NoRenewal EXCEPT !.state = "asked", !.known = cookie]
<1>1. asked \in RenewalSet
  BY Types, NothingYet DEF RenewalSet
<1>2. asked.state = "asked"
  BY DEF NoRenewal
<1>3. renewal' = renewal \/ renewal' = [renewal EXCEPT ![t] = asked]
  BY DEF Renewing
<1> QED BY <1>1, <1>2, <1>3, Types

\* A call is made.
LEMMA StartKeeps ==
    ASSUME Inv, NEW c \in Calls, NEW t \in Tabs, NEW kind \in Kinds, Start(c, t, kind)
    PROVE  Inv'
<1> DEFINE new == [NoCall EXCEPT !.tab = t, !.kind = kind]
           waiting == [new EXCEPT !.state = "waiting"]
           sent == [new EXCEPT !.state = "sent", !.session = cookie, !.token = token[t]]
<1>1. waiting \in CallSet /\ Executions(waiting) /\ sent \in CallSet /\ Executions(sent)
  <2>1. new \in CallSet
    BY NewCall
  <2>2. waiting \in CallSet /\ sent \in CallSet
    BY <2>1, Types DEF CallSet, States, Flying
  <2>3. Executions(waiting) /\ Executions(sent)
    BY DEF NoCall, Executions
  <2> QED BY <2>2, <2>3
<1>2. call' = [call EXCEPT ![c] = waiting] \/ call' = [call EXCEPT ![c] = sent]
  BY DEF Start
<1>3. call' \in [Calls -> CallSet] /\ \A d \in Calls : Executions(call'[d])
  BY <1>1, <1>2, Types DEF Inv, CallsHold
<1>4. /\ renewal' \in [Tabs -> RenewalSet]
      /\ \A u \in Tabs : renewal'[u] = renewal[u] \/ renewal'[u].state # "answered"
  BY Types, RenewingIs DEF Start
<1>5. UNCHANGED <<page, server, losses>> /\ cookie' = cookie /\ token' = token /\ faults' = faults
  BY DEF Start
<1> QED BY <1>3, <1>4, <1>5, Types, TabKeeps

\* A token arrives, and the calls that waited for it are sent.
LEMMA RenewedKeeps ==
    ASSUME Inv, NEW t \in Tabs, Renewed(t) \/ RenewalFails(t)
    PROVE  Inv'
<1>1. /\ renewal' = [renewal EXCEPT ![t] = NoRenewal]
      /\ NoRenewal \in RenewalSet /\ NoRenewal.state = "none"
  BY NothingYet DEF Renewed, RenewalFails, ForgetRenewal, NoRenewal
<1>2. /\ renewal' \in [Tabs -> RenewalSet]
      /\ \A u \in Tabs : renewal'[u] = renewal[u] \/ renewal'[u].state # "answered"
  BY <1>1, Types
<1>3. renewal[t].session \in 0..issued.sessions /\ renewal[t].token \in 0..issued.tokens
  BY Types DEF RenewalSet
<1>4. /\ UNCHANGED <<page, server, losses>> /\ faults' \in 0..MaxFaults
      /\ cookie' \in 0..issued.sessions /\ token' \in [Tabs -> 0..issued.tokens]
  <2>1. CASE Renewed(t)
    BY <1>3, <2>1, Types DEF Renewed
  <2>2. CASE RenewalFails(t)
    BY <2>2, Types, SessionOK DEF RenewalFails
  <2> QED BY <2>1, <2>2
<1>5. ASSUME NEW c \in Calls PROVE call'[c] \in CallSet /\ Executions(call'[c])
  <2>1. call[c] \in CallSet /\ Executions(call[c])
    BY Types DEF Inv, CallsHold
  <2>2. \/ call'[c] = call[c]
        \/ /\ call[c].state = "waiting"
           /\ \/ call'[c] = [call[c] EXCEPT !.state = "failed"]
              \/ call'[c] = [call[c] EXCEPT !.state = "sent", !.session = renewal[t].session,
                                            !.token = renewal[t].token]
    BY DEF Renewed, RenewalFails
  <2> QED BY <2>1, <2>2, <1>3 DEF CallSet, States, Flying, Executions
<1>6. call' \in [Calls -> CallSet]
  BY <1>5 DEF Renewed, RenewalFails
<1> QED BY <1>2, <1>4, <1>5, <1>6, TabKeeps

\* One call changes, and with it perhaps a request for a token.
LEMMA CallKeeps ==
    ASSUME Inv, NEW c \in Calls, NEW x \in CallSet, Executions(x), call' = [call EXCEPT ![c] = x],
           UNCHANGED <<page, server, losses, cookie, token>>, faults' \in 0..MaxFaults,
           UNCHANGED renewal \/ \E t \in Tabs : Renewing(t)
    PROVE  Inv'
<1>1. /\ renewal' \in [Tabs -> RenewalSet]
      /\ \A u \in Tabs : renewal'[u] = renewal[u] \/ renewal'[u].state # "answered"
  BY Types, RenewingIs
<1>2. call' \in [Calls -> CallSet] /\ \A d \in Calls : Executions(call'[d])
  BY Types DEF Inv, CallsHold
<1> QED BY <1>1, <1>2, Types, TabKeeps

\* An answer is handled: a denied call is sent again or waits for a token.
LEMMA AnswerKeeps ==
    ASSUME Inv, NEW c \in Calls, Answer(c)
    PROVE  Inv'
<1>1. call[c] \in CallSet /\ Executions(call[c])
  BY Types DEF Inv, CallsHold
<1>2. CASE Succeed(c)
  <2>1. [call[c] EXCEPT !.state = "done"] \in CallSet /\ Executions([call[c] EXCEPT !.state = "done"])
    BY <1>1, <1>2 DEF Succeed, In, CallSet, States, Executions
  <2> QED BY <1>2, <2>1, Types, CallKeeps DEF Succeed
<1>3. CASE Denied(c)
  <2> DEFINE t == call[c].tab
             waiting == [call[c] EXCEPT !.state = "waiting", !.retried = TRUE]
             denied == [call[c] EXCEPT !.state = "denied"]
             again == [call[c] EXCEPT !.state = "sent", !.session = cookie, !.token = token[t],
                                      !.retried = TRUE]
  <2>1. t \in Tabs /\ call[c].state = "forbidden"
    BY <1>1, <1>3 DEF Denied, In, Executions
  <2>2. /\ {waiting, denied, again} \subseteq CallSet
        /\ Executions(waiting) /\ Executions(denied) /\ Executions(again)
    <3>1. waiting \in CallSet /\ denied \in CallSet
      BY <1>1 DEF CallSet, States, Flying
    <3>2. token[t] \in 0..issued.tokens /\ cookie \in 0..issued.sessions
      BY <2>1, Types
    <3>3. again \in CallSet
      BY <1>1, <3>2 DEF CallSet, States, Flying
    <3>4. call[c].executed = 0
      BY <1>1, <2>1 DEF Executions
    <3>5. Executions(waiting) /\ Executions(denied) /\ Executions(again)
      BY <1>1, <2>1, <3>4 DEF CallSet, Executions
    <3> QED BY <3>1, <3>3, <3>5
  <2>3. \/ Renewing(t) /\ call' = [call EXCEPT ![c] = waiting]
        \/ UNCHANGED renewal /\ call' = [call EXCEPT ![c] = again]
        \/ UNCHANGED renewal /\ call' = [call EXCEPT ![c] = denied]
    BY <1>3, Types DEF Denied, DeniedLegacy, DeniedWorkbench, DeniedAgain, Await, Repeat, Send
  <2> QED BY <1>3, <2>1, <2>2, <2>3, Types, CallKeeps DEF Denied
<1> QED BY <1>2, <1>3 DEF Answer

\* A call is lost, or served.
LEMMA ServeKeeps ==
    ASSUME Inv, NEW c \in Calls, Lost(c) \/ Serve(c)
    PROVE  Inv'
<1>1. call[c] \in CallSet /\ Executions(call[c])
  BY Types DEF Inv, CallsHold
<1>2. CASE Lost(c)
  <2>1. [call[c] EXCEPT !.state = "failed"] \in CallSet /\ Executions([call[c] EXCEPT !.state = "failed"])
    BY <1>1, <1>2 DEF Lost, In, CallSet, States, Executions
  <2>2. faults' \in 0..MaxFaults
    BY <1>2, Types, SessionOK DEF Lost
  <2> QED BY <1>2, <2>1, <2>2, CallKeeps DEF Lost
<1>3. CASE Serve(c)
  <2> DEFINE answered == [call[c] EXCEPT !.state = "answered", !.executed = @ + 1]
             forbidden == [call[c] EXCEPT !.state = "forbidden"]
  <2>1. /\ answered \in CallSet /\ Executions(answered)
        /\ forbidden \in CallSet /\ Executions(forbidden)
    <3>1. call[c].state = "sent" /\ call[c].executed = 0 /\ call[c].tab \in Tabs
      BY <1>1, <1>3 DEF Serve, In, Executions
    <3>2. 0 + 1 \in 0..1
      OBVIOUS
    <3>3. answered \in CallSet /\ forbidden \in CallSet
      BY <1>1, <3>1, <3>2 DEF CallSet, States, Flying
    <3>4. Executions(answered) /\ Executions(forbidden)
      BY <1>1, <3>1 DEF CallSet, Executions
    <3> QED BY <3>3, <3>4
  <2>2. call' = [call EXCEPT ![c] = answered] \/ call' = [call EXCEPT ![c] = forbidden]
    BY <1>3, Types DEF Serve
  <2> QED BY <1>3, <2>1, <2>2, Types, CallKeeps DEF Serve
<1> QED BY <1>2, <1>3
------------------------------------------------------------------------------
\* A token is issued, to the session it was asked with or to a new one.
LEMMA IssueKeeps ==
    ASSUME Inv, NEW t \in Tabs, Issue(t)
    PROVE  Inv'
<1> DEFINE known == renewal[t].known
           session == SessionFor(known)
           new == issued.tokens + 1
<1>1. /\ issued \in [tokens : Nat, sessions : Nat] /\ owners \subseteq 1..issued.sessions
      /\ renewal \in [Tabs -> RenewalSet] /\ call \in [Calls -> CallSet]
      /\ known \in 0..issued.sessions
      /\ lease \in [1..issued.sessions -> 0..issued.tokens]
  BY DEF Inv, TypeOK, RenewalSet, CallSet, States
<1>2. \/ session = known /\ known \in owners
      \/ session = issued.sessions + 1 /\ known \notin owners /\ session \notin owners
  BY <1>1 DEF SessionFor
<1>3. /\ issued'.tokens = new /\ owners' = owners \cup {session}
      /\ issued'.sessions = IF session \in owners THEN issued.sessions ELSE session
      /\ issued' \in [tokens : Nat, sessions : Nat]
  BY <1>1, <1>2 DEF Issue
<1>4. /\ issued.sessions <= issued'.sessions /\ issued.tokens <= issued'.tokens
      /\ session \in 1..issued'.sessions /\ new \in 0..issued'.tokens
      /\ issued'.sessions \in {issued.sessions, session} /\ issued'.sessions >= session
  BY <1>1, <1>2, <1>3
<1>5. lease' \in [1..issued'.sessions -> 0..issued'.tokens]
  <2>1. DOMAIN lease \cup {session} = 1..issued'.sessions
    BY <1>1, <1>2, <1>3
  <2>2. \A s \in 1..issued'.sessions : s # session => s \in 1..issued.sessions
    BY <1>1, <1>2, <1>3
  <2> QED BY <1>1, <1>3, <1>4, <2>1, <2>2 DEF Issue
<1>6. renewal' = [renewal EXCEPT ![t].state = "answered", ![t].session = session, ![t].token = new]
  BY DEF Issue
<1>7. renewal' \in [Tabs -> RenewalSet']
  BY <1>1, <1>3, <1>4, <1>6 DEF RenewalSet
<1>8. call' \in [Calls -> CallSet']
  <2>1. CallSet \subseteq CallSet'
    BY <1>1, <1>3, <1>4 DEF CallSet
  <2> QED BY <1>1, <2>1 DEF Issue
<1>9. TypeOK'
  <2>1. cookie' \in 0..issued'.sessions /\ token' \in [Tabs -> 0..issued'.tokens]
    <3>1. UNCHANGED <<cookie, token>>
      BY DEF Issue
    <3> QED BY <1>1, <1>3, <1>4, <3>1, Types
  <2>2. owners' \subseteq 1..issued'.sessions
    <3> SUFFICES ASSUME NEW s \in owners' PROVE s \in 1..issued'.sessions
      OBVIOUS
    <3>1. s \in 1..issued.sessions \/ s = session
      BY <1>1, <1>3
    <3> QED BY <1>1, <1>3, <1>4, <3>1
  <2>3. page' \in [Tabs -> Pages] /\ losses' \in 0..MaxLosses /\ faults' \in 0..MaxFaults
    BY DEF Inv, TypeOK, Issue
  <2> QED BY <1>3, <1>5, <1>7, <1>8, <2>1, <2>2, <2>3 DEF TypeOK, RenewalSet, CallSet, States
<1>10. CallsHold'
  BY DEF Inv, CallsHold, Executions, Issue
<1>11. SameOwner'
  <2> SUFFICES ASSUME NEW u \in Tabs, renewal'[u].state = "answered", renewal'[u].known \in owners'
               PROVE  renewal'[u].session = renewal'[u].known
    BY DEF SameOwner
  <2>1. CASE u = t
    BY <1>1, <1>2, <1>3, <1>6, <2>1 DEF RenewalSet
  <2>2. CASE u # t
    <3>1. renewal'[u] = renewal[u] /\ renewal[u].known \in 0..issued.sessions
      BY <1>1, <1>6, <2>2 DEF RenewalSet
    <3>2. renewal[u].known \in owners
      BY <1>1, <1>2, <1>3, <3>1
    <3> QED BY <3>1, <3>2 DEF Inv, SameOwner
  <2> QED BY <2>1, <2>2
<1> QED BY <1>9, <1>10, <1>11 DEF Inv

\* A lease lapses, or owners are forgotten.
LEMMA LossKeeps ==
    ASSUME Inv, (\E s \in owners : Lapse(s)) \/ (\E S \in SUBSET owners : Forget(S))
    PROVE  Inv'
<1>1. /\ UNCHANGED <<browser, issued, faults>> /\ owners' \subseteq owners
      /\ losses' \in 0..MaxLosses /\ lease' \in [1..issued.sessions -> 0..issued.tokens]
  BY SessionOK DEF Inv, TypeOK, Lapse, Forget
<1>2. TypeOK'
  BY <1>1 DEF Inv, TypeOK, browser
<1>3. CallsHold' /\ SameOwner'
  BY <1>1 DEF Inv, CallsHold, Executions, SameOwner, browser
<1> QED BY <1>2, <1>3 DEF Inv

\* Every step keeps the invariant.
LEMMA StepInv == Inv /\ [Next]_vars => Inv'
<1> SUFFICES ASSUME Inv, [Next]_vars PROVE Inv'
  OBVIOUS
<1>1. CASE UNCHANGED vars
  BY <1>1 DEF Inv, TypeOK, CallsHold, Executions, SameOwner, vars, browser, server
<1>2. CASE \E c \in Calls, t \in Tabs, kind \in Kinds : Start(c, t, kind)
  BY <1>2, StartKeeps
<1>3. CASE \E c \in Calls : Answer(c) \/ Lost(c) \/ Serve(c)
  BY <1>3, AnswerKeeps, ServeKeeps
<1>4. CASE \E t \in Tabs : Renewed(t) \/ RenewalFails(t) \/ Issue(t)
  BY <1>4, RenewedKeeps, IssueKeeps
<1>5. CASE (\E s \in owners : Lapse(s)) \/ (\E S \in SUBSET owners : Forget(S))
  BY <1>5, LossKeeps
<1> QED BY <1>1, <1>2, <1>3, <1>4, <1>5 DEF Next

\* The invariant holds.
LEMMA Invariant == Spec => []Inv
  BY InitInv, StepInv, PTL DEF Spec

\* For any number of tabs, calls, losses and faults: a call that succeeds is
\* executed once, and one that is denied in the end is not executed at all.
THEOREM ExecutedAtMostOnce == Spec => []ExecutedOnce
<1>1. Inv => ExecutedOnce
  BY DEF Inv, CallsHold, Executions, ExecutedOnce, In
<1> QED BY <1>1, Invariant, PTL

\* An answer changes the cookie to another session only if the server has
\* forgotten the one it was asked with, or that was not the cookie's.
LEMMA StepKeepsOwner ==
    Inv /\ [Next]_vars =>
        \A t \in Tabs : cookie \in owners /\ cookie' # cookie /\ renewal'[t] # renewal[t]
                        => renewal[t].known # cookie
<1> SUFFICES ASSUME Inv, [Next]_vars, NEW t \in Tabs, cookie \in owners, cookie' # cookie,
                    renewal'[t] # renewal[t]
             PROVE  renewal[t].known # cookie
  OBVIOUS
<1>1. ASSUME NEW u \in Tabs, Renewed(u) PROVE renewal[t].known # cookie
  <2>1. t = u
    BY <1>1, Types DEF Renewed, ForgetRenewal
  <2>2. cookie' = renewal[t].session /\ renewal[t].state = "answered"
    BY <1>1, <2>1 DEF Renewed
  <2> QED BY <2>2 DEF Inv, SameOwner
<1>2. \E u \in Tabs : Renewed(u)
  BY DEF Next, vars, browser, Start, Answer, Succeed, Denied, Lost, Serve, RenewalFails, Issue, Lapse, Forget
<1> QED BY <1>1, <1>2

\* For any number of tabs, calls, losses and faults: the browser keeps its
\* owner as long as the server remembers it.
THEOREM OwnerAlwaysKept == Spec => OwnerKept
<1>1. Inv /\ [Next]_vars =>
        [\A t \in Tabs : cookie \in owners /\ cookie' # cookie /\ renewal'[t] # renewal[t]
                         => renewal[t].known # cookie]_vars
  BY StepKeepsOwner
<1> QED BY <1>1, Invariant, PTL DEF Spec, OwnerKept
------------------------------------------------------------------------------
(****************************************************************************)
(* A tab of the older page that is alone hides a lost lease from its calls. *)
(* Until a second loss its token is the leased one, or no call has been     *)
(* sent again yet: a denied call either brings the first new token or finds *)
(* it, and from then on the tab does not ask again.                         *)
(****************************************************************************)
Leased(s, k) == s \in owners /\ k # 0 /\ lease[s] = k
Sole(t) == page[t] = "legacy" /\ Alone(t)

Unused == \A c \in Calls : call[c].state = "idle" => call[c].tab = 0

\* What is known of a call of the tab, ...
Out(x) == x.state \in {"sent", "forbidden"}
Waits(t, x) == x.state = "waiting" => renewal[t].state # "none"
Dated(t, x) ==
    /\ Out(x) => x.token # 0 /\ token[t] # 0
    /\ Out(x) /\ x.token = token[t] => x.session = cookie
    /\ Out(x) /\ renewal[t].state = "answered" => x.token < renewal[t].token
    /\ x.state = "waiting" /\ x.retried => token[t] # 0
    /\ x.state = "forbidden" => ~Leased(x.session, x.token)
\* ... after one loss ...
Noticed(t, x) ==
    /\ x.state # "denied"
    /\ Out(x) /\ x.token # token[t] => Leased(cookie, token[t])
    /\ Out(x) /\ x.retried => x.state = "sent" /\ x.token = token[t] /\ Leased(cookie, token[t])
\* ... and before it.
Undenied(t, x) == Out(x) => x.state = "sent" /\ ~x.retried /\ x.token = token[t]

CallHides(t, x) ==
    /\ Dated(t, x)
    /\ losses <= 1 => Noticed(t, x)
    /\ losses = 0 => Undenied(t, x)

\* The tab does not ask for a token while it has the leased one.
TabHides(t) ==
    /\ \A u \in Tabs : u # t => renewal[u].state = "none"
    /\ renewal[t].state = "answered" => token[t] < renewal[t].token
    /\ losses <= 1 =>
         /\ Leased(cookie, token[t]) => renewal[t].state = "none"
         /\ token[t] # 0 /\ renewal[t].state = "answered" => Leased(renewal[t].session, renewal[t].token)
    /\ losses = 0 =>
         /\ token[t] # 0 => Leased(cookie, token[t])
         /\ renewal[t].state = "answered" => Leased(renewal[t].session, renewal[t].token)

Hidden(t) == TabHides(t) /\ \A c \in Calls : Waits(t, call[c]) /\ CallHides(t, call[c])
Hides == Unused /\ \A t \in Tabs : Sole(t) => Hidden(t)

\* The types of losses and leases.
LEMMA ServerTypes ==
    Inv => /\ losses \in Nat /\ owners \subseteq 1..issued.sessions
           /\ lease \in [1..issued.sessions -> 0..issued.tokens]
           /\ issued \in [tokens : Nat, sessions : Nat]
  BY SessionOK DEF Inv, TypeOK

\* A call that is under way is one of the tab that is alone.
LEMMA OwnCall ==
    ASSUME Inv, NEW t \in Tabs, Sole(t), NEW c \in Calls, call[c].state # "idle"
    PROVE  call[c].tab = t /\ Page(c) = "legacy"
  BY SessionOK DEF Inv, CallsHold, Executions, Sole, Alone, Page

\* One call changes, and the tab may ask for a token if it has not the leased one.
LEMMA CallHidden ==
    ASSUME Inv, NEW t \in Tabs, Hidden(t), NEW c \in Calls, NEW x \in CallSet, CallHides(t, x),
           call' = [call EXCEPT ![c] = x], UNCHANGED <<page, cookie, token, server, losses>>,
           UNCHANGED renewal \/ (Renewing(t) /\ ~Leased(cookie, token[t])),
           x.state = "waiting" => Renewing(t)
    PROVE  Hidden(t)'
<1>1. /\ \A u \in Tabs : u # t => renewal'[u] = renewal[u]
      /\ renewal'[t] = renewal[t] \/ renewal'[t].state = "asked"
      /\ renewal[t].state # "none" => renewal'[t] = renewal[t]
      /\ Renewing(t) => renewal'[t].state # "none"
      /\ renewal' = renewal \/ ~Leased(cookie, token[t])
  BY Types DEF Renewing, NoRenewal
<1>2. /\ cookie' = cookie /\ token' = token /\ owners' = owners /\ lease' = lease
      /\ losses' = losses
  BY DEF server
<1>3. \A s, k : Leased(s, k)' <=> Leased(s, k)
  BY <1>2 DEF Leased
<1>4. TabHides(t)'
  BY <1>1, <1>2, <1>3 DEF Hidden, TabHides
<1>5. ASSUME NEW d \in Calls PROVE (Waits(t, call[d]) /\ CallHides(t, call[d]))'
  <2>1. CallHides(t, call'[d]) /\ (call'[d].state = "waiting" => renewal'[t].state # "none")
    BY <1>1, Types DEF Hidden, Waits
  <2>2. Dated(t, call[d])'
    BY <1>1, <1>2, <1>3, <2>1 DEF CallHides, Dated, Out
  <2>3. losses <= 1 => Noticed(t, call[d])'
    BY <1>1, <1>2, <1>3, <2>1 DEF CallHides, Noticed, Out
  <2>4. losses = 0 => Undenied(t, call[d])'
    BY <1>1, <1>2, <1>3, <2>1 DEF CallHides, Undenied, Out
  <2> QED BY <1>2, <2>1, <2>2, <2>3, <2>4 DEF CallHides, Waits
<1> QED BY <1>4, <1>5 DEF Hidden

\* A call is made: the tab asks for a token only if it has none.
LEMMA StartHidden ==
    ASSUME Inv, NEW t \in Tabs, Sole(t), Hidden(t), Alone(t)',
           NEW c \in Calls, NEW u \in Tabs, NEW kind \in Kinds, Start(c, u, kind)
    PROVE  Hidden(t)'
<1> DEFINE new == [NoCall EXCEPT !.tab = u, !.kind = kind]
           waiting == [new EXCEPT !.state = "waiting"]
           sent == [new EXCEPT !.state = "sent", !.session = cookie, !.token = token[u]]
<1>1. waiting \in CallSet /\ sent \in CallSet
  <2>1. new \in CallSet
    BY NewCall
  <2> QED BY <2>1, Types DEF CallSet, States, Flying
<1>2. waiting.state = "waiting" /\ ~waiting.retried /\ waiting.tab = u
  BY DEF NoCall
<1>3. /\ sent.state = "sent" /\ ~sent.retried /\ sent.tab = u
      /\ sent.session = cookie /\ sent.token = token[u]
  BY DEF NoCall
<1> HIDE DEF new, waiting, sent
<1>4. call' = [call EXCEPT ![c] = waiting] \/ call' = [call EXCEPT ![c] = sent]
  BY DEF Start, new, waiting, sent
<1>5. u = t
  BY <1>2, <1>3, <1>4, Types, SessionOK DEF Alone
<1>6. UNCHANGED <<page, cookie, token, server, losses>>
  BY DEF Start
<1>7. CASE token[t] = 0
  <2>1. CallHides(t, waiting)
    BY <1>2 DEF CallHides, Dated, Noticed, Undenied, Out
  <2>2. Renewing(t) /\ call' = [call EXCEPT ![c] = waiting]
    BY <1>5, <1>7 DEF Start, Sole, new, waiting
  <2>3. ~Leased(cookie, token[t])
    BY <1>7 DEF Leased
  <2> QED BY <1>1, <1>6, <2>1, <2>2, <2>3, CallHidden
<1>8. CASE token[t] # 0
  <2>1. CallHides(t, sent)
    BY <1>3, <1>5, <1>8 DEF Hidden, TabHides, CallHides, Dated, Noticed, Undenied, Out
  <2>2. UNCHANGED renewal /\ call' = [call EXCEPT ![c] = sent]
    BY <1>5, <1>8 DEF Start, new, sent
  <2> QED BY <1>1, <1>3, <1>6, <2>1, <2>2, CallHidden
<1> QED BY <1>7, <1>8

\* A call ends, whatever its answer: nothing more is to be known of it.
LEMMA EndHidden ==
    ASSUME Inv, NEW t \in Tabs, Hidden(t), NEW c \in Calls, NEW x \in CallSet,
           x.state \in {"answered", "done", "failed"} \/ (x.state = "denied" /\ losses > 1),
           call' = [call EXCEPT ![c] = x],
           UNCHANGED <<page, cookie, token, renewal, server, losses>>
    PROVE  Hidden(t)'
<1>1. ~Out(x) /\ x.state # "waiting" /\ x.state # "forbidden"
  BY DEF Out
<1>2. x.state = "denied" => ~(losses <= 1)
  BY ServerTypes
<1>3. CallHides(t, x)
  <2>1. losses = 0 => losses <= 1
    BY ServerTypes
  <2> QED BY <1>1, <1>2, <2>1 DEF CallHides, Dated, Noticed, Undenied
<1> QED BY <1>1, <1>3, CallHidden

\* A call is served: it is refused only if its token is not the leased one.
LEMMA ServeHidden ==
    ASSUME Inv, NEW t \in Tabs, Sole(t), Hidden(t), NEW c \in Calls, Serve(c)
    PROVE  Hidden(t)'
<1> DEFINE answered == [call[c] EXCEPT !.state = "answered", !.executed = @ + 1]
           forbidden == [call[c] EXCEPT !.state = "forbidden"]
<1>1. call[c] \in CallSet /\ call[c].state = "sent" /\ call[c].executed = 0 /\ Page(c) = "legacy"
  BY Types, OwnCall DEF Serve, In, Inv, CallsHold, Executions
<1>2. answered \in CallSet /\ forbidden \in CallSet
  <2>1. 0 + 1 \in 0..1
    OBVIOUS
  <2> QED BY <1>1, <2>1 DEF CallSet, States, Flying
<1>3. answered.state = "answered"
  BY <1>1 DEF CallSet
<1>4. /\ forbidden.state = "forbidden" /\ forbidden.token = call[c].token
      /\ forbidden.session = call[c].session /\ forbidden.retried = call[c].retried
  BY <1>1 DEF CallSet
<1>5. IF Authorized(c) THEN call' = [call EXCEPT ![c] = answered] ELSE call' = [call EXCEPT ![c] = forbidden]
  BY <1>1, Types DEF Serve
<1>6. UNCHANGED <<page, cookie, token, renewal, server, losses>>
  BY DEF Serve
<1> HIDE DEF answered, forbidden
<1>7. CASE Authorized(c)
  BY <1>2, <1>3, <1>5, <1>6, <1>7, EndHidden
<1>8. CASE ~Authorized(c)
  <2>1. ~Leased(call[c].session, call[c].token)
    BY <1>1, <1>8 DEF Authorized, Leased
  <2>2. CallHides(t, call[c]) /\ Out(call[c])
    BY <1>1 DEF Hidden, Out
  <2>3. /\ call[c].token # 0 /\ token[t] # 0
        /\ call[c].token = token[t] => ~Leased(cookie, token[t])
    BY <2>1, <2>2 DEF CallHides, Dated
  <2>4. Dated(t, forbidden)
    BY <1>4, <2>1, <2>2 DEF CallHides, Dated, Out
  <2>5. losses <= 1 => Noticed(t, forbidden)
    BY <1>4, <2>2, <2>3 DEF CallHides, Noticed, Out
  <2>6. losses = 0 => Undenied(t, forbidden)
    <3>1. losses = 0 => call[c].token = token[t] /\ Leased(cookie, token[t])
      BY <2>2, <2>3 DEF CallHides, Undenied, Hidden, TabHides
    <3> QED BY <2>3, <3>1
  <2>7. CallHides(t, forbidden)
    BY <2>4, <2>5, <2>6 DEF CallHides
  <2> QED BY <1>2, <1>4, <1>5, <1>6, <1>8, <2>7, CallHidden
<1> QED BY <1>7, <1>8

\* A denied call is sent again, with the leased token until there is another
\* loss, or waits for one; it was sent again before only if there were two.
LEMMA DeniedHidden ==
    ASSUME Inv, NEW t \in Tabs, Sole(t), Hidden(t), NEW c \in Calls, Denied(c)
    PROVE  Hidden(t)'
<1> DEFINE waiting == [call[c] EXCEPT !.state = "waiting", !.retried = TRUE]
           again == [call[c] EXCEPT !.state = "sent", !.session = cookie, !.token = token[t],
                                    !.retried = TRUE]
           denied == [call[c] EXCEPT !.state = "denied"]
<1>1. call[c] \in CallSet /\ call[c].state = "forbidden" /\ call[c].tab = t /\ Page(c) = "legacy"
  BY Types, OwnCall DEF Denied, In
<1>2. waiting \in CallSet /\ again \in CallSet /\ denied \in CallSet
  BY <1>1, Types DEF CallSet, States, Flying
<1>3. waiting.state = "waiting"
  BY <1>1 DEF CallSet
<1>4. again.state = "sent" /\ again.session = cookie /\ again.token = token[t]
  BY <1>1 DEF CallSet
<1>5. denied.state = "denied"
  BY <1>1 DEF CallSet
<1>6. /\ CallHides(t, call[c]) /\ Out(call[c])
      /\ call[c].token # 0 /\ token[t] # 0 /\ ~Leased(call[c].session, call[c].token)
      /\ call[c].token = token[t] => call[c].session = cookie
  BY <1>1 DEF Hidden, CallHides, Dated, Out
<1>7. losses # 0
  BY <1>1, <1>6 DEF CallHides, Undenied
<1>8. UNCHANGED <<page, cookie, token, server, losses>>
  BY DEF Denied
<1>9. \/ /\ ~call[c].retried /\ token[t] = call[c].token
         /\ Renewing(t) /\ call' = [call EXCEPT ![c] = waiting]
      \/ /\ ~call[c].retried /\ token[t] # call[c].token
         /\ UNCHANGED renewal /\ call' = [call EXCEPT ![c] = again]
      \/ call[c].retried /\ UNCHANGED renewal /\ call' = [call EXCEPT ![c] = denied]
  BY <1>1, Types DEF Denied, DeniedLegacy, DeniedWorkbench, DeniedAgain, Await, Repeat, Send
<1> HIDE DEF waiting, again, denied
<1>10. CASE ~call[c].retried /\ token[t] = call[c].token /\ Renewing(t) /\ call' = [call EXCEPT ![c] = waiting]
  <2>1. CallHides(t, waiting)
    BY <1>3, <1>6, <1>7 DEF CallHides, Dated, Noticed, Undenied, Out
  <2>2. ~Leased(cookie, token[t])
    BY <1>6, <1>10
  <2> QED BY <1>2, <1>8, <1>10, <2>1, <2>2, CallHidden
<1>11. CASE ~call[c].retried /\ token[t] # call[c].token /\ UNCHANGED renewal /\ call' = [call EXCEPT ![c] = again]
  <2>1. losses <= 1 => Leased(cookie, token[t])
    BY <1>6, <1>11 DEF CallHides, Noticed
  <2>2. renewal[t].state = "answered" => token[t] < renewal[t].token
    BY DEF Hidden, TabHides
  <2>3. Dated(t, again)
    BY <1>4, <1>6, <2>2 DEF Dated, Out
  <2>4. CallHides(t, again)
    BY <1>4, <1>7, <2>1, <2>3 DEF CallHides, Noticed
  <2> QED BY <1>2, <1>4, <1>8, <1>11, <2>4, CallHidden
<1>12. CASE call[c].retried /\ UNCHANGED renewal /\ call' = [call EXCEPT ![c] = denied]
  <2>1. ~(losses <= 1)
    BY <1>1, <1>6, <1>12 DEF CallHides, Noticed
  <2>2. losses > 1
    BY <2>1, ServerTypes
  <2> QED BY <1>2, <1>5, <1>8, <1>12, <2>2, EndHidden
<1> QED BY <1>9, <1>10, <1>11, <1>12

\* An answer is handled, or a call is lost.
LEMMA AnswerHidden ==
    ASSUME Inv, NEW t \in Tabs, Sole(t), Hidden(t), NEW c \in Calls, Answer(c) \/ Lost(c)
    PROVE  Hidden(t)'
<1> DEFINE done == [call[c] EXCEPT !.state = "done"]
           failed == [call[c] EXCEPT !.state = "failed"]
<1>1. call[c] \in CallSet
  BY Types
<1>2. done \in CallSet /\ done.state = "done" /\ failed \in CallSet /\ failed.state = "failed"
  BY <1>1 DEF CallSet, States
<1>3. CASE Succeed(c)
  <2>1. call' = [call EXCEPT ![c] = done]
    BY <1>3, Types DEF Succeed
  <2>2. UNCHANGED <<page, cookie, token, renewal, server, losses>>
    BY <1>3 DEF Succeed
  <2> HIDE DEF done, failed
  <2> QED BY <1>2, <2>1, <2>2, EndHidden
<1>4. CASE Lost(c)
  <2>1. call' = [call EXCEPT ![c] = failed]
    BY <1>4, Types DEF Lost
  <2>2. UNCHANGED <<page, cookie, token, renewal, server, losses>>
    BY <1>4 DEF Lost
  <2> HIDE DEF done, failed
  <2> QED BY <1>2, <2>1, <2>2, EndHidden
<1> QED BY <1>3, <1>4, DeniedHidden DEF Answer

\* A request for a token fails, and with it the calls that waited.
LEMMA FailureHidden ==
    ASSUME Inv, NEW t \in Tabs, Sole(t), Hidden(t), RenewalFails(t)
    PROVE  Hidden(t)'
<1>1. renewal' = [renewal EXCEPT ![t] = NoRenewal] /\ NoRenewal.state = "none"
  BY DEF RenewalFails, ForgetRenewal, NoRenewal
<1>2. renewal'[t].state = "none" /\ \A u \in Tabs : u # t => renewal'[u] = renewal[u]
  BY <1>1, Types
<1>3. UNCHANGED <<cookie, token, owners, lease, losses>>
  BY DEF RenewalFails, server
<1>4. \A s, k : Leased(s, k)' <=> Leased(s, k)
  BY <1>3 DEF Leased
<1>5. TabHides(t)'
  BY <1>2, <1>3, <1>4 DEF Hidden, TabHides
<1>6. ASSUME NEW c \in Calls PROVE (Waits(t, call[c]) /\ CallHides(t, call[c]))'
  <2>1. CASE call[c].state = "waiting"
    <3>1. call[c].tab = t /\ call[c] \in CallSet
      BY <2>1, OwnCall, Types
    <3>2. call'[c] = [call[c] EXCEPT !.state = "failed"]
      BY <2>1, <3>1 DEF RenewalFails
    <3>3. call'[c].state = "failed"
      BY <3>1, <3>2 DEF CallSet
    <3> QED BY <3>3 DEF Waits, CallHides, Dated, Noticed, Undenied, Out
  <2>2. CASE call[c].state # "waiting"
    <3>1. call'[c] = call[c] /\ CallHides(t, call[c])
      BY <2>2 DEF RenewalFails, Hidden
    <3>2. Waits(t, call[c])'
      BY <2>2, <3>1 DEF Waits
    <3>3. Dated(t, call[c])'
      BY <1>2, <1>3, <1>4, <3>1 DEF CallHides, Dated, Out
    <3>4. CallHides(t, call[c])'
      BY <1>3, <1>4, <3>1, <3>3 DEF CallHides, Noticed, Undenied, Out
    <3> QED BY <3>2, <3>4
  <2> QED BY <2>1, <2>2
<1> QED BY <1>5, <1>6 DEF Hidden

\* A token arrives.  The tab had none, or not the leased one: of the calls
\* that are out none has been sent again, and none has the new token.
LEMMA TokenHidden ==
    ASSUME Inv, NEW t \in Tabs, Sole(t), Hidden(t), Renewed(t)
    PROVE  Hidden(t)'
<1> DEFINE s == renewal[t].session
           k == renewal[t].token
<1>1. renewal' = [renewal EXCEPT ![t] = NoRenewal] /\ NoRenewal.state = "none"
  BY DEF Renewed, ForgetRenewal, NoRenewal
<1>2. renewal'[t].state = "none" /\ \A u \in Tabs : u # t => renewal'[u] = renewal[u]
  BY <1>1, Types
<1>3. cookie' = s /\ token'[t] = k /\ UNCHANGED <<owners, lease, losses>> /\ renewal[t].state = "answered"
  BY Types DEF Renewed, server
<1>4. \A x, y : Leased(x, y)' <=> Leased(x, y)
  BY <1>3 DEF Leased
<1>5. token[t] \in Nat /\ k \in Nat /\ token[t] < k /\ k # 0
  <2>1. token[t] \in Nat /\ k \in Nat
    BY Types DEF RenewalSet
  <2>2. token[t] < k
    BY <1>3 DEF Hidden, TabHides
  <2> QED BY <2>1, <2>2
<1>6. /\ losses <= 1 => ~Leased(cookie, token[t])
      /\ losses <= 1 /\ token[t] # 0 => Leased(s, k)
      /\ losses = 0 => token[t] = 0 /\ Leased(s, k)
  <2>1. losses = 0 => losses <= 1
    BY ServerTypes
  <2> QED BY <1>3, <2>1 DEF Hidden, TabHides
<1> HIDE DEF s, k
<1>7. TabHides(t)'
  <2>1. losses = 0 => Leased(cookie, token[t])'
    BY <1>3, <1>4, <1>6 DEF Leased
  <2> QED BY <1>2, <1>3, <2>1 DEF Hidden, TabHides
<1>8. ASSUME NEW c \in Calls PROVE (Waits(t, call[c]) /\ CallHides(t, call[c]))'
  <2>1. CASE call[c].state = "waiting"
    <3>1. call[c].tab = t /\ call[c] \in CallSet /\ CallHides(t, call[c])
      BY <2>1, OwnCall, Types DEF Hidden
    <3>2. call'[c] = [call[c] EXCEPT !.state = "sent", !.session = s, !.token = k]
      BY <2>1, <3>1 DEF Renewed, s, k
    <3>3. /\ call'[c].state = "sent" /\ call'[c].session = s /\ call'[c].token = k
          /\ call'[c].retried = call[c].retried
      BY <3>1, <3>2 DEF CallSet
    <3>4. call[c].retried => token[t] # 0
      BY <2>1, <3>1 DEF CallHides, Dated
    <3>5. Dated(t, call[c])'
      BY <1>2, <1>3, <1>5, <3>3 DEF Dated, Out
    <3>6. losses <= 1 => Noticed(t, call[c])'
      <4>1. losses <= 1 /\ call[c].retried => Leased(cookie, token[t])'
        BY <1>3, <1>4, <1>6, <3>4 DEF Leased
      <4> QED BY <1>3, <3>3, <4>1 DEF Noticed
    <3>7. losses = 0 => Undenied(t, call[c])'
      BY <1>3, <1>6, <3>3, <3>4 DEF Undenied
    <3> QED BY <1>3, <3>3, <3>5, <3>6, <3>7 DEF Waits, CallHides
  <2>2. CASE call[c].state # "waiting"
    <3>1. call'[c] = call[c] /\ CallHides(t, call[c])
      BY <2>2 DEF Renewed, Hidden
    <3>2. Out(call[c]) => call[c].token < k /\ token[t] # 0 /\ call[c].token # k
      <4>1. call[c].token \in Nat
        BY Types DEF CallSet
      <4>2. Out(call[c]) => call[c].token < k /\ token[t] # 0
        BY <1>3, <3>1 DEF CallHides, Dated, k
      <4> QED BY <1>5, <4>1, <4>2
    <3>3. Dated(t, call[c])'
      BY <1>2, <1>3, <1>4, <1>5, <3>1, <3>2 DEF CallHides, Dated, Out
    <3>4. losses <= 1 => Noticed(t, call[c])'
      <4>1. losses <= 1 /\ Out(call[c]) => Leased(cookie, token[t])' /\ ~call[c].retried
        <5>1. losses <= 1 /\ Out(call[c]) => Leased(cookie, token[t])'
          BY <1>3, <1>4, <1>6, <3>2 DEF Leased
        <5>2. losses <= 1 /\ Out(call[c]) => ~call[c].retried
          BY <1>6, <3>1 DEF CallHides, Noticed
        <5> QED BY <5>1, <5>2
      <4>2. losses <= 1 => call[c].state # "denied"
        BY <3>1 DEF CallHides, Noticed
      <4> QED BY <3>1, <4>1, <4>2 DEF Noticed, Out
    <3>5. losses = 0 => Undenied(t, call[c])'
      BY <1>6, <3>1, <3>2 DEF Undenied, Out
    <3> QED BY <1>3, <2>2, <3>1, <3>3, <3>4, <3>5 DEF Waits, CallHides
  <2> QED BY <2>1, <2>2
<1> QED BY <1>7, <1>8 DEF Hidden

\* A new token is issued: the tab had none, or not the leased one.
LEMMA IssueHidden ==
    ASSUME Inv, NEW t \in Tabs, Sole(t), Hidden(t), Issue(t)
    PROVE  Hidden(t)'
<1> DEFINE s == SessionFor(renewal[t].known)
           k == issued.tokens + 1
<1>1. /\ renewal[t].state = "asked" /\ renewal[t] \in RenewalSet
      /\ renewal' = [renewal EXCEPT ![t].state = "answered", ![t].session = s, ![t].token = k]
      /\ owners' = owners \cup {s} /\ UNCHANGED <<cookie, token, call, losses>>
      /\ lease' = [x \in DOMAIN lease \cup {s} |-> IF x = s THEN k ELSE lease[x]]
  BY Types DEF Issue
<1>2. /\ renewal'[t].state = "answered" /\ renewal'[t].session = s /\ renewal'[t].token = k
      /\ \A u \in Tabs : u # t => renewal'[u] = renewal[u]
  BY <1>1, Types DEF RenewalSet
<1>3. k \in Nat /\ k # 0 /\ token[t] \in 0..issued.tokens /\ token[t] < k
  BY Types
<1>4. ASSUME NEW x, NEW y \in 0..issued.tokens PROVE Leased(x, y)' => Leased(x, y)
  <2>1. y # k
    BY Types
  <2>2. owners \subseteq DOMAIN lease
    BY ServerTypes
  <2> HIDE DEF s, k
  <2> QED BY <1>1, <2>1, <2>2 DEF Leased
<1>5. Leased(renewal[t].session, renewal[t].token)'
  <2> HIDE DEF s, k
  <2>1. s \in owners' /\ lease'[s] = k
    BY <1>1
  <2> QED BY <1>2, <1>3, <2>1 DEF Leased
<1>6. /\ losses <= 1 => ~Leased(cookie, token[t])
      /\ losses = 0 => token[t] = 0
  <2>1. losses = 0 => losses <= 1
    BY ServerTypes
  <2> QED BY <1>1, <2>1 DEF Hidden, TabHides
<1> HIDE DEF s, k
<1>7. TabHides(t)'
  <2>1. Leased(cookie, token[t])' => Leased(cookie, token[t])
    BY <1>1, <1>3, <1>4 DEF Leased
  <2> QED BY <1>1, <1>2, <1>3, <1>5, <1>6, <2>1 DEF Hidden, TabHides
<1>8. ASSUME NEW c \in Calls PROVE (Waits(t, call[c]) /\ CallHides(t, call[c]))'
  <2>1. CallHides(t, call[c]) /\ call'[c] = call[c] /\ call[c].token \in 0..issued.tokens
    BY <1>1, Types DEF Hidden, CallSet
  <2>2. Leased(call[c].session, call[c].token)' => Leased(call[c].session, call[c].token)
    BY <1>4, <2>1 DEF Leased
  <2>3. call[c].token < k
    BY <2>1, Types DEF k
  <2>4. Dated(t, call[c])'
    BY <1>1, <1>2, <2>1, <2>2, <2>3 DEF CallHides, Dated, Out
  <2>5. losses <= 1 => Noticed(t, call[c])'
    BY <1>1, <1>6, <2>1 DEF CallHides, Noticed, Out
  <2>6. losses = 0 => Undenied(t, call[c])'
    BY <1>1, <2>1 DEF CallHides, Undenied, Out
  <2> QED BY <1>1, <1>2, <2>4, <2>5, <2>6 DEF CallHides, Waits
<1> QED BY <1>7, <1>8 DEF Hidden

\* A loss.  After the first one the tab has one token, or none.
LEMMA LossHidden ==
    ASSUME Inv, NEW t \in Tabs, Sole(t), Hidden(t),
           (\E s \in owners : Lapse(s)) \/ (\E S \in SUBSET owners : Forget(S))
    PROVE  Hidden(t)'
<1>1. UNCHANGED <<cookie, token, renewal, call>> /\ losses' = losses + 1 /\ owners' \subseteq owners
  BY DEF Lapse, Forget, browser
<1>2. losses \in Nat /\ (losses' <= 1 => losses = 0 /\ losses <= 1) /\ losses' # 0
  BY <1>1, ServerTypes
<1>3. ASSUME NEW x, NEW y PROVE Leased(x, y)' => Leased(x, y)
  <2>1. owners \subseteq DOMAIN lease
    BY ServerTypes
  <2> QED BY <2>1 DEF Lapse, Forget, Leased
<1>4. TabHides(t)'
  <2>1. losses = 0 => ~(token[t] # 0 /\ renewal[t].state = "answered") /\ (token[t] # 0 => renewal[t].state = "none")
    BY <1>2 DEF Hidden, TabHides
  <2>2. Leased(cookie, token[t])' => token[t] # 0
    BY <1>1 DEF Leased
  <2> QED BY <1>1, <1>2, <2>1, <2>2 DEF Hidden, TabHides
<1>5. ASSUME NEW c \in Calls PROVE (Waits(t, call[c]) /\ CallHides(t, call[c]))'
  <2>1. CallHides(t, call[c]) /\ Waits(t, call[c]) /\ call'[c] = call[c]
    BY <1>1 DEF Hidden
  <2>2. Leased(call[c].session, call[c].token)' => Leased(call[c].session, call[c].token)
    BY <1>1, <1>3 DEF Leased
  <2>3. Dated(t, call[c])'
    BY <1>1, <2>1, <2>2 DEF CallHides, Dated, Out
  <2>4. losses' <= 1 => Noticed(t, call[c])'
    <3>1. losses' <= 1 => Noticed(t, call[c]) /\ Undenied(t, call[c])
      BY <1>2, <2>1 DEF CallHides
    <3> QED BY <1>1, <2>1, <3>1 DEF Noticed, Undenied, Out
  <2> QED BY <1>1, <1>2, <2>1, <2>3, <2>4 DEF CallHides, Waits
<1> QED BY <1>4, <1>5 DEF Hidden

\* A tab that is alone has been alone: calls keep their tabs.
LEMMA WasSole ==
    ASSUME Inv, Unused, [Next]_vars
    PROVE  Unused' /\ \A t \in Tabs : Sole(t)' => Sole(t)
<1>1. page' = page
  BY DEF Next, vars, browser, server, Start, Answer, Succeed, Denied, Lost, Serve, Renewed, RenewalFails, Issue,
         Lapse, Forget
<1>2. ASSUME NEW c \in Calls
      PROVE  \/ call'[c].tab = call[c].tab /\ (call'[c].state = "idle" <=> call[c].state = "idle")
             \/ call[c].state = "idle" /\ call'[c].state # "idle"
  <2>1. call[c] \in CallSet /\ call \in [Calls -> CallSet]
    BY Types
  <2>2. CASE UNCHANGED call
    BY <2>2
  <2>3. CASE \E d \in Calls, u \in Tabs, kind \in Kinds : Start(d, u, kind)
    BY <2>1, <2>3 DEF Start, NoCall
  <2>4. CASE \E d \in Calls : Answer(d) \/ Lost(d) \/ Serve(d)
    <3>1. PICK d \in Calls : Answer(d) \/ Lost(d) \/ Serve(d)
      BY <2>4
    <3>2. call[d].state # "idle"
      BY <3>1 DEF Answer, Succeed, Denied, Lost, Serve, In
    <3>3. d # c => call'[c] = call[c]
      BY <2>1, <3>1 DEF Answer, Succeed, Denied, DeniedLegacy, DeniedWorkbench, DeniedAgain, Await, Lost, Serve
    <3>4. call'[d].state # "idle" /\ call'[d].tab = call[d].tab
      <4>1. call[d] \in CallSet
        BY Types
      <4>2. ASSUME Succeed(d) \/ Lost(d) \/ Serve(d) PROVE call'[d].state # "idle" /\ call'[d].tab = call[d].tab
        BY <2>1, <4>1, <4>2 DEF Succeed, Lost, Serve, CallSet
      <4>3. ASSUME Denied(d) PROVE call'[d].state # "idle" /\ call'[d].tab = call[d].tab
        <5>1. \/ call'[d] = [call[d] EXCEPT !.state = "waiting", !.retried = TRUE]
              \/ call'[d] = Repeat(d)
              \/ call'[d] = [call[d] EXCEPT !.state = "denied"]
          BY <2>1, <4>3 DEF Denied, DeniedLegacy, DeniedWorkbench, DeniedAgain, Await
        <5> QED BY <4>1, <5>1 DEF Repeat, Send, CallSet
      <4> QED BY <3>1, <4>2, <4>3 DEF Answer
    <3> QED BY <3>2, <3>3, <3>4
  <2>5. CASE \E u \in Tabs : Renewed(u) \/ RenewalFails(u)
    <3>1. PICK u \in Tabs : Renewed(u) \/ RenewalFails(u)
      BY <2>5
    <3>2. \/ call'[c] = call[c]
          \/ /\ call[c].state = "waiting"
             /\ \/ call'[c] = [call[c] EXCEPT !.state = "failed"]
                \/ call'[c] = [call[c] EXCEPT !.state = "sent", !.session = renewal[u].session,
                                              !.token = renewal[u].token]
      BY <3>1 DEF Renewed, RenewalFails
    <3> QED BY <2>1, <3>2 DEF CallSet
  <2> QED BY <2>2, <2>3, <2>4, <2>5 DEF Next, Issue, Lapse, Forget, vars, browser
<1>3. Unused'
  BY <1>2 DEF Unused
<1>4. ASSUME NEW t \in Tabs, Sole(t)' PROVE Sole(t)
  BY <1>1, <1>2, <1>4 DEF Unused, Sole, Alone
<1> QED BY <1>3, <1>4

\* Every step keeps what hides a loss from the calls of a tab.
LEMMA StepHidden ==
    ASSUME Inv, Hides, [Next]_vars
    PROVE  Hides'
<1>1. Unused' /\ \A t \in Tabs : Sole(t)' => Sole(t)
  BY WasSole DEF Hides
<1> SUFFICES ASSUME NEW t \in Tabs, Sole(t)' PROVE Hidden(t)'
  BY <1>1 DEF Hides
<1>2. Sole(t) /\ Hidden(t) /\ Alone(t)'
  BY <1>1 DEF Hides, Sole
<1>3. \A u \in Tabs : u # t => renewal[u].state = "none"
  BY <1>2 DEF Hidden, TabHides
<1>4. CASE UNCHANGED vars
  BY <1>2, <1>4 DEF vars, browser, server, Hidden, TabHides, Waits, CallHides, Dated, Noticed, Undenied, Out,
                    Leased
<1>5. CASE \E c \in Calls, u \in Tabs, kind \in Kinds : Start(c, u, kind)
  BY <1>2, <1>5, StartHidden
<1>6. CASE \E c \in Calls : Answer(c) \/ Lost(c) \/ Serve(c)
  BY <1>2, <1>6, AnswerHidden, ServeHidden
<1>7. CASE \E u \in Tabs : Renewed(u) \/ RenewalFails(u) \/ Issue(u)
  <2>1. PICK u \in Tabs : Renewed(u) \/ RenewalFails(u) \/ Issue(u)
    BY <1>7
  <2>2. u = t
    BY <1>3, <2>1 DEF Renewed, RenewalFails, Issue
  <2> QED BY <1>2, <2>1, <2>2, TokenHidden, FailureHidden, IssueHidden
<1>8. CASE (\E s \in owners : Lapse(s)) \/ (\E S \in SUBSET owners : Forget(S))
  BY <1>2, <1>8, LossHidden
<1> QED BY <1>4, <1>5, <1>6, <1>7, <1>8 DEF Next

\* No call has been made yet.
LEMMA InitHidden == Init => Hides
  BY DEF Init, Hides, Unused, Hidden, TabHides, Waits, CallHides, Dated, Noticed, Undenied, Out, Leased, NoCall,
         NoRenewal

\* For any number of tabs, calls, losses and faults: as long as its tab is the
\* only one that makes calls, a call of the older page is refused only after
\* two losses.
THEOREM OneLossHidden == Spec => []LossIsHidden
<1>1. Inv /\ Hides => LossIsHidden
  <2> SUFFICES ASSUME Inv, Hides, NEW c \in Calls, In(c, {"denied"}), Page(c) = "legacy", Alone(call[c].tab)
               PROVE  losses > 1
    BY DEF LossIsHidden
  <2>1. call[c].tab \in Tabs /\ Sole(call[c].tab) /\ call[c].state = "denied"
    BY DEF Inv, CallsHold, Executions, In, Sole, Page
  <2>2. losses <= 1 => FALSE
    BY <2>1 DEF Hides, Hidden, CallHides, Noticed
  <2> QED BY <2>2, ServerTypes
<1>2. (Inv /\ Hides) /\ [Next]_vars => (Inv /\ Hides)'
  BY StepInv, StepHidden
<1> QED BY <1>1, <1>2, InitInv, InitHidden, PTL DEF Spec
------------------------------------------------------------------------------
(* The stream of a run.                                                     *)
\* What is sent and not received follows the tab's cursor without a gap.
WireContinues ==
    /\ \A i \in 1..Len(wire) : wire[i] = cursor + i
    /\ conn.state # "none" => conn.cursor = cursor + Len(wire)

\* There is a connection only while the tab streams.
OneConnection == source # "streaming" => conn = NoConn /\ wire = <<>>

\* A run that is not created has no events.
NoEventsBefore == status = "absent" => n = 0

\* What the server has forgotten, it has lost for one of two reasons.
LossIsCounted == access # "leased" => lapses > 0 \/ ~alive

\* What the theorems below rest on, all of it preserved by every step.
StreamInv ==
    StreamTypeOK /\ WireContinues /\ OneConnection /\ NoEventsBefore /\ LossIsCounted /\ RunningIsFollowed

\* The smaller of two numbers is one of them, and at most each.
LEMMA AtMostIs ==
    ASSUME NEW a \in Nat, NEW b \in Nat
    PROVE  AtMost(a, b) \in Nat /\ AtMost(a, b) <= a /\ AtMost(a, b) <= b
           /\ AtMost(a, b) \in {a, b}
  BY DEF AtMost

\* The larger of two numbers is one of them, and at least each.
LEMMA MaxIs ==
    ASSUME NEW a \in Nat, NEW b \in Nat
    PROVE  Max({a, b}) \in {a, b} /\ Max({a, b}) >= a /\ Max({a, b}) >= b
<1>1. \E x \in {a, b} : \A y \in {a, b} : x >= y
  <2>1. CASE a >= b
    BY <2>1
  <2>2. CASE ~(a >= b)
    BY <2>2
  <2>. QED  BY <2>1, <2>2
<1>. QED  BY <1>1 DEF Max

\* A page is the events between two cursors, and continues what is on the wire.
LEMMA PageContinues ==
    ASSUME NEW k \in Nat, NEW from \in 0..k, NEW to \in 0..k, from <= to,
           NEW w \in Seq(1..k), NEW c \in Nat, from = c + Len(w),
           \A i \in 1..Len(w) : w[i] = c + i
    PROVE  LET part == [i \in 1..(to - from) |-> from + i] IN
           /\ w \o part \in Seq(1..k)
           /\ to = c + Len(w \o part)
           /\ \A i \in 1..Len(w \o part) : (w \o part)[i] = c + i
<1>. DEFINE part == [i \in 1..(to - from) |-> from + i]
<1>1. part \in Seq(1..k) /\ Len(part) = to - from
  OBVIOUS
<1>2. \A i \in 1..Len(part) : part[i] = from + i
  BY <1>1
<1>. HIDE DEF part
<1>3. w \o part \in Seq(1..k) /\ Len(w \o part) = Len(w) + Len(part)
  BY <1>1
<1>4. ASSUME NEW i \in 1..Len(w \o part)
      PROVE  (w \o part)[i] = c + i
  <2>1. CASE i <= Len(w)
    BY <1>1, <2>1
  <2>2. CASE i > Len(w)
    <3>1. i \in Nat /\ i - Len(w) \in 1..Len(part)
      BY <1>1, <1>3, <2>2
    <3>2. (w \o part)[i] = part[i - Len(w)]
      BY <1>1, <1>3, <2>2, <3>1
    <3>. QED  BY <1>2, <3>1, <3>2
  <2>. QED  BY <2>1, <2>2
<1>. QED  BY <1>1, <1>3, <1>4 DEF part

\* Attaching the tab to the run anew keeps the invariant, where it has loaded
\* events that exist.
LEMMA AttachKeeps ==
    ASSUME StreamInv, NEW after \in 0..n, Attach(after)
    PROVE  /\ cursor' \in 0..n /\ (cursor' = cursor \/ cursor' = after)
           /\ WireContinues' /\ OneConnection'
           /\ conn' = NoConn /\ wire' = <<>> /\ source' = "connecting" /\ pending' = {}
<1>1. n \in Nat /\ cursor \in 0..n
  BY StreamOK DEF StreamInv, StreamTypeOK
<1>2. cursor' \in 0..n /\ (cursor' = cursor \/ cursor' = after)
  BY <1>1, MaxIs DEF Attach
<1>. QED  BY <1>2 DEF Attach, WireContinues, OneConnection, NoConn

\* No connection, no request and a new one are of their types, and replacing one by another
\* keeps the type of the requests.
LEMMA PartsTyped ==
    ASSUME StreamTypeOK
    PROVE  /\ NoConn \in [state: {"none", "polling", "checking", "closed"}, cursor: 0..n] /\ <<>> \in Seq(1..n)
           /\ NoLoad \in Answers /\ [NoLoad EXCEPT !.state = "asked"] \in Answers
           /\ \A o \in Openings, a \in Answers : [load EXCEPT ![o] = a] \in [Openings -> Answers]
<1>1. n \in Nat /\ load \in [Openings -> Answers]
  BY StreamOK DEF StreamTypeOK
<1>2. NoLoad \in Answers /\ [NoLoad EXCEPT !.state = "asked"] \in Answers
  BY <1>1 DEF NoLoad, Answers
<1>3. NoConn \in [state: {"none", "polling", "checking", "closed"}, cursor: 0..n] /\ <<>> \in Seq(1..n)
  BY <1>1 DEF NoConn
<1>. QED  BY <1>1, <1>2, <1>3

\* Each step of the engine keeps it.
LEMMA EngineKeeps ==
    ASSUME StreamInv, Engine
    PROVE  StreamInv'
<1>. USE StreamOK DEF StreamInv, StreamTypeOK, Answers, WireContinues, OneConnection, NoEventsBefore, LossIsCounted, RunningIsFollowed,
         host, stream, tab
<1>1. CASE Create
  BY <1>1 DEF Create
<1>2. CASE AppendEvent
  BY <1>2 DEF AppendEvent
<1>3. CASE SaveStatus
  BY <1>3 DEF SaveStatus
<1>. QED  BY <1>1, <1>2, <1>3 DEF Engine

\* Each step of the server does.
LEMMA ServerKeeps ==
    ASSUME StreamInv, Server
    PROVE  StreamInv'
<1>. USE StreamOK DEF StreamInv
<1>1. CASE Poll
  <2>. DEFINE last == AtMost(n, conn.cursor + PageSize)
  <2>1. CASE n > conn.cursor
    <3>0. n \in Nat /\ conn.cursor \in 0..n /\ PageSize \in Nat \ {0}
      BY DEF StreamTypeOK
    <3>1. last \in 0..n /\ conn.cursor <= last
      BY <2>1, <3>0 DEF AtMost
    <3>2. conn.cursor = cursor + Len(wire) /\ source = "streaming"
      BY <1>1 DEF Poll, WireContinues, OneConnection, NoConn
    <3>3. /\ wire' = wire \o [i \in 1..(last - conn.cursor) |-> conn.cursor + i]
          /\ conn' = [state |-> IF over /\ last = n THEN "closed" ELSE "polling", cursor |-> last]
          /\ UNCHANGED <<run, host, tab, loads, drops>>
      BY <1>1, <2>1 DEF Poll
    <3>. HIDE DEF last
    <3>4. n \in Nat /\ wire \in Seq(1..n) /\ conn.cursor \in 0..n /\ cursor \in Nat
      BY <1>1 DEF StreamTypeOK
    <3>5. \A i \in 1..Len(wire) : wire[i] = cursor + i
      BY DEF WireContinues
    <3>6. /\ wire' \in Seq(1..n) /\ last = cursor + Len(wire')
          /\ \A i \in 1..Len(wire') : wire'[i] = cursor + i
      BY <3>1, <3>2, <3>3, <3>4, <3>5, PageContinues
    <3>7. conn' \in [state: {"none", "polling", "checking", "closed"}, cursor: 0..n] /\ conn'.cursor = last
      BY <3>1, <3>3
    <3>8. StreamTypeOK'
      BY <3>3, <3>6, <3>7 DEF StreamTypeOK, Answers, run, host, tab
    <3>9. WireContinues'
      BY <3>3, <3>6, <3>7 DEF WireContinues, tab
    <3>. QED  BY <3>2, <3>3, <3>8, <3>9 DEF OneConnection, NoEventsBefore, LossIsCounted, RunningIsFollowed, run, host, tab
  <2>2. CASE ~(n > conn.cursor)
    BY <1>1, <2>2 DEF Poll, StreamTypeOK, Answers, WireContinues, OneConnection, NoEventsBefore, LossIsCounted, RunningIsFollowed, NoConn, run, host, tab
  <2>. QED  BY <2>1, <2>2
<1>2. CASE Check
  <2>1. conn \in [state: {"none", "polling", "checking", "closed"}, cursor: 0..n] /\ conn.state = "checking"
    BY <1>2 DEF Check, StreamTypeOK
  <2>2. /\ conn' \in [state: {"none", "polling", "checking", "closed"}, cursor: 0..n]
        /\ conn'.cursor = conn.cursor
    BY <1>2, <2>1 DEF Check
  <2>3. UNCHANGED <<run, host, wire, tab, loads, drops>> /\ source = "streaming"
    BY <1>2, <2>1 DEF Check, OneConnection, NoConn
  <2>4. WireContinues'
    BY <2>1, <2>2, <2>3 DEF WireContinues, tab
  <2>. QED  BY <2>2, <2>3, <2>4 DEF StreamTypeOK, Answers, OneConnection, NoEventsBefore, LossIsCounted, RunningIsFollowed, run, host, tab
<1>3. CASE ReadStatus
  <2>. PICK o \in Openings :
           load' = [load EXCEPT ![o] = IF status = "absent" \/ access = "forgotten" THEN NoLoad
                                       ELSE [@ EXCEPT !.state = "reading", !.status = status]]
    BY <1>3 DEF ReadStatus
  <2>1. /\ UNCHANGED <<run, alive, lapses, stream, source, cursor, pending, shown, running, stale, loads, drops>>
        /\ access' = IF access = "lapsed" THEN "leased" ELSE access
    BY <1>3 DEF ReadStatus
  <2>2. load'[o] \in Answers
    <3>1. load[o] \in Answers /\ status \in {"absent", "running", "ended"} /\ n \in Nat
      BY DEF StreamTypeOK
    <3>2. load'[o] = IF status = "absent" \/ access = "forgotten" THEN NoLoad
                     ELSE [load[o] EXCEPT !.state = "reading", !.status = status]
      BY DEF StreamTypeOK
    <3>3. [load[o] EXCEPT !.state = "reading", !.status = status] \in Answers
      BY <3>1 DEF Answers
    <3>4. NoLoad \in Answers
      BY <3>1 DEF Answers, NoLoad
    <3>. QED  BY <3>2, <3>3, <3>4
  <2>3. load' \in [Openings -> Answers]
    BY <2>2 DEF StreamTypeOK
  <2>. QED  BY <2>1, <2>3 DEF StreamTypeOK, Answers, WireContinues, OneConnection, NoEventsBefore, LossIsCounted, RunningIsFollowed, run, host, stream
<1>4. CASE ReadEvents
  <2>1. AtMost(n, DetailLimit) \in 0..n
    BY AtMostIs DEF StreamTypeOK
  <2>. PICK o \in Openings :
           load' = [load EXCEPT ![o].state = "answered", ![o].events = AtMost(n, DetailLimit)]
    BY <1>4 DEF ReadEvents
  <2>2. UNCHANGED <<run, host, stream, source, cursor, pending, shown, running, stale, loads, drops>>
    BY <1>4 DEF ReadEvents
  <2>3. load'[o] \in Answers
    BY <2>1 DEF StreamTypeOK, Answers
  <2>4. load' \in [Openings -> Answers]
    BY <2>3 DEF StreamTypeOK
  <2>. QED  BY <2>2, <2>4 DEF StreamTypeOK, Answers, WireContinues, OneConnection, NoEventsBefore, LossIsCounted, RunningIsFollowed, run, host, stream
<1>. QED  BY <1>1, <1>2, <1>3, <1>4 DEF Server

\* So does each step of the tab that only moves its end of the stream.
LEMMA ConnectionKeeps ==
    ASSUME StreamInv, Started \/ StartFails \/ Connect \/ Refused \/ Frame \/ EndOfStream
    PROVE  StreamInv'
<1>. USE StreamOK DEF StreamInv
<1>1. CASE Started
  <2>1. Attach(0) /\ UNCHANGED <<run, host, shown, running, load, stale, loads, drops>>
    BY <1>1 DEF Started
  <2>2. n \in Nat /\ 0 \in 0..n
    BY DEF StreamTypeOK
  <2>3. /\ cursor' \in 0..n /\ WireContinues' /\ OneConnection'
        /\ conn' = NoConn /\ wire' = <<>> /\ source' = "connecting" /\ pending' = {}
    BY <2>1, <2>2, AttachKeeps
  <2>4. StreamTypeOK'
    BY <2>1, <2>3, PartsTyped DEF StreamTypeOK, Answers, Following, run, host
  <2>. QED  BY <2>1, <2>3, <2>4 DEF Following, NoEventsBefore, LossIsCounted, RunningIsFollowed, run, host
<1>2. CASE StartFails
  BY <1>2 DEF StartFails, StreamTypeOK, Answers, WireContinues, OneConnection, NoEventsBefore, LossIsCounted, RunningIsFollowed, run, host, stream
<1>3. CASE Connect
  <2>1. wire = <<>>
    BY <1>3 DEF Connect, OneConnection
  <2>2. conn' = [state |-> "polling", cursor |-> cursor] /\ cursor \in 0..n /\ n \in Nat
    BY <1>3 DEF Connect, StreamTypeOK
  <2>3. conn' \in [state: {"none", "polling", "checking", "closed"}, cursor: 0..n]
    BY <2>2
  <2>4. WireContinues'
    BY <1>3, <2>1, <2>2 DEF Connect, WireContinues
  <2>. QED  BY <1>3, <2>3, <2>4 DEF Connect, StreamTypeOK, Answers, Following, OneConnection, NoEventsBefore, LossIsCounted, RunningIsFollowed, run, host
<1>4. CASE Frame
  BY <1>4 DEF Frame, StreamTypeOK, Answers, WireContinues, OneConnection, NoEventsBefore, LossIsCounted, RunningIsFollowed, run, host, stream
<1>5. CASE EndOfStream
  BY <1>5 DEF EndOfStream, StreamTypeOK, Answers, NoConn, Following, WireContinues, OneConnection, NoEventsBefore, LossIsCounted,
              RunningIsFollowed, run, host, stream
<1>6. CASE Refused
  <2>1. access # "leased" /\ source' = "refused" /\ source = "connecting"
        /\ UNCHANGED <<run, host, stream, cursor, pending, shown, running, load, stale, loads, drops>>
    BY <1>6 DEF Refused
  <2>. QED  BY <2>1 DEF StreamTypeOK, Answers, WireContinues, OneConnection, NoEventsBefore, LossIsCounted,
                        RunningIsFollowed, run, host, stream
<1>. QED  BY <1>1, <1>2, <1>3, <1>4, <1>5, <1>6

\* A received event is the next one.
LEMMA ReceiveKeeps ==
    ASSUME StreamInv, Receive
    PROVE  StreamInv' /\ cursor' = cursor + 1
<1>. USE StreamOK DEF StreamInv
<1>1. /\ n \in Nat /\ cursor \in 0..n /\ wire \in Seq(1..n) /\ Len(wire) \in Nat /\ Len(wire) > 0
      /\ source = "streaming" /\ UNCHANGED <<run, host, stale, loads, drops>>
  BY DEF StreamTypeOK, Receive
<1>2. Head(wire) = cursor + 1 /\ cursor + 1 \in 1..n
  BY <1>1 DEF WireContinues
<1>3. cursor' = cursor + 1
  BY <1>1, <1>2 DEF Receive
<1>4. CASE over /\ Head(wire) = n
  <2>1. ShowEnd(Head(wire))
    BY <1>1, <1>2, <1>4 DEF Receive
  <2>2. load' \in [Openings -> Answers]
    BY <2>1, PartsTyped DEF ShowEnd, Ask, Openings
  <2>3. /\ shown' = shown \cup pending \cup {cursor + 1} /\ pending' = {} /\ running' = FALSE
        /\ source' = "ended" /\ conn' = NoConn /\ wire' = <<>>
    BY <1>2, <2>1 DEF ShowEnd
  <2>4. StreamTypeOK'
    <3>1. shown' \subseteq 1..n /\ pending' \subseteq 1..n /\ cursor' \in 0..n
      BY <1>1, <1>2, <1>3, <2>3 DEF StreamTypeOK
    <3>2. conn' \in [state: {"none", "polling", "checking", "closed"}, cursor: 0..n] /\ wire' \in Seq(1..n)
      BY <2>3, PartsTyped
    <3>. QED  BY <1>1, <2>2, <2>3, <3>1, <3>2 DEF StreamTypeOK, Answers, Following, run, host
  <2>5. WireContinues'
    BY <2>3 DEF WireContinues, NoConn
  <2>. QED  BY <1>1, <1>3, <2>3, <2>4, <2>5 DEF OneConnection, NoEventsBefore, LossIsCounted, RunningIsFollowed, run, host
<1>5. CASE ~(over /\ Head(wire) = n)
  <2>1. /\ pending' = pending \cup {Head(wire)} /\ wire' = Tail(wire)
        /\ UNCHANGED <<conn, source, shown, running, load>>
    BY <1>1, <1>2, <1>5 DEF Receive
  <2>2. Tail(wire) \in Seq(1..n) /\ Len(Tail(wire)) = Len(wire) - 1
        /\ \A i \in 1..Len(Tail(wire)) : Tail(wire)[i] = wire[i + 1]
    BY <1>1
  <2>3. WireContinues'
    BY <1>1, <1>3, <2>1, <2>2 DEF WireContinues, StreamTypeOK
  <2>4. StreamTypeOK'
    <3>1. pending' \subseteq 1..n /\ cursor' \in 0..n /\ wire' \in Seq(1..n)
      <4>1. pending \subseteq 1..n
        BY DEF StreamTypeOK
      <4>2. pending' \subseteq 1..n
        BY <1>2, <2>1, <4>1
      <4>3. wire' \in Seq(1..n)
        BY <2>1, <2>2
      <4>. QED  BY <1>1, <1>2, <1>3, <4>2, <4>3
    <3>. QED  BY <1>1, <2>1, <3>1 DEF StreamTypeOK, Answers, Following, run, host
  <2>. QED  BY <1>1, <1>3, <2>1, <2>3, <2>4 DEF OneConnection, NoEventsBefore, LossIsCounted, RunningIsFollowed, run, host
<1>. QED  BY <1>3, <1>4, <1>5

\* What is loaded are events of the run.
LEMMA LoadKeeps ==
    ASSUME StreamInv, Opened \/ LoadedAtEnd
    PROVE  StreamInv' /\ (cursor' # cursor => source' = "connecting" /\ cursor' \in shown')
<1>. USE StreamOK DEF StreamInv
<1>1. CASE Opened
  <2>. DEFINE answer == load["open"]
  <2>1. answer \in Answers /\ n \in Nat
    BY DEF StreamTypeOK, Openings
  <2>2. answer.events \in 0..n
    BY <2>1 DEF Answers
  <2>3. load' \in [Openings -> Answers]
    BY <1>1, PartsTyped DEF Opened, Openings
  <2>4. /\ shown' = 1..answer.events /\ running' = (answer.status = "running")
        /\ stale' = (stale \/ source # "none") /\ UNCHANGED <<run, host, loads, drops>>
    BY <1>1 DEF Opened
  <2>5. CASE answer.status = "running"
    <3>1. Attach(answer.events)
      BY <1>1, <2>5 DEF Opened
    <3>2. /\ cursor' \in 0..n /\ (cursor' = cursor \/ cursor' = answer.events)
          /\ WireContinues' /\ OneConnection'
          /\ conn' = NoConn /\ wire' = <<>> /\ source' = "connecting" /\ pending' = {}
      BY <2>2, <3>1, AttachKeeps
    <3>3. cursor' # cursor => cursor' \in shown'
      <4>1. cursor \in 0..n
        BY DEF StreamTypeOK
      <4>2. cursor' = Max({answer.events, cursor})
        BY <3>1 DEF Attach
      <4>3. cursor' >= cursor
        BY <2>1, <2>2, <4>1, <4>2, MaxIs
      <4>. QED  BY <2>1, <2>2, <2>4, <3>2, <4>1, <4>3
    <3>. HIDE DEF answer
    <3>4. StreamTypeOK'
      BY <2>1, <2>2, <2>3, <2>4, <3>2 DEF StreamTypeOK, Answers, NoConn, Following, run, host
    <3>. QED  BY <2>4, <3>2, <3>3, <3>4 DEF Following, NoEventsBefore, LossIsCounted, RunningIsFollowed, run, host
  <2>6. CASE answer.status # "running"
    <3>1. UNCHANGED <<stream, source, cursor, pending>>
      BY <1>1, <2>6 DEF Opened
    <3>. HIDE DEF answer
    <3>. QED  BY <2>1, <2>2, <2>3, <2>4, <2>6, <3>1
              DEF StreamTypeOK, Answers, WireContinues, OneConnection, NoEventsBefore, LossIsCounted, RunningIsFollowed, run, host, stream
  <2>. QED  BY <2>5, <2>6
<1>2. CASE LoadedAtEnd
  <2>1. load["end"] \in Answers /\ n \in Nat
    BY DEF StreamTypeOK, Openings
  <2>2. load' \in [Openings -> Answers] /\ 1..load["end"].events \subseteq 1..n
    <3>1. load' \in [Openings -> Answers]
      BY <1>2, PartsTyped DEF LoadedAtEnd, Openings
    <3>. QED  BY <2>1, <3>1 DEF Answers
  <2>. QED  BY <1>2, <2>2 DEF LoadedAtEnd, StreamTypeOK, Answers, WireContinues, OneConnection, NoEventsBefore, LossIsCounted,
                              RunningIsFollowed, run, host, stream
<1>. QED  BY <1>1, <1>2

\* A fault and a reload of the page lose no more than what is sent again.
LEMMA FaultKeeps ==
    ASSUME StreamInv, Drop \/ Reload \/ Rerender \/ LoseLease \/ Renew \/ Restart
    PROVE  StreamInv'
<1>. USE StreamOK DEF StreamInv
<1>1. CASE Drop
  BY <1>1 DEF Drop, StreamTypeOK, Answers, NoConn, Following, WireContinues, OneConnection, NoEventsBefore, LossIsCounted,
              RunningIsFollowed, run, host
<1>2. CASE Reload
  <2>1. load' \in [Openings -> Answers]
    <3>1. load' = [o \in Openings |-> IF o = "open" THEN [NoLoad EXCEPT !.state = "asked"] ELSE NoLoad]
      BY <1>2 DEF Reload, StreamTypeOK, Openings
    <3>. QED  BY <3>1, PartsTyped
  <2>2. StreamTypeOK'
    <3>1. conn' \in [state: {"none", "polling", "checking", "closed"}, cursor: 0..n] /\ wire' \in Seq(1..n)
      BY <1>2, PartsTyped DEF Reload
    <3>2. loads' \in 0..MaxLoads
      BY <1>2 DEF Reload, StreamTypeOK
    <3>. QED  BY <1>2, <2>1, <3>1, <3>2 DEF Reload, StreamTypeOK, Answers, Following, run, host
  <2>3. WireContinues'
    BY <1>2 DEF Reload, WireContinues, NoConn
  <2>. QED  BY <1>2, <2>2, <2>3 DEF Reload, OneConnection, NoEventsBefore, LossIsCounted, RunningIsFollowed, run, host
<1>3. CASE Rerender
  <2>1. load' \in [Openings -> Answers]
    BY <1>3, PartsTyped DEF Rerender, Ask, Openings
  <2>. QED  BY <1>3, <2>1 DEF Rerender, StreamTypeOK, Answers, WireContinues, OneConnection, NoEventsBefore, LossIsCounted,
                              RunningIsFollowed, run, host, stream
<1>4. CASE LoseLease
  BY <1>4 DEF LoseLease, StreamTypeOK, Answers, WireContinues, OneConnection, NoEventsBefore, LossIsCounted,
              RunningIsFollowed, run, stream, tab
<1>5. CASE Renew
  BY <1>5 DEF Renew, StreamTypeOK, Answers, WireContinues, OneConnection, NoEventsBefore, LossIsCounted,
              RunningIsFollowed, run, stream, tab
<1>6. CASE Restart
  <2>1. /\ conn' = NoConn /\ wire' = <<>> /\ alive' = FALSE /\ access' = "forgotten"
        /\ source' = IF source = "streaming" THEN "connecting" ELSE source
        /\ UNCHANGED <<run, lapses, cursor, pending, shown, running, stale, loads, drops>>
    BY <1>6 DEF Restart
  <2>2. load' \in [Openings -> Answers]
    BY <1>6, PartsTyped DEF Restart, StreamTypeOK
  <2>3. conn' \in [state: {"none", "polling", "checking", "closed"}, cursor: 0..n] /\ wire' \in Seq(1..n)
    BY <2>1, PartsTyped
  <2>4. StreamTypeOK'
    BY <2>1, <2>2, <2>3 DEF StreamTypeOK, Answers, Following, run
  <2>5. WireContinues' /\ OneConnection'
    BY <2>1 DEF WireContinues, OneConnection, NoConn
  <2>. QED  BY <2>1, <2>4, <2>5 DEF NoEventsBefore, LossIsCounted, RunningIsFollowed, Following, run
<1>. QED  BY <1>1, <1>2, <1>3, <1>4, <1>5, <1>6

\* StreamInv holds initially and is preserved by every step, so it always holds.
THEOREM StreamInvariant == StreamSpec => []StreamInv
<1>1. StreamInit => StreamInv
  <2>. SUFFICES ASSUME StreamInit PROVE StreamInv
    OBVIOUS
  <2>1. wire \in Seq(1..n) /\ Len(wire) = 0
    BY DEF StreamInit
  <2>2. load \in [Openings -> Answers]
    <3>1. NoLoad \in Answers
      BY DEF StreamInit, Answers, NoLoad
    <3>. QED  BY <3>1 DEF StreamInit
  <2>3. StreamTypeOK
    <3>1. n \in 0..MaxEvents /\ loads \in 0..MaxLoads /\ drops \in 0..MaxDrops
      BY StreamOK DEF StreamInit
    <3>2. conn \in [state: {"none", "polling", "checking", "closed"}, cursor: 0..n]
      BY DEF StreamInit, NoConn
    <3>3. status \in {"absent", "running", "ended"} /\ over \in BOOLEAN /\ running \in BOOLEAN /\ stale \in BOOLEAN
      BY DEF StreamInit
    <3>4. source \in Following \cup {"none", "refused", "ended"}
      BY DEF StreamInit, Following
    <3>5. cursor \in 0..n /\ pending \subseteq 1..n /\ shown \subseteq 1..n
      BY DEF StreamInit
    <3>6. lapses \in 0..MaxLapses /\ alive \in BOOLEAN /\ access \in {"leased", "lapsed", "forgotten"}
      BY StreamOK DEF StreamInit
    <3>. QED  BY <2>1, <2>2, <3>1, <3>2, <3>3, <3>4, <3>5, <3>6 DEF StreamTypeOK
  <2>. QED  BY <2>1, <2>3 DEF StreamInit, StreamInv, NoConn, Following, WireContinues, OneConnection, NoEventsBefore, LossIsCounted,
                              RunningIsFollowed
<1>2. StreamInv /\ [StreamNext]_streamVars => StreamInv'
  <2>. SUFFICES ASSUME StreamInv, [StreamNext]_streamVars PROVE StreamInv'
    OBVIOUS
  <2>1. CASE UNCHANGED streamVars
    BY <2>1 DEF streamVars, run, host, stream, tab, StreamInv, StreamTypeOK, Answers, WireContinues, OneConnection, NoEventsBefore, LossIsCounted,
                RunningIsFollowed
  <2>. QED  BY <2>1, EngineKeeps, ServerKeeps, ConnectionKeeps, ReceiveKeeps, LoadKeeps, FaultKeeps DEF StreamNext, Tab
<1>. QED  BY <1>1, <1>2, PTL DEF StreamSpec

\* The state of server, wire and tab is of its type.
THEOREM StreamAlwaysTyped == StreamSpec => []StreamTypeOK
<1>1. StreamInv => StreamTypeOK
  BY DEF StreamInv
<1>. QED  BY <1>1, StreamInvariant, PTL

\* A tab never shows a run as running without a stream that would tell it of
\* the end, unless that stream was refused, after a lease had lapsed or the server
\* had been restarted.
THEOREM RunsAreFollowed == StreamSpec => []RunningIsFollowed
<1>1. StreamInv => RunningIsFollowed
  BY DEF StreamInv
<1>. QED  BY <1>1, StreamInvariant, PTL

\* The stream hands on every event once and in order, whatever breaks.
THEOREM NoEventIsSkipped == StreamSpec => NoEventSkipped
<1>1. StreamInv /\ [StreamNext]_streamVars => [cursor' # cursor => cursor' = cursor + 1
                                \/ (source' = "connecting" /\ cursor' \in shown')]_streamVars
  <2>. SUFFICES ASSUME StreamInv, StreamNext, cursor' # cursor
                PROVE  cursor' = cursor + 1 \/ (source' = "connecting" /\ cursor' \in shown')
    OBVIOUS
  <2>1. CASE Engine
    BY <2>1 DEF Engine, Create, AppendEvent, SaveStatus, tab
  <2>2. CASE Server
    BY <2>2 DEF Server, Poll, Check, ReadStatus, ReadEvents, tab
  <2>3. CASE Started
    <3>1. 0 \in 0..n /\ cursor \in Nat /\ cursor' = Max({0, cursor})
      BY <2>3 DEF StreamInv, StreamTypeOK, Started, Attach
    <3>. QED  BY <3>1, MaxIs
  <2>4. CASE StartFails \/ Connect \/ Refused \/ Frame \/ EndOfStream
    BY <2>4 DEF StartFails, Connect, Refused, Frame, EndOfStream
  <2>5. CASE Drop \/ Reload \/ Rerender \/ LoseLease \/ Renew \/ Restart
    BY <2>5 DEF Drop, Reload, Rerender, LoseLease, Renew, Restart, tab
  <2>. QED  BY <2>1, <2>2, <2>3, <2>4, <2>5, ReceiveKeeps, LoadKeeps DEF StreamNext, Tab
<1>. QED  BY <1>1, StreamInvariant, PTL DEF StreamSpec, NoEventSkipped
------------------------------------------------------------------------------
(****************************************************************************)
(* What the tab shows.  NoGap and EndShowsAll rest on what the answers to   *)
(* the tab's requests are worth when they arrive: the run may have grown,   *)
(* but an answer that says that it is over has all of it, and a tab that is *)
(* not following the run has not moved its cursor since it asked.           *)
(****************************************************************************)

\* The status is saved after the terminal event, and the run is created first.
OverIsLast ==
    /\ status = "ended" => over
    /\ over => status # "absent"

\* The tab has been told of the end with nothing left to show, and a tab that
\* waits for the run to start has received nothing.
EndIsTold ==
    /\ source = "ended" => over /\ pending = {}
    /\ source = "starting" => cursor = 0

\* An answer about a run that is over has all its events.
AnswersOfEnd ==
    /\ load["end"].state # "none" => over
    /\ load["end"].state = "answered" => load["end"].events = AtMost(n, DetailLimit)
    /\ load["open"].state = "reading" /\ load["open"].status # "running" => over
    /\ load["open"].state = "answered" /\ load["open"].status # "running"
         => over /\ load["open"].events = AtMost(n, DetailLimit)

\* A reloaded page will be shown the run at least up to its cursor.
OpensAhead ==
    source = "none" /\ load["open"].state = "answered" /\ n <= DetailLimit => cursor <= load["open"].events

Display == OverIsLast /\ EndIsTold /\ AnswersOfEnd /\ OpensAhead /\ NoGap /\ EndShowsAll

\* The engine only appends to the run, and not once it is over.
LEMMA EngineShows ==
    ASSUME StreamInv, Display, Engine
    PROVE  Display'
<1>. USE StreamOK
<1>1. /\ UNCHANGED <<access, conn, wire, source, cursor, pending, shown, running, load, stale>>
      /\ n \in Nat /\ n' >= n /\ (over => over' /\ n' = n) /\ (over' => status' # "absent")
      /\ (status' = "ended" => over') /\ DetailLimit \in Nat
  BY DEF Engine, Create, AppendEvent, SaveStatus, StreamInv, StreamTypeOK, NoEventsBefore, Display, OverIsLast, host, stream, tab
<1>2. n' \in Nat
  BY DEF Engine, Create, AppendEvent, SaveStatus, StreamInv, StreamTypeOK
<1>3. OverIsLast' /\ EndIsTold' /\ AnswersOfEnd'
  BY <1>1 DEF Display, OverIsLast, EndIsTold, AnswersOfEnd
<1>4. n' <= DetailLimit => n <= DetailLimit
  BY <1>1, <1>2
<1>5. OpensAhead' /\ NoGap'
  BY <1>1, <1>4 DEF Display, OpensAhead, NoGap
<1>6. EndShowsAll'
  BY <1>1 DEF Display, EndShowsAll, EndIsTold
<1>. QED  BY <1>3, <1>5, <1>6 DEF Display

\* The server answers with the run as it is.
LEMMA ServerShows ==
    ASSUME StreamInv, Display, Server
    PROVE  Display'
<1>. USE StreamOK
<1>0. NoLoad.state = "none"
  BY DEF NoLoad
<1>1. CASE Poll \/ Check
  <2>1. UNCHANGED <<run, host, tab>>
    BY <1>1 DEF Poll, Check
  <2>. QED  BY <2>1 DEF Display, OverIsLast, EndIsTold, AnswersOfEnd, OpensAhead, NoGap, EndShowsAll, run, host, tab
<1>2. CASE ReadStatus
  <2>1. /\ UNCHANGED <<n, status, over, source, cursor, pending, shown, stale>>
        /\ load \in [Openings -> Answers] /\ status \in {"absent", "running", "ended"}
    BY <1>2 DEF ReadStatus, StreamInv, StreamTypeOK, run, host, stream
  <2>. PICK o \in Openings :
           /\ load[o].state = "asked"
           /\ load' = [load EXCEPT ![o] = IF status = "absent" \/ access = "forgotten" THEN NoLoad
                                          ELSE [@ EXCEPT !.state = "reading", !.status = status]]
    BY <1>2 DEF ReadStatus
  <2>2. /\ load'[o].state \in {"none", "reading"} /\ (load'[o].state = "reading" => load'[o].status = status)
        /\ (load'[o].state = "reading" <=> status # "absent" /\ access # "forgotten")
        /\ \A p \in Openings : p # o => load'[p] = load[p]
    <3>1. load[o] \in Answers
      BY <2>1
    <3>2. load'[o] = IF status = "absent" \/ access = "forgotten" THEN NoLoad
                     ELSE [load[o] EXCEPT !.state = "reading", !.status = status]
      BY <2>1
    <3>. QED  BY <2>1, <3>1, <3>2 DEF NoLoad, Answers
  <2>3. load'["end"].state # "none" => over
    BY <2>2 DEF Display, AnswersOfEnd, Openings
  <2>4. AnswersOfEnd'
    BY <2>1, <2>2, <2>3 DEF Display, AnswersOfEnd, OverIsLast, Openings
  <2>5. OpensAhead'
    BY <2>1, <2>2 DEF Display, OpensAhead, Openings
  <2>6. EndShowsAll'
    <3>1. status # "absent" /\ access # "forgotten" => load'[o] # NoLoad
      BY <1>0, <2>2
    <3>2. [p \in Openings |-> NoLoad][o] = NoLoad
      OBVIOUS
    <3>3. source = "ended" /\ access # "forgotten" => load' # [p \in Openings |-> NoLoad]
      BY <3>1, <3>2 DEF Display, EndIsTold, OverIsLast
    <3>4. access = "forgotten" => access' = "forgotten"
      BY <1>2 DEF ReadStatus
    <3>. QED  BY <2>1, <3>3, <3>4 DEF Display, EndShowsAll
  <2>. QED  BY <2>1, <2>4, <2>5, <2>6 DEF Display, OverIsLast, EndIsTold, NoGap
<1>3. CASE ReadEvents
  <2>1. /\ UNCHANGED <<n, status, over, access, source, cursor, pending, shown, stale>>
        /\ load \in [Openings -> Answers] /\ n \in Nat /\ cursor \in 0..n /\ DetailLimit \in Nat
    BY <1>3 DEF ReadEvents, StreamInv, StreamTypeOK, run, host, stream
  <2>. PICK o \in Openings :
           /\ load[o].state = "reading"
           /\ load' = [load EXCEPT ![o].state = "answered", ![o].events = AtMost(n, DetailLimit)]
    BY <1>3 DEF ReadEvents
  <2>2. /\ load'[o].state = "answered" /\ load'[o].status = load[o].status
        /\ load'[o].events = AtMost(n, DetailLimit)
        /\ \A p \in Openings : p # o => load'[p] = load[p]
    BY <2>1 DEF Answers
  <2>3. AnswersOfEnd'
    BY <2>1, <2>2 DEF Display, AnswersOfEnd, Openings
  <2>4. OpensAhead'
    <3>1. CASE o = "open"
      BY <2>1, <2>2, <3>1 DEF OpensAhead, AtMost
    <3>2. CASE o # "open"
      BY <2>1, <2>2, <3>2 DEF Display, OpensAhead, Openings
    <3>. QED  BY <3>1, <3>2
  <2>5. EndShowsAll'
    <3>1. [p \in Openings |-> NoLoad][o] = NoLoad
      OBVIOUS
    <3>2. load' # [p \in Openings |-> NoLoad]
      BY <1>0, <2>2, <3>1
    <3>. QED  BY <2>1, <3>2 DEF Display, EndShowsAll
  <2>. QED  BY <2>1, <2>3, <2>4, <2>5 DEF Display, OverIsLast, EndIsTold, NoGap
<1>. QED  BY <1>1, <1>2, <1>3 DEF Server

\* Every step of the tab but a received event and an answer leaves what it
\* shows and what is still to be shown as it is.
LEMMA ConnectionShows ==
    ASSUME StreamInv, Display, Started \/ StartFails \/ Connect \/ Refused \/ Frame \/ EndOfStream \/ Drop
    PROVE  Display'
<1>. USE StreamOK
<1>1. n \in Nat /\ cursor \in 0..n /\ UNCHANGED <<n, status, over, access, load, stale>>
  BY DEF StreamInv, StreamTypeOK, Started, StartFails, Connect, Refused, Frame, EndOfStream, Drop, run, host
<1>2. OverIsLast' /\ AnswersOfEnd'
  BY <1>1 DEF Display, OverIsLast, AnswersOfEnd
<1>3. CASE Started
  <2>1. cursor = 0 /\ source' = "connecting" /\ pending' = {} /\ cursor' = 0
    <3>1. cursor = 0 /\ cursor' = Max({0, cursor}) /\ source' = "connecting" /\ pending' = {}
      BY <1>3 DEF Started, Attach, Display, EndIsTold
    <3>2. Max({0, 0}) = 0
      BY MaxIs
    <3>. QED  BY <3>1, <3>2
  <2>2. 1..cursor' = {}
    BY <2>1
  <2>. QED  BY <1>2, <2>1, <2>2 DEF Display, EndIsTold, OpensAhead, NoGap, EndShowsAll
<1>4. CASE StartFails
  <2>1. cursor' = 0 /\ source' = "none"
    BY <1>4 DEF StartFails, Display, EndIsTold
  <2>2. OpensAhead'
    <3>1. load["open"].events \in Nat
      BY <1>1 DEF StreamInv, StreamTypeOK, Answers, Openings
    <3>. QED  BY <1>1, <2>1, <3>1 DEF OpensAhead
  <2>. QED  BY <1>2, <2>1, <2>2 DEF EndIsTold, NoGap, EndShowsAll, Following, Display
<1>5. CASE Frame
  <2>1. UNCHANGED <<source, cursor>> /\ pending # {} /\ shown' = shown \cup pending /\ pending' = {}
    BY <1>5 DEF Frame
  <2>2. source # "ended" /\ shown' \cup pending' = shown \cup pending
    BY <2>1 DEF Display, EndIsTold
  <2>. QED  BY <1>1, <1>2, <2>1, <2>2 DEF Display, EndIsTold, OpensAhead, NoGap, EndShowsAll
<1>6. CASE Connect \/ Refused \/ EndOfStream \/ Drop
  <2>1. /\ UNCHANGED <<cursor, pending, shown>> /\ source \in {"connecting", "streaming"}
        /\ source' \in {"connecting", "streaming", "refused"}
    BY <1>6 DEF Connect, Refused, EndOfStream, Drop
  <2>. QED  BY <1>1, <1>2, <2>1 DEF Display, EndIsTold, OpensAhead, NoGap, EndShowsAll, Following
<1>. QED  BY <1>3, <1>4, <1>5, <1>6

\* An event that is received waits for the frame, or completes what is shown.
LEMMA ReceiveShows ==
    ASSUME StreamInv, Display, Receive
    PROVE  Display'
<1>. USE StreamOK
<1>1. /\ n \in Nat /\ cursor \in 0..n /\ wire \in Seq(1..n) /\ Len(wire) > 0 /\ pending \subseteq 1..n
      /\ shown \subseteq 1..n /\ source = "streaming" /\ UNCHANGED <<n, status, over, access, stale>>
  BY DEF StreamInv, StreamTypeOK, Receive, run, host
<1>2. Head(wire) = cursor + 1 /\ cursor + 1 \in 1..n /\ cursor' = cursor + 1
  <2>1. Head(wire) = wire[1] /\ 1 \in 1..Len(wire) /\ wire[1] \in 1..n
    BY <1>1
  <2>2. wire[1] = cursor + 1
    BY <2>1 DEF StreamInv, WireContinues
  <2>. QED  BY <2>1, <2>2, ReceiveKeeps
<1>3. 1..(cursor + 1) = 1..cursor \cup {cursor + 1}
  BY <1>1
<1>4. CASE over /\ Head(wire) = n
  <2>1. ShowEnd(Head(wire))
    BY <1>1, <1>2, <1>4 DEF Receive
  <2>2. /\ shown' = shown \cup pending \cup {cursor + 1} /\ pending' = {} /\ source' = "ended"
        /\ load' = [load EXCEPT !["end"] = [NoLoad EXCEPT !.state = "asked"]]
    BY <1>2, <2>1 DEF ShowEnd, Ask
  <2>3. load'["end"].state = "asked" /\ load'["open"] = load["open"]
    BY <2>2 DEF StreamInv, StreamTypeOK, Openings, NoLoad
  <2>4. ~stale /\ n <= DetailLimit => shown' = 1..n
    <3>1. ~stale /\ n <= DetailLimit => 1..cursor \subseteq shown \cup pending
      BY <1>1 DEF Display, NoGap, Following
    <3>. QED  BY <1>1, <1>2, <1>3, <1>4, <2>2, <3>1
  <2>5. EndShowsAll'
    <3>1. load' # [o \in Openings |-> NoLoad]
      BY <2>3 DEF NoLoad, Openings
    <3>. QED  BY <1>1, <2>4, <3>1 DEF EndShowsAll
  <2>6. AnswersOfEnd'
    BY <1>1, <1>4, <2>3 DEF Display, AnswersOfEnd
  <2>. QED  BY <1>1, <1>4, <2>2, <2>5, <2>6 DEF Display, OverIsLast, EndIsTold, OpensAhead, NoGap, Following
<1>5. CASE ~(over /\ Head(wire) = n)
  <2>1. /\ pending' = pending \cup {cursor + 1} /\ UNCHANGED <<source, shown, load>>
    BY <1>1, <1>2, <1>5 DEF Receive
  <2>2. NoGap'
    BY <1>1, <1>2, <1>3, <2>1 DEF Display, NoGap
  <2>. QED  BY <1>1, <2>1, <2>2 DEF Display, OverIsLast, EndIsTold, AnswersOfEnd, OpensAhead, EndShowsAll
<1>. QED  BY <1>4, <1>5

\* An answer replaces what is shown by no less than a tab that is not stale
\* has been sent.
LEMMA LoadShows ==
    ASSUME StreamInv, Display, Opened \/ LoadedAtEnd
    PROVE  Display'
<1>. USE StreamOK
<1>1. /\ n \in Nat /\ cursor \in 0..n /\ load \in [Openings -> Answers] /\ DetailLimit \in Nat
      /\ UNCHANGED <<n, status, over, access>>
  BY DEF StreamInv, StreamTypeOK, Opened, LoadedAtEnd, run, host
<1>2. OverIsLast'
  BY <1>1 DEF Display, OverIsLast
<1>3. n <= DetailLimit => AtMost(n, DetailLimit) = n
  BY <1>1 DEF AtMost
<1>4. CASE Opened
  <2>. DEFINE answer == load["open"]
  <2>1. /\ answer.state = "answered" /\ load' = [load EXCEPT !["open"] = NoLoad]
        /\ shown' = 1..answer.events /\ stale' = (stale \/ source # "none")
    BY <1>4 DEF Opened
  <2>2. load'["open"] = NoLoad /\ load'["end"] = load["end"] /\ answer \in Answers
    BY <1>1, <2>1 DEF Openings
  <2>3. answer.events \in Nat
    BY <1>1, <2>2 DEF Answers
  <2>4. AnswersOfEnd' /\ OpensAhead'
    BY <1>1, <2>2 DEF Display, AnswersOfEnd, OpensAhead, NoLoad
  <2>5. CASE answer.status = "running"
    <3>1. Attach(answer.events)
      BY <1>4, <2>5 DEF Opened
    <3>2. source' = "connecting" /\ pending' = {} /\ cursor' = Max({answer.events, cursor})
      BY <3>1 DEF Attach
    <3>3. ~stale' /\ n <= DetailLimit => cursor' = answer.events
      <4>1. ~stale' /\ n <= DetailLimit => cursor <= answer.events
        BY <2>1 DEF Display, OpensAhead
      <4>2. cursor <= answer.events => Max({answer.events, cursor}) = answer.events
        BY <1>1, <2>3, MaxIs
      <4>. QED  BY <3>2, <4>1, <4>2
    <3>4. NoGap'
      BY <1>1, <2>1, <3>3 DEF NoGap
    <3>. QED  BY <1>2, <2>4, <3>2, <3>4 DEF Display, EndIsTold, EndShowsAll
  <2>6. CASE answer.status # "running"
    <3>1. UNCHANGED <<source, cursor, pending>>
      BY <1>4, <2>6 DEF Opened
    <3>2. shown' = 1..AtMost(n, DetailLimit) /\ over
      BY <2>1, <2>6 DEF Display, AnswersOfEnd
    <3>3. EndIsTold' /\ NoGap'
      <4>1. stale' \/ source' = "none"
        BY <2>1, <3>1
      <4>. QED  BY <1>1, <3>1, <4>1 DEF Display, EndIsTold, NoGap, Following
    <3>4. EndShowsAll'
      BY <1>1, <1>3, <3>2 DEF EndShowsAll
    <3>. QED  BY <1>2, <2>4, <3>3, <3>4 DEF Display
  <2>. QED  BY <2>5, <2>6
<1>5. CASE LoadedAtEnd
  <2>1. /\ load["end"].state = "answered" /\ load' = [load EXCEPT !["end"] = NoLoad]
        /\ shown' = 1..load["end"].events /\ UNCHANGED <<source, cursor, pending, stale>>
    BY <1>5 DEF LoadedAtEnd, stream
  <2>2. shown' = 1..AtMost(n, DetailLimit)
    BY <2>1 DEF Display, AnswersOfEnd
  <2>3. load'["end"] = NoLoad /\ load'["open"] = load["open"]
    BY <1>1, <2>1 DEF Openings
  <2>4. AnswersOfEnd' /\ OpensAhead' /\ EndIsTold'
    BY <1>1, <2>1, <2>3 DEF Display, AnswersOfEnd, OpensAhead, EndIsTold, NoLoad
  <2>5. NoGap'
    <3>1. n <= DetailLimit => shown' = 1..n
      BY <1>3, <2>2
    <3>2. 1..cursor \subseteq 1..n
      BY <1>1
    <3>3. n' = n /\ cursor' = cursor
      BY <1>1, <2>1
    <3>. QED  BY <3>1, <3>2, <3>3 DEF NoGap
  <2>6. EndShowsAll'
    BY <1>1, <1>3, <2>2 DEF EndShowsAll
  <2>. QED  BY <1>2, <2>4, <2>5, <2>6 DEF Display
<1>. QED  BY <1>4, <1>5

\* A reloaded page shows nothing and follows nothing, and asks for the run.
LEMMA ReloadShows ==
    ASSUME StreamInv, Display, Reload \/ Rerender
    PROVE  Display'
<1>1. UNCHANGED <<n, status, over, access, cursor>> /\ load \in [Openings -> Answers]
  BY DEF Reload, Rerender, run, host, StreamInv, StreamTypeOK
<1>2. CASE Reload
  <2>1. load'["open"].state = "asked" /\ load'["end"].state = "none"
    BY <1>1, <1>2 DEF Reload, Openings, NoLoad
  <2>2. source' = "none"
    BY <1>2 DEF Reload
  <2>. QED  BY <1>1, <2>1, <2>2 DEF Display, OverIsLast, EndIsTold, AnswersOfEnd, OpensAhead, NoGap, EndShowsAll, Following
<1>3. CASE Rerender
  <2>1. load'["open"].state = "asked" /\ load'["end"] = load["end"]
    BY <1>1, <1>3 DEF Rerender, Ask, Openings, NoLoad
  <2>2. UNCHANGED <<source, pending, shown, stale>>
    BY <1>3 DEF Rerender
  <2>3. load' # [o \in Openings |-> NoLoad]
    BY <2>1 DEF NoLoad, Openings
  <2>. QED  BY <1>1, <2>1, <2>2, <2>3 DEF Display, OverIsLast, EndIsTold, AnswersOfEnd, OpensAhead, NoGap, EndShowsAll
<1>. QED  BY <1>2, <1>3

\* What the server knows of the browser changes nothing on display, and a
\* restart ends requests only for an owner that it forgets.
LEMMA HostShows ==
    ASSUME StreamInv, Display, LoseLease \/ Renew \/ Restart
    PROVE  Display'
<1>1. CASE LoseLease \/ Renew
  <2>1. UNCHANGED <<run, tab>> /\ (access' # "forgotten" => access # "forgotten")
    BY <1>1 DEF LoseLease, Renew
  <2>. QED  BY <2>1 DEF Display, OverIsLast, EndIsTold, AnswersOfEnd, OpensAhead, NoGap, EndShowsAll, run, tab
<1>2. CASE Restart
  <2>1. /\ UNCHANGED <<n, status, over, cursor, pending, shown, stale>> /\ access' = "forgotten"
        /\ source' = IF source = "streaming" THEN "connecting" ELSE source
        /\ load' = [o \in Openings |-> IF load[o].state = "answered" THEN load[o] ELSE NoLoad]
    BY <1>2 DEF Restart, run
  <2>2. \A o \in Openings :
           \/ load'[o].state = "none"
           \/ load[o].state = "answered" /\ load'[o] = load[o]
    BY <2>1 DEF NoLoad
  <2>3. AnswersOfEnd'
    BY <2>1, <2>2 DEF Display, AnswersOfEnd, Openings
  <2>4. OpensAhead'
    BY <2>1, <2>2 DEF Display, OpensAhead, Openings
  <2>. QED  BY <2>1, <2>3, <2>4 DEF Display, OverIsLast, EndIsTold, NoGap, EndShowsAll, Following
<1>. QED  BY <1>1, <1>2

\* A tab that follows the run shows it up to its cursor, but for what waits
\* for the next frame, and a tab that is told of the end shows all of it, as
\* far as no answer has replaced what was streamed in the meantime.
THEOREM TheRunIsShown == StreamSpec => []ShowsTheRun
<1>1. StreamInit => Display
  <2>1. StreamInit => load["open"] = NoLoad /\ load["end"] = NoLoad
    BY DEF StreamInit, Openings
  <2>2. 1..0 = {}
    OBVIOUS
  <2>. QED  BY <2>1, <2>2 DEF StreamInit, NoLoad, Display, OverIsLast, EndIsTold, AnswersOfEnd, OpensAhead, NoGap, EndShowsAll
<1>2. StreamInv /\ Display /\ [StreamNext]_streamVars => Display'
  <2>. SUFFICES ASSUME StreamInv, Display, [StreamNext]_streamVars PROVE Display'
    OBVIOUS
  <2>1. CASE UNCHANGED streamVars
    BY <2>1 DEF streamVars, run, host, stream, tab, Display, OverIsLast, EndIsTold, AnswersOfEnd, OpensAhead, NoGap, EndShowsAll
  <2>. QED  BY <2>1, EngineShows, ServerShows, ConnectionShows, ReceiveShows, LoadShows, ReloadShows, HostShows DEF StreamNext, Tab
<1>3. StreamInv /\ Display => ShowsTheRun
  BY DEF StreamInv, Display, ShowsTheRun
<1>. QED  BY <1>1, <1>2, <1>3, StreamInvariant, PTL DEF StreamSpec
=============================================================================
