--------------------------- MODULE CodexTurnsProofs ---------------------------
(****************************************************************************)
(* That a turn ends once, and by its own end as long as no turn before it   *)
(* was given up, for any number of sessions, turns and faults.  All of it   *)
(* can be said of one session at a time: Good relates its queue, what the   *)
(* server makes of its turns, the ends shown, and where its thread is.  The *)
(* key is that the server ends a turn once, so that an end that was shown   *)
(* is not in the queue any more.                                            *)
(****************************************************************************)
EXTENDS CodexTurns, TLAPS

States == {"absent", "asked", "running", "waiting", "decided", "over"}
Ends == Seq({None} \cup Turns)

Types ==
    /\ server \in [Sessions -> [Turns -> States]] /\ queue \in [Sessions -> Seq(Event)]
    /\ pc \in [Sessions -> Labels] /\ turn \in [Sessions -> {None} \cup Turns]
    /\ ends \in [Sessions -> [Turns -> Ends]]

\* A turn that the server has not been asked for is unknown to it.
Before == {"entered", "joining", "reconnecting", "resumed"}
Unasked(sv, n, l) ==
    \A t \in Turns : t > n \/ (t = n /\ l \in Before) => sv[t] = "absent"

\* Of the ends in the queue: each is of a turn that is over, and there is one
\* of a turn at most, and none if it was shown.
EndsTurn(e, u) == e.kind = "end" /\ e.turn = u
Fits(q, sv, en) ==
    /\ \A i \in 1..Len(q) : IF q[i].kind = "error" THEN q[i].turn = None ELSE q[i].turn \in Turns
    /\ \A i \in 1..Len(q), u \in Turns : EndsTurn(q[i], u) => sv[u] = "over" /\ en[u] # <<u>>
    /\ \A i, j \in 1..Len(q), u \in Turns : EndsTurn(q[i], u) /\ EndsTurn(q[j], u) => i = j
    /\ \A u \in Turns : en[u] = <<u>> => sv[u] = "over"

\* OneEnd and CleanTurnsOwnEnds, of one session
After == {"returning", "failed", "idle"}
Single(en, n, l) ==
    \A t \in Turns : Len(en[t]) = IF t < n \/ (t = n /\ l \in After) THEN 1 ELSE 0
Clean(en) ==
    \A t \in Turns : (\A u \in 1..(t - 1) : en[u] = <<u>>) => en[t] \in {<<>>, <<None>>, <<t>>}

Good(s) ==
    /\ Unasked(server[s], turn[s], pc[s])
    /\ Fits(queue[s], server[s], ends[s])
    /\ Single(ends[s], turn[s], pc[s]) /\ Clean(ends[s])
    /\ pc[s] # "idle" => turn[s] \in Turns

Inv == Types /\ \A s \in Sessions : Good(s)

\* No turn has been started.
LEMMA InitInv == Init => Inv
<1> SUFFICES ASSUME Init PROVE Inv
  OBVIOUS
<1>1. Types
  BY DEF Init, Types, States, Labels, Ends, Idle
<1>2. ASSUME NEW s \in Sessions PROVE Good(s)
  <2>1. /\ queue[s] = <<>> /\ turn[s] = 0 /\ pc[s] = "idle"
        /\ \A t \in Turns : server[s][t] = "absent" /\ ends[s][t] = <<>>
    BY DEF Init, Idle, None
  <2>2. \A t \in Turns : t > 0
    BY TurnsOK DEF Turns
  <2>3. Unasked(server[s], turn[s], pc[s])
    BY <2>1 DEF Unasked
  <2>4. Fits(queue[s], server[s], ends[s])
    <3>1. Len(queue[s]) = 0 /\ \A i \in 1..Len(queue[s]) : FALSE
      BY <2>1
    <3>2. \A u \in Turns : ends[s][u] # <<u>>
      <4> TAKE u \in Turns
      <4>1. Len(<<u>>) = 1 /\ Len(<<>>) = 0
        OBVIOUS
      <4> QED BY <2>1, <4>1
    <3> QED BY <3>1, <3>2 DEF Fits
  <2>5. Single(ends[s], turn[s], pc[s])
    <3> SUFFICES ASSUME NEW t \in Turns PROVE Len(ends[s][t]) = 0 /\ ~(t < 0) /\ t # 0
      BY <2>1 DEF Single
    <3> QED BY <2>1, <2>2, TurnsOK DEF Turns
  <2>6. Clean(ends[s])
    BY <2>1 DEF Clean
  <2> QED BY <2>1, <2>3, <2>4, <2>5, <2>6 DEF Good
<1> QED BY <1>1, <1>2 DEF Inv
------------------------------------------------------------------------------
\* Queues and ends.

\* What is over stays over.
Later(sv, new) == \A t \in Turns : sv[t] = "over" => new[t] = "over"

\* The server goes on.
LEMMA FitsLater ==
    ASSUME NEW q, NEW sv, NEW en, Fits(q, sv, en), NEW new, Later(sv, new)
    PROVE  Fits(q, new, en)
  BY DEF Fits, Later

\* A message is put into the queue; an end is that of a turn not over so far.
LEMMA FitsPut ==
    ASSUME NEW q \in Seq(Event), NEW sv, NEW en, Fits(q, sv, en), NEW new, Later(sv, new),
           NEW kind \in {"approval", "bad", "end"}, NEW t \in Turns,
           kind = "end" => sv[t] # "over" /\ new[t] = "over"
    PROVE  Fits(Append(q, [kind |-> kind, turn |-> t]), new, en)
<1> DEFINE e == [kind |-> kind, turn |-> t]
           p == Append(q, e)
<1>1. /\ Len(q) \in Nat /\ Len(p) = Len(q) + 1 /\ p[Len(q) + 1] = e
      /\ \A i \in 1..Len(q) : p[i] = q[i]
  <2>1. e \in Event
    BY DEF Event
  <2> QED BY <2>1
<1>2. e.kind = kind /\ e.turn = t
  OBVIOUS
<1> HIDE DEF p, e
<1>3. \A i \in 1..Len(p) : i \in 1..Len(q) \/ i = Len(q) + 1
  BY <1>1
<1>4. \A u \in Turns : EndsTurn(e, u) => u = t /\ kind = "end"
  BY <1>2 DEF EndsTurn
<1>5. \A i \in 1..Len(q), u \in Turns : EndsTurn(q[i], u) => sv[u] = "over" /\ en[u] # <<u>>
  BY DEF Fits
<1>6. \A i \in 1..Len(p) : IF p[i].kind = "error" THEN p[i].turn = None ELSE p[i].turn \in Turns
  BY <1>1, <1>2, <1>3 DEF Fits
<1>7. \A i \in 1..Len(p), u \in Turns : EndsTurn(p[i], u) => new[u] = "over" /\ en[u] # <<u>>
  BY <1>1, <1>3, <1>4, <1>5 DEF Fits, Later
<1>8. \A i, j \in 1..Len(p), u \in Turns : EndsTurn(p[i], u) /\ EndsTurn(p[j], u) => i = j
  BY <1>1, <1>3, <1>4, <1>5 DEF Fits
<1>9. \A u \in Turns : en[u] = <<u>> => new[u] = "over"
  BY DEF Fits, Later
<1> QED BY <1>6, <1>7, <1>8, <1>9 DEF Fits, p, e

\* A reader ends, and all sessions hear of it.
LEMMA FitsErrors ==
    ASSUME NEW q \in Seq(Event), NEW sv, NEW en, Fits(q, sv, en),
           NEW errors \in {<<Error>>, <<Error, Error>>}
    PROVE  q \o errors \in Seq(Event) /\ Fits(q \o errors, sv, en)
<1> DEFINE p == q \o errors
<1>1. Error \in Event /\ Error.kind = "error" /\ Error.turn = None
  BY DEF Error, Event
<1>2. errors \in Seq(Event) /\ \A i \in 1..Len(errors) : errors[i] = Error
  <2>1. CASE errors = <<Error>>
    BY <1>1, <2>1
  <2>2. CASE errors = <<Error, Error>>
    <3>1. Len(errors) = 2 /\ errors[1] = Error /\ errors[2] = Error
      BY <2>2
    <3>2. \A i \in 1..2 : i = 1 \/ i = 2
      OBVIOUS
    <3>3. errors \in Seq(Event)
      BY <1>1, <2>2
    <3> QED BY <3>1, <3>2, <3>3
  <2> QED BY <2>1, <2>2
<1>3. /\ p \in Seq(Event) /\ Len(p) = Len(q) + Len(errors)
      /\ \A i \in 1..Len(p) : p[i] = IF i <= Len(q) THEN q[i] ELSE errors[i - Len(q)]
  BY <1>2
<1>4. Len(q) \in Nat /\ Len(errors) \in Nat
  BY <1>2
<1> HIDE DEF p
<1>5. \A i \in 1..Len(p) : (i \in 1..Len(q) /\ p[i] = q[i]) \/ p[i] = Error
  <2> TAKE i \in 1..Len(p)
  <2>1. CASE i <= Len(q)
    BY <1>3, <1>4, <2>1
  <2>2. CASE i > Len(q)
    <3>1. i - Len(q) \in 1..Len(errors)
      BY <1>3, <1>4, <2>2
    <3> QED BY <1>2, <1>3, <1>4, <2>2, <3>1
  <2> QED BY <1>3, <1>4, <2>1, <2>2
<1>6. \A u \in Turns : ~EndsTurn(Error, u)
  BY <1>1 DEF EndsTurn
<1>7. Fits(p, sv, en)
  BY <1>1, <1>5, <1>6 DEF Fits
<1> QED BY <1>3, <1>7 DEF p

\* The next message is taken from the queue.
LEMMA FitsTail ==
    ASSUME NEW q \in Seq(Event), q # <<>>, NEW sv, NEW en, Fits(q, sv, en)
    PROVE  /\ Tail(q) \in Seq(Event) /\ Fits(Tail(q), sv, en)
           /\ Head(q) \in Event
           /\ Head(q).turn \in IF Head(q).kind = "error" THEN {None} ELSE Turns
           /\ \A u \in Turns : EndsTurn(Head(q), u) =>
                /\ sv[u] = "over" /\ en[u] # <<u>>
                /\ \A i \in 1..Len(Tail(q)) : ~EndsTurn(Tail(q)[i], u)
<1> DEFINE p == Tail(q)
<1>1. /\ Len(q) \in Nat /\ Len(q) > 0 /\ Len(p) = Len(q) - 1 /\ p \in Seq(Event)
      /\ \A i \in 1..Len(p) : p[i] = q[i + 1] /\ i + 1 \in 1..Len(q)
      /\ Head(q) = q[1] /\ 1 \in 1..Len(q) /\ q[1] \in Event
  OBVIOUS
<1> HIDE DEF p
<1>2. \A i, j \in 1..Len(p) : i + 1 = j + 1 => i = j
  BY <1>1
<1>3. Fits(p, sv, en)
  BY <1>1, <1>2 DEF Fits
<1>4. Head(q).turn \in IF Head(q).kind = "error" THEN {None} ELSE Turns
  BY <1>1 DEF Fits
<1>5. ASSUME NEW u \in Turns, EndsTurn(Head(q), u)
      PROVE  /\ sv[u] = "over" /\ en[u] # <<u>>
             /\ \A i \in 1..Len(p) : ~EndsTurn(p[i], u)
  <2>1. \A i \in 1..Len(p) : i + 1 # 1
    BY <1>1
  <2> QED BY <1>1, <1>5, <2>1 DEF Fits
<1> QED BY <1>1, <1>3, <1>4, <1>5 DEF p

\* A turn shows an end, of a turn that is over and has no other in the queue.
Shows(en, new, c, v) == new[c] = <<v>> /\ \A t \in Turns : t # c => new[t] = en[t]
Only(q, sv, v) ==
    v \in Turns => sv[v] = "over" /\ \A i \in 1..Len(q) : ~EndsTurn(q[i], v)

LEMMA FitsShow ==
    ASSUME NEW q, NEW sv, NEW en, NEW c \in Turns, NEW v \in {None} \cup Turns, NEW new,
           Fits(q, sv, en), Only(q, sv, v), Shows(en, new, c, v)
    PROVE  Fits(q, sv, new)
<1>1. \A u \in Turns : new[u] = <<u>> => en[u] = <<u>> \/ u = v
  BY DEF Shows
<1> QED BY <1>1 DEF Fits, Only

\* ... and if it is not the end of its turn, it is that of one given up.
Fresh(en, c, v) ==
    /\ \A t \in Turns : t > c => en[t] = <<>>
    /\ v \in Turns => v <= c /\ en[v] # <<v>>

LEMMA CleanShow ==
    ASSUME NEW en, NEW c \in Turns, NEW v \in {None} \cup Turns, NEW new,
           Clean(en), Fresh(en, c, v), Shows(en, new, c, v)
    PROVE  Clean(new)
<1> SUFFICES ASSUME NEW t \in Turns, \A u \in 1..(t - 1) : new[u] = <<u>>
             PROVE  new[t] \in {<<>>, <<None>>, <<t>>}
  BY DEF Clean
<1>1. CASE t = c
  <2>1. CASE v \in Turns /\ v # c
    <3>1. v \in 1..(t - 1) /\ new[v] = en[v]
      BY <1>1, <2>1, TurnsOK DEF Turns, Shows, Fresh
    <3> QED BY <2>1, <3>1 DEF Fresh
  <2> QED BY <1>1, <2>1 DEF Shows
<1>2. CASE t > c
  BY <1>2, TurnsOK DEF Turns, Fresh, Shows
<1>3. CASE t < c
  <2>1. \A u \in 1..(t - 1) : u \in Turns /\ u # c
    BY <1>3, TurnsOK DEF Turns
  <2>2. t # c /\ \A u \in 1..(t - 1) : en[u] = <<u>>
    BY <1>3, <2>1, TurnsOK DEF Turns, Shows
  <2> QED BY <2>2 DEF Clean, Shows
<1> QED BY <1>1, <1>2, <1>3, TurnsOK DEF Turns
------------------------------------------------------------------------------
\* What is known of one session.
LEMMA SessionTypes ==
    ASSUME Inv, NEW s \in Sessions
    PROVE  /\ server[s] \in [Turns -> States] /\ queue[s] \in Seq(Event) /\ pc[s] \in Labels
           /\ turn[s] \in {None} \cup Turns /\ turn[s] \in Nat /\ ends[s] \in [Turns -> Ends]
           /\ Good(s)
  BY TurnsOK DEF Inv, Types, Turns, None

\* With its process a turn is over, unless that never heard of it.
LEMMA LostKeeps ==
    Inv => /\ Lost \in [Sessions -> [Turns -> States]]
           /\ \A s \in Sessions : /\ Later(server[s], Lost[s])
                                  /\ \A t \in Turns : server[s][t] = "absent" => Lost[s][t] = "absent"
  BY DEF Inv, Types, Lost, States, Later

\* One session changes, and perhaps the process of all.
Apart(s) ==
    \A r \in Sessions : r # s =>
        /\ server'[r] \in {server[r], Lost[r]}
        /\ queue'[r] = queue[r] /\ pc'[r] = pc[r] /\ turn'[r] = turn[r] /\ ends'[r] = ends[r]

LEMMA OneSession ==
    ASSUME Inv, Types', NEW s \in Sessions, Good(s)', Apart(s)
    PROVE  Inv'
<1>1. ASSUME NEW r \in Sessions, r # s PROVE Good(r)'
  <2>1. /\ queue'[r] = queue[r] /\ pc'[r] = pc[r] /\ turn'[r] = turn[r] /\ ends'[r] = ends[r]
        /\ server'[r] \in {server[r], Lost[r]}
    BY <1>1 DEF Apart
  <2>2. Good(r)
    BY DEF Inv
  <2>3. Later(server[r], server'[r]) /\ \A t \in Turns : server[r][t] = "absent" => server'[r][t] = "absent"
    BY <2>1, LostKeeps DEF Later
  <2>4. Fits(queue'[r], server'[r], ends'[r])
    BY <2>1, <2>2, <2>3, FitsLater DEF Good
  <2>5. Unasked(server'[r], turn'[r], pc'[r])
    BY <2>1, <2>2, <2>3 DEF Good, Unasked
  <2> QED BY <2>1, <2>2, <2>4, <2>5 DEF Good
<1> QED BY <1>1 DEF Inv

\* The server makes something of a turn.
LEMMA Served ==
    ASSUME Inv, NEW s \in Sessions, NEW t \in Turns, NEW state \in States, Serve(s, t, state),
           server[s][t] = "over" => state = "over"
    PROVE  /\ server' \in [Sessions -> [Turns -> States]]
           /\ \A r \in Sessions : r # s => server'[r] = server[r]
           /\ \A u \in Turns : server'[s][u] = IF u = t THEN state ELSE server[s][u]
           /\ Later(server[s], server'[s])
  BY DEF Inv, Types, Serve, Later

\* A thread goes on, without an end.
LEMMA GoesOn ==
    ASSUME Inv, NEW s \in Sessions, Apart(s), Types',
           turn'[s] = turn[s], ends'[s] = ends[s],
           pc'[s] \in After <=> pc[s] \in After, pc[s] = "idle" => pc'[s] = "idle",
           Unasked(server'[s], turn[s], pc'[s]), Fits(queue'[s], server'[s], ends[s])
    PROVE  Inv'
<1>1. Good(s)
  BY DEF Inv
<1>2. Single(ends'[s], turn'[s], pc'[s])
  BY <1>1 DEF Good, Single
<1>3. Good(s)'
  BY <1>1, <1>2 DEF Good
<1> QED BY <1>3, OneSession

\* A turn that has not ended has shown no end, nor has any after it.
LEMMA NothingShown ==
    ASSUME NEW en \in [Turns -> Ends], NEW n, NEW l, l \notin After, Single(en, n, l),
           NEW t \in Turns, n \in Nat, t >= n
    PROVE  en[t] = <<>>
<1>1. Len(en[t]) = 0
  BY TurnsOK DEF Single, Turns
<1>2. en[t] \in Seq({None} \cup Turns)
  BY DEF Ends
<1> QED BY <1>1, <1>2

\* The turn shows an end; the queue has no other.
LEMMA ShowKeeps ==
    ASSUME Inv, NEW s \in Sessions, pc[s] \notin After, Apart(s),
           NEW v \in {None} \cup Turns, Show(s, v), NEW l \in {"returning", "failed"}, Goto(s, l),
           turn' = turn, queue' \in [Sessions -> Seq(Event)],
           server' \in [Sessions -> [Turns -> States]],
           \A t \in Turns : server[s][t] = "absent" => server'[s][t] = "absent",
           Fits(queue'[s], server'[s], ends[s]),
           Only(queue'[s], server'[s], v),
           v \in Turns => server[s][v] = "over" /\ ends[s][v] # <<v>>
    PROVE  Inv'
<1> DEFINE c == turn[s]
<1>1. /\ Good(s) /\ c \in Turns /\ c \in Nat /\ ends[s] \in [Turns -> Ends]
      /\ pc' = [pc EXCEPT ![s] = l] /\ pc'[s] = l /\ l \in After /\ l \in Labels
  <2>1. Good(s) /\ c \in Nat /\ ends[s] \in [Turns -> Ends]
    BY SessionTypes
  <2>2. c \in Turns
    BY <2>1 DEF Good, After
  <2>3. pc' = [pc EXCEPT ![s] = l] /\ pc'[s] = l
    BY DEF Goto, Inv, Types
  <2>4. l \in After /\ l \in Labels
    BY DEF After, Labels
  <2> QED BY <2>1, <2>2, <2>3, <2>4
<1>2. \A t \in Turns : t >= c => ends[s][t] = <<>>
  BY <1>1, NothingShown DEF Good
<1>3. ends[s][c] = <<>> /\ Append(ends[s][c], v) = <<v>> /\ <<v>> \in Ends
  <2>1. ends[s][c] = <<>>
    BY <1>1, <1>2
  <2>2. Append(<<>>, v) = <<v>> /\ <<v>> \in Seq({None} \cup Turns)
    OBVIOUS
  <2> QED BY <2>1, <2>2 DEF Ends
<1>4. ends' = [ends EXCEPT ![s][c] = <<v>>] /\ ends \in [Sessions -> [Turns -> Ends]]
  BY <1>3 DEF Show, Inv, Types
<1>5. /\ ends' \in [Sessions -> [Turns -> Ends]] /\ ends'[s][c] = <<v>>
      /\ \A t \in Turns : t # c => ends'[s][t] = ends[s][t]
  BY <1>1, <1>3, <1>4
<1>6. Types'
  BY <1>1, <1>5 DEF Inv, Types
<1>7. Unasked(server'[s], turn'[s], pc'[s])
  <2>1. l \notin Before
    BY DEF Before
  <2> QED BY <1>1, <2>1 DEF Good, Unasked
<1>8. Fits(queue'[s], server'[s], ends'[s])
  <2> DEFINE q == queue'[s]
             sv == server'[s]
             en == ends[s]
             new == ends'[s]
  <2>1. Fits(q, sv, en) /\ Only(q, sv, v) /\ Shows(en, new, c, v)
    BY <1>5 DEF Shows
  <2> HIDE DEF q, sv, en, new
  <2>2. Fits(q, sv, new)
    BY <1>1, <2>1, FitsShow
  <2> QED BY <2>2 DEF q, sv, new
<1>9. Single(ends'[s], turn'[s], pc'[s])
  <2> SUFFICES ASSUME NEW t \in Turns
               PROVE  Len(ends'[s][t]) = IF t < c \/ t = c THEN 1 ELSE 0
    BY <1>1 DEF Single
  <2>1. CASE t = c
    BY <1>5, <2>1
  <2>2. CASE t # c
    BY <1>1, <1>5, <2>2 DEF Good, Single
  <2> QED BY <2>1, <2>2
<1>10. Clean(ends'[s])
  <2>1. \A t \in Turns : t > c => ends[s][t] = <<>>
    BY <1>1, <1>2, TurnsOK DEF Turns
  <2>2. v \in Turns => v <= c
    BY <1>1, TurnsOK DEF Good, Unasked, Turns
  <2> DEFINE en == ends[s]
             new == ends'[s]
  <2>3. Clean(en) /\ Fresh(en, c, v) /\ Shows(en, new, c, v)
    BY <1>1, <1>5, <2>1, <2>2 DEF Good, Fresh, Shows
  <2> HIDE DEF en, new
  <2>4. Clean(new)
    BY <1>1, <2>3, CleanShow
  <2> QED BY <2>4 DEF new
<1>11. Good(s)'
  BY <1>1, <1>7, <1>8, <1>9, <1>10 DEF Good
<1> QED BY <1>6, <1>11, OneSession

\* ... that is an error of its own.
LEMMA FailKeeps ==
    ASSUME Inv, NEW s \in Sessions, pc[s] \notin After, EndFailed(s), turn' = turn,
           queue' \in [Sessions -> Seq(Event)], server' \in [Sessions -> [Turns -> States]],
           \A r \in Sessions : r # s => server'[r] \in {server[r], Lost[r]} /\ queue'[r] = queue[r],
           \A t \in Turns : server[s][t] = "absent" => server'[s][t] = "absent",
           Fits(queue'[s], server'[s], ends[s])
    PROVE  Inv'
<1>1. /\ Show(s, None) /\ Goto(s, "failed") /\ None \in {None} \cup Turns /\ None \notin Turns
      /\ "failed" \in {"returning", "failed"}
  BY TurnsOK DEF EndFailed, None, Turns
<1>2. Apart(s)
  BY <1>1 DEF Apart, Show, Goto, Inv, Types
<1>3. Only(queue'[s], server'[s], None)
  BY <1>1 DEF Only
<1> QED BY <1>1, <1>2, <1>3, ShowKeeps

\* ... and nothing else happens, or a message is read.
LEMMA FailOnly ==
    ASSUME Inv, NEW s \in Sessions, pc[s] \notin After, EndFailed(s), turn' = turn, server' = server,
           queue' = queue \/ NextEvent(s)
    PROVE  Inv'
<1>1. Good(s) /\ queue \in [Sessions -> Seq(Event)] /\ server \in [Sessions -> [Turns -> States]]
  BY DEF Inv, Types
<1>2. /\ queue' \in [Sessions -> Seq(Event)] /\ \A r \in Sessions : r # s => queue'[r] = queue[r]
      /\ Fits(queue'[s], server'[s], ends[s])
  <2>1. CASE queue' = queue
    BY <1>1, <2>1 DEF Good
  <2>2. CASE NextEvent(s)
    <3>1. queue' = [queue EXCEPT ![s] = Tail(queue[s])] /\ queue[s] # <<>>
      BY <2>2 DEF NextEvent
    <3>2. Tail(queue[s]) \in Seq(Event) /\ Fits(Tail(queue[s]), server[s], ends[s])
      BY <1>1, <3>1, FitsTail DEF Good
    <3> QED BY <1>1, <3>1, <3>2
  <2> QED BY <2>1, <2>2
<1> QED BY <1>1, <1>2, FailKeeps
------------------------------------------------------------------------------
\* The server and the readers.

LEMMA PutKeeps ==
    ASSUME Inv, NEW s \in Sessions, NEW t \in Turns, NEW kind \in {"approval", "bad", "end"},
           Put(s, kind, t), NEW new, Later(server[s], new),
           kind = "end" => server[s][t] # "over" /\ new[t] = "over"
    PROVE  /\ queue' \in [Sessions -> Seq(Event)] /\ Fits(queue'[s], new, ends[s])
           /\ \A r \in Sessions : r # s => queue'[r] = queue[r]
<1> DEFINE e == [kind |-> kind, turn |-> t]
<1>1. queue' = [queue EXCEPT ![s] = Append(queue[s], e)] /\ queue \in [Sessions -> Seq(Event)]
  BY DEF Put, Inv, Types
<1>2. Append(queue[s], e) \in Seq(Event)
  <2>1. e \in Event
    BY DEF Event
  <2> QED BY <1>1, <2>1
<1>3. Fits(Append(queue[s], e), new, ends[s])
  BY <1>1, FitsPut DEF Inv, Good
<1> QED BY <1>1, <1>2, <1>3

\* A message of the server, and what it makes of the turn.
LEMMA ServerKeeps ==
    ASSUME Inv, NEW s \in Sessions, UNCHANGED <<pc, turn, ends>>,
           server' \in [Sessions -> [Turns -> States]], queue' \in [Sessions -> Seq(Event)],
           \A r \in Sessions : r # s => server'[r] = server[r] /\ queue'[r] = queue[r],
           \A u \in Turns : server[s][u] = "absent" => server'[s][u] = "absent",
           Fits(queue'[s], server'[s], ends[s])
    PROVE  Inv'
<1>1. Apart(s) /\ Types'
  BY DEF Apart, Inv, Types
<1>2. Unasked(server'[s], turn[s], pc'[s])
  BY DEF Inv, Good, Unasked
<1> QED BY <1>1, <1>2, GoesOn

LEMMA ServerStartsKeeps == ASSUME Inv, NEW s \in Sessions, ServerStarts(s) PROVE Inv'
<1> PICK t \in Turns :
        /\ server[s][t] = "asked" /\ Serve(s, t, IF s \in loaded THEN "running" ELSE "over")
        /\ UNCHANGED <<queue, pc, turn, ends>>
  BY DEF ServerStarts, adapter
<1> DEFINE state == IF s \in loaded THEN "running" ELSE "over"
<1>1. state \in States
  BY DEF States
<1> HIDE DEF state
<1>2. /\ server' \in [Sessions -> [Turns -> States]] /\ Later(server[s], server'[s])
      /\ \A r \in Sessions : r # s => server'[r] = server[r]
      /\ \A u \in Turns : server'[s][u] = IF u = t THEN state ELSE server[s][u]
  BY <1>1, Served DEF state
<1>3. Fits(queue'[s], server'[s], ends[s]) /\ queue' \in [Sessions -> Seq(Event)]
  BY <1>2, FitsLater DEF Inv, Good, Types
<1> QED BY <1>2, <1>3, ServerKeeps

LEMMA ServerAsksKeeps == ASSUME Inv, NEW s \in Sessions, ServerAsks(s) PROVE Inv'
<1> PICK t \in Turns :
        /\ server[s][t] = "running" /\ Serve(s, t, "waiting") /\ Put(s, "approval", t)
        /\ UNCHANGED <<pc, turn, ends>>
  BY DEF ServerAsks, web
<1>1. /\ server' \in [Sessions -> [Turns -> States]] /\ Later(server[s], server'[s])
      /\ \A r \in Sessions : r # s => server'[r] = server[r]
      /\ \A u \in Turns : server'[s][u] = IF u = t THEN "waiting" ELSE server[s][u]
  BY Served DEF States
<1>2. /\ queue' \in [Sessions -> Seq(Event)] /\ Fits(queue'[s], server'[s], ends[s])
      /\ \A r \in Sessions : r # s => queue'[r] = queue[r]
  BY <1>1, PutKeeps
<1> QED BY <1>1, <1>2, ServerKeeps

LEMMA ServerSpoilsKeeps == ASSUME Inv, NEW s \in Sessions, ServerSpoils(s) PROVE Inv'
<1> PICK t \in Turns : Put(s, "bad", t) /\ UNCHANGED <<server, pc, turn, ends>>
  BY DEF ServerSpoils, web
<1>1. Later(server[s], server[s])
  BY DEF Later
<1>2. /\ queue' \in [Sessions -> Seq(Event)] /\ Fits(queue'[s], server[s], ends[s])
      /\ \A r \in Sessions : r # s => queue'[r] = queue[r]
  BY <1>1, PutKeeps
<1> QED BY <1>2, ServerKeeps DEF Inv, Types

\* The server ends a turn once.
LEMMA ServerEndsKeeps == ASSUME Inv, NEW s \in Sessions, ServerEnds(s) PROVE Inv'
<1> PICK t \in Turns :
        /\ server[s][t] \in {"running", "waiting", "decided"}
        /\ Serve(s, t, "over") /\ Put(s, "end", t)
        /\ UNCHANGED <<pc, turn, ends>>
  BY DEF ServerEnds, web
<1>1. /\ server' \in [Sessions -> [Turns -> States]] /\ Later(server[s], server'[s])
      /\ \A r \in Sessions : r # s => server'[r] = server[r]
      /\ \A u \in Turns : server'[s][u] = IF u = t THEN "over" ELSE server[s][u]
  BY Served DEF States
<1>2. /\ queue' \in [Sessions -> Seq(Event)] /\ Fits(queue'[s], server'[s], ends[s])
      /\ \A r \in Sessions : r # s => queue'[r] = queue[r]
  BY <1>1, PutKeeps
<1> QED BY <1>1, <1>2, ServerKeeps

LEMMA ReaderEndedKeeps ==
    ASSUME Inv, NEW errors \in {<<Error>>, <<Error, Error>>}, ReaderEnded(errors), server' = server
    PROVE  Inv'
<1>1. queue' = [s \in Sessions |-> queue[s] \o errors] /\ UNCHANGED <<pc, turn, ends>>
  BY DEF ReaderEnded
<1>2. ASSUME NEW s \in Sessions PROVE queue'[s] \in Seq(Event) /\ Good(s)'
  <2>1. queue[s] \in Seq(Event) /\ Good(s)
    BY DEF Inv, Types
  <2>2. queue'[s] \in Seq(Event) /\ Fits(queue'[s], server[s], ends[s])
    BY <1>1, <2>1, FitsErrors DEF Good
  <2> QED BY <1>1, <2>1, <2>2 DEF Good
<1>3. queue' \in [Sessions -> Seq(Event)]
  BY <1>1, <1>2
<1>4. Types'
  BY <1>1, <1>3 DEF Inv, Types
<1> QED BY <1>2, <1>4 DEF Inv

LEMMA ConnectKeeps == ASSUME Inv, Connect PROVE Inv'
<1>1. PICK threads \in {{}} \cup {{s} : s \in {r \in Sessions : turn[r] = None}} :
          /\ server' = Lost /\ UNCHANGED <<pc, turn, ends>>
          /\ queue' = [s \in Sessions |-> IF s \in threads THEN <<>> ELSE queue[s]]
  BY DEF Connect, NewProcess, web
<1>2. \A s \in Sessions : queue'[s] \in {<<>>, queue[s]} /\ queue[s] \in Seq(Event)
  BY <1>1 DEF Inv, Types
<1>3. Types'
  BY <1>1, <1>2, LostKeeps DEF Inv, Types
<1>4. ASSUME NEW s \in Sessions PROVE Good(s)'
  <2>1. Good(s) /\ Later(server[s], Lost[s])
        /\ \A t \in Turns : server[s][t] = "absent" => Lost[s][t] = "absent"
    BY LostKeeps DEF Inv
  <2>2. Fits(queue[s], Lost[s], ends[s])
    BY <2>1, FitsLater DEF Good
  <2>3. Fits(queue'[s], server'[s], ends'[s])
    <3>1. CASE queue'[s] = queue[s]
      BY <1>1, <2>2, <3>1
    <3>2. CASE queue'[s] = <<>>
      <4>1. Len(queue'[s]) = 0 /\ \A i \in 1..Len(queue'[s]) : FALSE
        BY <3>2
      <4> QED BY <1>1, <2>2, <4>1 DEF Fits
    <3> QED BY <1>2, <3>1, <3>2
  <2>4. Unasked(server'[s], turn'[s], pc'[s])
    BY <1>1, <2>1 DEF Good, Unasked
  <2> QED BY <1>1, <2>1, <2>3, <2>4 DEF Good
<1> QED BY <1>3, <1>4 DEF Inv
------------------------------------------------------------------------------
\* A turn.

\* The thread goes on from a label to another; neither is after the end.
LEMMA StepKeeps ==
    ASSUME Inv, NEW s \in Sessions, pc[s] \notin After, NEW l \in Labels \ After, Goto(s, l),
           UNCHANGED <<turn, ends>>,
           server' \in [Sessions -> [Turns -> States]], queue' \in [Sessions -> Seq(Event)],
           \A r \in Sessions : r # s => server'[r] \in {server[r], Lost[r]} /\ queue'[r] = queue[r],
           Unasked(server'[s], turn[s], l), Fits(queue'[s], server'[s], ends[s])
    PROVE  Inv'
<1>1. pc' = [pc EXCEPT ![s] = l] /\ pc \in [Sessions -> Labels]
  BY DEF Goto, Inv, Types
<1>2. pc'[s] = l /\ l \notin After /\ pc[s] # "idle" /\ pc' \in [Sessions -> Labels]
  BY <1>1 DEF After
<1>3. Types'
  BY <1>2 DEF Inv, Types
<1>4. Apart(s)
  BY <1>1 DEF Apart
<1> QED BY <1>2, <1>3, <1>4, GoesOn

\* ... and nothing else changes that matters here.
LEMMA StepOnly ==
    ASSUME Inv, NEW s \in Sessions, pc[s] \notin After, NEW l \in Labels \ After, Goto(s, l),
           UNCHANGED <<server, queue, turn, ends>>, l \in Before => pc[s] \in Before
    PROVE  Inv'
<1>1. Unasked(server'[s], turn[s], l) /\ Fits(queue'[s], server'[s], ends[s])
  BY DEF Inv, Good, Unasked
<1> QED BY <1>1, StepKeeps DEF Inv, Types

LEMMA StartTurnKeeps == ASSUME Inv, NEW s \in Sessions, StartTurn(s) PROVE Inv'
<1> DEFINE n == turn[s]
<1>1. /\ pc[s] = "idle" /\ n < MaxTurns /\ turn' = [turn EXCEPT ![s] = n + 1]
      /\ pc' = [pc EXCEPT ![s] = "entered"] /\ UNCHANGED <<server, queue, ends>>
  BY DEF StartTurn, Goto, process, adapter
<1>2. Good(s) /\ n \in Nat /\ Types
  BY SessionTypes DEF Inv
<1>3. n + 1 \in Turns
  BY <1>1, <1>2, TurnsOK DEF Turns
<1>4. turn'[s] = n + 1 /\ pc'[s] = "entered" /\ Types'
  BY <1>1, <1>2, <1>3 DEF Types, Labels
<1>5. Unasked(server'[s], turn'[s], pc'[s])
  <2> SUFFICES ASSUME NEW t \in Turns, t > n + 1 \/ t = n + 1 PROVE server[s][t] = "absent"
    BY <1>1, <1>4 DEF Unasked
  <2>1. t > n
    BY <1>2, TurnsOK DEF Turns
  <2> QED BY <1>2, <2>1 DEF Good, Unasked
<1>6. Single(ends'[s], turn'[s], pc'[s])
  <2> SUFFICES ASSUME NEW t \in Turns PROVE Len(ends[s][t]) = IF t < n + 1 THEN 1 ELSE 0
    BY <1>1, <1>4 DEF Single, After
  <2>1. Len(ends[s][t]) = IF t < n \/ t = n THEN 1 ELSE 0
    BY <1>1, <1>2 DEF Good, Single, After
  <2>2. t \in Nat
    BY TurnsOK DEF Turns
  <2> QED BY <1>2, <2>1, <2>2
<1>7. Good(s)'
  BY <1>1, <1>2, <1>3, <1>4, <1>5, <1>6 DEF Good
<1>8. Apart(s)
  BY <1>1, <1>2 DEF Apart, Types
<1> QED BY <1>4, <1>7, <1>8, OneSession

LEMMA AskKeeps == ASSUME Inv, NEW s \in Sessions, Ask(s) PROVE Inv'
<1>1. /\ pc[s] \in Before /\ pc[s] \notin After /\ "asked" \in Labels \ After
      /\ Serve(s, turn[s], "asked") /\ Goto(s, "asked") /\ UNCHANGED <<queue, turn, ends>>
  BY DEF Ask, adapter, Before, After, Labels
<1>2. turn[s] \in Turns /\ Good(s) /\ turn[s] \in Nat
  BY <1>1, SessionTypes DEF Good, After
<1>3. server[s][turn[s]] = "absent"
  BY <1>1, <1>2 DEF Good, Unasked
<1>4. /\ server' \in [Sessions -> [Turns -> States]] /\ Later(server[s], server'[s])
      /\ \A r \in Sessions : r # s => server'[r] = server[r]
      /\ \A u \in Turns : server'[s][u] = IF u = turn[s] THEN "asked" ELSE server[s][u]
  BY <1>1, <1>2, <1>3, Served DEF States
<1>5. Unasked(server'[s], turn[s], "asked")
  BY <1>2, <1>4 DEF Good, Unasked, Before
<1>6. Fits(queue'[s], server'[s], ends[s])
  BY <1>1, <1>2, <1>4, FitsLater DEF Good
<1> QED BY <1>1, <1>4, <1>5, <1>6, StepKeeps DEF Inv, Types

\* A session takes the lock, and then forgets the events queued for it.
LEMMA ReconnectKeeps == ASSUME Inv, NEW s \in Sessions, Reconnect(s) PROVE Inv'
<1>1. /\ pc[s] \in Before /\ pc[s] \notin After /\ "joining" \in Labels \ After
      /\ Goto(s, "joining") /\ UNCHANGED <<server, queue, turn, ends>>
  BY DEF Reconnect, process, adapter, Before, After, Labels
<1> QED BY <1>1, StepOnly

LEMMA ForgetKeeps == ASSUME Inv, NEW s \in Sessions, Forget(s) PROVE Inv'
<1>1. /\ pc[s] \in Before /\ pc[s] \notin After /\ "reconnecting" \in Labels \ After
      /\ queue' = [queue EXCEPT ![s] = <<>>] /\ Goto(s, "reconnecting")
      /\ UNCHANGED <<server, turn, ends>>
  BY DEF Forget, Before, After, Labels
<1>2. Good(s) /\ queue \in [Sessions -> Seq(Event)] /\ <<>> \in Seq(Event)
  BY DEF Inv, Types
<1>3. queue'[s] = <<>> /\ queue' \in [Sessions -> Seq(Event)]
      /\ \A r \in Sessions : r # s => queue'[r] = queue[r]
  BY <1>1, <1>2
<1>4. Fits(queue'[s], server'[s], ends[s])
  <2>1. Len(queue'[s]) = 0 /\ \A i \in 1..Len(queue'[s]) : FALSE
    BY <1>3
  <2> QED BY <1>1, <1>2, <2>1 DEF Good, Fits
<1>5. Unasked(server'[s], turn[s], "reconnecting")
  BY <1>1, <1>2 DEF Good, Unasked, Before
<1> QED BY <1>1, <1>3, <1>4, <1>5, StepKeeps DEF Inv, Types

\* The process goes on or is a new one.
LEMMA ProcessKeeps ==
    ASSUME Inv, NEW s \in Sessions, server' = server \/ server' = Lost
    PROVE  /\ server' \in [Sessions -> [Turns -> States]] /\ Fits(queue[s], server'[s], ends[s])
           /\ \A r \in Sessions : server'[r] \in {server[r], Lost[r]}
           /\ \A t \in Turns : server[s][t] = "absent" => server'[s][t] = "absent"
           /\ Unasked(server'[s], turn[s], pc[s])
<1>1. Good(s) /\ Types
  BY DEF Inv
<1>2. CASE server' = server
  BY <1>1, <1>2 DEF Types, Good
<1>3. CASE server' = Lost
  <2>1. Fits(queue[s], Lost[s], ends[s])
    BY <1>1, LostKeeps, FitsLater DEF Good
  <2> QED BY <1>1, <1>3, <2>1, LostKeeps DEF Good, Unasked
<1> QED BY <1>2, <1>3

LEMMA ResumeKeeps == ASSUME Inv, NEW s \in Sessions, Resume(s) PROVE Inv'
<1>1. /\ pc[s] \in Before /\ pc[s] \notin After /\ "resumed" \in Labels \ After
      /\ server' = server \/ server' = Lost
      /\ Goto(s, "resumed") /\ UNCHANGED <<queue, turn, ends>>
  BY DEF Resume, NewProcess, adapter, Before, After, Labels
<1>2. Unasked(server'[s], turn[s], "resumed")
  BY <1>1, ProcessKeeps DEF Unasked, Before
<1> QED BY <1>1, <1>2, ProcessKeeps, StepKeeps DEF Inv, Types

LEMMA ResumeFailsKeeps == ASSUME Inv, NEW s \in Sessions, ResumeFails(s) PROVE Inv'
<1>1. (server' = server \/ server' = Lost) /\ queue' = queue
  BY DEF ResumeFails, NewProcess, adapter
<1>2. pc[s] \notin After /\ EndFailed(s) /\ turn' = turn
  BY DEF ResumeFails, After
<1>3. queue' \in [Sessions -> Seq(Event)] /\ server' \in [Sessions -> [Turns -> States]]
  BY <1>1, ProcessKeeps DEF Inv, Types
<1>4. \A r \in Sessions : r # s => server'[r] \in {server[r], Lost[r]} /\ queue'[r] = queue[r]
  BY <1>1, ProcessKeeps
<1>5. \A t \in Turns : server[s][t] = "absent" => server'[s][t] = "absent"
  BY <1>1, ProcessKeeps
<1>6. Fits(queue'[s], server'[s], ends[s])
  BY <1>1, ProcessKeeps
<1> QED BY <1>2, <1>3, <1>4, <1>5, <1>6, FailKeeps

LEMMA GetReplyKeeps == ASSUME Inv, NEW s \in Sessions, GetReply(s) PROVE Inv'
<1>1. pc[s] \notin After /\ "streaming" \in Labels \ After /\ "streaming" \notin Before
      /\ UNCHANGED <<server, queue, turn>>
  BY DEF GetReply, process, After, Before, Labels
<1>2. CASE reply[s] = "turn"
  <2>1. Goto(s, "streaming") /\ ends' = ends
    BY <1>2 DEF GetReply
  <2> QED BY <1>1, <2>1, StepOnly
<1>3. CASE reply[s] # "turn"
  <2>1. EndFailed(s)
    BY <1>3 DEF GetReply
  <2> QED BY <1>1, <2>1, FailOnly
<1> QED BY <1>2, <1>3

\* A terminal event is taken from the queue and shown.
LEMMA ReadEndKeeps == ASSUME Inv, NEW s \in Sessions, ReadEnd(s) PROVE Inv'
<1> DEFINE e == Head(queue[s])
           q == Tail(queue[s])
<1>1. /\ pc[s] \notin After /\ queue[s] # <<>> /\ queue' = [queue EXCEPT ![s] = q]
      /\ e.kind \in {"end", "error"} /\ Show(s, e.turn) /\ Goto(s, "returning")
      /\ UNCHANGED <<server, turn>>
  BY DEF ReadEnd, NextEvent, process, After
<1>2. Good(s) /\ queue \in [Sessions -> Seq(Event)] /\ queue[s] \in Seq(Event) /\ Types
  BY DEF Inv, Types
<1>3. /\ q \in Seq(Event) /\ Fits(q, server[s], ends[s])
      /\ e.turn \in IF e.kind = "error" THEN {None} ELSE Turns
      /\ \A u \in Turns : EndsTurn(e, u) =>
           /\ server[s][u] = "over" /\ ends[s][u] # <<u>>
           /\ \A i \in 1..Len(q) : ~EndsTurn(q[i], u)
  BY <1>1, <1>2, FitsTail DEF Good
<1> DEFINE v == e.turn
<1>4. v \in {None} \cup Turns /\ (v \in Turns => EndsTurn(e, v))
  BY <1>1, <1>3, TurnsOK DEF EndsTurn, None, Turns
<1> HIDE DEF q, v
<1>5. queue' \in [Sessions -> Seq(Event)] /\ queue'[s] = q
      /\ \A r \in Sessions : r # s => queue'[r] = queue[r]
  BY <1>1, <1>2, <1>3
<1>6. Only(queue'[s], server'[s], v) /\ (v \in Turns => server[s][v] = "over" /\ ends[s][v] # <<v>>)
  BY <1>1, <1>3, <1>4, <1>5 DEF Only
<1>7. Apart(s) /\ server' \in [Sessions -> [Turns -> States]] /\ Show(s, v)
      /\ Fits(queue'[s], server'[s], ends[s]) /\ "returning" \in {"returning", "failed"}
  <2>1. Show(s, v)
    BY <1>1 DEF v
  <2> QED BY <1>1, <1>2, <1>3, <1>5, <2>1 DEF Apart, Show, Goto, Types
<1> QED BY <1>1, <1>4, <1>5, <1>6, <1>7, ShowKeeps

\* An event is read, and the stream goes on.
LEMMA ReadKeeps ==
    ASSUME Inv, NEW s \in Sessions, NextEvent(s), UNCHANGED <<pc, turn, ends>>,
           server' \in [Sessions -> [Turns -> States]], Later(server[s], server'[s]),
           \A r \in Sessions : r # s => server'[r] = server[r],
           \A u \in Turns : server[s][u] = "absent" => server'[s][u] = "absent"
    PROVE  Inv'
<1>1. queue' = [queue EXCEPT ![s] = Tail(queue[s])] /\ queue[s] # <<>>
  BY DEF NextEvent
<1>2. Good(s) /\ queue \in [Sessions -> Seq(Event)] /\ queue[s] \in Seq(Event)
  BY DEF Inv, Types
<1>3. Tail(queue[s]) \in Seq(Event) /\ Fits(Tail(queue[s]), server[s], ends[s])
  BY <1>1, <1>2, FitsTail DEF Good
<1>4. /\ queue' \in [Sessions -> Seq(Event)] /\ queue'[s] = Tail(queue[s])
      /\ \A r \in Sessions : r # s => queue'[r] = queue[r]
  BY <1>1, <1>2, <1>3
<1>5. Fits(queue'[s], server'[s], ends[s])
  BY <1>3, <1>4, FitsLater
<1> QED BY <1>4, <1>5, ServerKeeps

LEMMA ReadApprovalKeeps == ASSUME Inv, NEW s \in Sessions, ReadApproval(s) PROVE Inv'
<1>1. NextEvent(s) /\ UNCHANGED <<pc, turn, ends>> /\ server' = server
  BY DEF ReadApproval, process
<1> QED BY <1>1, ReadKeeps DEF Inv, Types, Later

\* What an answer does to the server.
LEMMA Answered ==
    ASSUME Inv, NEW s \in Sessions, NEW t \in Turns, Answer(s, t)
    PROVE  /\ server' \in [Sessions -> [Turns -> States]] /\ Later(server[s], server'[s])
           /\ \A r \in Sessions : r # s => server'[r] = server[r]
           /\ \A u \in Turns : server[s][u] = "absent" => server'[s][u] = "absent"
<1> DEFINE state == IF server[s][t] = "waiting" THEN "decided" ELSE server[s][t]
<1>1. state \in States /\ (server[s][t] = "over" => state = "over")
      /\ (server[s][t] = "absent" => state = "absent") /\ Serve(s, t, state)
  BY DEF Answer, Inv, Types, States
<1> HIDE DEF state
<1> QED BY <1>1, Served

LEMMA ReadDecidedKeeps == ASSUME Inv, NEW s \in Sessions, ReadDecided(s) PROVE Inv'
<1> DEFINE t == Head(queue[s]).turn
<1>1. pc[s] \notin After /\ NextEvent(s) /\ Head(queue[s]).kind = "approval" /\ turn' = turn
  BY DEF ReadDecided, NextEvent, After
<1>2. t \in Turns
  BY <1>1, FitsTail DEF Inv, Good, Types, NextEvent
<1>3. CASE Answerable(s, t)
  <2>1. Answer(s, t) /\ UNCHANGED <<pc, ends>>
    BY <1>3 DEF ReadDecided
  <2> HIDE DEF t
  <2> QED BY <1>1, <1>2, <2>1, Answered, ReadKeeps
<1>4. CASE ~Answerable(s, t)
  <2>1. EndFailed(s) /\ server' = server
    BY <1>4 DEF ReadDecided
  <2> QED BY <1>1, <2>1, FailOnly
<1> QED BY <1>3, <1>4

LEMMA TimeOutKeeps == ASSUME Inv, NEW s \in Sessions, TimeOut(s) PROVE Inv'
<1>1. pc[s] \notin After /\ "stopping" \in Labels \ After /\ "stopping" \notin Before
      /\ UNCHANGED <<server, queue, turn>>
  BY DEF TimeOut, process, After, Before, Labels
<1>2. CASE alive /\ active[s] # None
  <2>1. Goto(s, "stopping") /\ ends' = ends
    BY <1>2 DEF TimeOut
  <2> QED BY <1>1, <2>1, StepOnly
<1>3. CASE ~(alive /\ active[s] # None)
  <2>1. EndFailed(s)
    BY <1>3 DEF TimeOut
  <2> QED BY <1>1, <2>1, FailOnly
<1> QED BY <1>2, <1>3

\* Without a process, on something unusable, in silence, or after an interrupt, the turn fails.
LEMMA FailuresKeep ==
    ASSUME Inv, NEW s \in Sessions, AskFails(s) \/ ReadBad(s) \/ Silence(s) \/ Stopped(s)
    PROVE  Inv'
<1>1. CASE AskFails(s)
  <2>1. pc[s] \notin After /\ EndFailed(s) /\ turn' = turn /\ server' = server /\ queue' = queue
    BY <1>1 DEF AskFails, process, adapter, After
  <2> QED BY <2>1, FailOnly
<1>2. CASE ReadBad(s)
  <2>1. pc[s] \notin After /\ EndFailed(s) /\ turn' = turn /\ server' = server /\ NextEvent(s)
    BY <1>2 DEF ReadBad, NextEvent, process, After
  <2> QED BY <2>1, FailOnly
<1>3. CASE Stopped(s)
  <2>1. pc[s] \notin After /\ EndFailed(s) /\ turn' = turn /\ server' = server /\ queue' = queue
    BY <1>3 DEF Stopped, process, After
  <2> QED BY <2>1, FailOnly
<1>4. CASE Silence(s)
  <2>1. pc[s] \notin After /\ EndFailed(s) /\ turn' = turn /\ server' = server /\ queue' = queue
    BY <1>4 DEF Silence, process, adapter, After
  <2> QED BY <2>1, FailOnly
<1> QED BY <1>1, <1>2, <1>3, <1>4

\* The turn's thread is done.
LEMMA DoneKeeps == ASSUME Inv, NEW s \in Sessions, Return(s) \/ Fail(s) PROVE Inv'
<1>1. /\ pc[s] \in {"returning", "failed"} /\ pc' = [pc EXCEPT ![s] = "idle"]
      /\ UNCHANGED <<server, queue, turn, ends>>
  BY DEF Return, Fail, Goto, process, adapter
<1>2. /\ pc'[s] = "idle" /\ pc[s] \in After /\ "idle" \in After /\ "idle" \notin Before
      /\ pc' \in [Sessions -> Labels]
  BY <1>1 DEF Inv, Types, Labels, After, Before
<1>3. Types' /\ Apart(s)
  BY <1>1, <1>2 DEF Apart, Inv, Types
<1>4. Unasked(server'[s], turn[s], pc'[s]) /\ Fits(queue'[s], server'[s], ends[s])
  BY <1>1, <1>2 DEF Inv, Good, Unasked
<1>5. pc[s] # "idle" /\ turn'[s] = turn[s] /\ ends'[s] = ends[s]
  BY <1>1
<1> QED BY <1>2, <1>3, <1>4, <1>5, GoesOn

LEMMA DecideKeeps == ASSUME Inv, NEW s \in Sessions, Decide(s) PROVE Inv'
<1> PICK t \in shown[s] :
        /\ IF Answerable(s, t) THEN Answer(s, t) ELSE server' = server
        /\ UNCHANGED <<queue, pc, turn, ends>>
  BY DEF Decide
<1>1. CASE Answerable(s, t) /\ t \in Turns
  <2>1. /\ server' \in [Sessions -> [Turns -> States]] /\ Later(server[s], server'[s])
        /\ \A r \in Sessions : r # s => server'[r] = server[r]
        /\ \A u \in Turns : server[s][u] = "absent" => server'[s][u] = "absent"
    BY <1>1, Answered
  <2>2. Fits(queue'[s], server'[s], ends[s]) /\ queue' \in [Sessions -> Seq(Event)]
    BY <2>1, FitsLater DEF Inv, Good, Types
  <2> QED BY <2>1, <2>2, ServerKeeps
<1>2. CASE ~(Answerable(s, t) /\ t \in Turns)
  <2>1. server' = server
    BY <1>2 DEF Answer, Serve, Inv, Types
  <2> QED BY <2>1 DEF Inv, Types, Good
<1> QED BY <1>1, <1>2
------------------------------------------------------------------------------
\* The theorems.

LEMMA StutterKeeps == Inv /\ UNCHANGED <<server, queue, pc, turn, ends>> => Inv'
  BY DEF Inv, Types, Good

LEMMA StepInv == Inv /\ [Next]_vars => Inv'
<1> SUFFICES ASSUME Inv, [Next]_vars PROVE Inv'
  OBVIOUS
<1>1. ASSUME NEW s \in Sessions, Step(s) PROVE Inv'
  BY <1>1, AskKeeps, ReconnectKeeps, ForgetKeeps, ResumeKeeps, ResumeFailsKeeps, GetReplyKeeps, ReadEndKeeps,
     ReadApprovalKeeps, ReadDecidedKeeps, TimeOutKeeps, FailuresKeep, DoneKeeps DEF Step
<1>2. ASSUME NEW s \in Sessions,
             StartTurn(s) \/ Decide(s) \/ ServerStarts(s) \/ ServerAsks(s) \/ ServerSpoils(s) \/ ServerEnds(s)
      PROVE  Inv'
  BY <1>2, StartTurnKeeps, DecideKeeps, ServerStartsKeeps, ServerAsksKeeps, ServerSpoilsKeeps,
     ServerEndsKeeps
<1>3. CASE ReaderEnds \/ ReaderFails \/ ZombieEnds
  <2>1. server' = server /\ (ReaderEnded(<<Error>>) \/ ReaderEnded(<<Error, Error>>))
    BY <1>3 DEF ReaderEnds, ReaderFails, ZombieEnds
  <2> QED BY <2>1, ReaderEndedKeeps
<1>4. CASE Die \/ UNCHANGED vars
  <2>1. UNCHANGED <<server, queue, pc, turn, ends>>
    BY <1>4 DEF Die, vars, process, adapter, web
  <2> QED BY <2>1, StutterKeeps
<1>5. CASE Connect
  BY <1>5, ConnectKeeps
<1> QED BY <1>1, <1>2, <1>3, <1>4, <1>5 DEF Next

LEMMA Invariant == Spec => []Inv
  BY InitInv, StepInv, PTL DEF Spec

\* Whatever fails, and on whichever side, the browser is shown exactly one
\* terminal event per turn (AgentWebService._run_turn and stream_turn).
THEOREM TurnsEndOnce == Spec => []OneEnd
<1>1. Inv => OneEnd
  <2> SUFFICES ASSUME Inv, NEW s \in Sessions, NEW t \in Turns
               PROVE  Len(ends[s][t]) =
                        IF t < turn[s] \/ (t = turn[s] /\ pc[s] \in {"returning", "failed", "idle"})
                        THEN 1 ELSE 0
    BY DEF OneEnd
  <2> QED BY DEF Inv, Good, Single, After
<1> QED BY <1>1, Invariant, PTL

\* A turn that sees an end other than its own comes after one that was given
\* up (CodexAdapter.stream_turn reads one queue per session).
THEOREM EndsAreOwn == Spec => []CleanTurnsOwnEnds
<1>1. Inv => CleanTurnsOwnEnds
  BY DEF Inv, Good, Clean, CleanTurnsOwnEnds
<1> QED BY <1>1, Invariant, PTL
------------------------------------------------------------------------------
(****************************************************************************)
(* The adapter's tables.  The table of open approvals is cleared only with  *)
(* a reader or a process, so that WaitingIsOpen is inductive.  The table of *)
(* active turns is cleared for all sessions while the process is dead; by   *)
(* then each session that is streamed is being told of the end, which is    *)
(* true as soon as the reader has ended, before anybody reconnects.  If it  *)
(* is cleared while a process runs, that is remembered.                     *)
(****************************************************************************)
Rest ==
    /\ alive \in BOOLEAN /\ reader \in {"running", "ended"} /\ zombie \in {"none", "running", "ended"}
    /\ loaded \subseteq Sessions /\ open \subseteq Sessions \X Turns
    /\ active \in [Sessions -> {None} \cup Turns]
    /\ reply \in [Sessions -> {"none", "turn", "error", "failure"}]
    /\ shown \in [Sessions -> SUBSET Turns] /\ faults \in Nat /\ crossed \in BOOLEAN

\* A process that runs has a reader.
ReaderRuns == alive => reader = "running"

\* A session that streams is told of the end, or will be by an older reader.
ErrorIn(q) == \E i \in 1..Len(q) : q[i] = Error
Hears(s) == zombie = "running" \/ ErrorIn(queue[s])
Told(s) == ~alive /\ reader = "ended" /\ pc[s] \in {"asked", "streaming"} => Hears(s)
Found(s) == pc[s] = "streaming" /\ active[s] # turn[s] => active[s] = None /\ (crossed \/ Hears(s))

\* A turn that stayed active was given up, and so was each one since.
GivenUp(s) ==
    active[s] # None =>
        /\ active[s] <= turn[s]
        /\ \A t \in Turns : /\ active[s] <= t
                            /\ t < turn[s] \/ (t = turn[s] /\ pc[s] \in {"failed", "idle"})
                            => ends[s][t] = <<None>>

Tables ==
    /\ Inv /\ Rest /\ ReaderRuns /\ WaitingIsOpen
    /\ \A s \in Sessions : Told(s) /\ Found(s) /\ GivenUp(s)

LEMMA ErrorsAre ==
    ASSUME NEW errors \in {<<Error>>, <<Error, Error>>}
    PROVE  errors \in Seq(Event) /\ Len(errors) > 0 /\ errors[1] = Error
<1>1. Error \in Event
  BY DEF Error, Event
<1>2. CASE errors = <<Error>>
  BY <1>1, <1>2
<1>3. CASE errors = <<Error, Error>>
  BY <1>1, <1>3
<1> QED BY <1>2, <1>3

\* What a session is told is its next message, or still in its queue.
LEMMA ErrorStays ==
    ASSUME NEW q \in Seq(Event), ErrorIn(q)
    PROVE  /\ \A e \in Event : ErrorIn(Append(q, e))
           /\ \A errors \in {<<Error>>, <<Error, Error>>} : ErrorIn(q \o errors)
           /\ q # <<>> /\ (Head(q).kind # "error" => ErrorIn(Tail(q)))
<1>1. PICK i \in 1..Len(q) : q[i] = Error
  BY DEF ErrorIn
<1>2. ASSUME NEW e \in Event PROVE ErrorIn(Append(q, e))
  <2>1. i \in 1..Len(Append(q, e)) /\ Append(q, e)[i] = Error
    BY <1>1
  <2> QED BY <2>1 DEF ErrorIn
<1>3. ASSUME NEW errors \in {<<Error>>, <<Error, Error>>} PROVE ErrorIn(q \o errors)
  <2>1. errors \in Seq(Event)
    BY ErrorsAre
  <2>2. i \in 1..Len(q \o errors) /\ (q \o errors)[i] = Error
    BY <1>1, <2>1
  <2> QED BY <2>2 DEF ErrorIn
<1>4. ASSUME Head(q).kind # "error" PROVE ErrorIn(Tail(q))
  <2>1. Error.kind = "error"
    BY DEF Error
  <2>2. i # 1
    BY <1>1, <1>4, <2>1
  <2>3. i - 1 \in 1..Len(Tail(q)) /\ Tail(q)[i - 1] = q[i]
    BY <1>1, <2>2
  <2> QED BY <1>1, <2>3 DEF ErrorIn
<1>5. q # <<>>
  BY <1>1
<1> QED BY <1>2, <1>3, <1>4, <1>5

LEMMA ErrorsTell ==
    ASSUME NEW q \in Seq(Event), NEW errors \in {<<Error>>, <<Error, Error>>}
    PROVE  ErrorIn(q \o errors)
<1>1. errors \in Seq(Event) /\ Len(errors) > 0 /\ errors[1] = Error
  BY ErrorsAre
<1>2. Len(q) + 1 \in 1..Len(q \o errors) /\ (q \o errors)[Len(q) + 1] = Error
  BY <1>1
<1> QED BY <1>2 DEF ErrorIn


\* The types of what Inv does not mention.
LEMMA RestKeeps == ASSUME Inv, Rest, Next PROVE Rest'
<1>1. /\ None \in {None} \cup Turns /\ Idle \in [Sessions -> {None} \cup Turns]
      /\ turn \in [Sessions -> {None} \cup Turns]
  BY DEF Idle, Inv, Types
<1> HIDE DEF None
<1>2. ASSUME NEW s \in Sessions, NEW t \in Turns, Answer(s, t) PROVE open' \subseteq Sessions \X Turns
  BY <1>2 DEF Answer, Rest
<1>3. ASSUME NEW s \in Sessions, NextEvent(s), Head(queue[s]).kind = "approval"
      PROVE  Head(queue[s]).turn \in Turns
  <2>1. queue[s] \in Seq(Event) /\ queue[s] # <<>> /\ Fits(queue[s], server[s], ends[s])
    BY <1>3, SessionTypes DEF NextEvent, Good
  <2> QED BY <1>3, <2>1, FitsTail
<1>4. ASSUME NEW s \in Sessions, Step(s) PROVE Rest'
  <2>1. CASE Ask(s) \/ AskFails(s) \/ Reconnect(s) \/ ReadEnd(s) \/ ReadBad(s) \/ Silence(s) \/ Fail(s)
    BY <2>1 DEF Rest, Ask, AskFails, Reconnect, ReadEnd, ReadBad, Silence, Fail, process, adapter, web
  <2>2. CASE Forget(s)
    BY <1>1, <2>2 DEF Rest, Forget
  <2>3. CASE Resume(s) \/ ResumeFails(s)
    BY <2>3 DEF Rest, Resume, ResumeFails, NewProcess, adapter
  <2>4. CASE GetReply(s) \/ TimeOut(s) \/ Stopped(s) \/ Return(s)
    <3>1. UNCHANGED <<alive, reader, zombie, loaded, open, shown, faults, crossed>>
      BY <2>4 DEF GetReply, TimeOut, Stopped, Return, process
    <3>2. active' = active \/ active' = [active EXCEPT ![s] = turn[s]] \/ active' = [active EXCEPT ![s] = None]
      BY <2>4 DEF GetReply, TimeOut, Stopped, Return
    <3>3. reply' = reply \/ reply' = [reply EXCEPT ![s] = "none"]
      BY <2>4 DEF GetReply, TimeOut, Stopped, Return
    <3>4. active' \in [Sessions -> {None} \cup Turns]
      BY <1>1, <3>2 DEF Rest
    <3>5. reply' \in [Sessions -> {"none", "turn", "error", "failure"}]
      BY <3>3 DEF Rest
    <3> QED BY <3>1, <3>4, <3>5 DEF Rest
  <2>5. CASE ReadApproval(s)
    <3>1. shown' = [shown EXCEPT ![s] = @ \cup {Head(queue[s]).turn}] /\ Head(queue[s]).turn \in Turns
      BY <1>3, <2>5 DEF ReadApproval
    <3>2. shown' \in [Sessions -> SUBSET Turns]
      BY <3>1 DEF Rest
    <3> QED BY <2>5, <3>2 DEF Rest, ReadApproval, process
  <2>6. CASE ReadDecided(s)
    <3>1. Head(queue[s]).turn \in Turns
      BY <1>3, <2>6 DEF ReadDecided
    <3>2. open' \subseteq Sessions \X Turns
      <4>1. Answer(s, Head(queue[s]).turn) \/ open' = open
        BY <2>6 DEF ReadDecided
      <4> QED BY <1>2, <3>1, <4>1 DEF Rest
    <3> QED BY <2>6, <3>2 DEF Rest, ReadDecided
  <2> QED BY <1>4, <2>1, <2>2, <2>3, <2>4, <2>5, <2>6 DEF Step
<1>5. ASSUME NEW s \in Sessions, ServerStarts(s) \/ ServerAsks(s) \/ ServerSpoils(s) \/ ServerEnds(s)
      PROVE  Rest'
  <2>1. CASE ServerStarts(s)
    <3>1. /\ UNCHANGED <<alive, reader, zombie, loaded, open, active, shown, faults, crossed>>
          /\ reply' = reply \/ reply' = [reply EXCEPT ![s] = "turn"] \/ reply' = [reply EXCEPT ![s] = "error"]
      BY <2>1 DEF ServerStarts, adapter
    <3>2. reply' \in [Sessions -> {"none", "turn", "error", "failure"}]
      BY <3>1 DEF Rest
    <3> QED BY <3>1, <3>2 DEF Rest
  <2>2. CASE ServerAsks(s)
    BY <2>2 DEF Rest, ServerAsks, web
  <2>3. CASE ServerSpoils(s) \/ ServerEnds(s)
    BY <2>3 DEF Rest, ServerSpoils, ServerEnds, web
  <2> QED BY <1>5, <2>1, <2>2, <2>3
<1>6. ASSUME NEW s \in Sessions, StartTurn(s) \/ Decide(s) PROVE Rest'
  <2>1. CASE StartTurn(s)
    BY <2>1 DEF Rest, StartTurn, process, adapter
  <2>2. CASE Decide(s)
    <3> PICK t \in shown[s] :
            /\ shown' = [shown EXCEPT ![s] = @ \ {t}]
            /\ IF Answerable(s, t) THEN Answer(s, t) ELSE UNCHANGED <<open, server>>
            /\ UNCHANGED <<alive, reader, zombie, loaded, faults, active, crossed, reply>>
      BY <2>2 DEF Decide
    <3>1. t \in Turns /\ shown' \in [Sessions -> SUBSET Turns]
      BY DEF Rest
    <3>2. open' \subseteq Sessions \X Turns
      BY <1>2, <3>1 DEF Rest
    <3> QED BY <3>1, <3>2 DEF Rest
  <2> QED BY <1>6, <2>1, <2>2
<1>7. CASE Die \/ ReaderEnds \/ ReaderFails \/ ZombieEnds \/ Connect
  <2>1. ASSUME NEW errors, ReaderEnded(errors)
        PROVE  /\ open' \subseteq Sessions \X Turns
               /\ reply' \in [Sessions -> {"none", "turn", "error", "failure"}]
               /\ UNCHANGED <<active, crossed, shown>>
    BY <2>1 DEF ReaderEnded, Rest
  <2>2. faults' \in Nat
    BY <1>7 DEF Rest, Die, ReaderEnds, ReaderFails, ZombieEnds, Connect
  <2>3. /\ alive' \in BOOLEAN /\ reader' \in {"running", "ended"} /\ zombie' \in {"none", "running", "ended"}
        /\ loaded' \subseteq Sessions
    <3>1. CASE Connect
      <4>1. PICK threads \in {{}} \cup {{s} : s \in {r \in Sessions : turn[r] = None}} : NewProcess(threads)
        BY <3>1 DEF Connect
      <4>2. threads \subseteq Sessions
        OBVIOUS
      <4> QED BY <4>1, <4>2 DEF Rest, NewProcess
    <3> QED BY <1>7, <3>1 DEF Rest, Die, ReaderEnds, ReaderFails, ZombieEnds
  <2>4. CASE ReaderEnds \/ ReaderFails \/ ZombieEnds
    <3>1. ReaderEnded(<<Error>>) \/ ReaderEnded(<<Error, Error>>)
      BY <2>4 DEF ReaderEnds, ReaderFails, ZombieEnds
    <3> QED BY <2>1, <2>2, <2>3, <3>1 DEF Rest
  <2>5. CASE Die \/ Connect
    <3>1. UNCHANGED <<open, active, crossed, reply, shown>>
      BY <2>5 DEF Die, Connect, adapter, web
    <3> QED BY <2>2, <2>3, <3>1 DEF Rest
  <2> QED BY <1>7, <2>4, <2>5
<1> QED BY <1>4, <1>5, <1>6, <1>7 DEF Next

\* A process gets its reader with it, and takes it along.
LEMMA ReaderKeeps == ASSUME ReaderRuns, Next PROVE ReaderRuns'
<1>1. ASSUME NEW s \in Sessions, Step(s) PROVE ReaderRuns'
  BY <1>1 DEF ReaderRuns, Step, Ask, Reconnect, Forget, Resume, ResumeFails, AskFails, GetReply, ReadEnd, ReadApproval,
              ReadDecided, ReadBad, TimeOut, Silence, Stopped, Return, Fail, NewProcess, process
<1>2. ASSUME NEW s \in Sessions,
             StartTurn(s) \/ Decide(s) \/ ServerStarts(s) \/ ServerAsks(s) \/ ServerSpoils(s) \/ ServerEnds(s)
      PROVE  ReaderRuns'
  BY <1>2 DEF ReaderRuns, StartTurn, Decide, ServerStarts, ServerAsks, ServerSpoils, ServerEnds, process
<1>3. CASE Die \/ ReaderEnds \/ ReaderFails \/ ZombieEnds \/ Connect
  BY <1>3 DEF ReaderRuns, Die, ReaderEnds, ReaderFails, ZombieEnds, Connect, NewProcess
<1> QED BY <1>1, <1>2, <1>3 DEF Next

\* Nothing is asked for by the turns of a process that has gone.
LEMMA NewProcessWaits ==
    ASSUME NEW threads, NewProcess(threads) PROVE WaitingIsOpen'
<1>1. \A s \in Sessions, t \in Turns : server'[s][t] # "waiting"
  BY DEF NewProcess, Lost
<1> QED BY <1>1 DEF WaitingIsOpen

\* An approval that is asked for is in the table until it is answered, or until nobody hears.
LEMMA WaitingKeeps == ASSUME Inv, WaitingIsOpen, Next PROVE WaitingIsOpen'
<1>1. ASSUME UNCHANGED <<alive, reader, zombie, server, open, crossed>> PROVE WaitingIsOpen'
  BY <1>1 DEF WaitingIsOpen
<1>2. ASSUME NEW s \in Sessions, NEW t \in Turns, Answer(s, t), UNCHANGED <<alive, reader, zombie, crossed>>
      PROVE  WaitingIsOpen'
  <2>1. open' = open \ {<<s, t>>} /\ server'[s][t] # "waiting"
        /\ \A r \in Sessions, u \in Turns : server'[r][u] = "waiting" => server[r][u] = "waiting"
    BY <1>2 DEF Answer, Serve, Inv, Types
  <2>2. ASSUME NEW r \in Sessions, NEW u \in Turns, server'[r][u] = "waiting", <<r, u>> \in open
        PROVE  <<r, u>> \in open'
    BY <2>1, <2>2
  <2> QED BY <1>2, <2>1, <2>2 DEF WaitingIsOpen
<1>3. ASSUME NEW s \in Sessions, NEW t \in Turns, NEW state \in States, Serve(s, t, state),
             UNCHANGED <<alive, reader, zombie, crossed>>, open \subseteq open', state = "waiting" => <<s, t>> \in open'
      PROVE  WaitingIsOpen'
  <2>1. /\ server'[s][t] = state
        /\ \A r \in Sessions, u \in Turns : r # s \/ u # t => server'[r][u] = server[r][u]
    BY <1>3 DEF Serve, Inv, Types
  <2>2. ASSUME NEW r \in Sessions, NEW u \in Turns, server'[r][u] = "waiting"
        PROVE  server[r][u] = "waiting" \/ <<r, u>> \in open'
    BY <1>3, <2>1, <2>2
  <2> QED BY <1>3, <2>2 DEF WaitingIsOpen
<1>4. ASSUME NEW s \in Sessions, Step(s) PROVE WaitingIsOpen'
  <2>1. CASE AskFails(s) \/ GetReply(s) \/ ReadEnd(s) \/ ReadApproval(s) \/ ReadBad(s) \/ TimeOut(s)
             \/ Reconnect(s) \/ Silence(s) \/ Stopped(s) \/ Return(s) \/ Fail(s)
    <3>1. UNCHANGED <<alive, reader, zombie, server, open, crossed>>
      BY <2>1 DEF AskFails, Reconnect, GetReply, ReadEnd, ReadApproval, ReadBad, TimeOut, Silence, Stopped, Return, Fail,
                  process, adapter
    <3> QED BY <1>1, <3>1
  <2>2. CASE Ask(s)
    <3>1. turn[s] \in Turns
      BY <2>2, SessionTypes DEF Good, Ask
    <3>2. Serve(s, turn[s], "asked") /\ UNCHANGED <<alive, reader, zombie, open, crossed>> /\ "asked" \in States
      BY <2>2 DEF Ask, adapter, States
    <3> QED BY <1>3, <3>1, <3>2
  <2>3. CASE Forget(s)
    BY <2>3 DEF Forget, WaitingIsOpen
  <2>4. CASE Resume(s)
    BY <1>1, <2>4, NewProcessWaits DEF Resume, adapter
  <2>5. CASE ResumeFails(s)
    BY <1>1, <2>5, NewProcessWaits DEF ResumeFails, adapter
  <2>6. CASE ReadDecided(s)
    <3> DEFINE t == Head(queue[s]).turn
    <3>1. t \in Turns
      <4>1. queue[s] \in Seq(Event) /\ queue[s] # <<>> /\ Fits(queue[s], server[s], ends[s])
        BY <2>6, SessionTypes DEF ReadDecided, NextEvent, Good
      <4> QED BY <2>6, <4>1, FitsTail DEF ReadDecided
    <3>2. UNCHANGED <<alive, reader, zombie, crossed>> /\ (Answer(s, t) \/ UNCHANGED <<open, server>>)
      BY <2>6 DEF ReadDecided
    <3> HIDE DEF t
    <3> QED BY <1>1, <1>2, <3>1, <3>2
  <2> QED BY <1>4, <2>1, <2>2, <2>3, <2>4, <2>5, <2>6 DEF Step
<1>5. ASSUME NEW s \in Sessions, ServerStarts(s) \/ ServerAsks(s) \/ ServerEnds(s)
      PROVE  WaitingIsOpen'
  <2> PICK t \in Turns, state \in {"running", "waiting", "over"} :
          /\ Serve(s, t, state) /\ UNCHANGED <<alive, reader, zombie, crossed>>
          /\ open \subseteq open' /\ (state = "waiting" => <<s, t>> \in open')
    BY <1>5 DEF ServerStarts, ServerAsks, ServerEnds, adapter
  <2>1. state \in States
    BY DEF States
  <2> QED BY <1>3, <2>1
<1>6. ASSUME NEW s \in Sessions, StartTurn(s) \/ Decide(s) \/ ServerSpoils(s) PROVE WaitingIsOpen'
  <2>1. CASE StartTurn(s) \/ ServerSpoils(s)
    <3>1. UNCHANGED <<alive, reader, zombie, server, open, crossed>>
      BY <2>1 DEF StartTurn, ServerSpoils, process, adapter
    <3> QED BY <1>1, <3>1
  <2>2. CASE Decide(s)
    <3> PICK t \in shown[s] :
            /\ IF Answerable(s, t) THEN Answer(s, t) ELSE UNCHANGED <<open, server>>
            /\ UNCHANGED <<alive, reader, zombie, crossed>>
      BY <2>2 DEF Decide
    <3>1. CASE t \in Turns
      BY <1>1, <1>2, <3>1
    <3>2. CASE t \notin Turns
      <4>1. /\ server' = server
        BY <3>2 DEF Answer, Serve, Inv, Types
      <4>2. \A r \in Sessions, u \in Turns : <<r, u>> \in open => <<r, u>> \in open'
        BY <3>2 DEF Answer
      <4> QED BY <4>1, <4>2 DEF WaitingIsOpen
    <3> QED BY <3>1, <3>2
  <2> QED BY <1>6, <2>1, <2>2
<1>7. CASE Die \/ ReaderEnds \/ ReaderFails \/ ZombieEnds
  BY <1>7 DEF Die, ReaderEnds, ReaderFails, ZombieEnds, ReaderEnded, WaitingIsOpen, adapter
<1>8. CASE Connect
  BY <1>8, NewProcessWaits DEF Connect
<1> QED BY <1>4, <1>5, <1>6, <1>7, <1>8 DEF Next

\* A session's turn is moved by its own thread only; but another session that
\* reconnects forgets what is active.
LEMMA OwnThread ==
    ASSUME Inv, Rest, Next, NEW s \in Sessions, ~Step(s), ~StartTurn(s)
    PROVE  /\ pc'[s] = pc[s] /\ turn'[s] = turn[s] /\ ends'[s] = ends[s]
           /\ \/ active'[s] = active[s]
              \/ active'[s] = None /\ \E r \in Sessions : Forget(r)
<1>1. ASSUME NEW r \in Sessions, r # s, Step(r) \/ StartTurn(r)
      PROVE  /\ pc'[s] = pc[s] /\ turn'[s] = turn[s] /\ ends'[s] = ends[s]
             /\ active'[s] = active[s] \/ (active'[s] = None /\ Forget(r))
  <2>1. /\ pc'[s] = pc[s]
    BY <1>1 DEF Step, StartTurn, Ask, Reconnect, Forget, Resume, ResumeFails, AskFails, GetReply, ReadEnd, ReadApproval,
                ReadDecided, ReadBad, TimeOut, Silence, Stopped, Return, Fail, Goto, EndFailed, Inv, Types
  <2>2. turn'[s] = turn[s]
    BY <1>1 DEF Step, StartTurn, Ask, Reconnect, Forget, Resume, ResumeFails, AskFails, GetReply, ReadEnd, ReadApproval,
                ReadDecided, ReadBad, TimeOut, Silence, Stopped, Return, Fail, Inv, Types
  <2>3. ends'[s] = ends[s]
    BY <1>1 DEF Step, StartTurn, Ask, Reconnect, Forget, Resume, ResumeFails, AskFails, GetReply, ReadEnd, ReadApproval,
                ReadDecided, ReadBad, TimeOut, Silence, Stopped, Return, Fail, EndFailed, Show, Inv, Types
  <2>4. active'[s] = active[s] \/ (active'[s] = None /\ Forget(r))
    BY <1>1 DEF Step, StartTurn, Ask, Reconnect, Forget, Resume, ResumeFails, AskFails, GetReply, ReadEnd, ReadApproval,
                ReadDecided, ReadBad, TimeOut, Silence, Stopped, Return, Fail, Rest, Idle, process, adapter
  <2> QED BY <2>1, <2>2, <2>3, <2>4
<1>2. ASSUME NEW r \in Sessions,
             Decide(r) \/ ServerStarts(r) \/ ServerAsks(r) \/ ServerSpoils(r) \/ ServerEnds(r)
      PROVE  UNCHANGED <<pc, turn, ends, active>>
  BY <1>2 DEF Decide, ServerStarts, ServerAsks, ServerSpoils, ServerEnds, adapter, web
<1>3. CASE Die \/ ReaderEnds \/ ReaderFails \/ ZombieEnds \/ Connect
  <2>1. UNCHANGED <<pc, turn, ends, active>>
    BY <1>3 DEF Die, ReaderEnds, ReaderFails, ZombieEnds, Connect, ReaderEnded, adapter, web
  <2> QED BY <2>1
<1> QED BY <1>1, <1>2, <1>3 DEF Next

\* What the queue of a session that waits for its turn's events may become.
LEMMA QueueGrows ==
    ASSUME Inv, Next, NEW s \in Sessions, pc[s] \in {"asked", "streaming"}, pc'[s] \in {"asked", "streaming"}
    PROVE  \/ queue'[s] = queue[s]
           \/ \E e \in Event : queue'[s] = Append(queue[s], e)
           \/ \E errors \in {<<Error>>, <<Error, Error>>} : queue'[s] = queue[s] \o errors
           \/ Head(queue[s]).kind # "error" /\ queue'[s] = Tail(queue[s])
<1> USE DEF Inv, Types
<1>1. ASSUME NEW r \in Sessions, Step(r) \/ StartTurn(r) \/ Decide(r)
      PROVE  queue'[s] = queue[s] \/ (Head(queue[s]).kind # "error" /\ queue'[s] = Tail(queue[s]))
  <2>1. CASE StartTurn(r) \/ Decide(r) \/ Ask(r) \/ Reconnect(r) \/ Resume(r) \/ ResumeFails(r) \/ AskFails(r) \/ GetReply(r)
             \/ TimeOut(r) \/ Silence(r) \/ Stopped(r) \/ Return(r) \/ Fail(r)
    BY <2>1 DEF StartTurn, Decide, Ask, Reconnect, Resume, ResumeFails, AskFails, GetReply, TimeOut, Silence, Stopped, Return, Fail,
                adapter
  <2>2. CASE Forget(r)
    <3>1. r # s
      BY <2>2 DEF Forget
    <3> QED BY <2>2, <3>1 DEF Forget
  <2>3. CASE ReadEnd(r)
    <3>1. r # s
      BY <2>3 DEF ReadEnd, Goto
    <3> QED BY <2>3, <3>1 DEF ReadEnd, NextEvent
  <2>4. CASE ReadApproval(r) \/ ReadDecided(r) \/ ReadBad(r)
    BY <2>4 DEF ReadApproval, ReadDecided, ReadBad, NextEvent
  <2> QED BY <1>1, <2>1, <2>2, <2>3, <2>4 DEF Step
<1>2. ASSUME NEW r \in Sessions, ServerStarts(r) \/ ServerAsks(r) \/ ServerSpoils(r) \/ ServerEnds(r)
      PROVE  queue'[s] = queue[s] \/ \E e \in Event : queue'[s] = Append(queue[s], e)
  <2>1. CASE ServerStarts(r)
    BY <2>1 DEF ServerStarts, adapter
  <2>2. CASE ServerAsks(r) \/ ServerSpoils(r) \/ ServerEnds(r)
    <3> PICK kind \in {"approval", "bad", "end"}, t \in Turns : Put(r, kind, t)
      BY <2>2 DEF ServerAsks, ServerSpoils, ServerEnds
    <3>1. [kind |-> kind, turn |-> t] \in Event
      BY DEF Event
    <3>2. queue'[s] = queue[s] \/ queue'[s] = Append(queue[s], [kind |-> kind, turn |-> t])
      BY DEF Put
    <3> QED BY <3>1, <3>2
  <2> QED BY <1>2, <2>1, <2>2
<1>3. CASE ReaderEnds \/ ReaderFails \/ ZombieEnds
  <2>1. PICK errors \in {<<Error>>, <<Error, Error>>} : ReaderEnded(errors)
    BY <1>3 DEF ReaderEnds, ReaderFails, ZombieEnds
  <2> QED BY <2>1 DEF ReaderEnded
<1>4. CASE Die
  BY <1>4 DEF Die, adapter
<1>5. CASE Connect
  <2>1. turn[s] # None
    BY SessionTypes, TurnsOK DEF Good, Turns, None
  <2> QED BY <1>5, <2>1 DEF Connect
<1> QED BY <1>1, <1>2, <1>3, <1>4, <1>5 DEF Next

\* Readers that end tell all sessions.
LEMMA EndingTells ==
    ASSUME Inv, NEW s \in Sessions, ReaderEnds \/ ReaderFails \/ ZombieEnds
    PROVE  Hears(s)'
<1>1. PICK errors \in {<<Error>>, <<Error, Error>>} : ReaderEnded(errors)
  BY DEF ReaderEnds, ReaderFails, ZombieEnds
<1>2. queue'[s] = queue[s] \o errors /\ queue[s] \in Seq(Event)
  BY <1>1 DEF ReaderEnded, Inv, Types
<1>3. ErrorIn(queue'[s])
  BY <1>2, ErrorsTell
<1> QED BY <1>3 DEF Hears

LEMMA HearsStays ==
    ASSUME Inv, Next, NEW s \in Sessions, Hears(s),
           pc[s] \in {"asked", "streaming"}, pc'[s] \in {"asked", "streaming"}
    PROVE  Hears(s)'
<1>1. CASE zombie = "running"
  <2>1. ZombieEnds \/ zombie' = "running"
    <3>1. ASSUME NEW r \in Sessions, Step(r) PROVE zombie' = "running"
      BY <1>1, <3>1 DEF Step, Ask, Reconnect, Forget, Resume, ResumeFails, AskFails, GetReply, ReadEnd, ReadApproval,
                        ReadDecided, ReadBad, TimeOut, Silence, Stopped, Return, Fail, NewProcess, process
    <3>2. ASSUME NEW r \in Sessions, StartTurn(r) \/ Decide(r) \/ ServerStarts(r) \/ ServerAsks(r)
                                     \/ ServerSpoils(r) \/ ServerEnds(r)
          PROVE  zombie' = "running"
      BY <1>1, <3>2 DEF StartTurn, Decide, ServerStarts, ServerAsks, ServerSpoils, ServerEnds, process
    <3>3. CASE Die \/ ReaderEnds \/ ReaderFails \/ Connect
      BY <1>1, <3>3 DEF Die, ReaderEnds, ReaderFails, Connect, NewProcess
    <3> QED BY <3>1, <3>2, <3>3 DEF Next
  <2> QED BY <2>1, EndingTells DEF Hears
<1>2. CASE ErrorIn(queue[s])
  <2>1. queue[s] \in Seq(Event)
    BY DEF Inv, Types
  <2>2. ErrorIn(queue'[s])
    BY <1>2, <2>1, QueueGrows, ErrorStays
  <2> QED BY <2>2 DEF Hears
<1> QED BY <1>1, <1>2 DEF Hears

\* A turn that has asked its process is told when that has gone.
LEMMA ToldKeeps ==
    ASSUME Inv, Rest, ReaderRuns, Next, NEW s \in Sessions, Told(s)
    PROVE  Told(s)'
<1> SUFFICES ASSUME ~alive', reader' = "ended", pc'[s] \in {"asked", "streaming"}
             PROVE  Hears(s)'
  BY DEF Told
<1>1. pc[s] \in {"asked", "streaming"}
  <2>1. ASSUME NEW l \in {"entered", "joining", "reconnecting", "resumed", "stopping", "returning", "failed", "idle"}
        PROVE  ~Goto(s, l)
    BY DEF Goto, Inv, Types
  <2>2. ~Ask(s)
    <3>1. Ask(s) => alive /\ alive' = alive
      BY DEF Ask
    <3> QED BY <3>1
  <2>3. CASE Step(s) \/ StartTurn(s)
    BY <2>1, <2>2, <2>3 DEF Step, StartTurn, Reconnect, Forget, Resume, ResumeFails, AskFails, GetReply, ReadEnd, ReadApproval,
                ReadDecided, ReadBad, TimeOut, Silence, Stopped, Return, Fail, EndFailed, NextEvent
  <2> QED BY <2>3, OwnThread
<1>2. \/ ~alive /\ reader = "ended"
      \/ zombie' = "running"
      \/ ReaderEnds \/ ReaderFails
  <2>1. ASSUME NEW r \in Sessions, Step(r)
        PROVE  (~alive /\ reader = "ended") \/ zombie' = "running"
    BY <2>1 DEF Step, Ask, Reconnect, Forget, Resume, ResumeFails, AskFails, GetReply, ReadEnd, ReadApproval,
                ReadDecided, ReadBad, TimeOut, Silence, Stopped, Return, Fail, NewProcess, process, Rest
  <2>2. ASSUME NEW r \in Sessions, StartTurn(r) \/ Decide(r) \/ ServerStarts(r) \/ ServerAsks(r)
                                   \/ ServerSpoils(r) \/ ServerEnds(r)
        PROVE  ~alive /\ reader = "ended"
    <3>1. alive' = alive /\ reader' = reader
      BY <2>2 DEF StartTurn, Decide, ServerStarts, ServerAsks, ServerSpoils, ServerEnds, process
    <3> QED BY <3>1
  <2>3. CASE Die \/ ZombieEnds \/ Connect
    BY <2>3 DEF Die, ZombieEnds, Connect, NewProcess, ReaderRuns
  <2> QED BY <2>1, <2>2, <2>3 DEF Next
<1>3. CASE ~alive /\ reader = "ended"
  BY <1>1, <1>3, HearsStays DEF Told
<1> QED BY <1>2, <1>3, EndingTells DEF Hears

\* Cleared tables are remembered.
LEMMA CrossedStays == ASSUME Rest, Next, crossed PROVE crossed'
<1>1. ASSUME NEW s \in Sessions, Step(s) PROVE crossed'
  BY <1>1 DEF Step, Ask, Reconnect, Forget, Resume, ResumeFails, AskFails, GetReply, ReadEnd, ReadApproval,
              ReadDecided, ReadBad, TimeOut, Silence, Stopped, Return, Fail, adapter, Rest
<1>2. ASSUME NEW s \in Sessions,
             StartTurn(s) \/ Decide(s) \/ ServerStarts(s) \/ ServerAsks(s) \/ ServerSpoils(s) \/ ServerEnds(s)
      PROVE  crossed'
  BY <1>2 DEF StartTurn, Decide, ServerStarts, ServerAsks, ServerSpoils, ServerEnds, adapter
<1>3. CASE Die \/ ReaderEnds \/ ReaderFails \/ ZombieEnds \/ Connect
  BY <1>3 DEF Die, ReaderEnds, ReaderFails, ZombieEnds, ReaderEnded, Connect, adapter
<1> QED BY <1>1, <1>2, <1>3 DEF Next

\* The turn that is streamed is active, unless it is being told of its end.
LEMMA FoundKeeps ==
    ASSUME Inv, Rest, ReaderRuns, Next, NEW s \in Sessions, Told(s), Found(s)
    PROVE  Found(s)'
<1> SUFFICES ASSUME pc'[s] = "streaming", active'[s] # turn'[s]
             PROVE  active'[s] = None /\ (crossed' \/ Hears(s)')
  BY DEF Found
<1>1. ASSUME NEW r \in Sessions, Forget(r), pc[s] = "streaming"
      PROVE  active'[s] = None /\ (crossed' \/ Hears(s)')
  <2>1. active'[s] = None /\ (alive => crossed')
    BY <1>1 DEF Forget, Idle
  <2>2. CASE ~alive /\ reader = "running"
    BY <1>1, <2>1, <2>2 DEF Forget, Hears
  <2>3. CASE ~alive /\ reader = "ended"
    <3>1. Hears(s)
      BY <1>1, <2>1, <2>3 DEF Told
    <3> QED BY <1>1, <2>1, <3>1, HearsStays
  <2> QED BY <2>1, <2>2, <2>3 DEF Rest
<1>2. CASE Step(s) \/ StartTurn(s)
  <2>1. (ReadApproval(s) \/ ReadDecided(s)) \/ GetReply(s)
    BY <1>2 DEF Step, StartTurn, Ask, Reconnect, Forget, Resume, ResumeFails, AskFails, GetReply, ReadEnd, ReadApproval,
                ReadDecided, ReadBad, TimeOut, Silence, Stopped, Return, Fail, Goto, EndFailed, NextEvent, Inv, Types
  <2>2. CASE GetReply(s)
    <3>1. active'[s] = turn[s] /\ turn'[s] = turn[s]
      BY <2>2 DEF GetReply, Goto, EndFailed, Inv, Types, Rest
    <3> QED BY <3>1
  <2>3. CASE ReadApproval(s) \/ ReadDecided(s)
    <3>1. pc[s] = "streaming" /\ active' = active /\ turn' = turn
      BY <2>3 DEF ReadApproval, ReadDecided, NextEvent
    <3> QED BY <3>1, HearsStays, CrossedStays DEF Found
  <2> QED BY <2>1, <2>2, <2>3
<1>3. CASE ~Step(s) /\ ~StartTurn(s)
  <2>1. /\ pc[s] = "streaming" /\ turn'[s] = turn[s]
        /\ active'[s] = active[s] \/ \E r \in Sessions : Forget(r)
    BY <1>3, OwnThread
  <2>2. CASE active'[s] = active[s]
    BY <2>1, <2>2, HearsStays, CrossedStays DEF Found
  <2> QED BY <1>1, <2>1, <2>2
<1> QED BY <1>2, <1>3

\* The turn fails, having shown nothing so far.
LEMMA FailureShown ==
    ASSUME Inv, NEW s \in Sessions, pc[s] \notin After, EndFailed(s)
    PROVE  /\ turn[s] \in Turns /\ pc'[s] = "failed" /\ ends'[s][turn[s]] = <<None>>
           /\ \A t \in Turns : t # turn[s] => ends'[s][t] = ends[s][t]
<1>1. Good(s) /\ turn[s] \in Turns /\ turn[s] \in Nat /\ ends[s] \in [Turns -> Ends]
  BY SessionTypes DEF Good, After
<1>2. ends[s][turn[s]] = <<>>
  BY <1>1, NothingShown DEF Good
<1>3. Append(<<>>, None) = <<None>>
  OBVIOUS
<1>4. ends' = [ends EXCEPT ![s][turn[s]] = <<None>>]
  BY <1>2, <1>3 DEF EndFailed, Show
<1> QED BY <1>1, <1>4 DEF EndFailed, Goto, Inv, Types

\* An active turn stays so only if it fails.
LEMMA GivenUpKeeps ==
    ASSUME Inv, Rest, Next, NEW s \in Sessions, GivenUp(s)
    PROVE  GivenUp(s)'
<1>1. /\ turn[s] \in Nat /\ Good(s) /\ active[s] \in {None} \cup Turns
      /\ active' \in [Sessions -> {None} \cup Turns]
  BY SessionTypes, RestKeeps DEF Rest
<1>2. \A t \in Turns : t \in Nat
  BY TurnsOK DEF Turns
<1>3. ASSUME turn'[s] = turn[s], active'[s] \in {None, active[s]}, pc[s] \notin After, EndFailed(s)
      PROVE  GivenUp(s)'
  BY <1>1, <1>2, <1>3, FailureShown DEF GivenUp
<1>4. ASSUME turn'[s] = turn[s], active'[s] \in {None, active[s]}, ends'[s] = ends[s],
             pc'[s] \in {"failed", "idle"} => pc[s] \in {"failed", "idle"}
      PROVE  GivenUp(s)'
  BY <1>4 DEF GivenUp
<1>5. CASE StartTurn(s)
  <2>1. /\ pc[s] = "idle" /\ turn'[s] = turn[s] + 1 /\ pc'[s] = "entered" /\ ends' = ends /\ active' = active
    BY <1>5 DEF StartTurn, Goto, adapter, Inv, Types
  <2>2. \A t \in Turns : t < turn[s] + 1 => t < turn[s] \/ t = turn[s]
    BY <1>1, <1>2
  <2> QED BY <1>1, <1>2, <2>1, <2>2 DEF GivenUp
<1>6. CASE Step(s)
  <2>1. CASE Ask(s) \/ Reconnect(s) \/ Resume(s) \/ ReadApproval(s)
    <3>1. /\ turn' = turn /\ active' = active /\ ends' = ends
          /\ pc'[s] \notin {"failed", "idle"}
      BY <2>1 DEF Ask, Reconnect, Resume, ReadApproval, NextEvent, Goto, adapter, Inv, Types
    <3> QED BY <1>4, <3>1
  <2>2. CASE Forget(s)
    <3>1. active'[s] = None
      BY <2>2 DEF Forget, Idle
    <3> QED BY <3>1 DEF GivenUp
  <2>3. CASE ResumeFails(s) \/ AskFails(s) \/ ReadBad(s) \/ Silence(s) \/ Stopped(s)
    <3>1. /\ turn' = turn /\ active'[s] \in {None, active[s]} /\ pc[s] \notin After /\ EndFailed(s)
      BY <2>3 DEF ResumeFails, AskFails, ReadBad, NextEvent, Silence, Stopped, After, adapter, process, Rest
    <3> QED BY <1>3, <3>1
  <2>4. CASE GetReply(s)
    <3>1. CASE reply[s] = "turn"
      <4>1. active'[s] = turn[s] /\ turn' = turn /\ pc'[s] = "streaming"
        BY <2>4, <3>1 DEF GetReply, Goto, Rest, Inv, Types
      <4>2. \A t \in Turns : turn[s] <= t => ~(t < turn[s])
        BY <1>1, <1>2
      <4> QED BY <1>1, <4>1, <4>2 DEF GivenUp
    <3>2. CASE reply[s] # "turn"
      BY <1>3, <2>4, <3>2 DEF GetReply, After
    <3> QED BY <3>1, <3>2
  <2>5. CASE ReadEnd(s)
    <3>1. /\ pc[s] = "streaming" /\ pc'[s] = "returning" /\ turn' = turn /\ active' = active
          /\ \A t \in Turns : t # turn[s] => ends'[s][t] = ends[s][t]
      BY <2>5 DEF ReadEnd, NextEvent, Goto, Show, Inv, Types
    <3> QED BY <1>1, <1>2, <3>1 DEF GivenUp
  <2>6. CASE ReadDecided(s)
    <3>1. turn' = turn /\ active' = active /\ pc[s] = "streaming" /\ (EndFailed(s) \/ UNCHANGED <<pc, ends>>)
      BY <2>6 DEF ReadDecided, NextEvent
    <3> QED BY <1>3, <1>4, <3>1 DEF After
  <2>7. CASE TimeOut(s)
    <3>1. CASE alive /\ active[s] # None
      <4>1. turn' = turn /\ active' = active /\ ends' = ends /\ pc'[s] = "stopping"
        BY <2>7, <3>1 DEF TimeOut, Goto, Inv, Types
      <4> QED BY <1>4, <4>1
    <3>2. CASE ~(alive /\ active[s] # None)
      <4>1. turn' = turn /\ active'[s] = None /\ EndFailed(s) /\ pc[s] \notin After
        BY <2>7, <3>2 DEF TimeOut, Rest, After
      <4> QED BY <1>3, <4>1
    <3> QED BY <3>1, <3>2
  <2>8. CASE Return(s)
    <3>1. active'[s] = None
      BY <2>8 DEF Return, Rest
    <3> QED BY <3>1 DEF GivenUp
  <2>9. CASE Fail(s)
    <3>1. turn' = turn /\ active' = active /\ ends' = ends /\ pc[s] = "failed"
      BY <2>9 DEF Fail, adapter
    <3> QED BY <1>4, <3>1
  <2> QED BY <1>6, <2>1, <2>2, <2>3, <2>4, <2>5, <2>6, <2>7, <2>8, <2>9 DEF Step
<1>7. CASE ~Step(s) /\ ~StartTurn(s)
  BY <1>4, <1>7, OwnThread
<1> QED BY <1>5, <1>6, <1>7

\* All of it holds, so the adapter's tables are what interrupts and decisions
\* need: an interrupt finds the turn that is streamed (CodexAdapter.interrupt
\* and _timeout_turn), an idle session has nothing to interrupt, and the
\* approval that the server waits for can be answered (decide_approval).
THEOREM TablesAreRight == Spec => []TablesHold
<1>1. Init => Tables
  <2> SUFFICES ASSUME Init PROVE Tables
    OBVIOUS
  <2>1. Rest
    BY DEF Init, Rest, Idle
  <2>2. ReaderRuns /\ WaitingIsOpen
    BY DEF Init, ReaderRuns, WaitingIsOpen
  <2>3. ASSUME NEW s \in Sessions PROVE Told(s) /\ Found(s) /\ GivenUp(s)
    BY DEF Init, Idle, Told, Found, GivenUp
  <2> QED BY <2>1, <2>2, <2>3, InitInv DEF Tables
<1>2. Tables /\ [Next]_vars => Tables'
  <2> SUFFICES ASSUME Tables, [Next]_vars PROVE Tables'
    OBVIOUS
  <2>1. Inv'
    BY StepInv DEF Tables
  <2>2. CASE Next
    <3>1. Rest' /\ ReaderRuns' /\ WaitingIsOpen'
      BY <2>2, RestKeeps, ReaderKeeps, WaitingKeeps DEF Tables
    <3>2. ASSUME NEW s \in Sessions PROVE Told(s)' /\ Found(s)' /\ GivenUp(s)'
      BY <2>2, ToldKeeps, FoundKeeps, GivenUpKeeps DEF Tables
    <3> QED BY <2>1, <3>1, <3>2 DEF Tables
  <2>3. CASE UNCHANGED vars
    BY <2>1, <2>3 DEF vars, process, adapter, web, Tables, Rest, ReaderRuns, WaitingIsOpen, Told, Found, GivenUp,
                      Hears
  <2> QED BY <2>2, <2>3
<1>3. Tables => TablesHold
  <2> SUFFICES ASSUME Tables PROVE TablesHold
    OBVIOUS
  <2>1. TypeOK
    BY DEF Tables, Inv, Types, Rest, TypeOK, Ends, States
  <2>2. InterruptFindsTurn
    <3> SUFFICES ASSUME NEW s \in Sessions, pc[s] = "streaming", active[s] # turn[s]
                 PROVE  /\ active[s] = None
                        /\ crossed \/ zombie = "running" \/ \E i \in DOMAIN queue[s] : queue[s][i] = Error
      BY DEF InterruptFindsTurn
    <3>1. queue[s] \in Seq(Event) /\ Found(s)
      BY DEF Tables, Inv, Types
    <3>2. DOMAIN queue[s] = 1..Len(queue[s])
      BY <3>1
    <3> QED BY <3>1, <3>2 DEF Found, Hears, ErrorIn
  <2>3. IdleIsInactive
    <3> SUFFICES ASSUME NEW s \in Sessions, pc[s] = "idle", active[s] # None, NEW t \in active[s]..turn[s]
                 PROVE  ends[s][t] = <<None>>
      BY DEF IdleIsInactive
    <3>1. /\ active[s] \in Turns /\ turn[s] \in {None} \cup Turns /\ turn[s] \in Nat /\ GivenUp(s)
      BY SessionTypes DEF Tables, Rest
    <3>2. t \in Turns /\ active[s] <= t /\ (t < turn[s] \/ t = turn[s])
      BY <3>1, TurnsOK DEF Turns, None
    <3> QED BY <3>1, <3>2 DEF GivenUp
  <2> QED BY <2>1, <2>2, <2>3 DEF Tables, TablesHold
<1> QED BY <1>1, <1>2, <1>3, PTL DEF Spec
==============================================================================
