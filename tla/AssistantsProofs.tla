--------------------------- MODULE AssistantsProofs ---------------------------
(****************************************************************************)
(* What holds of a conversation for any number of messages, events and      *)
(* faults: events are handled once and in order, and the provider is told   *)
(* of an approval once and what the card says.  For the events one needs to *)
(* know where a stream goes on after it was opened again: at the cursor.    *)
(* For the approvals, that one the server waits for has not been told of.   *)
(****************************************************************************)
EXTENDS Assistants, TLAPS

Cards == {"none", "shown", "approve", "reject", "error", "approved", "rejected"}
EventKinds == {"output", "failed", "auth", "mark", "approval", "end"}
Entry == [kind : EventKinds, turn : Nat]

Types ==
    /\ page \in {"workbench", "legacy"} /\ session \in {"none", "asked", "connected"}
    /\ message \in 0..MaxMessages /\ analyses \subseteq 1..message
    /\ posts \subseteq [turn : 1..MaxMessages, state : {"sent", "accepted", "refused"}]
    /\ source \in [state : {"none", "connecting", "open", "dead"}, after : Nat, last : Nat]
    /\ cursor \in Nat /\ seen \in Seq(Nat) /\ card \in [Ids -> Cards]
    /\ log \in Seq(Entry) /\ (agent # "idle" => Len(log) > 0)
    /\ told \in [Ids -> Seq(BOOLEAN)]

\* Approvals are asked for by events.
Approvals == {i \in 1..Len(log) : log[i].kind = "approval"}
Asked == pending \subseteq Approvals /\ \A i \in Ids : told[i] # <<>> => i \in Approvals

\* A stream goes on where the page is.
Goes ==
    /\ source.state = "none" => source = NoSource
    /\ source.state # "none" => AtMost(source.after, source.last) = cursor
    /\ source.state = "open" => source.last = cursor

InOrder ==
    /\ cursor <= Len(log)
    /\ \A a \in 1..Len(seen) : seen[a] \in 1..cursor
    /\ \A a, b \in 1..Len(seen) : a < b => seen[a] < seen[b]
Handled(i) == \E a \in 1..Len(seen) : seen[a] = i
NoneLost == \A i \in 1..cursor : Handled(i) \/ i + MaxKept <= Len(log)

Decided(i) ==
    /\ i \in pending => told[i] = <<>>
    /\ Len(told[i]) <= 1
    /\ card[i] \in {"none", "shown"} => told[i] = <<>>
    /\ card[i] = "approved" => Len(told[i]) = 1
    /\ card[i] = "rejected" => told[i] = <<FALSE>>
Decisions == \A i \in Ids : Decided(i)

Inv == Types /\ Asked /\ Goes /\ InOrder /\ NoneLost /\ Decisions

\* Nothing has been said yet.
LEMMA InitInv == Init => Inv
<1> SUFFICES ASSUME Init PROVE Inv
  OBVIOUS
<1>1. Types
  BY AssistantsOK DEF Init, Types, NoSource, Cards
<1>2. Asked /\ Goes /\ InOrder /\ NoneLost /\ Decisions
  BY DEF Init, Asked, Goes, InOrder, NoneLost, Decisions, Decided, NoSource
<1> QED BY <1>1, <1>2 DEF Inv

\* What the page sends, and when it stops waiting, changes no event handled
\* and no decision: its stream is opened at the cursor, or closed, or kept.
LEMMA TabKeeps ==
    ASSUME Inv, UNCHANGED <<page, cursor, seen, card, server>>,
           session' \in {"none", "asked", "connected"},
           message' \in 0..MaxMessages, analyses' \subseteq 1..message',
           posts' \subseteq [turn : 1..MaxMessages, state : {"sent", "accepted", "refused"}],
           source' \in {source, NoSource, Attached}
    PROVE  Inv'
<1>1. Types'
  BY DEF Inv, Types, server, NoSource, Attached
<1>2. Goes'
  BY DEF Inv, Types, Goes, NoSource, Attached, AtMost
<1>3. Asked' /\ InOrder' /\ NoneLost' /\ Decisions'
  BY DEF Inv, Asked, Approvals, InOrder, NoneLost, Handled, Decisions, Decided, server
<1> QED BY <1>1, <1>2, <1>3 DEF Inv

\* Connecting, sending, and the answers to it.
LEMMA SendingKeeps ==
    ASSUME Inv, \/ Connect \/ NotConnected \/ Send \/ Ask \/ GiveUp
                \/ \E t \in analyses : Analysed(t)
                \/ \E p \in posts : TurnRefused(p) \/ PostAnswered(p) \/ PostLost(p)
    PROVE  Inv'
<1>1. /\ session \in {"none", "asked", "connected"} /\ message \in 0..MaxMessages
      /\ analyses \subseteq 1..message /\ 1..message \subseteq 1..MaxMessages
      /\ posts \subseteq [turn : 1..MaxMessages, state : {"sent", "accepted", "refused"}]
  BY AssistantsOK DEF Inv, Types
<1>2. CASE Connect
  BY <1>1, <1>2, TabKeeps DEF Connect, stream
<1>3. CASE NotConnected
  BY <1>1, <1>3, TabKeeps DEF NotConnected, stream
<1>4. CASE Send
  <2>1. message + 1 \in 1..MaxMessages /\ 1..message \subseteq 1..(message + 1)
    BY <1>1, <1>4, AssistantsOK DEF Send
  <2> QED BY <1>1, <1>4, <2>1, TabKeeps DEF Send, Post, AttachedIfNone
<1>5. CASE Ask
  <2>1. message + 1 \in 1..MaxMessages /\ 1..message \subseteq 1..(message + 1)
        /\ message + 1 \in 1..(message + 1)
    BY <1>1, <1>5, AssistantsOK DEF Ask
  <2> QED BY <1>1, <1>5, <2>1, TabKeeps DEF Ask, stream
<1>6. CASE GiveUp
  BY <1>1, <1>6, TabKeeps DEF GiveUp, StopWaiting
<1>7. ASSUME NEW t \in analyses, Analysed(t) PROVE Inv'
  <2>1. t \in 1..MaxMessages
    BY <1>1
  <2> QED BY <1>1, <1>7, <2>1, TabKeeps DEF Analysed, Post, AttachedIfNone
<1>8. ASSUME NEW p \in posts, TurnRefused(p) \/ PostAnswered(p) \/ PostLost(p) PROVE Inv'
  <2>1. [p EXCEPT !.state = "refused"] \in [turn : 1..MaxMessages, state : {"sent", "accepted", "refused"}]
    BY <1>1
  <2>2. posts' \subseteq [turn : 1..MaxMessages, state : {"sent", "accepted", "refused"}]
    BY <1>1, <1>8, <2>1 DEF TurnRefused, PostAnswered, PostLost, Answer
  <2>3. source' \in {source, NoSource} /\ UNCHANGED <<page, session, message, analyses, cursor, seen, card, server>>
    BY <1>8 DEF TurnRefused, PostAnswered, PostLost, StopWaiting, stream
  <2> QED BY <1>1, <2>2, <2>3, TabKeeps
<1> QED BY <1>2, <1>3, <1>4, <1>5, <1>6, <1>7, <1>8

\* A new session begins with no event and no decision.
LEMMA ConnectedKeeps ==
    ASSUME Inv, Connected
    PROVE  Inv'
<1> DEFINE Answered(a) == {[p EXCEPT !.state = IF @ = "sent" THEN a ELSE @] : p \in posts}
<1>1. posts \subseteq [turn : 1..MaxMessages, state : {"sent", "accepted", "refused"}]
  BY DEF Inv, Types
<1>2. PICK a \in {"accepted", "refused"} : posts' = Answered(a)
  BY DEF Connected
<1>3. posts' \subseteq [turn : 1..MaxMessages, state : {"sent", "accepted", "refused"}]
  <2> SUFFICES ASSUME NEW p \in posts
               PROVE  [p EXCEPT !.state = IF @ = "sent" THEN a ELSE @]
                         \in [turn : 1..MaxMessages, state : {"sent", "accepted", "refused"}]
    BY <1>2
  <2> QED BY <1>1
<1>4. /\ source' = [state |-> "connecting", after |-> 0, last |-> 0]
      /\ cursor' = 0 /\ seen' = <<>> /\ card' = [i \in Ids |-> "none"]
      /\ told' = [i \in Ids |-> <<>>] /\ pending' = {} /\ log' = <<>> /\ agent' = "idle"
  BY DEF Connected, NoSource
<1>5. /\ page' \in {"workbench", "legacy"} /\ session' = "connected"
      /\ message' \in 0..MaxMessages /\ analyses' \subseteq 1..message'
  BY DEF Inv, Types, Connected
<1>6. Types'
  BY <1>3, <1>4, <1>5 DEF Types, Cards
<1>7. Asked' /\ Goes' /\ InOrder' /\ NoneLost' /\ Decisions'
  BY <1>4 DEF Asked, Goes, InOrder, NoneLost, Decisions, Decided, AtMost
<1> QED BY <1>6, <1>7 DEF Inv
------------------------------------------------------------------------------
\* The server adds an event; the approval it may be has not been decided yet.
LEMMA EventKeeps ==
    ASSUME Inv, NEW e \in Entry, log' = Append(log, e), UNCHANGED <<stream, card, told>>,
           UNCHANGED <<page, session, message, analyses>>,
           posts' \subseteq [turn : 1..MaxMessages, state : {"sent", "accepted", "refused"}],
           pending' = pending \/ (e.kind = "approval" /\ pending' = pending \cup {Len(log) + 1})
    PROVE  Inv'
<1>1. /\ log' \in Seq(Entry) /\ Len(log') = Len(log) + 1 /\ Len(log) \in Nat
      /\ \A i \in 1..Len(log) : log'[i] = log[i]
      /\ log'[Len(log) + 1] = e
  BY DEF Inv, Types
<1>2. Types'
  BY <1>1 DEF Inv, Types, stream
<1>3. Approvals \subseteq Approvals' /\ (e.kind = "approval" => Len(log) + 1 \in Approvals')
  BY <1>1 DEF Approvals
<1>4. Asked'
  BY <1>3 DEF Inv, Asked
<1>5. Goes' /\ InOrder'
  BY <1>1 DEF Inv, Types, Goes, InOrder, stream
<1>6. NoneLost'
  <2> SUFFICES ASSUME NEW i \in 1..cursor PROVE Handled(i) \/ i + MaxKept <= Len(log')
    BY DEF NoneLost, Handled, stream
  <2>1. Handled(i) \/ i + MaxKept <= Len(log)
    BY DEF Inv, NoneLost
  <2>2. i \in Nat /\ MaxKept \in Nat
    BY AssistantsOK DEF Inv, Types
  <2> QED BY <1>1, <2>1, <2>2
<1>7. \A i \in Ids : i = Len(log) + 1 => told[i] = <<>>
  BY <1>1 DEF Inv, Asked, Approvals
<1>8. Decisions'
  BY <1>7 DEF Inv, Decisions, Decided
<1> QED BY <1>2, <1>4, <1>5, <1>6, <1>8 DEF Inv

\* The server's turn: it starts, goes on, ends and frees the session.
LEMMA TurnKeeps ==
    ASSUME Inv, \/ \E p \in posts : TurnStarts(p)
                \/ Progress \/ End \/ Free \/ Restart
    PROVE  Inv'
<1>1. ASSUME NEW p \in posts, TurnStarts(p) PROVE Inv'
  <2>1. /\ posts \subseteq [turn : 1..MaxMessages, state : {"sent", "accepted", "refused"}]
        /\ p.turn \in Nat
    BY AssistantsOK DEF Inv, Types
  <2>2. [p EXCEPT !.state = "accepted"] \in [turn : 1..MaxMessages, state : {"sent", "accepted", "refused"}]
    BY <2>1
  <2>3. [kind |-> "output", turn |-> p.turn] \in Entry
    BY <2>1 DEF Entry, EventKinds
  <2> QED BY <1>1, <2>1, <2>2, <2>3, EventKeeps DEF TurnStarts, Answer
<1>2. ASSUME agent # "idle" PROVE Turn \in Nat
  <2>1. log \in Seq(Entry) /\ Len(log) > 0
    BY <1>2 DEF Inv, Types
  <2>2. log[Len(log)] \in Entry
    BY <2>1
  <2> QED BY <2>2 DEF Turn, Entry
<1>3. posts \subseteq [turn : 1..MaxMessages, state : {"sent", "accepted", "refused"}]
  BY DEF Inv, Types
<1>4. CASE Progress
  <2>1. PICK kind \in EventKinds :
          /\ Emit(kind)
          /\ pending' = pending \/ (kind = "approval" /\ pending' = pending \cup {Len(log) + 1})
    BY <1>4 DEF Progress, Kinds, EventKinds
  <2>2. [kind |-> kind, turn |-> Turn] \in Entry
    BY <1>2, <1>4 DEF Progress, Entry
  <2> QED BY <1>3, <1>4, <2>1, <2>2, EventKeeps DEF Progress, Emit, tab
<1>5. CASE End
  <2>1. [kind |-> "end", turn |-> Turn] \in Entry
    BY <1>2, <1>5 DEF End, Entry, EventKinds
  <2> QED BY <1>3, <1>5, <2>1, EventKeeps DEF End, Emit, tab
<1>6. CASE Free \/ Restart
  <2>1. /\ UNCHANGED <<tab, stream, card, log, told>> /\ agent' = "idle" /\ pending' \subseteq pending
    BY <1>6 DEF Free, Restart
  <2>2. Types' /\ Asked'
    BY <2>1 DEF Inv, Types, Asked, Approvals, tab, stream
  <2>3. Goes' /\ InOrder' /\ NoneLost'
    BY <2>1 DEF Inv, Goes, InOrder, NoneLost, Handled, stream
  <2>4. Decisions'
    BY <2>1 DEF Inv, Decisions, Decided
  <2> QED BY <2>2, <2>3, <2>4 DEF Inv
<1> QED BY <1>1, <1>4, <1>5, <1>6
------------------------------------------------------------------------------
\* The stream is opened, breaks, or is dead.
LEMMA StreamKeeps ==
    ASSUME Inv, Open \/ Break \/ Die
    PROVE  Inv'
<1>1. /\ source \in [state : {"none", "connecting", "open", "dead"}, after : Nat, last : Nat]
      /\ cursor \in Nat
  BY DEF Inv, Types
<1>2. UNCHANGED <<page, session, message, analyses, posts, cursor, seen, card, server>>
  BY DEF Open, Break, Die
<1>3. /\ source' \in [state : {"none", "connecting", "open", "dead"}, after : Nat, last : Nat]
      /\ Goes'
  <2>1. CASE Open
    BY <1>1, <1>2, <2>1 DEF Open, Inv, Goes, AtMost
  <2>2. CASE Break \/ Die
    BY <1>1, <1>2, <2>2 DEF Break, Die, Inv, Goes, AtMost
  <2> QED BY <2>1, <2>2
<1>4. Types'
  BY <1>2, <1>3 DEF Inv, Types, server
<1>5. Asked' /\ InOrder' /\ NoneLost' /\ Decisions'
  BY <1>2 DEF Inv, Asked, Approvals, InOrder, NoneLost, Handled, Decisions, Decided, server
<1> QED BY <1>3, <1>4, <1>5 DEF Inv

\* The next event of a stream is the first that is kept and not yet handled.
LEMMA NextIs ==
    ASSUME Inv, Kept(cursor) # {}
    PROVE  LET i == First(Kept(cursor)) IN
           /\ i \in (cursor + 1)..Len(log)
           /\ \A j \in (cursor + 1)..(i - 1) : j + MaxKept <= Len(log)
<1> DEFINE m == IF cursor < Len(log) - MaxKept THEN Len(log) - MaxKept + 1 ELSE cursor + 1
           i == First(Kept(cursor))
<1>1. cursor \in Nat /\ Len(log) \in Nat /\ MaxKept \in Nat
  BY AssistantsOK DEF Inv, Types
<1>2. m \in Kept(cursor) /\ \A j \in Kept(cursor) : m <= j
  BY <1>1, AssistantsOK DEF Kept
<1>3. i \in Kept(cursor) /\ \A j \in Kept(cursor) : i <= j
  <2> HIDE DEF m
  <2> QED BY <1>2 DEF First
<1>4. i \in 1..Len(log) /\ i > cursor /\ i <= m
  BY <1>2, <1>3 DEF Kept
<1> QED BY <1>1, <1>4

\* The next event is handled.
LEMMA DeliverKeeps ==
    ASSUME Inv, Deliver
    PROVE  Inv'
<1> DEFINE i == First(Kept(cursor))
           kind == log[i].kind
<1>1. /\ cursor \in Nat /\ seen \in Seq(Nat) /\ Len(log) \in Nat /\ Len(seen) \in Nat
      /\ source \in [state : {"none", "connecting", "open", "dead"}, after : Nat, last : Nat]
      /\ card \in [Ids -> Cards]
  BY DEF Inv, Types
<1>2. source.state = "open" /\ source.last = cursor /\ AtMost(source.after, source.last) = cursor
  BY DEF Deliver, Inv, Goes
<1>3. /\ Kept(cursor) # {} /\ seen' = Append(seen, i) /\ cursor' = AtMost(cursor, i)
      /\ source' = NoSource \/ source' = [source EXCEPT !.last = i]
      /\ session' \in {session, "none"}
      /\ card' = card \/ (card[i] = "none" /\ card' = [card EXCEPT ![i] = "shown"])
      /\ UNCHANGED <<page, message, analyses, posts, server>>
  BY <1>2 DEF Deliver
<1>4. i \in (cursor + 1)..Len(log) /\ \A j \in (cursor + 1)..(i - 1) : j + MaxKept <= Len(log)
  BY <1>3, NextIs
<1> HIDE DEF i
<1>5. cursor' = i /\ i \in Nat /\ i > cursor
  BY <1>1, <1>3, <1>4 DEF AtMost
<1>6. /\ seen' \in Seq(Nat) /\ Len(seen') = Len(seen) + 1 /\ seen'[Len(seen) + 1] = i
      /\ \A a \in 1..Len(seen) : seen'[a] = seen[a]
  BY <1>1, <1>3, <1>5
<1>7. card' \in [Ids -> Cards] /\ \A j \in Ids : card'[j] = card[j] \/ (card[j] = "none" /\ card'[j] = "shown")
  BY <1>1, <1>3 DEF Cards
<1>8. Types'
  BY <1>3, <1>5, <1>6, <1>7 DEF Inv, Types, NoSource, server
<1>9. Goes'
  BY <1>1, <1>2, <1>3, <1>5 DEF Goes, NoSource, AtMost
<1>10. InOrder'
  <2>1. \A a \in 1..Len(seen) : seen[a] \in 1..cursor
    BY DEF Inv, InOrder
  <2>2. cursor' <= Len(log')
    BY <1>1, <1>3, <1>4, <1>5 DEF server
  <2>3. ASSUME NEW a \in 1..Len(seen') PROVE seen'[a] \in 1..cursor'
    <3>1. CASE a \in 1..Len(seen)
      <4>1. seen'[a] = seen[a] /\ seen[a] \in 1..cursor
        BY <1>6, <2>1, <3>1
      <4> QED BY <1>1, <1>5, <4>1
    <3>2. CASE a = Len(seen) + 1
      BY <1>1, <1>5, <1>6, <3>2
    <3> QED BY <1>1, <1>6, <2>3, <3>1, <3>2
  <2>4. ASSUME NEW a \in 1..Len(seen'), NEW b \in 1..Len(seen'), a < b PROVE seen'[a] < seen'[b]
    <3>1. a \in 1..Len(seen) /\ seen'[a] = seen[a] /\ seen[a] \in 1..cursor
      BY <1>1, <1>6, <2>1, <2>4
    <3>2. CASE b \in 1..Len(seen)
      <4>1. seen[a] < seen[b] /\ seen'[b] = seen[b]
        BY <1>6, <2>4, <3>1, <3>2 DEF Inv, InOrder
      <4> QED BY <3>1, <4>1
    <3>3. CASE b = Len(seen) + 1
      BY <1>1, <1>5, <1>6, <3>1, <3>3
    <3>4. b \in 1..Len(seen) \/ b = Len(seen) + 1
      BY <1>1, <1>6
    <3> QED BY <3>2, <3>3, <3>4
  <2> QED BY <2>2, <2>3, <2>4 DEF InOrder
<1>11. NoneLost'
  <2> SUFFICES ASSUME NEW j \in 1..i PROVE Handled(j)' \/ j + MaxKept <= Len(log)
    BY <1>3, <1>5 DEF NoneLost, server
  <2>1. CASE j \in 1..cursor
    <3>1. Handled(j) \/ j + MaxKept <= Len(log)
      BY <2>1 DEF Inv, NoneLost
    <3> QED BY <1>1, <1>6, <3>1 DEF Handled
  <2>2. CASE j = i
    BY <1>1, <1>6, <2>2 DEF Handled
  <2>3. CASE j \in (cursor + 1)..(i - 1)
    BY <1>4, <2>3
  <2> QED BY <1>1, <1>5, <2>1, <2>2, <2>3
<1>12. Asked' /\ Decisions'
  BY <1>3, <1>7 DEF Inv, Asked, Approvals, Decisions, Decided, server
<1> QED BY <1>8, <1>9, <1>10, <1>11, <1>12 DEF Inv
------------------------------------------------------------------------------
\* Cards and decisions change alone.
LEMMA CardKeeps ==
    ASSUME Inv, UNCHANGED <<tab, stream, log, agent>>,
           card' \in [Ids -> Cards], told' \in [Ids -> Seq(BOOLEAN)], Asked', Decisions'
    PROVE  Inv'
<1>1. Types'
  BY DEF Inv, Types, tab, stream
<1>2. Goes' /\ InOrder' /\ NoneLost'
  BY DEF Inv, Goes, InOrder, NoneLost, Handled, stream
<1> QED BY <1>1, <1>2 DEF Inv

\* The user chooses what no decision is known of.
LEMMA ChooseKeeps ==
    ASSUME Inv, NEW i \in Ids, Choose(i)
    PROVE  Inv'
<1>1. PICK c \in {"approve", "reject"} : card' = [card EXCEPT ![i] = c]
  BY DEF Choose
<1>2. card \in [Ids -> Cards] /\ told \in [Ids -> Seq(BOOLEAN)]
  BY DEF Inv, Types
<1>3. UNCHANGED <<tab, stream, server>>
  BY DEF Choose
<1>4. card' \in [Ids -> Cards]
  BY <1>1, <1>2 DEF Cards
<1>5. Asked' /\ Decisions'
  BY <1>1, <1>2, <1>3 DEF Inv, Asked, Approvals, Decisions, Decided, server
<1> QED BY <1>2, <1>3, <1>4, <1>5, CardKeeps DEF server

\* The provider is told what was chosen, once.
LEMMA DecideKeeps ==
    ASSUME Inv, NEW i \in Ids, Decide(i) \/ Undecided(i) \/ DecisionLost(i)
    PROVE  Inv'
<1>1. /\ card \in [Ids -> Cards] /\ told \in [Ids -> Seq(BOOLEAN)]
      /\ card[i] \in {"approve", "reject"} /\ UNCHANGED <<tab, stream, log, agent>>
  BY DEF Inv, Types, Decide, Undecided, DecisionLost, server
<1>2. \/ \E passed \in BOOLEAN :
            /\ i \in pending /\ pending' = pending \ {i}
            /\ told' = [told EXCEPT ![i] = Append(@, passed)]
            /\ passed => card[i] = "approve"
            /\ card' \in {[card EXCEPT ![i] = "error"],
                          [card EXCEPT ![i] = IF card[i] = "approve" THEN "approved" ELSE "rejected"]}
      \/ pending' \subseteq pending /\ told' = told /\ card' = [card EXCEPT ![i] = "error"]
  <2>1. CASE Decide(i)
    BY <2>1 DEF Decide, Outcome
  <2>2. CASE Undecided(i)
    BY <2>2 DEF Undecided, Outcome
  <2>3. CASE DecisionLost(i)
    BY <2>3 DEF DecisionLost, Outcome, server
  <2> QED BY <2>1, <2>2, <2>3
<1>3. CASE pending' \subseteq pending /\ told' = told /\ card' = [card EXCEPT ![i] = "error"]
  <2>1. card' \in [Ids -> Cards]
    BY <1>1, <1>3 DEF Cards
  <2>2. Asked' /\ Decisions'
    BY <1>1, <1>3 DEF Inv, Asked, Approvals, Decisions, Decided
  <2> QED BY <1>1, <1>3, <2>1, <2>2, CardKeeps
<1>4. ASSUME NEW passed \in BOOLEAN, i \in pending, pending' = pending \ {i},
             told' = [told EXCEPT ![i] = Append(@, passed)], passed => card[i] = "approve",
             card' \in {[card EXCEPT ![i] = "error"],
                        [card EXCEPT ![i] = IF card[i] = "approve" THEN "approved" ELSE "rejected"]}
      PROVE  Inv'
  <2>1. card' \in [Ids -> Cards]
    BY <1>1, <1>4 DEF Cards
  <2>2. told[i] = <<>>
    BY <1>4 DEF Inv, Decisions, Decided
  <2>3. told'[i] = <<passed>> /\ \A j \in Ids : j # i => told'[j] = told[j]
    BY <1>1, <1>4, <2>2
  <2>4. told' \in [Ids -> Seq(BOOLEAN)]
    BY <1>1, <1>4
  <2>5. Asked'
    BY <1>1, <1>4, <2>3 DEF Inv, Asked, Approvals
  <2>6. Decided(i)'
    <3>1. card[i] = "reject" => passed = FALSE
      BY <1>4
    <3>2. card'[i] \in {"error", "approved", "rejected"} /\ (card'[i] = "rejected" => card[i] = "reject")
      BY <1>1, <1>4
    <3>3. i \notin pending' /\ Len(told'[i]) = 1
      BY <1>4, <2>3
    <3>4. card'[i] = "rejected" => told'[i] = <<FALSE>>
      BY <2>3, <3>1, <3>2
    <3>5. card'[i] \notin {"none", "shown"} /\ Len(told'[i]) <= 1
      BY <3>2, <3>3
    <3>6. /\ i \in pending' => told'[i] = <<>>
          /\ card'[i] \in {"none", "shown"} => told'[i] = <<>>
          /\ card'[i] = "approved" => Len(told'[i]) = 1
      BY <3>3, <3>5
    <3> QED BY <3>4, <3>5, <3>6 DEF Decided
  <2>7. ASSUME NEW j \in Ids, j # i PROVE Decided(j)'
    <3>1. card'[j] = card[j] /\ told'[j] = told[j] /\ (j \in pending' => j \in pending)
      BY <1>1, <1>4, <2>3, <2>7
    <3> QED BY <3>1 DEF Inv, Decisions, Decided
  <2> QED BY <1>1, <2>1, <2>4, <2>5, <2>6, <2>7, CardKeeps DEF Decisions
<1> QED BY <1>2, <1>3, <1>4

\* Every step keeps the invariant.
LEMMA StepInv == Inv /\ [Next]_vars => Inv'
<1> SUFFICES ASSUME Inv, [Next]_vars PROVE Inv'
  OBVIOUS
<1>1. CASE UNCHANGED vars
  BY <1>1 DEF Inv, Types, Asked, Approvals, Goes, InOrder, NoneLost, Handled, Decisions, Decided,
              vars, tab, stream, server
<1>2. CASE Connect \/ NotConnected \/ Send \/ Ask \/ GiveUp \/ \E t \in analyses : Analysed(t)
  BY <1>2, SendingKeeps
<1>7. CASE Connected
  BY <1>7, ConnectedKeeps
<1>3. ASSUME NEW p \in posts, Posting(p) \/ PostLost(p) PROVE Inv'
  BY <1>3, SendingKeeps, TurnKeeps DEF Posting
<1>4. CASE Progress \/ End \/ Free \/ Restart
  BY <1>4, TurnKeeps
<1>5. CASE Open \/ Break \/ Die \/ Deliver
  BY <1>5, StreamKeeps, DeliverKeeps
<1>6. ASSUME NEW i \in Ids, Choose(i) \/ Decide(i) \/ Undecided(i) \/ DecisionLost(i) PROVE Inv'
  BY <1>6, ChooseKeeps, DecideKeeps
<1> QED BY <1>1, <1>2, <1>3, <1>4, <1>5, <1>6, <1>7 DEF Next

\* The invariant holds.
LEMMA Invariant == Spec => []Inv
  BY InitInv, StepInv, PTL DEF Spec

\* For any number of messages, events and faults: events are handled once, in
\* order, and none is passed over unless as many as are kept came after it.
THEOREM EventsAlwaysOnce == Spec => []EventsOnce
<1>1. Inv => EventsOnce
  <2> SUFFICES ASSUME Inv PROVE EventsOnce
    OBVIOUS
  <2>1. TypeOK
    BY DEF Inv, Types, Asked, Approvals, TypeOK
  <2>2. \A a, b \in 1..Len(seen) : a < b => seen[a] < seen[b]
    BY DEF Inv, InOrder
  <2>3. \A i \in 1..cursor : i \in {seen[a] : a \in 1..Len(seen)} \/ i + MaxKept <= Len(log)
    BY DEF Inv, NoneLost, Handled
  <2> QED BY <2>1, <2>2, <2>3 DEF EventsOnce
<1> QED BY <1>1, Invariant, PTL

\* For any number of messages, events and faults: the provider is told of an
\* approval once, and what the card says that was decided.
THEOREM DecisionsAlwaysHold == Spec => []DecisionsHold
<1>1. Inv => DecisionsHold
  BY DEF Inv, Decisions, Decided, DecisionsHold
<1> QED BY <1>1, Invariant, PTL
==============================================================================
