-------------------------- MODULE FlowScriptProofs --------------------------
(****************************************************************************)
(* What holds of the scripts of all inputs: of any plan and cycle, and any  *)
(* numbers of claims, conflicts and hypotheses.                             *)
(*                                                                          *)
(* Loops are put together by FlattenSeq, a recursion over the sequence: the *)
(* facts about them are proved by an induction over the set of the numbers  *)
(* for which they hold (UpTo), for there is no rule that takes an operator. *)
(****************************************************************************)
EXTENDS FlowScript, SequenceTheorems, FiniteSetTheorems, WellFoundedInduction, TLAPS

(* A set that holds 0, and with a number less than n the next one.          *)
LEMMA UpTo ==
    ASSUME NEW n \in Nat, NEW S, 0 \in S, \A i \in 0..(n - 1) : i \in S => i + 1 \in S
    PROVE  \A i \in 0..n : i \in S
<1> DEFINE Out == {i \in 0..n : i \notin S}
<1> SUFFICES ASSUME Out # {} PROVE FALSE
  OBVIOUS
<1>1. Out \subseteq Nat
  OBVIOUS
<1>2. PICK m \in Out : \A k \in Out : <<k, m>> \notin OpToRel(<, Nat)
  <2> HIDE DEF Out
  <2> QED  BY <1>1, NatLessThanWellFounded, WFMin
<1>3. m \in Nat /\ m # 0 /\ m \notin S /\ m <= n
  OBVIOUS
<1>4. m - 1 \in 0..(n - 1) /\ (m - 1) + 1 = m
  BY <1>3
<1>5. m - 1 \notin S
  BY <1>3, <1>4
<1>6. m - 1 \in Out
  BY <1>4, <1>5
<1>7. <<m - 1, m>> \in OpToRel(<, Nat)
  BY <1>3, <1>4 DEF OpToRel
<1> QED  BY <1>2, <1>6, <1>7

(* Elements may be put together one after the other.                        *)
Chain(f, T, n, s) ==
    /\ f \in [0..n -> T]
    /\ f[0] = <<>>
    /\ \A i \in 1..n : f[i] = f[i - 1] \o s[i]

\* Sequences are put together one after the other.
LEMMA Together ==
    ASSUME NEW T, NEW n \in Nat, NEW s, <<>> \in T,
           \A i \in 1..n : s[i] \in T, \A a, b \in T : a \o b \in T
    PROVE  \E f : Chain(f, T, n, s)
<1> DEFINE Part(f, m) == f[0] = <<>> /\ \A i \in 1..m : f[i] = f[i - 1] \o s[i]
           Good == {m \in 0..n : \E f \in [0..m -> T] : Part(f, m)}
<1>1. 0 \in Good
  <2>1. PICK f : f = [i \in 0..0 |-> <<>>]
    OBVIOUS
  <2>2. f \in [0..0 -> T] /\ f[0] = <<>>
    BY <2>1
  <2>3. Part(f, 0)
    BY <2>2
  <2> QED  BY <2>2, <2>3
<1>2. ASSUME NEW m \in 0..(n - 1), m \in Good PROVE m + 1 \in Good
  <2>1. PICK f \in [0..m -> T] : Part(f, m)
    BY <1>2
  <2>2. f[m] \in T /\ s[m + 1] \in T /\ m \in Nat
    OBVIOUS
  <2>3. PICK v : v = f[m] \o s[m + 1] /\ v \in T
    BY <2>2
  <2>4. PICK g : g = [i \in 0..(m + 1) |-> IF i <= m THEN f[i] ELSE v]
    OBVIOUS
  <2>5. g \in [0..(m + 1) -> T] /\ g[m + 1] = v /\ \A i \in 0..m : g[i] = f[i]
    BY <2>2, <2>3, <2>4
  <2>6. ASSUME NEW i \in 1..(m + 1) PROVE g[i] = g[i - 1] \o s[i]
    <3>1. CASE i <= m
      <4>1. g[i] = f[i] /\ g[i - 1] = f[i - 1] /\ i \in 1..m
        BY <2>2, <2>5, <3>1
      <4> QED  BY <2>1, <4>1
    <3>2. CASE i = m + 1
      <4>1. g[i] = v /\ g[i - 1] = f[m]
        BY <2>2, <2>5, <3>2
      <4> QED  BY <2>3, <3>2, <4>1
    <3>3. i <= m \/ i = m + 1
      BY <2>2
    <3> QED  BY <3>1, <3>2, <3>3
  <2>7. m + 1 \in 0..n /\ g[0] = <<>>
    BY <2>1, <2>2, <2>5
  <2> QED  BY <2>5, <2>6, <2>7
<1>3. \A i \in 0..n : i \in Good
  <2> HIDE DEF Good
  <2> QED  BY <1>1, <1>2, UpTo
<1>4. n \in 0..n
  OBVIOUS
<1> QED  BY <1>3, <1>4 DEF Chain

(* FlattenSeq puts its sequences together from the first one on.            *)
LEMMA FlattenIs ==
    ASSUME NEW T, <<>> \in T, \A a, b \in T : a \o b \in T, \A a \in T : <<>> \o a = a,
           NEW seqs, Len(seqs) \in Nat, \A i \in 1..Len(seqs) : seqs[i] \in T,
           Len(seqs) = 0 => seqs = <<>>
    PROVE  \E f \in [0..Len(seqs) -> T] :
               /\ f[0] = <<>>
               /\ \A i \in 1..Len(seqs) : f[i] = f[i - 1] \o seqs[i]
               /\ FlattenSeq(seqs) = f[Len(seqs)]
<1>1. PICK n \in Nat : n = Len(seqs)
  OBVIOUS
<1>2. PICK f \in [0..n -> T] : f[0] = <<>> /\ \A i \in 1..n : f[i] = f[i - 1] \o seqs[i]
  <2>1. \A i \in 1..n : seqs[i] \in T
    BY <1>1
  <2>2. <<>> \in T /\ \A a, b \in T : a \o b \in T
    OBVIOUS
  <2>3. \E f : Chain(f, T, n, seqs)
    BY <2>1, <2>2, Together
  <2> QED  BY <2>3 DEF Chain
<1>3. CASE n = 0
  <2>1. FlattenSeq(seqs) = seqs
    BY <1>1, <1>3 DEF FlattenSeq
  <2> QED  BY <1>1, <1>2, <1>3, <2>1
<1>4. CASE n # 0
  <2> DEFINE R(g) == [i \in 1..Len(seqs) |-> IF i = 1 THEN seqs[i] ELSE g[i - 1] \o seqs[i]]
  <2>1. f[1] = seqs[1]
    <3>1. f[1] = f[0] \o seqs[1] /\ f[0] = <<>> /\ seqs[1] \in T
      BY <1>1, <1>2, <1>4
    <3> QED  BY <3>1
  <2>2. PICK h : h = [i \in 1..n |-> f[i]]
    OBVIOUS
  <2>3. h = R(h)
    <3>1. \A i \in 1..n : h[i] = IF i = 1 THEN seqs[i] ELSE h[i - 1] \o seqs[i]
      <4> TAKE i \in 1..n
      <4>1. CASE i = 1
        BY <2>1, <2>2, <4>1
      <4>2. CASE i # 1
        <5>1. i - 1 \in 1..n /\ i \in 1..n
          BY <4>2
        <5>2. h[i] = f[i] /\ h[i - 1] = f[i - 1]
          BY <2>2, <5>1
        <5>3. f[i] = f[i - 1] \o seqs[i]
          BY <1>2
        <5> QED  BY <4>2, <5>2, <5>3
      <4> QED  BY <4>1, <4>2
    <3>2. R(h) = [i \in 1..n |-> h[i]]
      BY <1>1, <3>1
    <3> QED  BY <2>2, <3>2
  <2>4. PICK g : g = R(g) /\ FlattenSeq(seqs) = g[n]
    <3> DEFINE F == CHOOSE g : g = R(g)
    <3>1. F = R(F)
      BY <2>3
    <3>2. FlattenSeq(seqs) = F[n]
      BY <1>1, <1>4 DEF FlattenSeq
    <3> HIDE DEF F, R
    <3> QED  BY <3>1, <3>2
  <2>5. \A i \in 1..n : g[i] = IF i = 1 THEN seqs[i] ELSE g[i - 1] \o seqs[i]
    BY <1>1, <2>4
  <2> DEFINE Same == {i \in 0..n : i = 0 \/ g[i] = f[i]}
  <2>6. 0 \in Same
    OBVIOUS
  <2>7. ASSUME NEW i \in 0..(n - 1), i \in Same PROVE i + 1 \in Same
    <3>1. PICK j \in 1..n : j = i + 1 /\ j - 1 = i /\ j \in 0..n
      OBVIOUS
    <3>2. f[j] = f[i] \o seqs[j]
      BY <1>2, <3>1
    <3>3. CASE i = 0
      <4>1. j = 1
        BY <3>1, <3>3
      <4>2. g[j] = f[j]
        BY <2>1, <2>5, <4>1
      <4> QED  BY <3>1, <4>2
    <3>4. CASE i # 0
      <4>1. j # 1
        BY <3>1, <3>4
      <4>2. g[j] = g[i] \o seqs[j]
        BY <2>5, <3>1, <4>1
      <4>3. g[i] = f[i]
        BY <2>7, <3>4
      <4>4. g[j] = f[j]
        BY <3>2, <4>2, <4>3
      <4> QED  BY <3>1, <4>4
    <3> QED  BY <3>3, <3>4
  <2>8. \A i \in 0..n : i \in Same
    <3> HIDE DEF Same
    <3> QED  BY <2>6, <2>7, UpTo
  <2>9. g[n] = f[n]
    BY <1>4, <2>8
  <2>10. f[0] = <<>> /\ (\A i \in 1..Len(seqs) : f[i] = f[i - 1] \o seqs[i])
         /\ FlattenSeq(seqs) = f[Len(seqs)] /\ f \in [0..Len(seqs) -> T]
    BY <1>1, <1>2, <2>4, <2>9
  <2> QED  BY <2>10
<1> QED  BY <1>3, <1>4

(* What is put together from sequences of a closed set is in that set.      *)
LEMMA FlattenIn ==
    ASSUME NEW S, NEW W \in SUBSET Seq(S), <<>> \in W, \A a, b \in W : a \o b \in W,
           NEW n \in Nat, NEW seqs \in [1..n -> W]
    PROVE  FlattenSeq(seqs) \in W
<1>1. seqs \in Seq(W) /\ Len(seqs) = n
  OBVIOUS
<1>2. \A a \in W : <<>> \o a = a
  <2> TAKE a \in W
  <2>1. a \in Seq(S)
    OBVIOUS
  <2> QED  BY <2>1, ConcatEmptySeq
<1>3. Len(seqs) = 0 => seqs = <<>>
  BY <1>1
<1>4. Len(seqs) \in Nat /\ \A i \in 1..Len(seqs) : seqs[i] \in W
  BY <1>1
<1>5. \E f \in [0..Len(seqs) -> W] :
          /\ f[0] = <<>>
          /\ \A i \in 1..Len(seqs) : f[i] = f[i - 1] \o seqs[i]
          /\ FlattenSeq(seqs) = f[Len(seqs)]
  BY <1>2, <1>3, <1>4, FlattenIs
<1> QED  BY <1>1, <1>5

(* A judgement on what sequences make of a state carries over from some     *)
(* sequences to what is put together from them, if it does from two.        *)
LEMMA FlattenJudged ==
    ASSUME NEW S, NEW State, NEW J, \A s \in State : <<s, <<>>, s>> \in J,
           \A s, t, u \in State, a, b \in Seq(S) :
               <<s, a, t>> \in J /\ <<t, b, u>> \in J => <<s, a \o b, u>> \in J,
           NEW n \in Nat, NEW seqs \in [1..n -> Seq(S)], NEW K \in [0..n -> State],
           \A i \in 1..n : <<K[i - 1], seqs[i], K[i]>> \in J
    PROVE  <<K[0], FlattenSeq(seqs), K[n]>> \in J
<1>1. seqs \in Seq(Seq(S)) /\ Len(seqs) = n
  OBVIOUS
<1>2. <<>> \in Seq(S) /\ \A a, b \in Seq(S) : a \o b \in Seq(S)
  OBVIOUS
<1>3. \A a \in Seq(S) : <<>> \o a = a
  BY ConcatEmptySeq
<1>4. PICK f \in [0..n -> Seq(S)] :
          /\ f[0] = <<>>
          /\ \A i \in 1..n : f[i] = f[i - 1] \o seqs[i]
          /\ FlattenSeq(seqs) = f[n]
  <2>1. PICK T : T = Seq(S)
    OBVIOUS
  <2>2. <<>> \in T /\ (\A a, b \in T : a \o b \in T) /\ (\A a \in T : <<>> \o a = a)
    BY <1>2, <1>3, <2>1
  <2>3. Len(seqs) \in Nat /\ (\A i \in 1..Len(seqs) : seqs[i] \in T) /\ (Len(seqs) = 0 => seqs = <<>>)
    BY <1>1, <2>1
  <2>4. \E f \in [0..Len(seqs) -> T] :
          /\ f[0] = <<>>
          /\ \A i \in 1..Len(seqs) : f[i] = f[i - 1] \o seqs[i]
          /\ FlattenSeq(seqs) = f[Len(seqs)]
    BY <2>2, <2>3, FlattenIs
  <2> QED  BY <1>1, <2>1, <2>4
<1> DEFINE Good == {i \in 0..n : <<K[0], f[i], K[i]>> \in J}
<1>5. 0 \in Good
  BY <1>4
<1>6. ASSUME NEW i \in 0..(n - 1), i \in Good PROVE i + 1 \in Good
  <2>1. PICK j \in 1..n : j = i + 1 /\ j - 1 = i /\ j \in 0..n
    OBVIOUS
  <2>0. i \in 0..n /\ 0 \in 0..n
    OBVIOUS
  <2>2. f[j] = f[i] \o seqs[j] /\ <<K[i], seqs[j], K[j]>> \in J
    BY <1>4, <2>1
  <2>3. K[0] \in State /\ K[i] \in State /\ K[j] \in State /\ f[i] \in Seq(S) /\ seqs[j] \in Seq(S)
    BY <1>4, <2>0, <2>1
  <2>4. <<K[0], f[j], K[j]>> \in J
    BY <1>6, <2>2, <2>3
  <2> QED  BY <2>1, <2>4
<1>7. n \in Good
  <2> HIDE DEF Good
  <2>1. \A i \in 0..n : i \in Good
    BY <1>5, <1>6, UpTo
  <2> QED  BY <2>1
<1> QED  BY <1>4, <1>7

\* Where the operations of two sequences are when one follows the other
LEMMA Concat ==
    ASSUME NEW S, NEW a \in Seq(S), NEW b \in Seq(S)
    PROVE  /\ a \o b \in Seq(S)
           /\ Len(a \o b) = Len(a) + Len(b) /\ DOMAIN (a \o b) = 1..(Len(a) + Len(b))
           /\ Len(a) \in Nat /\ DOMAIN a = 1..Len(a) /\ Len(b) \in Nat /\ DOMAIN b = 1..Len(b)
           /\ \A i \in 1..Len(a) : (a \o b)[i] = a[i]
           /\ \A i \in 1..Len(b) : (a \o b)[Len(a) + i] = b[i]
OBVIOUS

------------------------------------------------------------------------------
(* Operations that are well formed on their own: an emitted event neither   *)
(* ends the run nor is unknown, and what it announces was saved before.     *)
Announces(ops) == \A i \in DOMAIN ops : ops[i].do = "emit" =>
    /\ ops[i].kind \in Reports
    /\ ops[i].kind \in Announcements => \E j \in 1..(i - 1) :
           ops[j].do = "save" /\ ops[j].ref = ops[i].ref

(* ... A call of a tool is answered before anything else can fail: the      *)
(* engine only emits other events in between, and runs the tool of that     *)
(* call.  No other answer is emitted, and no other tool run.                *)
Answered(ops, i, j) ==
    /\ i < j /\ ops[i].ref = ops[j].ref
    /\ ops[i].do = "emit" /\ ops[i].kind = "tool.started"
    /\ ops[j].do = "emit" /\ ops[j].kind = "tool.result"
    /\ \A k \in (i + 1)..(j - 1) :
           \/ ops[k].do = "emit" /\ ops[k].kind \notin Answers \cup {"tool.started"}
           \/ ops[k].do = "invoke" /\ ops[k].ref = ops[i].ref
Calling(ops, i) ==
    /\ ops[i].do = "emit" /\ ops[i].kind = "tool.started" =>
           \E j \in (i + 1)..Len(ops) : Answered(ops, i, j)
    /\ ops[i].do = "emit" /\ ops[i].kind \in Answers =>
           \E j \in 1..(i - 1) : Answered(ops, j, i)
    /\ ops[i].do = "invoke" =>
           \E j \in 1..(i - 1), k \in (i + 1)..Len(ops) : Answered(ops, j, k) /\ ops[j].ref = ops[i].ref
Pieces == {ops \in Seq(Op) : Announces(ops) /\ \A i \in DOMAIN ops : Calling(ops, i)}

\* What both announce was saved before, also when the second comes later.
LEMMA ConcatAnnounces ==
    ASSUME NEW a \in Seq(Op), NEW b \in Seq(Op), Announces(a), Announces(b)
    PROVE  Announces(a \o b)
<1> DEFINE c == a \o b
<1>1. /\ Len(a) \in Nat /\ DOMAIN a = 1..Len(a) /\ Len(b) \in Nat /\ DOMAIN b = 1..Len(b)
      /\ DOMAIN c = 1..(Len(a) + Len(b))
      /\ \A i \in 1..Len(a) : c[i] = a[i]
      /\ \A i \in 1..Len(b) : c[Len(a) + i] = b[i]
  BY Concat
<1> HIDE DEF c
<1> SUFFICES ASSUME NEW i \in DOMAIN c, c[i].do = "emit"
             PROVE  /\ c[i].kind \in Reports
                    /\ c[i].kind \in Announcements => \E j \in 1..(i - 1) :
                           c[j].do = "save" /\ c[j].ref = c[i].ref
  BY DEF Announces, c
<1>2. CASE i <= Len(a)
  <2>1. i \in DOMAIN a /\ c[i] = a[i]
    BY <1>1, <1>2
  <2>2. a[i].kind \in Reports
    BY <2>1 DEF Announces
  <2>3. ASSUME a[i].kind \in Announcements
        PROVE  \E j \in 1..(i - 1) : c[j].do = "save" /\ c[j].ref = c[i].ref
    <3>1. PICK j \in 1..(i - 1) : a[j].do = "save" /\ a[j].ref = a[i].ref
      BY <2>1, <2>3 DEF Announces
    <3>2. j \in 1..Len(a)
      BY <1>1, <2>1
    <3>3. c[j] = a[j]
      BY <1>1, <3>2
    <3> QED  BY <2>1, <3>1, <3>3
  <2> QED  BY <2>1, <2>2, <2>3
<1>3. CASE i > Len(a)
  <2>1. PICK l \in DOMAIN b : i = Len(a) + l
    <3>1. i - Len(a) \in DOMAIN b /\ i = Len(a) + (i - Len(a))
      BY <1>1, <1>3
    <3> QED  BY <3>1
  <2>2. c[i] = b[l]
    BY <1>1, <2>1
  <2>3. b[l].kind \in Reports
    BY <2>2 DEF Announces
  <2>4. ASSUME b[l].kind \in Announcements
        PROVE  \E j \in 1..(i - 1) : c[j].do = "save" /\ c[j].ref = c[i].ref
    <3>1. PICK j \in 1..(l - 1) : b[j].do = "save" /\ b[j].ref = b[l].ref
      BY <2>2, <2>4 DEF Announces
    <3>2. j \in 1..Len(b) /\ Len(a) + j \in 1..(i - 1)
      BY <1>1, <2>1
    <3>3. c[Len(a) + j] = b[j]
      BY <1>1, <3>2
    <3> QED  BY <2>2, <3>1, <3>2, <3>3
  <2> QED  BY <2>2, <2>3, <2>4
<1>4. i <= Len(a) \/ i > Len(a)
  BY <1>1
<1> QED  BY <1>2, <1>3, <1>4

(* An answered call stays one when operations follow ...                    *)
LEMMA AnsweredFirst ==
    ASSUME NEW a \in Seq(Op), NEW b \in Seq(Op),
           NEW i \in DOMAIN a, NEW j \in DOMAIN a, Answered(a, i, j)
    PROVE  Answered(a \o b, i, j)
<1> DEFINE c == a \o b
<1>1. Len(a) \in Nat /\ DOMAIN a = 1..Len(a) /\ \A k \in 1..Len(a) : c[k] = a[k]
  BY Concat
<1> HIDE DEF c
<1>2. c[i] = a[i] /\ c[j] = a[j]
  BY <1>1
<1>3. \A k \in (i + 1)..(j - 1) : c[k] = a[k]
  BY <1>1
<1> QED  BY <1>2, <1>3 DEF Answered, c

(* ... and when operations come before, that far on.                        *)
LEMMA AnsweredSecond ==
    ASSUME NEW a \in Seq(Op), NEW b \in Seq(Op),
           NEW i \in DOMAIN b, NEW j \in DOMAIN b, Answered(b, i, j)
    PROVE  Answered(a \o b, Len(a) + i, Len(a) + j)
<1> DEFINE c == a \o b
<1>1. /\ Len(a) \in Nat /\ Len(b) \in Nat /\ DOMAIN b = 1..Len(b)
      /\ \A k \in 1..Len(b) : c[Len(a) + k] = b[k]
  BY Concat
<1> HIDE DEF c
<1>2. c[Len(a) + i] = b[i] /\ c[Len(a) + j] = b[j] /\ Len(a) + i < Len(a) + j
  BY <1>1 DEF Answered
<1>3. ASSUME NEW k \in ((Len(a) + i) + 1)..((Len(a) + j) - 1)
      PROVE  \/ c[k].do = "emit" /\ c[k].kind \notin Answers \cup {"tool.started"}
             \/ c[k].do = "invoke" /\ c[k].ref = c[Len(a) + i].ref
  <2>1. PICK l \in (i + 1)..(j - 1) : k = Len(a) + l
    <3>1. k - Len(a) \in (i + 1)..(j - 1) /\ k = Len(a) + (k - Len(a))
      BY <1>1
    <3> QED  BY <3>1
  <2>2. l \in 1..Len(b)
    BY <1>1
  <2>3. c[k] = b[l]
    BY <1>1, <2>1, <2>2
  <2> QED  BY <1>2, <2>3 DEF Answered
<1>4. /\ c[Len(a) + i].ref = c[Len(a) + j].ref
      /\ c[Len(a) + i].do = "emit" /\ c[Len(a) + i].kind = "tool.started"
      /\ c[Len(a) + j].do = "emit" /\ c[Len(a) + j].kind = "tool.result"
  BY <1>2 DEF Answered
<1>5. Answered(c, Len(a) + i, Len(a) + j)
  BY <1>2, <1>3, <1>4 DEF Answered
<1> QED  BY <1>5 DEF c

\* The calls of both are answered, each in its own part.
LEMMA ConcatCalling ==
    ASSUME NEW a \in Seq(Op), NEW b \in Seq(Op),
           \A i \in DOMAIN a : Calling(a, i), \A i \in DOMAIN b : Calling(b, i),
           NEW i \in DOMAIN (a \o b)
    PROVE  Calling(a \o b, i)
<1> DEFINE c == a \o b
<1>1. /\ Len(a) \in Nat /\ DOMAIN a = 1..Len(a) /\ Len(b) \in Nat /\ DOMAIN b = 1..Len(b)
      /\ DOMAIN c = 1..(Len(a) + Len(b)) /\ Len(c) = Len(a) + Len(b)
      /\ \A k \in 1..Len(a) : c[k] = a[k]
      /\ \A k \in 1..Len(b) : c[Len(a) + k] = b[k]
  BY Concat
<1>2. /\ \A k, j \in DOMAIN a : Answered(a, k, j) => Answered(c, k, j)
      /\ \A k, j \in DOMAIN b : Answered(b, k, j) => Answered(c, Len(a) + k, Len(a) + j)
  BY AnsweredFirst, AnsweredSecond
<1>3. i \in DOMAIN c
  OBVIOUS
<1> HIDE DEF c
<1>4. CASE i <= Len(a)
  <2>1. i \in DOMAIN a /\ c[i] = a[i] /\ Calling(a, i)
    BY <1>1, <1>3, <1>4
  <2>2. /\ \A j \in (i + 1)..Len(a) : j \in DOMAIN a /\ j \in (i + 1)..Len(c)
        /\ \A j \in 1..(i - 1) : j \in DOMAIN a /\ c[j] = a[j]
    BY <1>1, <2>1
  <2>3. a[i].do = "emit" /\ a[i].kind = "tool.started" =>
            \E j \in (i + 1)..Len(c) : Answered(c, i, j)
    BY <1>2, <2>1, <2>2 DEF Calling
  <2>4. a[i].do = "emit" /\ a[i].kind \in Answers => \E j \in 1..(i - 1) : Answered(c, j, i)
    BY <1>2, <2>1, <2>2 DEF Calling
  <2>5. a[i].do = "invoke" =>
            \E j \in 1..(i - 1), k \in (i + 1)..Len(c) : Answered(c, j, k) /\ c[j].ref = a[i].ref
    <3> SUFFICES ASSUME a[i].do = "invoke"
                 PROVE  \E j \in 1..(i - 1), k \in (i + 1)..Len(c) : Answered(c, j, k) /\ c[j].ref = a[i].ref
      OBVIOUS
    <3>1. PICK j \in 1..(i - 1), k \in (i + 1)..Len(a) : Answered(a, j, k) /\ a[j].ref = a[i].ref
      BY <2>1 DEF Calling
    <3>2. Answered(c, j, k) /\ c[j].ref = a[i].ref /\ k \in (i + 1)..Len(c)
      BY <1>2, <2>2, <3>1
    <3> QED  BY <3>2
  <2> QED  BY <2>1, <2>3, <2>4, <2>5 DEF Calling, c
<1>5. CASE i > Len(a)
  <2>1. PICK l \in DOMAIN b : i = Len(a) + l
    <3>1. i - Len(a) \in DOMAIN b /\ i = Len(a) + (i - Len(a))
      BY <1>1, <1>3, <1>5
    <3> QED  BY <3>1
  <2>2. c[i] = b[l] /\ Calling(b, l)
    BY <1>1, <2>1
  <2>3. /\ \A j \in (l + 1)..Len(b) : j \in DOMAIN b /\ Len(a) + j \in (i + 1)..Len(c)
        /\ \A j \in 1..(l - 1) : j \in DOMAIN b /\ c[Len(a) + j] = b[j] /\ Len(a) + j \in 1..(i - 1)
    <3>1. \A j \in (l + 1)..Len(b) : j \in DOMAIN b /\ Len(a) + j \in (i + 1)..Len(c)
      BY <1>1, <2>1
    <3>2. \A j \in 1..(l - 1) : j \in 1..Len(b) /\ Len(a) + j \in 1..(i - 1)
      BY <1>1, <2>1
    <3> QED  BY <1>1, <3>1, <3>2
  <2>4. b[l].do = "emit" /\ b[l].kind = "tool.started" =>
            \E j \in (i + 1)..Len(c) : Answered(c, i, j)
    BY <1>2, <2>1, <2>2, <2>3 DEF Calling
  <2>5. b[l].do = "emit" /\ b[l].kind \in Answers => \E j \in 1..(i - 1) : Answered(c, j, i)
    BY <1>2, <2>1, <2>2, <2>3 DEF Calling
  <2>6. b[l].do = "invoke" =>
            \E j \in 1..(i - 1), k \in (i + 1)..Len(c) : Answered(c, j, k) /\ c[j].ref = b[l].ref
    <3> SUFFICES ASSUME b[l].do = "invoke"
                 PROVE  \E j \in 1..(i - 1), k \in (i + 1)..Len(c) : Answered(c, j, k) /\ c[j].ref = b[l].ref
      OBVIOUS
    <3>1. PICK j \in 1..(l - 1), k \in (l + 1)..Len(b) : Answered(b, j, k) /\ b[j].ref = b[l].ref
      BY <2>2 DEF Calling
    <3>2. /\ Answered(c, Len(a) + j, Len(a) + k) /\ c[Len(a) + j].ref = b[l].ref
          /\ Len(a) + k \in (i + 1)..Len(c) /\ Len(a) + j \in 1..(i - 1)
      BY <1>2, <2>3, <3>1
    <3> QED  BY <3>2
  <2> QED  BY <2>2, <2>4, <2>5, <2>6 DEF Calling, c
<1>6. i <= Len(a) \/ i > Len(a)
  BY <1>1, <1>3
<1> QED  BY <1>4, <1>5, <1>6

\* Well-formed operations, one after the other, are well formed.
LEMMA PiecesTogether ==
    /\ <<>> \in Pieces /\ Pieces \in SUBSET Seq(Op)
    /\ \A a, b \in Pieces : a \o b \in Pieces
<1>1. <<>> \in Pieces
  BY DEF Pieces, Announces
<1>2. ASSUME NEW a \in Pieces, NEW b \in Pieces PROVE a \o b \in Pieces
  <2>1. a \in Seq(Op) /\ b \in Seq(Op) /\ Announces(a) /\ Announces(b)
        /\ (\A i \in DOMAIN a : Calling(a, i)) /\ (\A i \in DOMAIN b : Calling(b, i))
    BY DEF Pieces
  <2>2. a \o b \in Seq(Op)
    BY <2>1
  <2>3. Announces(a \o b)
    BY <2>1, ConcatAnnounces
  <2>4. \A i \in DOMAIN (a \o b) : Calling(a \o b, i)
    BY <2>1, ConcatCalling
  <2> QED  BY <2>2, <2>3, <2>4 DEF Pieces
<1> QED  BY <1>1, <1>2 DEF Pieces

------------------------------------------------------------------------------
(****************************************************************************)
(* The pieces of a script are well formed: each event that announces an     *)
(* element follows its save, and each call has its answer.                  *)
(****************************************************************************)
Plain == Reports \ (Announcements \cup Answers \cup {"tool.started"})
\* Events that are no announcement, call or answer
LEMMA PlainKinds ==
    \A k \in Plain : /\ k \in Reports /\ k \in OpKinds
                     /\ k \notin Announcements /\ k \notin Answers /\ k # "tool.started"
BY DEF Plain, OpKinds

\* The operations of the engine are of the type Op.
LEMMA OpType ==
    ASSUME NEW do \in {"emit", "save", "poll", "invoke", "cycle", "store", "raise"},
           NEW kind \in OpKinds, NEW ref \in Ref, NEW ends \in SUBSET Ref
    PROVE  [do |-> do, kind |-> kind, ref |-> ref, ends |-> ends] \in Op
BY DEF Op

\* The operations of a sequence of one ...
LEMMA OneOp ==
    ASSUME NEW op \in Op
    PROVE  <<op>> \in Seq(Op) /\ Len(<<op>>) = 1 /\ DOMAIN <<op>> = 1..1 /\ <<op>>[1] = op
OBVIOUS

\* ... of two ...
LEMMA TwoOps ==
    ASSUME NEW a \in Op, NEW b \in Op
    PROVE  <<a>> \o <<b>> = <<a, b>>
<1>1. PICK x : x = <<a>> \o <<b>>
  OBVIOUS
<1>2. x \in Seq(Op) /\ Len(x) = 2 /\ x[1] = a /\ x[2] = b
  <2>1. PICK s : s = <<a>> /\ s \in Seq(Op) /\ Len(s) = 1 /\ s[1] = a
    BY OneOp
  <2>2. PICK t : t = <<b>> /\ t \in Seq(Op) /\ Len(t) = 1 /\ t[1] = b
    BY OneOp
  <2> HIDE <1>1
  <2>3. s \o t \in Seq(Op) /\ Len(s \o t) = 2 /\ (s \o t)[1] = a /\ (s \o t)[2] = b
    <3>1. s \o t \in Seq(Op) /\ Len(s \o t) = Len(s) + Len(t)
      BY <2>1, <2>2, ConcatProperties
    <3>2. \A i \in 1..(Len(s) + Len(t)) : (s \o t)[i] = IF i <= Len(s) THEN s[i] ELSE t[i - Len(s)]
      BY <2>1, <2>2, ConcatProperties
    <3> QED  BY <2>1, <2>2, <3>1, <3>2
  <2> QED  BY <1>1, <2>1, <2>2, <2>3
<1>3. PICK y : y = <<a, b>>
  OBVIOUS
<1>4. y \in Seq(Op) /\ Len(y) = 2 /\ y[1] = a /\ y[2] = b
  BY <1>3
<1>5. Len(x) = Len(y) /\ \A i \in 1..Len(x) : x[i] = y[i]
  <2>1. \A i \in 1..2 : i = 1 \/ i = 2
    OBVIOUS
  <2> QED  BY <1>2, <1>4, <2>1
<1>6. x = y
  BY <1>2, <1>4, <1>5, SeqEqual
<1> QED  BY <1>1, <1>3, <1>6

\* ... and of three
LEMMA ThreeOps ==
    ASSUME NEW a \in Op, NEW b \in Op, NEW c \in Op
    PROVE  <<a>> \o <<b>> \o <<c>> = <<a, b, c>>
<1>1. PICK s : s = <<a, b>>
  OBVIOUS
<1>2. s \in Seq(Op) /\ Len(s) = 2 /\ s[1] = a /\ s[2] = b
  BY <1>1
<1>3. PICK t : t = <<c>> /\ t \in Seq(Op) /\ Len(t) = 1 /\ t[1] = c
  BY OneOp
<1>4. PICK x : x = s \o t
  OBVIOUS
<1>5. x \in Seq(Op) /\ Len(x) = 3 /\ x[1] = a /\ x[2] = b /\ x[3] = c
  <2>1. x \in Seq(Op) /\ Len(x) = Len(s) + Len(t)
    BY <1>2, <1>3, <1>4, ConcatProperties
  <2>2. \A i \in 1..(Len(s) + Len(t)) : x[i] = IF i <= Len(s) THEN s[i] ELSE t[i - Len(s)]
    BY <1>2, <1>3, <1>4, ConcatProperties
  <2> QED  BY <1>2, <1>3, <2>1, <2>2
<1>6. PICK y : y = <<a, b, c>>
  OBVIOUS
<1>7. y \in Seq(Op) /\ Len(y) = 3 /\ y[1] = a /\ y[2] = b /\ y[3] = c
  BY <1>6
<1>8. Len(x) = Len(y) /\ \A i \in 1..Len(x) : x[i] = y[i]
  <2>1. \A i \in 1..3 : i = 1 \/ i = 2 \/ i = 3
    OBVIOUS
  <2> QED  BY <1>5, <1>7, <2>1
<1>9. x = y
  BY <1>5, <1>7, <1>8, SeqEqual
<1> QED  BY <1>1, <1>3, <1>4, <1>6, <1>9, TwoOps

\* To emit is one operation.
LEMMA OneEmit ==
    ASSUME NEW kind \in OpKinds, NEW ref \in Ref
    PROVE  Emit(kind, ref) \in Seq(Op)
<1>1. [do |-> "emit", kind |-> kind, ref |-> ref, ends |-> {}] \in Op
  BY OpType
<1> QED  BY <1>1, OneOp DEF Emit

\* An operation that emits no announcement, calls no tool and answers no call
LEMMA OnePiece ==
    ASSUME NEW op \in Op, op.do # "invoke", op.do = "emit" => op.kind \in Plain
    PROVE  <<op>> \in Pieces
<1>1. PICK x : x = <<op>> /\ x \in Seq(Op) /\ Len(x) = 1 /\ DOMAIN x = 1..1 /\ x[1] = op
  BY OneOp
<1>2. /\ op.do = "emit" => op.kind \in Reports /\ op.kind \notin Announcements
      /\ op.do = "emit" => op.kind \notin Answers /\ op.kind # "tool.started"
  BY PlainKinds
<1>3. \A i \in DOMAIN x : x[i] = op
  BY <1>1
<1>4. Announces(x)
  BY <1>2, <1>3 DEF Announces
<1>5. \A i \in DOMAIN x : Calling(x, i)
  BY <1>2, <1>3 DEF Calling
<1> QED  BY <1>1, <1>4, <1>5 DEF Pieces

\* Any other event may be emitted alone,
LEMMA EmitPiece == ASSUME NEW kind \in Plain, NEW ref \in Ref PROVE Emit(kind, ref) \in Pieces
<1>1. PICK op : op = [do |-> "emit", kind |-> kind, ref |-> ref, ends |-> {}]
  OBVIOUS
<1>2. op \in Op
  BY <1>1, PlainKinds, OpType
<1> QED  BY <1>1, <1>2, OnePiece DEF Emit

\* and so may an operation that emits none.
LEMMA OtherPieces ==
    /\ Poll \in Pieces /\ Raise \in Pieces
    /\ \A kind \in OpKinds : Store(kind) \in Pieces
    /\ \A ref \in Ref : <<[do |-> "cycle", kind |-> "", ref |-> ref, ends |-> {}]>> \in Pieces
<1>1. None \in Ref
  BY DEF Ref
<1>2. \A do \in {"poll", "raise", "store", "cycle"}, kind \in OpKinds, ref \in Ref :
          <<[do |-> do, kind |-> kind, ref |-> ref, ends |-> {}]>> \in Pieces
  <2> TAKE do \in {"poll", "raise", "store", "cycle"}, kind \in OpKinds, ref \in Ref
  <2>1. PICK op : op = [do |-> do, kind |-> kind, ref |-> ref, ends |-> {}]
    OBVIOUS
  <2>2. op \in Op
    BY <2>1, OpType
  <2>3. op.do # "invoke" /\ op.do # "emit"
    BY <2>1
  <2> QED  BY <2>1, <2>2, <2>3, OnePiece
<1>3. {} \in SUBSET Ref /\ "" \in OpKinds
  BY DEF OpKinds
<1>4. Poll \in Pieces /\ Raise \in Pieces
  BY <1>1, <1>2, <1>3 DEF Poll, Raise
<1>5. \A kind \in OpKinds : Store(kind) \in Pieces
  BY <1>1, <1>2 DEF Store
<1>6. \A ref \in Ref : <<[do |-> "cycle", kind |-> "", ref |-> ref, ends |-> {}]>> \in Pieces
  BY <1>2, <1>3
<1> QED  BY <1>4, <1>5, <1>6

\* The kinds of a call and its answer
LEMMA CallKinds ==
    /\ "tool.started" \in Reports /\ "tool.result" \in Reports
    /\ "tool.started" \in OpKinds /\ "tool.result" \in OpKinds /\ "" \in OpKinds
    /\ "tool.started" \notin Announcements /\ "tool.result" \notin Announcements
    /\ "tool.started" \notin Answers /\ "tool.result" \in Answers
    /\ {} \in SUBSET Ref
BY DEF Reports, Announcements, Answers, OpKinds

\* A call, one more event or the run of its tool, and the answer
LEMMA CallPiece ==
    ASSUME NEW step \in Ref, NEW op \in Op,
           \/ op.do = "emit" /\ op.kind \in Plain
           \/ op.do = "invoke" /\ op.ref = step
    PROVE  Emit("tool.started", step) \o <<op>> \o Emit("tool.result", step) \in Pieces
<1>1. PICK call : call = [do |-> "emit", kind |-> "tool.started", ref |-> step, ends |-> {}]
  OBVIOUS
<1>2. PICK result : result = [do |-> "emit", kind |-> "tool.result", ref |-> step, ends |-> {}]
  OBVIOUS
<1>3. call \in Op /\ result \in Op
  BY <1>1, <1>2, CallKinds, OpType
<1>4. PICK ops : ops = <<call, op, result>>
  OBVIOUS
<1>5. ops \in Seq(Op) /\ Len(ops) = 3 /\ DOMAIN ops = 1..3 /\ ops[1] = call /\ ops[2] = op /\ ops[3] = result
  BY <1>3, <1>4
<1>6. /\ "tool.started" \in Reports /\ "tool.result" \in Reports
      /\ "tool.started" \notin Announcements /\ "tool.result" \notin Announcements
      /\ "tool.started" \notin Answers /\ "tool.result" \in Answers
  BY CallKinds
<1>7. Announces(ops)
  <2>1. \A i \in 1..3 : ops[i].do = "emit" => ops[i].kind \in Reports /\ ops[i].kind \notin Announcements
    <3>1. ops[2].do = "emit" => ops[2].kind \in Reports /\ ops[2].kind \notin Announcements
      BY <1>5, PlainKinds
    <3>2. \A i \in 1..3 : i = 1 \/ i = 2 \/ i = 3
      OBVIOUS
    <3> QED  BY <1>1, <1>2, <1>5, <1>6, <3>1, <3>2
  <2> QED  BY <1>5, <2>1 DEF Announces
<1>8. Answered(ops, 1, 3)
  <2>1. \A k \in (1 + 1)..(3 - 1) : k = 2
    OBVIOUS
  <2>2. ops[2].do = "emit" => ops[2].kind \notin Answers \cup {"tool.started"}
    BY <1>5, PlainKinds
  <2> QED  BY <1>1, <1>2, <1>5, <2>1, <2>2 DEF Answered
<1>9. Calling(ops, 1)
  <2>1. ops[1].do = "emit" /\ ops[1].kind = "tool.started" /\ 3 \in (1 + 1)..Len(ops)
    BY <1>1, <1>5
  <2> QED  BY <1>6, <1>8, <2>1 DEF Calling
<1>10. Calling(ops, 2)
  <2>1. 1 \in 1..(2 - 1) /\ 3 \in (2 + 1)..Len(ops) /\ ops[1].ref = step
    BY <1>1, <1>5
  <2>2. ops[2].do = "emit" => ops[2].kind \notin Answers /\ ops[2].kind # "tool.started"
    BY <1>5, PlainKinds
  <2>3. ops[2].do = "invoke" => ops[2].ref = step
    BY <1>5
  <2> QED  BY <1>8, <2>1, <2>2, <2>3 DEF Calling
<1>11. Calling(ops, 3)
  <2>1. ops[3].do = "emit" /\ ops[3].kind = "tool.result" /\ 1 \in 1..(3 - 1)
    BY <1>2, <1>5
  <2> QED  BY <1>6, <1>8, <2>1 DEF Calling
<1>12. ops \in Pieces
  <2>1. \A i \in DOMAIN ops : i = 1 \/ i = 2 \/ i = 3
    BY <1>5
  <2> QED  BY <1>5, <1>7, <1>9, <1>10, <1>11, <2>1 DEF Pieces
<1> QED  BY <1>1, <1>2, <1>3, <1>4, <1>12, ThreeOps DEF Emit

\* Where the brackets are makes no difference.
LEMMA FourTogether ==
    ASSUME NEW S, NEW a \in Seq(S), NEW x \in Seq(S), NEW z \in Seq(S), NEW y \in Seq(S)
    PROVE  a \o x \o z \o y = a \o (x \o z \o y)
<1>1. PICK v : v = x \o z
  OBVIOUS
<1>2. v \in Seq(S)
  BY <1>1, ConcatProperties
<1>3. a \o x \o z = a \o v
  BY <1>1, ConcatAssociative
<1>4. (a \o v) \o y = a \o (v \o y)
  BY <1>2, ConcatAssociative
<1> QED  BY <1>1, <1>3, <1>4

\* A tool that is run is called before and answered after (_run_tool).
LEMMA ToolPiece == ASSUME NEW step \in Ref PROVE Tool(step) \in Pieces
<1>1. PICK op : op = [do |-> "invoke", kind |-> "", ref |-> step, ends |-> {}]
  OBVIOUS
<1>2. op \in Op /\ op.do = "invoke" /\ op.ref = step
  BY <1>1, CallKinds, OpType
<1>3. PICK a : a = Emit("step.started", step) /\ a \in Pieces
  BY EmitPiece DEF Plain, Reports, Announcements, Answers
<1>4. PICK b : b = Emit("step.completed", step) /\ b \in Pieces
  BY EmitPiece DEF Plain, Reports, Announcements, Answers
<1>5. PICK c : c = Emit("tool.started", step) \o <<op>> \o Emit("tool.result", step) /\ c \in Pieces
  BY <1>2, CallPiece
<1>6. Tool(step) = a \o c \o b
  <2>1. Tool(step) = a \o Emit("tool.started", step) \o <<op>> \o Emit("tool.result", step) \o b
    BY <1>1, <1>3, <1>4 DEF Tool
  <2>2. PICK x : x = Emit("tool.started", step) /\ x \in Seq(Op)
    BY OneEmit, CallKinds
  <2>3. PICK y : y = Emit("tool.result", step) /\ y \in Seq(Op)
    BY OneEmit, CallKinds
  <2>4. PICK z : z = <<op>> /\ z \in Seq(Op)
    BY <1>2, OneOp
  <2>5. a \in Seq(Op)
    BY <1>3 DEF Pieces
  <2>6. a \o x \o z \o y = a \o (x \o z \o y)
    BY <2>2, <2>3, <2>4, <2>5, FourTogether
  <2> QED  BY <1>5, <2>1, <2>2, <2>3, <2>4, <2>6
<1> QED  BY <1>3, <1>4, <1>5, <1>6, PiecesTogether

\* An announcement neither calls nor answers a tool.
LEMMA AnnouncementKinds ==
    \A kind \in Announcements : kind \in Reports /\ kind \in OpKinds /\ kind \notin Answers /\ kind # "tool.started"
BY DEF Announcements, Reports, Answers, OpKinds

\* An element that is saved may be announced right after.
LEMMA SavedPiece ==
    ASSUME NEW ref \in Ref, NEW save \in Op, save.do = "save", save.ref = ref,
           NEW a \in Op, a.do = "emit", a.kind \in Announcements, a.ref = ref,
           NEW kind \in Announcements
    PROVE  /\ <<save>> \o <<a>> \in Pieces
           /\ <<save>> \o <<a>> \o Emit(kind, ref) \in Pieces
<1>2. PICK b : b = [do |-> "emit", kind |-> kind, ref |-> ref, ends |-> {}]
  OBVIOUS
<1>3. b \in Op
  BY <1>2, AnnouncementKinds, CallKinds, OpType
<1>4. ASSUME NEW n \in {2, 3}, NEW ops \in Seq(Op), Len(ops) = n, ops[1] = save,
             \A i \in 2..n : ops[i] = a \/ ops[i] = b
      PROVE  ops \in Pieces
  <2>1. DOMAIN ops = 1..n /\ \A i \in DOMAIN ops : i = 1 \/ i \in 2..n
    BY <1>4
  <2>2. \A i \in DOMAIN ops : ops[i].do = "emit" =>
            /\ i \in 2..n /\ ops[i].kind \in Announcements /\ ops[i].ref = ref
    BY <1>2, <1>4, <2>1
  <2>3. \A i \in DOMAIN ops : ops[i].do # "invoke"
    BY <1>2, <1>4, <2>1
  <2>4. \A i \in 2..n : 1 \in 1..(i - 1)
    OBVIOUS
  <2>5. Announces(ops)
    BY <1>4, <2>2, <2>4, AnnouncementKinds DEF Announces
  <2>6. \A i \in DOMAIN ops : Calling(ops, i)
    BY <2>2, <2>3, AnnouncementKinds DEF Calling
  <2> QED  BY <2>5, <2>6 DEF Pieces
<1>5. PICK s : s = <<save, a>>
  OBVIOUS
<1>6. s \in Seq(Op) /\ Len(s) = 2 /\ s[1] = save /\ s[2] = a
  BY <1>3, <1>5
<1>7. s \in Pieces
  BY <1>4, <1>6
<1>8. PICK t : t = <<save, a, b>>
  OBVIOUS
<1>9. t \in Seq(Op) /\ Len(t) = 3 /\ t[1] = save /\ t[2] = a /\ t[3] = b
  BY <1>3, <1>8
<1>10. t \in Pieces
  <2>1. \A i \in 2..3 : i = 2 \/ i = 3
    OBVIOUS
  <2> QED  BY <1>4, <1>9, <2>1
<1>11. <<save>> \o <<a>> = s
  BY <1>3, <1>5, TwoOps
<1>12. <<save>> \o <<a>> \o <<b>> = t
  BY <1>3, <1>8, ThreeOps
<1> QED  BY <1>2, <1>7, <1>10, <1>11, <1>12 DEF Emit

\* add_node, add_edge and update_node save and then announce.
LEMMA GraphPieces ==
    /\ \A ref \in Ref : Node(ref) \in Pieces /\ Update(ref) \in Pieces
    /\ \A ref, source, target \in Ref : Edge(ref, source, target) \in Pieces
<1>1. \A kind \in {"node", "edge", "update"}, ref \in Ref, ends \in SUBSET Ref :
          [do |-> "save", kind |-> kind, ref |-> ref, ends |-> ends] \in Op
  BY OpType DEF OpKinds
<1>2. /\ "node.added" \in Announcements /\ "node.updated" \in Announcements
      /\ "edge.added" \in Announcements /\ "edge.activated" \in Announcements
      /\ \A kind \in Announcements, ref \in Ref, ends \in SUBSET Ref :
             [do |-> "emit", kind |-> kind, ref |-> ref, ends |-> ends] \in Op
  BY AnnouncementKinds, OpType DEF Announcements
<1>3. ASSUME NEW ref \in Ref PROVE Node(ref) \in Pieces
  <2>1. PICK save : save = [do |-> "save", kind |-> "node", ref |-> ref, ends |-> {}]
    OBVIOUS
  <2>2. save \in Op /\ save.do = "save" /\ save.ref = ref
    BY <1>1, <2>1
  <2>3. PICK a : a = [do |-> "emit", kind |-> "node.added", ref |-> ref, ends |-> {}]
    OBVIOUS
  <2>4. a \in Op /\ a.do = "emit" /\ a.kind \in Announcements /\ a.ref = ref
    BY <1>2, <2>3
  <2> QED  BY <1>2, <2>1, <2>2, <2>3, <2>4, SavedPiece DEF Node, SaveNode, Emit
<1>4. ASSUME NEW ref \in Ref PROVE Update(ref) \in Pieces
  <2>1. PICK save : save = [do |-> "save", kind |-> "update", ref |-> ref, ends |-> {ref}]
    OBVIOUS
  <2>2. save \in Op /\ save.do = "save" /\ save.ref = ref
    BY <1>1, <2>1
  <2>3. PICK a : a = [do |-> "emit", kind |-> "node.updated", ref |-> ref, ends |-> {}]
    OBVIOUS
  <2>4. a \in Op /\ a.do = "emit" /\ a.kind \in Announcements /\ a.ref = ref
    BY <1>2, <2>3
  <2> QED  BY <1>2, <2>1, <2>2, <2>3, <2>4, SavedPiece DEF Update, Emit
<1>5. ASSUME NEW ref \in Ref, NEW source \in Ref, NEW target \in Ref
      PROVE  Edge(ref, source, target) \in Pieces
  <2>1. PICK save : save = [do |-> "save", kind |-> "edge", ref |-> ref, ends |-> {source, target}]
    OBVIOUS
  <2>2. save \in Op /\ save.do = "save" /\ save.ref = ref
    BY <1>1, <2>1
  <2>3. PICK a : a = [do |-> "emit", kind |-> "edge.added", ref |-> ref, ends |-> {source, target}]
    OBVIOUS
  <2>4. a \in Op /\ a.do = "emit" /\ a.kind \in Announcements /\ a.ref = ref
    BY <1>2, <2>3
  <2> QED  BY <1>2, <2>1, <2>2, <2>3, <2>4, SavedPiece DEF Edge, SaveEdge
<1> QED  BY <1>3, <1>4, <1>5

\* What may be referred to
LEMMA Refs ==
    /\ None \in Ref
    /\ \A name \in Names : Id(name) \in Ref /\ Id(name) \in NodeRef
    /\ \A name \in Names, n \in Nat : <<name, n>> \in Ref /\ <<name, n>> \in NodeRef
    /\ \A name \in Edges, n \in Nat : EdgeId(name, n) \in Ref /\ EdgeId(name, n) \in EdgeRef
BY DEF Ref, NodeRef, EdgeRef, Id, EdgeId

\* The elements of a sequence
LEMMA Elements ==
    ASSUME NEW T, NEW s \in Seq(T)
    PROVE  Len(s) \in Nat /\ DOMAIN s = 1..Len(s) /\ \A i \in DOMAIN s : s[i] \in T /\ i \in Nat
OBVIOUS

\* The types of the inputs of a run
LEMMA InputTypes ==
    ASSUME NEW in, InputOK(in)
    PROVE  /\ in.runner \in Runners /\ in.documents \in BOOLEAN
           /\ in.claims \in Nat /\ Claims(in) \in Nat /\ Claims(in) <= in.claims
           /\ Len(in.cycle) \in Nat /\ DOMAIN in.cycle = 1..Len(in.cycle)
           /\ \A i \in DOMAIN in.cycle :
                  in.cycle[i].call \in Names /\ in.cycle[i].call \notin EngineNodes /\ i \in Nat
           /\ Len(in.steps) \in Nat /\ DOMAIN in.steps = 1..Len(in.steps)
           /\ \A i \in DOMAIN in.steps : in.steps[i].id \in Names /\ i \in Nat
           /\ Len(in.hypotheses) \in Nat /\ DOMAIN in.hypotheses = 1..Len(in.hypotheses)
           /\ \A i \in DOMAIN in.hypotheses :
                  in.hypotheses[i].id \in NodeRef /\ in.hypotheses[i].structured \in BOOLEAN /\ i \in Nat
<1>1. PICK C : C = [call : Names, prior : SUBSET Names]
  OBVIOUS
<1>2. PICK P : P = [id : Names, needs : SUBSET Names]
  OBVIOUS
<1>3. PICK H : H = [id : NodeRef, structured : BOOLEAN]
  OBVIOUS
<1>4. in.cycle \in Seq(C) /\ in.steps \in Seq(P) /\ in.hypotheses \in Seq(H)
  BY <1>1, <1>2, <1>3 DEF InputOK
<1>5. /\ \A c \in C : c.call \in Names
      /\ \A p \in P : p.id \in Names
      /\ \A h \in H : h.id \in NodeRef /\ h.structured \in BOOLEAN
  BY <1>1, <1>2, <1>3
<1> HIDE <1>1, <1>2, <1>3
<1>6. Len(in.cycle) \in Nat /\ DOMAIN in.cycle = 1..Len(in.cycle)
      /\ \A i \in DOMAIN in.cycle : in.cycle[i] \in C /\ i \in Nat
  BY <1>4, Elements
<1>7. Len(in.steps) \in Nat /\ DOMAIN in.steps = 1..Len(in.steps)
      /\ \A i \in DOMAIN in.steps : in.steps[i] \in P /\ i \in Nat
  BY <1>4, Elements
<1>8. Len(in.hypotheses) \in Nat /\ DOMAIN in.hypotheses = 1..Len(in.hypotheses)
      /\ \A i \in DOMAIN in.hypotheses : in.hypotheses[i] \in H /\ i \in Nat
  BY <1>4, Elements
<1>9. in.claims \in Nat /\ Claims(in) \in Nat /\ Claims(in) <= in.claims
  BY MaxClaimsOK DEF InputOK, Claims
<1>10. in.runner \in Runners /\ in.documents \in BOOLEAN
       /\ \A i \in DOMAIN in.cycle : in.cycle[i].call \notin EngineNodes
  BY DEF InputOK
<1> QED  BY <1>5, <1>6, <1>7, <1>8, <1>9, <1>10

------------------------------------------------------------------------------
(****************************************************************************)
(* _ordered_steps: for a plan that validate_flow_plan has accepted there is *)
(* always a step that is ready, so the order has all steps of the plan, each*)
(* after those that it needs.                                               *)
(****************************************************************************)
(* A step can be taken again and again.                                     *)
Iterates(f, T, n, e, next) ==
    /\ f \in [0..n -> T]
    /\ f[0] = e
    /\ \A i \in 1..n : f[i] = next[f[i - 1]]

\* A step that leads from T to T can be taken n times.
LEMMA Iterate ==
    ASSUME NEW T, NEW n \in Nat, NEW e \in T, NEW next \in [T -> T]
    PROVE  \E f : Iterates(f, T, n, e, next)
<1> DEFINE Part(f, m) == f[0] = e /\ \A i \in 1..m : f[i] = next[f[i - 1]]
           Good == {m \in 0..n : \E f \in [0..m -> T] : Part(f, m)}
<1>1. 0 \in Good
  <2>1. PICK f : f = [i \in 0..0 |-> e]
    OBVIOUS
  <2>2. f \in [0..0 -> T] /\ f[0] = e
    BY <2>1
  <2>3. Part(f, 0)
    BY <2>2
  <2> QED  BY <2>2, <2>3
<1>2. ASSUME NEW m \in 0..(n - 1), m \in Good PROVE m + 1 \in Good
  <2>1. PICK f \in [0..m -> T] : Part(f, m)
    BY <1>2
  <2>2. f[m] \in T /\ m \in Nat
    OBVIOUS
  <2>3. PICK v \in T : v = next[f[m]]
    BY <2>2
  <2>4. PICK g : g = [i \in 0..(m + 1) |-> IF i <= m THEN f[i] ELSE v]
    OBVIOUS
  <2>5. g \in [0..(m + 1) -> T] /\ g[m + 1] = v /\ \A i \in 0..m : g[i] = f[i]
    BY <2>2, <2>3, <2>4
  <2>6. ASSUME NEW i \in 1..(m + 1) PROVE g[i] = next[g[i - 1]]
    <3>1. CASE i <= m
      <4>1. g[i] = f[i] /\ g[i - 1] = f[i - 1] /\ i \in 1..m
        BY <2>2, <2>5, <3>1
      <4> QED  BY <2>1, <4>1
    <3>2. CASE i = m + 1
      <4>1. g[i] = v /\ g[i - 1] = f[m]
        BY <2>2, <2>5, <3>2
      <4> QED  BY <2>3, <4>1
    <3>3. i <= m \/ i = m + 1
      BY <2>2
    <3> QED  BY <3>1, <3>2, <3>3
  <2>7. m + 1 \in 0..n /\ g[0] = e
    BY <2>1, <2>2, <2>5
  <2> QED  BY <2>5, <2>6, <2>7
<1>3. \A i \in 0..n : i \in Good
  <2> HIDE DEF Good
  <2> QED  BY <1>1, <1>2, UpTo
<1>4. n \in 0..n
  OBVIOUS
<1> QED  BY <1>3, <1>4 DEF Iterates

\* How many numbers there are from 1 to n
LEMMA Sizes ==
    ASSUME NEW n \in Nat
    PROVE  IsFiniteSet(1..n) /\ Cardinality(1..n) = n
BY FS_Interval

(* A set of numbers has a least one.                                        *)
LEMMA Least ==
    ASSUME NEW S \in SUBSET Nat, S # {}
    PROVE  LET least == CHOOSE i \in S : \A j \in S : i <= j
           IN  least \in S
<1>1. PICK m \in S : \A k \in S : <<k, m>> \notin OpToRel(<, Nat)
  BY NatLessThanWellFounded, WFMin
<1>2. \A k \in S : ~(k < m)
  BY <1>1 DEF OpToRel
<1>3. \A k \in S : m <= k
  BY <1>2
<1> QED  BY <1>3

Steps(steps) == {steps[k] : k \in DOMAIN steps}

(* What the first steps of an order are: steps of the plan, none twice, and *)
(* none before one it needs.                                                *)
Sorted(steps, o) ==
    /\ o \in Seq(Steps(steps))
    /\ \A i, j \in DOMAIN o : o[i].id = o[j].id => i = j
    /\ \A i \in DOMAIN o : \A need \in o[i].needs : \E j \in 1..(i - 1) : o[j].id = need

Ready(steps, done) ==
    {i \in DOMAIN steps : /\ \A j \in DOMAIN done : done[j].id # steps[i].id
                          /\ steps[i].needs \subseteq {done[j].id : j \in DOMAIN done}}
Chosen(steps, done) == CHOOSE i \in Ready(steps, done) : \A j \in Ready(steps, done) : i <= j

\* Unless all steps are done there is one that is ready.
LEMMA SomeReady ==
    ASSUME NEW T, NEW steps \in Seq(T), PlanOK(steps), NEW o, Sorted(steps, o), Len(o) < Len(steps)
    PROVE  Chosen(steps, o) \in Ready(steps, o)
<1>1. Len(steps) \in Nat /\ DOMAIN steps = 1..Len(steps)
  OBVIOUS
<1>2. Len(o) \in Nat /\ DOMAIN o = 1..Len(o)
  BY DEF Sorted
<1> DEFINE Undone == {k \in DOMAIN steps : \A j \in DOMAIN o : o[j].id # steps[k].id}
<1>3. Undone # {}
  <2> SUFFICES ASSUME Undone = {} PROVE FALSE
    OBVIOUS
  <2>1. PICK f : f = [k \in DOMAIN steps |-> CHOOSE j \in DOMAIN o : o[j].id = steps[k].id]
    OBVIOUS
  <2>2. \A k \in DOMAIN steps : f[k] \in DOMAIN o /\ o[f[k]].id = steps[k].id
    BY <2>1
  <2>3. f \in [DOMAIN steps -> DOMAIN o]
    BY <2>1, <2>2
  <2>4. IsFiniteSet(DOMAIN steps) /\ Cardinality(DOMAIN steps) = Len(steps)
    BY <1>1, Sizes
  <2>5. IsFiniteSet(DOMAIN o) /\ Cardinality(DOMAIN o) = Len(o)
    BY <1>2, Sizes
  <2>6. PICK k, l \in DOMAIN steps : k # l /\ f[k] = f[l]
    <3> HIDE DEF Undone
    <3> QED  BY <2>3, <2>4, <2>5, FS_PigeonHole
  <2>7. steps[k].id = steps[l].id
    BY <2>2, <2>6
  <2> QED  BY <2>6, <2>7 DEF PlanOK
<1>4. PICK i \in Undone : \A j \in Undone : steps[j].id \notin steps[i].needs
  <2>1. Undone \in (SUBSET DOMAIN steps) \ {{}}
    BY <1>3
  <2> HIDE DEF Undone
  <2> QED  BY <2>1 DEF PlanOK
<1>5. ASSUME NEW need \in steps[i].needs PROVE need \in {o[j].id : j \in DOMAIN o}
  <2>1. PICK k \in DOMAIN steps : need = steps[k].id
    BY DEF PlanOK
  <2>2. k \notin Undone
    BY <1>4, <2>1
  <2> QED  BY <2>1, <2>2
<1>6. i \in Ready(steps, o)
  BY <1>5 DEF Ready
<1>7. Ready(steps, o) \in SUBSET Nat
  BY <1>1 DEF Ready
<1> HIDE DEF Undone
<1> QED  BY <1>6, <1>7, Least DEF Chosen

\* A sorted beginning of a plan is so with its next ready step.
LEMMA SortedNext ==
    ASSUME NEW T, NEW steps \in Seq(T), PlanOK(steps), NEW o, Sorted(steps, o), Len(o) < Len(steps)
    PROVE  /\ Sorted(steps, Append(o, steps[Chosen(steps, o)]))
           /\ Len(Append(o, steps[Chosen(steps, o)])) = Len(o) + 1
<1>1. PICK c \in Ready(steps, o) : c = Chosen(steps, o)
  BY SomeReady
<1>2. PICK s : s = steps[c] /\ s \in Steps(steps)
  BY DEF Ready, Steps
<1>3. o \in Seq(Steps(steps))
  BY DEF Sorted
<1>4. PICK p : p = Append(o, s)
  OBVIOUS
<1>5. /\ Len(o) \in Nat /\ DOMAIN o = 1..Len(o) /\ p \in Seq(Steps(steps)) /\ Len(p) = Len(o) + 1
      /\ DOMAIN p = 1..(Len(o) + 1) /\ p[Len(o) + 1] = s /\ \A i \in DOMAIN o : p[i] = o[i]
  BY <1>2, <1>3, <1>4
<1>6. \A i \in DOMAIN o : o[i].id # s.id
  BY <1>1, <1>2 DEF Ready
<1>7. ASSUME NEW i \in DOMAIN p, NEW j \in DOMAIN p, p[i].id = p[j].id PROVE i = j
  <2>1. (i \in DOMAIN o \/ i = Len(o) + 1) /\ (j \in DOMAIN o \/ j = Len(o) + 1)
    BY <1>5
  <2>2. CASE i \in DOMAIN o /\ j \in DOMAIN o
    BY <1>5, <1>7, <2>2 DEF Sorted
  <2>3. CASE ~(i \in DOMAIN o /\ j \in DOMAIN o)
    BY <1>5, <1>6, <1>7, <2>1, <2>3
  <2> QED  BY <2>2, <2>3
<1>8. ASSUME NEW i \in DOMAIN p, NEW need \in p[i].needs PROVE \E j \in 1..(i - 1) : p[j].id = need
  <2>1. CASE i \in DOMAIN o
    <3>1. p[i] = o[i] /\ \A j \in 1..(i - 1) : j \in DOMAIN o
      BY <1>5, <2>1
    <3>2. PICK j \in 1..(i - 1) : o[j].id = need
      BY <1>8, <2>1, <3>1 DEF Sorted
    <3> QED  BY <1>5, <3>1, <3>2
  <2>2. CASE i = Len(o) + 1
    <3>1. need \in {o[j].id : j \in DOMAIN o}
      BY <1>1, <1>2, <1>5, <1>8, <2>2 DEF Ready
    <3>2. PICK j \in DOMAIN o : o[j].id = need
      BY <3>1
    <3>3. j \in 1..(i - 1) /\ p[j] = o[j]
      BY <1>5, <2>2
    <3> QED  BY <3>2, <3>3
  <2> QED  BY <1>5, <2>1, <2>2
<1>9. Sorted(steps, p)
  BY <1>5, <1>7, <1>8 DEF Sorted
<1> QED  BY <1>1, <1>2, <1>4, <1>5, <1>9

(* The order in which a connected run takes the steps of its plan           *)
LEMMA OrderedIsSorted ==
    ASSUME NEW T, NEW steps \in Seq(T), PlanOK(steps)
    PROVE  Sorted(steps, OrderedSteps(steps)) /\ Len(OrderedSteps(steps)) = Len(steps)
<1>1. PICK n \in Nat : n = Len(steps)
  OBVIOUS
<1> DEFINE Orders == {o \in Seq(Steps(steps)) : Sorted(steps, o) /\ Len(o) <= n}
           Then(o) == Append(o, steps[Chosen(steps, o)])
<1>2. PICK next : next = [o \in Orders |-> IF Len(o) < n THEN Then(o) ELSE o]
  OBVIOUS
<1>3. ASSUME NEW o \in Orders PROVE next[o] \in Orders /\ (Len(o) < n => Len(next[o]) = Len(o) + 1)
  <2>1. o \in Seq(Steps(steps)) /\ Len(o) \in Nat /\ Sorted(steps, o) /\ Len(o) <= n
    OBVIOUS
  <2>2. CASE Len(o) < n
    <3>1. Sorted(steps, Then(o)) /\ Len(Then(o)) = Len(o) + 1
      BY <1>1, <2>1, <2>2, SortedNext
    <3>2. Then(o) \in Seq(Steps(steps))
      BY <3>1 DEF Sorted
    <3>3. next[o] = Then(o)
      BY <1>2, <2>2
    <3> HIDE DEF Then
    <3> QED  BY <2>1, <2>2, <3>1, <3>2, <3>3
  <2>3. CASE ~(Len(o) < n)
    BY <1>2, <2>3
  <2> QED  BY <2>2, <2>3
<1>4. next \in [Orders -> Orders]
  BY <1>2, <1>3
<1>5. <<>> \in Orders
  BY DEF Sorted
<1>6. PICK f \in [0..n -> Orders] : f[0] = <<>> /\ \A i \in 1..n : f[i] = next[f[i - 1]]
  <2> HIDE DEF Orders
  <2>1. \E f : Iterates(f, Orders, n, <<>>, next)
    BY <1>4, <1>5, Iterate
  <2> QED  BY <2>1 DEF Iterates
<1>7. \A i \in 0..n : Len(f[i]) = i
  <2> DEFINE Good == {i \in 0..n : Len(f[i]) = i}
  <2>1. 0 \in Good
    BY <1>6
  <2>2. ASSUME NEW i \in 0..(n - 1), i \in Good PROVE i + 1 \in Good
    <3>1. PICK j \in 1..n : j = i + 1 /\ j - 1 = i /\ j \in 0..n /\ i \in 0..n /\ i < n
      OBVIOUS
    <3>2. f[j] = next[f[i]] /\ f[i] \in Orders /\ Len(f[i]) = i
      BY <1>6, <2>2, <3>1
    <3>3. Len(f[j]) = i + 1
      BY <1>3, <3>1, <3>2
    <3> QED  BY <3>1, <3>3
  <2> HIDE DEF Good
  <2>3. \A i \in 0..n : i \in Good
    BY <2>1, <2>2, UpTo
  <2> QED  BY <2>3 DEF Good
<1>8. \A i \in 1..n : f[i] = Then(f[i - 1])
  <2> TAKE i \in 1..n
  <2>1. i - 1 \in 0..n /\ i - 1 < n
    OBVIOUS
  <2>2. f[i] = next[f[i - 1]] /\ Len(f[i - 1]) < n /\ f[i - 1] \in Orders
    BY <1>6, <1>7, <2>1
  <2> HIDE DEF Orders, Then
  <2> QED  BY <1>2, <2>2
<1> DEFINE R(g) == [i \in 0..Len(steps) |-> IF i = 0 THEN <<>> ELSE Append(g[i - 1], steps[Chosen(steps, g[i - 1])])]
           F == CHOOSE g : g = R(g)
<1>9. f = R(f)
  <2>1. \A i \in 0..n : f[i] = IF i = 0 THEN <<>> ELSE Append(f[i - 1], steps[Chosen(steps, f[i - 1])])
    <3> TAKE i \in 0..n
    <3>1. CASE i = 0
      BY <1>6, <3>1
    <3>2. CASE i # 0
      <4>1. i \in 1..n
        BY <3>2
      <4> QED  BY <1>8, <3>2, <4>1
    <3> QED  BY <3>1, <3>2
  <2>2. R(f) = [i \in 0..n |-> f[i]]
    BY <1>1, <2>1
  <2>3. f = [i \in 0..n |-> f[i]]
    BY <1>6
  <2> QED  BY <2>2, <2>3
<1>10. F = R(F)
  BY <1>9
<1>11. OrderedSteps(steps) = F[n]
  BY <1>1 DEF OrderedSteps, Ready, Chosen
<1>12. F[n] = f[n]
  <2> DEFINE Same == {i \in 0..n : F[i] = f[i]}
  <2>0. PICK g : g = F
    OBVIOUS
  <2>1. \A i \in 0..n : g[i] = IF i = 0 THEN <<>> ELSE Then(g[i - 1])
    <3> HIDE DEF F
    <3> QED  BY <1>1, <1>10, <2>0
  <2> HIDE DEF F
  <2>2. 0 \in Same
    <3>1. 0 \in 0..n
      OBVIOUS
    <3>2. g[0] = <<>>
      BY <2>1, <3>1
    <3>3. f[0] = <<>>
      BY <1>6
    <3> QED  BY <2>0, <3>1, <3>2, <3>3
  <2>3. ASSUME NEW i \in 0..(n - 1), i \in Same PROVE i + 1 \in Same
    <3>1. PICK j \in 1..n : j = i + 1 /\ j - 1 = i /\ j \in 0..n /\ j # 0
      OBVIOUS
    <3>2. f[j] = Then(f[i]) /\ g[j] = Then(g[i])
      BY <1>8, <2>1, <3>1
    <3>3. g[i] = f[i]
      BY <2>0, <2>3
    <3>4. g[j] = f[j]
      BY <3>2, <3>3
    <3> QED  BY <2>0, <3>1, <3>4
  <2>4. \A i \in 0..n : i \in Same
    <3> HIDE DEF Same
    <3> QED  BY <2>2, <2>3, UpTo
  <2> QED  BY <2>4
<1>13. f[n] \in Orders /\ Len(f[n]) = n
  BY <1>6, <1>7
<1> HIDE DEF F
<1> QED  BY <1>1, <1>11, <1>12, <1>13

(* ... and it takes them all.                                               *)
LEMMA OrderedHasAll ==
    ASSUME NEW T, NEW steps \in Seq(T), PlanOK(steps), NEW k \in DOMAIN steps
    PROVE  \E i \in DOMAIN OrderedSteps(steps) : OrderedSteps(steps)[i] = steps[k]
<1>1. PICK o : o = OrderedSteps(steps)
  OBVIOUS
<1>2. Sorted(steps, o) /\ Len(o) = Len(steps)
  BY <1>1, OrderedIsSorted
<1>3. Len(steps) \in Nat /\ DOMAIN steps = 1..Len(steps)
  OBVIOUS
<1>4. DOMAIN o = DOMAIN steps /\ \A i \in DOMAIN o : o[i] \in Steps(steps)
  BY <1>2, <1>3 DEF Sorted
<1> SUFFICES ASSUME \A i \in DOMAIN o : o[i] # steps[k] PROVE FALSE
  BY <1>1
<1>5. PICK f : f = [i \in DOMAIN o |-> CHOOSE l \in DOMAIN steps : o[i] = steps[l]]
  OBVIOUS
<1>6. \A i \in DOMAIN o : f[i] \in DOMAIN steps /\ o[i] = steps[f[i]]
  BY <1>4, <1>5 DEF Steps
<1>7. f \in [DOMAIN o -> DOMAIN steps \ {k}]
  BY <1>5, <1>6
<1>8. IsFiniteSet(DOMAIN steps) /\ Cardinality(DOMAIN steps) = Len(steps)
  BY <1>3, Sizes
<1>9. IsFiniteSet(DOMAIN steps \ {k}) /\ Cardinality(DOMAIN steps \ {k}) = Len(steps) - 1
  BY <1>8, FS_RemoveElement
<1>10. Cardinality(DOMAIN steps \ {k}) < Cardinality(DOMAIN o)
  BY <1>3, <1>4, <1>8, <1>9
<1>11. PICK i, j \in DOMAIN o : i # j /\ f[i] = f[j]
  BY <1>4, <1>7, <1>8, <1>9, <1>10, FS_PigeonHole
<1> QED  BY <1>2, <1>6, <1>11 DEF Sorted

------------------------------------------------------------------------------
(****************************************************************************)
(* What a script consists of.  Most facts about scripts hold of a set of    *)
(* sequences that is closed under putting together; a part of a script is in*)
(* such a set when the operations are that the part is made of.             *)
(****************************************************************************)
Told == Plain \ {"step.started", "step.added", "round.planned", "round.completed", "artifact.created",
                 "conflict.detected"}
Closed(W) == W \in SUBSET Seq(Op) /\ <<>> \in W /\ \A a, b \in W : a \o b \in W
Noting(W) ==
    /\ \A kind \in Told, ref \in Ref : Emit(kind, ref) \in W
    /\ \A kind \in OpKinds : Store(kind) \in W
    /\ \A ref \in Ref : <<[do |-> "cycle", kind |-> "", ref |-> ref, ends |-> {}]>> \in W
Reporting(W) == Noting(W) /\ Poll \in W
Disputing(W) == \A ref \in EdgeRef : Emit("conflict.detected", ref) \in W
Created(step, artifact) ==
    Emit("tool.started", step) \o Emit("artifact.created", artifact) \o Emit("tool.result", step)
\* What the canvas draws and counts besides the graph: of any names, and those
\* of the inputs
Listing(W) ==
    /\ \A kind \in {"step.added", "round.planned", "round.completed"}, ref \in Ref : Emit(kind, ref) \in W
    /\ \A step, artifact \in Ref : Created(step, artifact) \in W
Planning(in, W) ==
    /\ \A i \in DOMAIN in.steps : Emit("step.added", Id(in.steps[i].id)) \in W
    /\ \A i \in DOMAIN in.cycle :
           /\ Emit("round.planned", <<"cycle-round", i>>) \in W
           /\ Emit("round.completed", <<"cycle-round", i>>) \in W
           /\ IsCall(in.cycle[i]) => Created(<<"cycle-round", i>>, Id(in.cycle[i].call)) \in W
Invoking(W) == \A step \in Ref : Tool(step) \in W
Building(W) ==
    /\ Raise \in W
    /\ \A ref \in Ref : Node(ref) \in W /\ Update(ref) \in W
    /\ \A ref \in EdgeRef, source, target \in Ref : Edge(ref, source, target) \in W

\* A loop is in a closed set when all its rounds are.
LEMMA ForIn ==
    ASSUME NEW W, Closed(W), NEW n \in Nat, NEW seqs \in [1..n -> W]
    PROVE  FlattenSeq(seqs) \in W
BY FlattenIn DEF Closed

\* The events that the engine reports between its calls
LEMMA ToldNames ==
    /\ "cycle.started" \in Told /\ "cycle.completed" \in Told /\ "plan.created" \in Told
    /\ "compute.plan.created" \in Told /\ "data.profiled" \in Told
    /\ "compute.result.created" \in Told /\ "chart.spec.created" \in Told
    /\ "dashboard.updated" \in Told /\ "document.indexed" \in Told
    /\ "retrieval.result.created" \in Told /\ "claim.extracted" \in Told
    /\ "plan.revised" \in Told /\ "hypothesis.created" \in Told
    /\ "validation.completed" \in Told /\ "conclusion.created" \in Told
    /\ "knowledge.candidate" \in Told /\ "evidence.linked" \in Told /\ "report.generated" \in Told
BY DEF Told, Plain, Reports, Announcements, Answers

\* What the engine names may be referred to ...
LEMMA EngineIds ==
    \A name \in EngineNames : name \in Names /\ Id(name) \in Ref /\ Id(name) \in NodeRef
BY Refs, NamesOK

\* ... each by its name and a number,
LEMMA Named ==
    /\ {"inspect", "profile", "extract", "align", "hypotheses", "cycle", "cycle-round", "plan",
        "dashboard", "corpus", "knowledge", "graph", "excerpt", "claim", "validation",
        "data-source", "compute-plan", "data-signal", "document-source",
        "analysis-conclusion", "recommended-action", "analysis-report"} \subseteq EngineNames
    /\ \A name \in EngineNames, n \in Nat : <<name, n>> \in Ref
    /\ \A name \in EngineNames : Id(name) \in Ref
BY EngineIds, Refs DEF EngineNames, EngineNodes

\* and so may the edges.
LEMMA EdgeNamed ==
    /\ \A name \in {"data-plan", "plan-signal", "cycle-source", "cycle", "excerpt-source", "claim-source",
          "claim", "conflict", "hypothesis", "validation", "signal-conclusion",
          "validation-conclusion", "conclusion-action", "action-report"}, n \in Nat :
              EdgeId(name, n) \in Ref /\ EdgeId(name, n) \in EdgeRef
BY Refs DEF Edges

\* What may list anything may list what the inputs name.
LEMMA ListingPlans ==
    ASSUME NEW in, InputOK(in), NEW W, Listing(W)
    PROVE  Planning(in, W)
<1>1. \A i \in DOMAIN in.steps : Id(in.steps[i].id) \in Ref
  BY InputTypes, Refs
<1>2. \A i \in DOMAIN in.cycle : <<"cycle-round", i>> \in Ref /\ Id(in.cycle[i].call) \in Ref
  BY InputTypes, Refs, Named
<1> QED  BY <1>1, <1>2 DEF Listing, Planning

\* The parts of a script are in every set that is closed under putting together
\* and holds the operations that the part consists of: the report of a round,
LEMMA CycleRoundPart ==
    ASSUME NEW in, InputOK(in), NEW i \in DOMAIN in.cycle, NEW W, Closed(W), Noting(W), Planning(in, W)
    PROVE  CycleRound(in, i) \in W
<1>1. in.cycle[i].call \in Names /\ i \in Nat /\ "cycle-round" \in Names
  BY InputTypes, NamesOK DEF EngineNames
<1>2. PICK step \in Ref : step = <<"cycle-round", i>>
  BY <1>1, Refs
<1>4. "round.started" \in Told
  BY DEF Told, Plain, Reports, Announcements, Answers
<1>5. If(IsCall(in.cycle[i]), Created(step, Id(in.cycle[i].call))) \in W
  BY <1>2 DEF If, Closed, Planning
<1>6. Emit("round.planned", step) \in W /\ Emit("round.started", step) \in W
      /\ Emit("round.completed", step) \in W
  BY <1>2, <1>4 DEF Noting, Planning
<1> QED  BY <1>2, <1>5, <1>6 DEF Closed, CycleRound, Created

\* the request of a cycle and its report (CycleRequest, CycleReport),
LEMMA CyclePart ==
    ASSUME NEW in, InputOK(in), NEW W, Closed(W), Noting(W), Planning(in, W),
           Repeats(in) => Raise \in W
    PROVE  If(in.cycle # <<>>, CycleRequest(in) \o CycleReport(in)) \in W
<1>1. PICK cycle \in Ref : cycle = Id("cycle")
  BY Named
<1>2. Emit("cycle.started", cycle) \in W /\ Emit("cycle.completed", cycle) \in W
  BY ToldNames DEF Noting
<1>3. /\ <<[do |-> "cycle", kind |-> "", ref |-> cycle, ends |-> {}]>> \in W
      /\ If(Repeats(in), Raise) \in W
      /\ Store("analysis_cycle") \in W /\ Store("artifact_dashboard") \in W
  BY DEF Closed, Noting, OpKinds, If
<1>4. CycleRequest(in) \in W
  BY <1>1, <1>2, <1>3 DEF Closed, CycleRequest
<1>5. Len(in.cycle) \in Nat /\ DOMAIN in.cycle = 1..Len(in.cycle)
  BY InputTypes
<1>6. \A i \in 1..Len(in.cycle) : CycleRound(in, i) \in W
  BY <1>5, CycleRoundPart
<1>7. For(Len(in.cycle), LAMBDA i : CycleRound(in, i)) \in W
  BY <1>5, <1>6, ForIn DEF For
<1>8. CycleReport(in) \in W
  BY <1>1, <1>2, <1>7 DEF Closed, CycleReport
<1> QED  BY <1>4, <1>8 DEF Closed, If

\* the report of the plan,
LEMMA PlanReportPart ==
    ASSUME NEW in, InputOK(in), NEW W, Closed(W), Noting(W), Planning(in, W),
           in.malformed => Raise \in W
    PROVE  PlanReport(in) \in W
<1>1. Len(in.steps) \in Nat /\ DOMAIN in.steps = 1..Len(in.steps)
  BY InputTypes
<1>2. \A i \in 1..Len(in.steps) : Emit("step.added", Id(in.steps[i].id)) \in W
  BY <1>1 DEF Planning
<1>3. For(Len(in.steps), LAMBDA i : Emit("step.added", Id(in.steps[i].id))) \in W
  BY <1>1, <1>2, ForIn DEF For
<1>4. Emit("plan.created", Id("plan")) \in W
  BY ToldNames, Named DEF Noting
<1>5. If(in.malformed, Raise) \in W
  BY DEF Closed, If
<1> QED  BY <1>3, <1>4, <1>5 DEF Closed, PlanReport

(* The tools of a connected plan are run in an order of its steps.          *)
LEMMA PlanToolsPart ==
    ASSUME NEW in, InputOK(in), NEW W, Closed(W), Reporting(W), Invoking(W)
    PROVE  PlanTools(in) \in W
<1>1. Len(in.steps) \in Nat /\ \A i \in 1..Len(in.steps) : in.steps[i].id \in Names
  BY InputTypes
<1>6. Poll \in W
  BY DEF Noting, Reporting, Building
<1>7. CASE in.runner = "connected"
  <2>1. PICK o : o = OrderedSteps(in.steps)
    OBVIOUS
  <2>2. in.steps \in Seq([id : Names, needs : SUBSET Names]) /\ PlanOK(in.steps)
    BY <1>7 DEF InputOK
  <2>3. Sorted(in.steps, o) /\ Len(o) = Len(in.steps)
    BY <2>1, <2>2, OrderedIsSorted
  <2>4. \A i \in 1..Len(o) : o[i] \in Steps(in.steps)
    BY <2>3 DEF Sorted
  <2>5. \A i \in 1..Len(o) : o[i].id \in Names
    BY <2>4, InputTypes DEF Steps
  <2>6. \A i \in 1..Len(o) : Poll \o Tool(Id(o[i].id)) \in W
    <3> TAKE i \in 1..Len(o)
    <3>1. Tool(Id(o[i].id)) \in W
      BY <2>5, Refs DEF Invoking
    <3> QED  BY <1>6, <3>1 DEF Closed
  <2>7. For(Len(o), LAMBDA i : Poll \o Tool(Id(o[i].id))) \in W
    <3>1. PICK n \in Nat : n = Len(o)
      BY <1>1, <2>3
    <3>2. PICK seqs : seqs = [i \in 1..n |-> Poll \o Tool(Id(o[i].id))]
      OBVIOUS
    <3>3. seqs \in [1..n -> W]
      BY <2>6, <3>1, <3>2
    <3>4. FlattenSeq(seqs) \in W
      BY <3>1, <3>3, ForIn
    <3> QED  BY <3>1, <3>2, <3>4 DEF For
  <2> QED  BY <1>7, <2>1, <2>7 DEF PlanTools, For
<1>8. CASE in.runner # "connected"
  <2>1. Tool(Id("inspect")) \in W
    BY Named DEF Invoking
  <2> QED  BY <1>6, <1>8, <2>1 DEF Closed, PlanTools
<1> QED  BY <1>7, <1>8

\* the computation,
LEMMA ComputePart ==
    ASSUME NEW in, InputOK(in), NEW W, Closed(W), Reporting(W),
           in.runner = "demo" => Tool(Id("profile")) \in W
    PROVE  Compute(in) \in W
<1>1. Poll \in W /\ If(in.runner = "demo", Tool(Id("profile"))) \in W
  BY DEF If, Closed, Noting, Reporting
<1>2. /\ Emit("compute.plan.created", None) \in W /\ Emit("data.profiled", None) \in W
      /\ Emit("compute.result.created", None) \in W
      /\ Emit("chart.spec.created", Id("dashboard")) \in W
      /\ Emit("dashboard.updated", Id("dashboard")) \in W
  BY ToldNames, Refs, Named DEF Noting, Reporting
<1> QED  BY <1>1, <1>2 DEF Closed, Compute

\* the documents,
LEMMA DocumentsPart ==
    ASSUME NEW in, InputOK(in), NEW W, Closed(W), Reporting(W),
           in.documents /\ in.runner = "demo" => Tool(Id("extract")) \in W,
           in.documents => Node(Id("document-source")) \in W
    PROVE  Documents(in) \in W
<1>1. /\ Poll \in W /\ If(in.documents /\ in.runner = "demo", Tool(Id("extract"))) \in W
      /\ If(in.indexed, Node(Id("document-source"))) \in W
  BY DEF If, Closed, Noting, Reporting, InputOK
<1>2. Emit("document.indexed", None) \in W /\ Emit("retrieval.result.created", Id("corpus")) \in W
  BY ToldNames, Refs, Named DEF Noting, Reporting
<1> QED  BY <1>1, <1>2 DEF Closed, Documents

\* the first nodes of the graph,
LEMMA SourceGraphPart ==
    ASSUME NEW W, Closed(W), Building(W)
    PROVE  SourceGraph \in W
<1>1. /\ Node(Id("data-source")) \in W /\ Node(Id("compute-plan")) \in W
      /\ Node(Id("data-signal")) \in W
  BY Named DEF Building
<1>2. 0 \in Nat
  OBVIOUS
<1>3. /\ Edge(EdgeId("data-plan", 0), Id("data-source"), Id("compute-plan")) \in W
      /\ Edge(EdgeId("plan-signal", 0), Id("compute-plan"), Id("data-signal")) \in W
  BY <1>2, Named, EdgeNamed DEF Building
<1> QED  BY <1>1, <1>3 DEF Closed, SourceGraph

CycleSource(in) ==
    If(in.cycle # <<>> /\ IsCall(Head(in.cycle)),
       Edge(EdgeId("cycle-source", 0), Id("data-signal"), Id(Head(in.cycle).call)))
CycleEdges(in) ==
    For(Len(in.cycle), LAMBDA i :
        If(IsCall(in.cycle[i]),
           For(i - 1, LAMBDA j :
               If(IsCall(in.cycle[j]) /\ in.cycle[j].call \in in.cycle[i].prior,
                  Edge(EdgeId("cycle", Len(in.cycle) * i + j),
                       Id(in.cycle[j].call), Id(in.cycle[i].call))))))
CycleNodes(in) == For(Len(in.cycle), LAMBDA i : If(IsCall(in.cycle[i]), Node(Id(in.cycle[i].call))))
CycleRefs(in) == {Id(in.cycle[i].call) : i \in {j \in DOMAIN in.cycle : IsCall(in.cycle[j])}}

\* the edges of the cycle's artifacts,
LEMMA CycleEdgesPart ==
    ASSUME NEW in, InputOK(in), in.cycle # <<>>, NEW W, Closed(W),
           \A edge \in EdgeRef, source \in CycleRefs(in) \cup {Id("data-signal")}, target \in CycleRefs(in) :
               Edge(edge, source, target) \in W
    PROVE  CycleSource(in) \in W /\ CycleEdges(in) \in W
<1> DEFINE n == Len(in.cycle)
<1>1. n \in Nat /\ DOMAIN in.cycle = 1..n
  BY InputTypes
<1>2. \A i \in 1..n : IsCall(in.cycle[i]) => Id(in.cycle[i].call) \in CycleRefs(in)
  BY <1>1 DEF CycleRefs
<1>3. If(in.cycle # <<>> /\ IsCall(Head(in.cycle)),
         Edge(EdgeId("cycle-source", 0), Id("data-signal"), Id(Head(in.cycle).call))) \in W
  <2>1. in.cycle \in Seq([call : Names, prior : SUBSET Names])
    BY DEF InputOK
  <2>2. Head(in.cycle) = in.cycle[1] /\ 1 \in 1..n /\ 0 \in Nat
    BY <2>1
  <2>3. IsCall(Head(in.cycle)) =>
            Edge(EdgeId("cycle-source", 0), Id("data-signal"), Id(Head(in.cycle).call)) \in W
    BY <1>1, <1>2, <2>2, EdgeNamed
  <2> QED  BY <2>3 DEF Closed, If
<1>4. ASSUME NEW i \in 1..n, IsCall(in.cycle[i])
      PROVE  For(i - 1, LAMBDA j :
                  If(IsCall(in.cycle[j]) /\ in.cycle[j].call \in in.cycle[i].prior,
                     Edge(EdgeId("cycle", Len(in.cycle) * i + j),
                          Id(in.cycle[j].call), Id(in.cycle[i].call)))) \in W
  <2>1. \A j \in 1..(i - 1) : j \in 1..n /\ n * i + j \in Nat
    BY <1>1
  <2>2. \A j \in 1..(i - 1) : IsCall(in.cycle[j]) =>
            Edge(EdgeId("cycle", Len(in.cycle) * i + j), Id(in.cycle[j].call), Id(in.cycle[i].call)) \in W
    BY <1>1, <1>2, <1>4, <2>1, EdgeNamed
  <2>3. \A j \in 1..(i - 1) :
            If(IsCall(in.cycle[j]) /\ in.cycle[j].call \in in.cycle[i].prior,
               Edge(EdgeId("cycle", Len(in.cycle) * i + j),
                    Id(in.cycle[j].call), Id(in.cycle[i].call))) \in W
    BY <2>2 DEF Closed, If
  <2>4. i - 1 \in Nat
    BY <1>1
  <2> QED  BY <2>3, <2>4, ForIn DEF For
<1>5. For(n, LAMBDA i :
           If(IsCall(in.cycle[i]),
              For(i - 1, LAMBDA j :
                  If(IsCall(in.cycle[j]) /\ in.cycle[j].call \in in.cycle[i].prior,
                     Edge(EdgeId("cycle", Len(in.cycle) * i + j),
                          Id(in.cycle[j].call), Id(in.cycle[i].call)))))) \in W
  <2>1. \A i \in 1..n :
           If(IsCall(in.cycle[i]),
              For(i - 1, LAMBDA j :
                  If(IsCall(in.cycle[j]) /\ in.cycle[j].call \in in.cycle[i].prior,
                     Edge(EdgeId("cycle", Len(in.cycle) * i + j),
                          Id(in.cycle[j].call), Id(in.cycle[i].call))))) \in W
    BY <1>4 DEF Closed, If
  <2>2. PICK seqs : seqs = [i \in 1..n |->
           If(IsCall(in.cycle[i]),
              For(i - 1, LAMBDA j :
                  If(IsCall(in.cycle[j]) /\ in.cycle[j].call \in in.cycle[i].prior,
                     Edge(EdgeId("cycle", Len(in.cycle) * i + j),
                          Id(in.cycle[j].call), Id(in.cycle[i].call)))))]
    OBVIOUS
  <2>3. seqs \in [1..n -> W]
    BY <2>1, <2>2
  <2>4. FlattenSeq(seqs) \in W
    BY <1>1, <2>3, ForIn
  <2> QED  BY <2>2, <2>4 DEF For
<1> QED  BY <1>3, <1>5 DEF CycleSource, CycleEdges

\* with their nodes,
LEMMA CycleGraphPart ==
    ASSUME NEW in, InputOK(in), in.cycle # <<>>, NEW W, Closed(W), Building(W)
    PROVE  CycleGraph(in) \in W
<1>1. Len(in.cycle) \in Nat /\ \A i \in 1..Len(in.cycle) : Id(in.cycle[i].call) \in Ref
  BY InputTypes, Refs
<1>2. CycleNodes(in) \in W
  <2>1. \A i \in 1..Len(in.cycle) : If(IsCall(in.cycle[i]), Node(Id(in.cycle[i].call))) \in W
    BY <1>1 DEF If, Closed, Building
  <2> QED  BY <1>1, <2>1, ForIn DEF For, CycleNodes
<1>3. CycleRefs(in) \subseteq Ref /\ Id("data-signal") \in Ref /\ EdgeRef \subseteq Ref
  BY <1>1, InputTypes, Named DEF CycleRefs, Ref
<1>4. CycleSource(in) \in W /\ CycleEdges(in) \in W
  BY <1>3, CycleEdgesPart DEF Building
<1>5. CycleGraph(in) = CycleNodes(in) \o CycleSource(in) \o CycleEdges(in)
  BY DEF CycleGraph, CycleNodes, CycleSource, CycleEdges, For
<1> QED  BY <1>2, <1>4, <1>5 DEF Closed

\* a claim with its excerpt,
LEMMA ClaimGraphPart ==
    ASSUME NEW i \in Nat, NEW W, Closed(W), Reporting(W), Building(W)
    PROVE  ClaimGraph(i) \in W
<1>1. <<"claim", i>> \in Ref /\ <<"excerpt", i>> \in Ref /\ Id("document-source") \in Ref /\ Id("data-signal") \in Ref
  BY Named
<1>2. /\ Emit("claim.extracted", <<"claim", i>>) \in W
      /\ Node(<<"excerpt", i>>) \in W /\ Node(<<"claim", i>>) \in W
  BY <1>1, ToldNames DEF Noting, Reporting, Building
<1>3. /\ Edge(EdgeId("excerpt-source", i), Id("document-source"), <<"excerpt", i>>) \in W
      /\ Edge(EdgeId("claim-source", i), <<"excerpt", i>>, <<"claim", i>>) \in W
      /\ Edge(EdgeId("claim", i), <<"claim", i>>, Id("data-signal")) \in W
  BY <1>1, EdgeNamed DEF Building
<1> QED  BY <1>2, <1>3 DEF Closed, ClaimGraph

\* a conflict of two claims,
LEMMA ConflictPart ==
    ASSUME NEW in, InputOK(in), NEW i \in 1..Claims(in), NEW j \in 1..in.claims,
           NEW W, Closed(W), Disputing(W), j > Claims(in) => Raise \in W,
           \A edge \in EdgeRef : j <= Claims(in) => Edge(edge, <<"claim", i>>, <<"claim", j>>) \in W
    PROVE  ConflictGraph(in, i, j) \in W
<1>0. in.claims \in Nat /\ Claims(in) \in Nat /\ i \in Nat /\ j \in Nat
  BY InputTypes
<1>1. in.claims * i + j \in Nat
  BY <1>0
<1>2. PICK edge \in EdgeRef : edge = EdgeId("conflict", in.claims * i + j)
  BY <1>1, EdgeNamed
<1>3. Emit("conflict.detected", edge) \in W
  BY DEF Disputing
<1>4. CASE j > Claims(in)
  BY <1>0, <1>4 DEF ConflictGraph
<1>5. CASE j <= Claims(in)
  <2>1. Edge(edge, <<"claim", i>>, <<"claim", j>>) \o Emit("conflict.detected", edge) \in W
    BY <1>3, <1>5 DEF Closed
  <2> QED  BY <1>0, <1>2, <1>5, <2>1 DEF ConflictGraph
<1> QED  BY <1>0, <1>4, <1>5

Conflicts(in) ==
    For(Claims(in), LAMBDA i : For(in.claims, LAMBDA j :
        If(<<i, j>> \in in.conflicts, ConflictGraph(in, i, j))))

\* all conflicts,
LEMMA ConflictsPart ==
    ASSUME NEW in, InputOK(in), NEW W, Closed(W),
           \A pair \in in.conflicts : pair[1] <= Claims(in) => ConflictGraph(in, pair[1], pair[2]) \in W
    PROVE  Conflicts(in) \in W
<1>1. in.claims \in Nat /\ Claims(in) \in Nat
  BY InputTypes
<1>3. \A i \in 1..Claims(in), j \in 1..in.claims :
          <<i, j>> \in in.conflicts => ConflictGraph(in, i, j) \in W
  BY <1>1
<1>4. \A i \in 1..Claims(in) : For(in.claims, LAMBDA j :
          If(<<i, j>> \in in.conflicts, ConflictGraph(in, i, j))) \in W
  <2> TAKE i \in 1..Claims(in)
  <2>1. \A j \in 1..in.claims : If(<<i, j>> \in in.conflicts, ConflictGraph(in, i, j)) \in W
    BY <1>3 DEF Closed, If
  <2> QED  BY <1>1, <2>1, ForIn DEF For
<1>5. For(Claims(in), LAMBDA i : For(in.claims, LAMBDA j :
          If(<<i, j>> \in in.conflicts, ConflictGraph(in, i, j)))) \in W
  <2>1. PICK n \in Nat : n = Claims(in)
    BY <1>1
  <2>2. PICK seqs : seqs = [i \in 1..n |-> For(in.claims, LAMBDA j :
          If(<<i, j>> \in in.conflicts, ConflictGraph(in, i, j)))]
    OBVIOUS
  <2>3. seqs \in [1..n -> W]
    BY <1>4, <2>1, <2>2
  <2>4. FlattenSeq(seqs) \in W
    BY <2>3, ForIn
  <2> QED  BY <2>1, <2>2, <2>4 DEF For
<1> QED  BY <1>5 DEF Conflicts

\* the revised plan,
LEMMA RevisedPart ==
    ASSUME NEW in, NEW W, Closed(W), Reporting(W)
    PROVE  If(in.documents /\ ~SeenConflict(in), Emit("plan.revised", Id("plan"))) \in W
BY Named, ToldNames DEF Closed, Noting, Reporting, If

\* the reasoning on the claims,
LEMMA ReasoningPart ==
    ASSUME NEW in, InputOK(in), NEW W, Closed(W), Reporting(W),
           in.documents /\ in.runner = "demo" => Tool(Id("align")) \in W,
           \A pair \in in.conflicts : pair[1] <= Claims(in) => ConflictGraph(in, pair[1], pair[2]) \in W
    PROVE  Reasoning(in) \in W
<1>1. If(in.documents /\ in.runner = "demo", Tool(Id("align"))) \in W
  BY DEF Closed, If
<1>2. Conflicts(in) \in W
  BY ConflictsPart
<1>3. If(in.documents /\ ~SeenConflict(in), Emit("plan.revised", Id("plan"))) \in W
  BY RevisedPart
<1> QED  BY <1>1, <1>2, <1>3 DEF Closed, Reasoning, Conflicts, For

\* a hypothesis with its validation,
LEMMA HypothesisPart ==
    ASSUME NEW hypothesis, hypothesis.id \in NodeRef, NEW i \in Nat,
           NEW W, Closed(W), Reporting(W), Building(W), hypothesis.structured => Tool(Id("hypotheses")) \in W
    PROVE  HypothesisGraph(hypothesis, i) \in W
<1>1. PICK ref \in Ref : ref = hypothesis.id
  BY DEF Ref
<1>2. PICK validation \in Ref : validation = <<"validation", i>>
  BY Named
<1>3. /\ Emit("hypothesis.created", ref) \in W /\ Emit("validation.completed", ref) \in W
      /\ Node(ref) \in W /\ Node(validation) \in W /\ Update(ref) \in W
  BY ToldNames DEF Noting, Reporting, Building
<1>4. /\ Edge(EdgeId("hypothesis", i), validation, ref) \in W
      /\ Edge(EdgeId("validation", i), Id("data-signal"), validation) \in W
  BY Named, EdgeNamed DEF Building
<1>6. If(hypothesis.structured, Tool(Id("hypotheses"))) \in W /\ If(hypothesis.structured, Update(ref)) \in W
  BY <1>3 DEF Closed, If
<1> QED  BY <1>1, <1>2, <1>3, <1>4, <1>6 DEF Closed, HypothesisGraph

\* the conclusion and the report,
LEMMA ConclusionPart ==
    ASSUME NEW in, InputOK(in), NEW W, Closed(W), Reporting(W), Building(W)
    PROVE  Conclusion(in) \in W /\ Delivery \in W
<1>1. PICK conclusion \in Ref : conclusion = Id("analysis-conclusion")
  BY Named
<1>2. PICK action \in Ref : action = Id("recommended-action")
  BY Named
<1>3. PICK report \in Ref : report = Id("analysis-report")
  BY Named
<1>4. 0 \in Nat /\ Id("data-signal") \in Ref /\ Id("knowledge") \in Ref /\ Id("graph") \in Ref
  BY Named
<1>5. /\ Node(conclusion) \in W /\ Node(action) \in W /\ Node(report) \in W
      /\ Emit("conclusion.created", conclusion) \in W
      /\ Edge(EdgeId("signal-conclusion", 0), Id("data-signal"), conclusion) \in W
      /\ Edge(EdgeId("conclusion-action", 0), conclusion, action) \in W
      /\ Edge(EdgeId("action-report", 0), action, report) \in W
  BY <1>4, EdgeNamed, ToldNames DEF Noting, Reporting, Building
<1>6. For(Len(in.hypotheses), LAMBDA i :
          Edge(EdgeId("validation-conclusion", i), <<"validation", i>>, conclusion)) \in W
  <2>1. Len(in.hypotheses) \in Nat
    BY InputTypes
  <2>2. \A i \in 1..Len(in.hypotheses) :
            Edge(EdgeId("validation-conclusion", i), <<"validation", i>>, conclusion) \in W
    BY <2>1, Named, EdgeNamed DEF Building
  <2> QED  BY <2>1, <2>2, ForIn DEF For
<1>7. Conclusion(in) \in W
  BY <1>1, <1>2, <1>5, <1>6 DEF Closed, Conclusion
<1>8. /\ Store("knowledge") \in W /\ Emit("knowledge.candidate", Id("knowledge")) \in W
      /\ Emit("evidence.linked", Id("graph")) \in W /\ Emit("report.generated", Id("graph")) \in W
  BY <1>4, ToldNames DEF Noting, Reporting, Building, OpKinds
<1>9. Delivery \in W
  BY <1>2, <1>3, <1>5, <1>8 DEF Closed, Delivery
<1> QED  BY <1>7, <1>9

\* The well-formed sequences are such a set, with all operations.
LEMMA PiecesDo ==
    /\ Closed(Pieces) /\ Reporting(Pieces) /\ Listing(Pieces)
    /\ Invoking(Pieces) /\ Building(Pieces) /\ Disputing(Pieces)
<1>1. Closed(Pieces)
  BY PiecesTogether DEF Pieces, Closed
<1>2. \A kind \in Told : kind \in Plain
  BY DEF Told
<1>3. \A step, artifact \in Ref :
          Emit("tool.started", step) \o Emit("artifact.created", artifact)
          \o Emit("tool.result", step) \in Pieces
  <2> TAKE step, artifact \in Ref
  <2>1. PICK op : op = [do |-> "emit", kind |-> "artifact.created", ref |-> artifact, ends |-> {}]
    OBVIOUS
  <2>2. "artifact.created" \in Plain
    BY DEF Plain, Reports, Announcements, Answers
  <2>3. op \in Op /\ op.do = "emit" /\ op.kind \in Plain
    BY <2>1, <2>2, PlainKinds, OpType
  <2> QED  BY <2>1, <2>3, CallPiece DEF Emit
<1>4. Reporting(Pieces) /\ Listing(Pieces) /\ Disputing(Pieces)
  <2>1. {"step.added", "round.planned", "round.completed", "conflict.detected"} \subseteq Plain
    BY DEF Plain, Reports, Announcements, Answers
  <2>2. Reporting(Pieces)
    BY <1>2, EmitPiece, OtherPieces DEF Noting, Reporting
  <2>3. Listing(Pieces) /\ Disputing(Pieces)
    BY <1>3, <2>1, EmitPiece DEF Listing, Created, Disputing, Ref
  <2> QED  BY <2>2, <2>3
<1>5. Invoking(Pieces) /\ Building(Pieces)
  BY ToolPiece, GraphPieces, OtherPieces DEF Invoking, Building, Ref
<1> QED  BY <1>1, <1>4, <1>5

\* all claims,
LEMMA ClaimsPart ==
    ASSUME NEW in, InputOK(in), NEW W, Closed(W), \A i \in 1..Claims(in) : ClaimGraph(i) \in W
    PROVE  For(Claims(in), ClaimGraph) \in W
BY InputTypes, ForIn DEF For

\* all hypotheses,
LEMMA HypothesesPart ==
    ASSUME NEW in, InputOK(in), NEW W, Closed(W),
           \A i \in DOMAIN in.hypotheses : HypothesisGraph(in.hypotheses[i], i) \in W
    PROVE  For(Len(in.hypotheses), LAMBDA i : HypothesisGraph(in.hypotheses[i], i)) \in W
BY InputTypes, ForIn DEF For

\* and a pair of claims in conflict.
LEMMA PairPart ==
    ASSUME NEW in, InputOK(in), NEW W, Closed(W), Disputing(W), Building(W), NEW pair \in in.conflicts,
           pair[1] <= Claims(in)
    PROVE  ConflictGraph(in, pair[1], pair[2]) \in W
<1>1. pair[1] \in Nat /\ pair[1] > 0 /\ pair[2] \in 1..in.claims /\ pair[2] \in Nat
  BY DEF InputOK
<1>2. pair[1] \in 1..Claims(in)
  BY <1>1, InputTypes
<1>3. \A edge \in EdgeRef : Edge(edge, <<"claim", pair[1]>>, <<"claim", pair[2]>>) \in W
  BY <1>1, Named DEF Building, Ref
<1>4. Raise \in W
  BY DEF Building
<1> QED  BY <1>1, <1>2, <1>3, <1>4, ConflictPart

\* The reasoning, when any conflict may be told of
LEMMA DisputesPart ==
    ASSUME NEW in, InputOK(in), NEW W, Closed(W), Reporting(W), Building(W), Disputing(W),
           in.documents /\ in.runner = "demo" => Tool(Id("align")) \in W
    PROVE  Reasoning(in) \in W
<1>1. \A pair \in in.conflicts : pair[1] <= Claims(in) =>
          ConflictGraph(in, pair[1], pair[2]) \in W
  BY PairPart
<1> QED  BY <1>1, ReasoningPart

(* A script whose parts may do anything                                     *)
LEMMA LaterParts ==
    ASSUME NEW in, InputOK(in), NEW W, Closed(W), Reporting(W), Building(W),
           Tool(Id("hypotheses")) \in W
    PROVE  /\ SourceGraph \in W /\ If(in.cycle # <<>>, CycleGraph(in)) \in W
           /\ For(Claims(in), ClaimGraph) \in W
           /\ For(Len(in.hypotheses), LAMBDA i : HypothesisGraph(in.hypotheses[i], i)) \in W
           /\ Conclusion(in) \in W /\ Delivery \in W
<1>1. SourceGraph \in W /\ Conclusion(in) \in W /\ Delivery \in W
  BY SourceGraphPart, ConclusionPart
<1>2. If(in.cycle # <<>>, CycleGraph(in)) \in W
  BY CycleGraphPart DEF If, Closed
<1>3. Claims(in) \in Nat /\ \A i \in 1..Claims(in) : i \in Nat
  BY InputTypes
<1>4. For(Claims(in), ClaimGraph) \in W
  BY <1>3, ClaimGraphPart, ClaimsPart
<1>7. For(Len(in.hypotheses), LAMBDA i : HypothesisGraph(in.hypotheses[i], i)) \in W
  <2>1. \A i \in DOMAIN in.hypotheses : in.hypotheses[i].id \in NodeRef /\ i \in Nat
    BY InputTypes
  <2>2. \A i \in DOMAIN in.hypotheses : HypothesisGraph(in.hypotheses[i], i) \in W
    BY <2>1, HypothesisPart
  <2> QED  BY <2>2, HypothesesPart
<1> QED  BY <1>1, <1>2, <1>4, <1>7

(* A script is in every such set.                                           *)
LEMMA ScriptIn ==
    ASSUME NEW in, InputOK(in),
           NEW W, Closed(W), Reporting(W), Planning(in, W), Invoking(W), Building(W), Disputing(W)
    PROVE  Script(in) \in W
<1>1. Noting(W)
  BY DEF Reporting
<1>2. /\ Tool(Id("profile")) \in W /\ Tool(Id("extract")) \in W
      /\ Tool(Id("align")) \in W /\ Tool(Id("hypotheses")) \in W
      /\ Node(Id("document-source")) \in W /\ Raise \in W
  BY Named DEF Invoking, Building
<1>3. /\ If(in.cycle # <<>>, CycleRequest(in) \o CycleReport(in)) \in W
      /\ PlanReport(in) \in W /\ PlanTools(in) \in W
      /\ Compute(in) \in W /\ Documents(in) \in W
  BY <1>1, <1>2, CyclePart, PlanReportPart, PlanToolsPart, ComputePart, DocumentsPart
<1>4. /\ SourceGraph \in W /\ If(in.cycle # <<>>, CycleGraph(in)) \in W
      /\ For(Claims(in), ClaimGraph) \in W
      /\ For(Len(in.hypotheses), LAMBDA i : HypothesisGraph(in.hypotheses[i], i)) \in W
      /\ Conclusion(in) \in W /\ Delivery \in W
  BY <1>2, LaterParts
<1>5. Reasoning(in) \in W
  BY <1>2, DisputesPart
<1> QED  BY <1>3, <1>4, <1>5 DEF Closed, Script

\* The script of any inputs is well formed.
LEMMA ScriptPieces ==
    ASSUME NEW in, InputOK(in)
    PROVE  Script(in) \in Pieces
BY PiecesDo, ListingPlans, ScriptIn

------------------------------------------------------------------------------
(****************************************************************************)
(* The order of the steps: a step starts after those that it needs have     *)
(* completed, in a connected run for _ordered_steps puts its plan in order, *)
(* and in the demonstration for _demo_plan has the order of execute.        *)
(****************************************************************************)
(* What holds of all sequences of some operations.                          *)
LEMMA SomeOps ==
    ASSUME NEW C \in SUBSET Op,
           \A op \in Op : op.do \in {"poll", "store", "cycle"} => op \in C,
           \A op \in Op : op.do = "emit" /\ op.kind # "step.started" => op \in C
    PROVE  /\ Closed(Seq(C)) /\ Reporting(Seq(C)) /\ Listing(Seq(C)) /\ Disputing(Seq(C))
           /\ \A kind \in OpKinds \ {"step.started"}, ref \in Ref : Emit(kind, ref) \in Seq(C)
           /\ \A op \in C : <<op>> \in Seq(C)
<1>1. Closed(Seq(C))
  BY DEF Closed
<1>2. \A op \in C : <<op>> \in Seq(C)
  OBVIOUS
<1>3. \A kind \in OpKinds \ {"step.started"}, ref \in Ref : Emit(kind, ref) \in Seq(C)
  <2> TAKE kind \in OpKinds \ {"step.started"}, ref \in Ref
  <2>1. PICK op : op = [do |-> "emit", kind |-> kind, ref |-> ref, ends |-> {}]
    OBVIOUS
  <2>2. op \in Op
    BY <2>1, CallKinds, OpType
  <2> QED  BY <1>2, <2>1, <2>2 DEF Emit
<1>4. \A do \in {"poll", "store", "cycle"}, kind \in OpKinds, ref \in Ref :
          <<[do |-> do, kind |-> kind, ref |-> ref, ends |-> {}]>> \in Seq(C)
  <2> TAKE do \in {"poll", "store", "cycle"}, kind \in OpKinds, ref \in Ref
  <2>1. PICK op : op = [do |-> do, kind |-> kind, ref |-> ref, ends |-> {}]
    OBVIOUS
  <2>2. op \in Op /\ op.do \in {"poll", "store", "cycle"}
    BY <2>1, CallKinds, OpType
  <2>3. op \in C
    BY <2>2
  <2> QED  BY <1>2, <2>1, <2>3
<1>5. /\ Poll \in Seq(C) /\ \A kind \in OpKinds : Store(kind) \in Seq(C)
      /\ \A ref \in Ref : <<[do |-> "cycle", kind |-> "", ref |-> ref, ends |-> {}]>> \in Seq(C)
  BY <1>4, CallKinds, Refs DEF Poll, Store
<1>6. {"tool.started", "artifact.created", "tool.result", "step.added", "round.planned",
       "round.completed", "conflict.detected"} \subseteq OpKinds \ {"step.started"}
  BY DEF OpKinds, Reports, Announcements, Answers
<1>7. \A kind \in Told : kind \in OpKinds \ {"step.started"}
  BY PlainKinds DEF Told
<1>8. Reporting(Seq(C)) /\ Listing(Seq(C)) /\ Disputing(Seq(C))
  <2>1. \A step, artifact \in Ref : Created(step, artifact) \in Seq(C)
    BY <1>1, <1>3, <1>6 DEF Closed, Created
  <2>2. Listing(Seq(C)) /\ Disputing(Seq(C))
    BY <1>3, <1>6, <2>1 DEF Listing, Disputing, Ref
  <2> QED  BY <1>3, <1>5, <1>7, <2>2 DEF Noting, Reporting
<1> QED  BY <1>1, <1>2, <1>3, <1>8

Starts(op) == op.do = "emit" /\ op.kind = "step.started"
Completes(op, ref) == op.do = "emit" /\ op.kind = "step.completed" /\ op.ref = ref

(* With the steps D completed before, operations start steps after those    *)
(* that they need, and complete those of E that D lacks.                    *)
InOrder(steps, D, ops, E) ==
    /\ \A i \in DOMAIN ops, k \in DOMAIN steps : Starts(ops[i]) /\ ops[i].ref = Id(steps[k].id) =>
           \A need \in steps[k].needs :
               Id(need) \in D \/ \E j \in 1..(i - 1) : Completes(ops[j], Id(need))
    /\ \A ref \in E : ref \in D \/ \E j \in DOMAIN ops : Completes(ops[j], ref)
Orders(steps) ==
    {t \in (SUBSET Ref) \X Seq(Op) \X (SUBSET Ref) : InOrder(steps, t[1], t[2], t[3])}
OrderedFrom(steps, D) == {ops \in Seq(Op) : InOrder(steps, D, ops, D)}

\* The judgements on orders are those of InOrder.
LEMMA OrdersAre ==
    ASSUME NEW steps, NEW D \in SUBSET Ref, NEW ops \in Seq(Op), NEW E \in SUBSET Ref
    PROVE  <<D, ops, E>> \in Orders(steps) <=> InOrder(steps, D, ops, E)
BY DEF Orders

\* What starts after what it needs still does when other steps come before.
LEMMA OrderConcat ==
    ASSUME NEW steps, NEW D, NEW E, NEW F, NEW a \in Seq(Op), NEW b \in Seq(Op),
           InOrder(steps, D, a, E), InOrder(steps, E, b, F)
    PROVE  InOrder(steps, D, a \o b, F)
<1> DEFINE c == a \o b
<1>1. /\ Len(a) \in Nat /\ DOMAIN a = 1..Len(a) /\ Len(b) \in Nat /\ DOMAIN b = 1..Len(b)
      /\ DOMAIN c = 1..(Len(a) + Len(b))
      /\ \A i \in 1..Len(a) : c[i] = a[i]
      /\ \A i \in 1..Len(b) : c[Len(a) + i] = b[i]
  BY Concat
<1> HIDE DEF c
<1>2. ASSUME NEW ref \in E PROVE ref \in D \/ \E j \in 1..Len(a) : Completes(c[j], ref)
  <2>1. ref \in D \/ \E j \in DOMAIN a : Completes(a[j], ref)
    BY DEF InOrder
  <2>2. SUFFICES ASSUME NEW j \in DOMAIN a, Completes(a[j], ref) PROVE \E l \in 1..Len(a) : Completes(c[l], ref)
    BY <2>1
  <2>3. j \in 1..Len(a) /\ c[j] = a[j]
    BY <1>1
  <2> QED  BY <2>2, <2>3
<1>3. ASSUME NEW i \in DOMAIN c, NEW k \in DOMAIN steps, Starts(c[i]), c[i].ref = Id(steps[k].id),
             NEW need \in steps[k].needs
      PROVE  Id(need) \in D \/ \E j \in 1..(i - 1) : Completes(c[j], Id(need))
  <2>1. CASE i <= Len(a)
    <3>1. i \in DOMAIN a /\ c[i] = a[i]
      BY <1>1, <2>1
    <3>2. Id(need) \in D \/ \E j \in 1..(i - 1) : Completes(a[j], Id(need))
      BY <1>3, <3>1 DEF InOrder
    <3>3. \A j \in 1..(i - 1) : c[j] = a[j]
      BY <1>1, <2>1
    <3> QED  BY <3>2, <3>3
  <2>2. CASE i > Len(a)
    <3>1. PICK l \in DOMAIN b : i = Len(a) + l
      <4>1. i - Len(a) \in DOMAIN b /\ i = Len(a) + (i - Len(a))
        BY <1>1, <2>2
      <4> QED  BY <4>1
    <3>2. c[i] = b[l]
      BY <1>1, <3>1
    <3>3. Id(need) \in E \/ \E j \in 1..(l - 1) : Completes(b[j], Id(need))
      BY <1>3, <3>2 DEF InOrder
    <3>4. CASE Id(need) \in E
      <4>1. \A j \in 1..Len(a) : j \in 1..(i - 1)
        BY <1>1, <2>2
      <4> QED  BY <1>2, <3>4, <4>1
    <3>5. ASSUME NEW j \in 1..(l - 1), Completes(b[j], Id(need)) PROVE \E m \in 1..(i - 1) : Completes(c[m], Id(need))
      <4>1. j \in 1..Len(b) /\ Len(a) + j \in 1..(i - 1)
        BY <1>1, <3>1
      <4>2. c[Len(a) + j] = b[j]
        BY <1>1, <4>1
      <4> QED  BY <3>5, <4>1, <4>2
    <3> QED  BY <3>3, <3>4, <3>5
  <2>3. i <= Len(a) \/ i > Len(a)
    BY <1>1
  <2> QED  BY <2>1, <2>2, <2>3
<1>4. ASSUME NEW ref \in F PROVE ref \in D \/ \E j \in DOMAIN c : Completes(c[j], ref)
  <2>1. ref \in E \/ \E j \in DOMAIN b : Completes(b[j], ref)
    BY DEF InOrder
  <2>2. CASE ref \in E
    <3>1. \A j \in 1..Len(a) : j \in DOMAIN c
      BY <1>1
    <3> QED  BY <1>2, <2>2, <3>1
  <2>3. ASSUME NEW j \in DOMAIN b, Completes(b[j], ref) PROVE \E m \in DOMAIN c : Completes(c[m], ref)
    <3>1. j \in 1..Len(b) /\ Len(a) + j \in DOMAIN c
      BY <1>1
    <3>2. c[Len(a) + j] = b[j]
      BY <1>1, <3>1
    <3> QED  BY <2>3, <3>1, <3>2
  <2> QED  BY <2>1, <2>2, <2>3
<1> QED  BY <1>3, <1>4 DEF InOrder, c

(* Operations that start no step are in order.                              *)
LEMMA OrderedNoStart ==
    ASSUME NEW steps, NEW D, NEW ops \in Seq({op \in Op : ~Starts(op)})
    PROVE  ops \in OrderedFrom(steps, D)
<1>1. PICK C : C = {op \in Op : ~Starts(op)}
  OBVIOUS
<1>2. ops \in Seq(C)
  BY <1>1
<1>3. \A i \in DOMAIN ops : ops[i] \in C
  BY <1>2
<1>4. C \in SUBSET Op
  BY <1>1
<1>5. ops \in Seq(Op)
  BY <1>2, <1>4
<1> QED  BY <1>1, <1>3, <1>5 DEF OrderedFrom, InOrder

\* Only tools start steps.
LEMMA OrderedFromDo ==
    ASSUME NEW steps, NEW D
    PROVE  /\ Closed(OrderedFrom(steps, D)) /\ Reporting(OrderedFrom(steps, D))
           /\ Listing(OrderedFrom(steps, D)) /\ Building(OrderedFrom(steps, D))
           /\ Disputing(OrderedFrom(steps, D))
           /\ \A kind \in OpKinds \ {"step.started"}, ref \in Ref :
                  Emit(kind, ref) \in OrderedFrom(steps, D)
           /\ \A ref \in Ref : <<[do |-> "invoke", kind |-> "", ref |-> ref, ends |-> {}]>>
                  \in OrderedFrom(steps, D)
<1>1. PICK W : W = OrderedFrom(steps, D)
  OBVIOUS
<1>2. PICK C : C = {op \in Op : ~Starts(op)}
  OBVIOUS
<1>3. Seq(C) \subseteq W
  BY <1>1, <1>2, OrderedNoStart
<1>4. C \in SUBSET Op /\ \A op \in Op : op.do # "emit" \/ op.kind # "step.started" => op \in C
  BY <1>2 DEF Starts
<1>5. /\ Closed(Seq(C)) /\ Reporting(Seq(C)) /\ Listing(Seq(C)) /\ Disputing(Seq(C))
      /\ \A kind \in OpKinds \ {"step.started"}, ref \in Ref : Emit(kind, ref) \in Seq(C)
      /\ \A op \in C : <<op>> \in Seq(C)
  <2>1. /\ \A op \in Op : op.do \in {"poll", "store", "cycle"} => op \in C
        /\ \A op \in Op : op.do = "emit" /\ op.kind # "step.started" => op \in C
    BY <1>4
  <2> QED  BY <1>4, <2>1, SomeOps
<1>6. Closed(W)
  <2>1. W \subseteq Seq(Op) /\ \A a, b \in W : a \o b \in W
    BY <1>1, OrderConcat, ConcatProperties DEF OrderedFrom
  <2> QED  BY <1>3, <1>5, <2>1 DEF Closed
<1>7. Reporting(W) /\ Listing(W) /\ Disputing(W)
  BY <1>3, <1>5 DEF Noting, Reporting, Listing, Disputing
<1>8. \A do \in {"raise", "save", "invoke"}, kind \in OpKinds, ref \in Ref, ends \in SUBSET Ref :
          <<[do |-> do, kind |-> kind, ref |-> ref, ends |-> ends]>> \in Seq(C)
  <2> TAKE do \in {"raise", "save", "invoke"}, kind \in OpKinds, ref \in Ref, ends \in SUBSET Ref
  <2>1. PICK op : op = [do |-> do, kind |-> kind, ref |-> ref, ends |-> ends]
    OBVIOUS
  <2>2. op \in C
    BY <1>4, <2>1, OpType
  <2> QED  BY <1>5, <2>1, <2>2
<1>9. {"", "node", "edge", "update", "node.added", "node.updated", "edge.added", "edge.activated"}
          \subseteq OpKinds \ {"step.started"}
  BY DEF OpKinds, Reports, Announcements, Answers
<1>10. Building(W)
  <2>1. \A ref \in Ref : Node(ref) \in Seq(C) /\ Update(ref) \in Seq(C)
    BY <1>5, <1>8, <1>9 DEF Closed, Node, SaveNode, Update
  <2>2. ASSUME NEW ref \in EdgeRef, NEW source \in Ref, NEW target \in Ref
        PROVE  Edge(ref, source, target) \in Seq(C)
    <3>1. ref \in Ref /\ {source, target} \in SUBSET Ref
      BY DEF Ref
    <3>2. PICK op : op = [do |-> "emit", kind |-> "edge.added", ref |-> ref, ends |-> {source, target}]
      OBVIOUS
    <3>3. op \in C
      BY <1>4, <1>9, <3>1, <3>2, OpType
    <3>4. <<op>> \in Seq(C) /\ Emit("edge.activated", ref) \in Seq(C) /\ SaveEdge(ref, source, target) \in Seq(C)
      BY <1>5, <1>8, <1>9, <3>1, <3>3 DEF SaveEdge
    <3> QED  BY <1>5, <3>2, <3>4 DEF Closed, Edge
  <2>3. Raise \in Seq(C)
    BY <1>8, <1>9, Refs DEF Raise
  <2> QED  BY <1>3, <2>1, <2>2, <2>3 DEF Building
<1> QED  BY <1>1, <1>3, <1>5, <1>6, <1>7, <1>8, <1>9, <1>10

(* A step whose needs have been completed may start, and then completes.    *)
LEMMA OrderedTool ==
    ASSUME NEW steps, NEW D \in SUBSET Ref, NEW ref \in Ref,
           \A k \in DOMAIN steps : Id(steps[k].id) = ref => \A need \in steps[k].needs : Id(need) \in D
    PROVE  /\ Tool(ref) \in Seq(Op)
           /\ InOrder(steps, D, Tool(ref), D \cup {ref}) /\ InOrder(steps, D, Tool(ref), D)
<1>1. PICK W : W = OrderedFrom(steps, D)
  OBVIOUS
<1>2. PICK start : start = [do |-> "emit", kind |-> "step.started", ref |-> ref, ends |-> {}]
  OBVIOUS
<1>3. PICK end : end = [do |-> "emit", kind |-> "step.completed", ref |-> ref, ends |-> {}]
  OBVIOUS
<1>4. {"step.started", "step.completed"} \subseteq OpKinds
      /\ {"tool.started", "tool.result"} \subseteq OpKinds \ {"step.started"}
  BY DEF OpKinds, Reports, Announcements, Answers
<1>5. start \in Op /\ end \in Op
  BY <1>2, <1>3, <1>4, CallKinds, OpType
<1>6. PICK a : a = <<start>> /\ a \in Seq(Op) /\ Len(a) = 1 /\ DOMAIN a = 1..1 /\ a[1] = start
  BY <1>5, OneOp
<1>7. PICK z : z = <<end>> /\ z \in Seq(Op) /\ Len(z) = 1 /\ DOMAIN z = 1..1 /\ z[1] = end
  BY <1>5, OneOp
<1>8. InOrder(steps, D, a, D)
  BY <1>2, <1>6 DEF InOrder
<1>9. InOrder(steps, D, z, D \cup {ref})
  <2>1. ~Starts(z[1]) /\ Completes(z[1], ref) /\ 1 \in DOMAIN z
    BY <1>3, <1>7 DEF Starts, Completes
  <2>2. \A i \in DOMAIN z : i = 1
    BY <1>7
  <2> QED  BY <2>1, <2>2 DEF InOrder
<1>10. PICK m : m = Emit("tool.started", ref) /\ m \in W
  BY <1>1, <1>4, OrderedFromDo
<1>11. PICK n : n = <<[do |-> "invoke", kind |-> "", ref |-> ref, ends |-> {}]>> /\ n \in W
  BY <1>1, OrderedFromDo
<1>12. PICK o : o = Emit("tool.result", ref) /\ o \in W
  BY <1>1, <1>4, OrderedFromDo
<1>13. PICK t : t = a \o m \o n \o o /\ t \in W
  <2>1. a \in W
    BY <1>1, <1>6, <1>8 DEF OrderedFrom
  <2> QED  BY <1>1, <1>10, <1>11, <1>12, <2>1, OrderedFromDo DEF Closed
<1>14. t \in Seq(Op) /\ InOrder(steps, D, t, D)
  BY <1>1, <1>13 DEF OrderedFrom
<1>15. Tool(ref) = t \o z
  BY <1>2, <1>3, <1>6, <1>7, <1>10, <1>11, <1>12, <1>13 DEF Tool, Emit
<1>16. Tool(ref) \in Seq(Op) /\ InOrder(steps, D, Tool(ref), D \cup {ref})
  <2>1. InOrder(steps, D, t \o z, D \cup {ref})
    BY <1>7, <1>9, <1>14, OrderConcat
  <2>2. t \o z \in Seq(Op)
    BY <1>7, <1>14, ConcatProperties
  <2> QED  BY <1>15, <2>1, <2>2
<1> QED  BY <1>16 DEF InOrder

(* When the needs of all steps have been completed, any operations are in   *)
(* order.                                                                   *)
LEMMA OrderedAtLast ==
    ASSUME NEW steps, NEW D, \A k \in DOMAIN steps : \A need \in steps[k].needs : Id(need) \in D,
           NEW ops \in Seq(Op)
    PROVE  ops \in OrderedFrom(steps, D)
BY DEF OrderedFrom, InOrder

\* Sequences in order, one after the other
LEMMA OrderedThen ==
    ASSUME NEW steps, NEW D, NEW E, NEW a \in Seq(Op), InOrder(steps, D, a, E),
           NEW b \in OrderedFrom(steps, E)
    PROVE  a \o b \in Seq(Op) /\ InOrder(steps, D, a \o b, E)
BY OrderConcat, ConcatProperties DEF OrderedFrom

\* The first of two sequences may complete nothing.
LEMMA OrderedBefore ==
    ASSUME NEW steps, NEW D, NEW E, NEW a \in OrderedFrom(steps, D), NEW b \in Seq(Op), InOrder(steps, D, b, E)
    PROVE  a \o b \in Seq(Op) /\ InOrder(steps, D, a \o b, E)
BY OrderConcat, ConcatProperties DEF OrderedFrom

(* The tools of a connected plan complete all its steps, in order.          *)
LEMMA ConnectedInOrder ==
    ASSUME NEW in, InputOK(in), in.runner = "connected"
    PROVE  InOrder(in.steps, {}, PlanTools(in), {Id(in.steps[k].id) : k \in DOMAIN in.steps})
<1> DEFINE steps == in.steps
<1>1. PICK o : o = OrderedSteps(in.steps)
  OBVIOUS
<1>2. steps \in Seq([id : Names, needs : SUBSET Names]) /\ PlanOK(steps)
  BY DEF InputOK
<1>3. Sorted(steps, o) /\ Len(o) = Len(steps)
  BY <1>1, <1>2, OrderedIsSorted
<1>4. PICK n \in Nat : n = Len(o) /\ DOMAIN o = 1..n
  BY <1>3 DEF Sorted
<1>5. \A i \in 1..n : \E k \in DOMAIN steps : o[i] = steps[k]
  BY <1>3, <1>4 DEF Sorted, Steps
<1>6. \A i \in 1..n : o[i].id \in Names /\ Id(o[i].id) \in Ref
  BY <1>5, InputTypes, Refs
<1>7. PICK K : K = [i \in 0..n |-> {Id(o[j].id) : j \in 1..i}]
  OBVIOUS
<1>8. K \in [0..n -> SUBSET Ref] /\ K[0] = {}
  BY <1>6, <1>7
<1>9. ASSUME NEW i \in 1..n
      PROVE  Poll \o Tool(Id(o[i].id)) \in Seq(Op)
             /\ InOrder(steps, K[i - 1], Poll \o Tool(Id(o[i].id)), K[i])
  <2>1. i - 1 \in 0..n /\ i \in 0..n
    BY <1>9
  <2>2. PICK D \in SUBSET Ref : D = K[i - 1] /\ D = {Id(o[j].id) : j \in 1..(i - 1)}
    BY <1>7, <1>8, <2>1
  <2>3. K[i] = D \cup {Id(o[i].id)}
    <3>1. \A j : j \in 1..i <=> j \in 1..(i - 1) \/ j = i
      BY <1>9
    <3> QED  BY <1>7, <2>1, <2>2, <3>1
  <2>4. ASSUME NEW k \in DOMAIN steps, Id(steps[k].id) = Id(o[i].id), NEW need \in steps[k].needs
        PROVE  Id(need) \in D
    <3>1. PICK l \in DOMAIN steps : o[i] = steps[l]
      BY <1>5
    <3>2. steps[k].id = steps[l].id
      BY <2>4, <3>1 DEF Id
    <3>3. k = l
      BY <1>2, <3>2 DEF PlanOK
    <3>4. PICK j \in 1..(i - 1) : o[j].id = need
      BY <1>3, <1>4, <2>4, <3>1, <3>3 DEF Sorted
    <3> QED  BY <2>2, <3>4
  <2>5. Tool(Id(o[i].id)) \in Seq(Op) /\ InOrder(steps, D, Tool(Id(o[i].id)), D \cup {Id(o[i].id)})
    BY <1>6, <2>4, OrderedTool
  <2>6. Poll \in OrderedFrom(steps, D)
    BY OrderedFromDo DEF Noting, Reporting
  <2> QED  BY <2>2, <2>3, <2>5, <2>6, OrderedBefore
<1>10. PICK seqs : seqs = [i \in 1..n |-> Poll \o Tool(Id(o[i].id))]
  OBVIOUS
<1>11. seqs \in [1..n -> Seq(Op)]
  BY <1>9, <1>10
<1>12. PICK J : J = Orders(steps)
  OBVIOUS
<1>13. \A s \in SUBSET Ref : <<s, <<>>, s>> \in J
  <2>1. <<>> \in Seq(Op)
    OBVIOUS
  <2>2. \A s : InOrder(steps, s, <<>>, s)
    BY DEF InOrder
  <2> QED  BY <1>12, <2>1, <2>2, OrdersAre
<1>14. \A s, t, u \in SUBSET Ref, a, b \in Seq(Op) :
           <<s, a, t>> \in J /\ <<t, b, u>> \in J => <<s, a \o b, u>> \in J
  BY <1>12, OrdersAre, OrderConcat, ConcatProperties
<1>15. \A i \in 1..n : <<K[i - 1], seqs[i], K[i]>> \in J
  <2> TAKE i \in 1..n
  <2>1. i - 1 \in 0..n /\ i \in 0..n
    OBVIOUS
  <2>2. K[i - 1] \in SUBSET Ref /\ K[i] \in SUBSET Ref
    BY <1>8, <2>1
  <2>3. seqs[i] \in Seq(Op) /\ InOrder(steps, K[i - 1], seqs[i], K[i])
    BY <1>9, <1>10
  <2> QED  BY <1>12, <2>2, <2>3, OrdersAre
<1>16. <<K[0], FlattenSeq(seqs), K[n]>> \in J
  BY <1>8, <1>11, <1>13, <1>14, <1>15, FlattenJudged
<1>17. InOrder(steps, {}, FlattenSeq(seqs), K[n])
  BY <1>8, <1>12, <1>16 DEF Orders
<1>18. PlanTools(in) = FlattenSeq(seqs)
  BY <1>1, <1>4, <1>10 DEF PlanTools, For
<1>19. \A k \in DOMAIN steps : Id(steps[k].id) \in K[n]
  <2> TAKE k \in DOMAIN steps
  <2>1. PICK i \in DOMAIN o : o[i] = steps[k]
    BY <1>1, <1>2, OrderedHasAll
  <2> QED  BY <1>4, <1>7, <2>1
<1> QED  BY <1>17, <1>18, <1>19 DEF InOrder

(* What the steps of the demonstration's plan need                          *)
LEMMA DemoNeeds ==
    ASSUME NEW documents \in BOOLEAN, NEW proposal \in BOOLEAN, NEW steps, steps = DemoPlan(documents, proposal),
           NEW k \in DOMAIN steps
    PROVE  /\ steps[k].id = "inspect" => steps[k].needs = {}
           /\ steps[k].id \in {"profile", "extract"} => steps[k].needs = {"inspect"}
           /\ steps[k].id = "align" => steps[k].needs = {"profile", "extract"}
           /\ steps[k].id = "hypotheses" => steps[k].needs = {IF documents THEN "align" ELSE "profile"}
<1>1. CASE documents /\ proposal
  BY <1>1 DEF DemoPlan, If
<1>2. CASE documents /\ ~proposal
  BY <1>2 DEF DemoPlan, If
<1>3. CASE ~documents /\ proposal
  BY <1>3 DEF DemoPlan, If
<1>4. CASE ~documents /\ ~proposal
  BY <1>4 DEF DemoPlan, If
<1> QED  BY <1>1, <1>2, <1>3, <1>4

\* Names of the demonstration's steps
LEMMA StepNames ==
    /\ {"inspect", "profile", "extract", "align", "hypotheses"} \subseteq Names
    /\ \A name \in {"inspect", "profile", "extract", "align", "hypotheses"} : Id(name) \in Ref
    /\ \A a, b : Id(a) = Id(b) => a = b
BY Named, NamesOK DEF Id

(* The demonstration runs the tools of its steps in order.                  *)
LEMMA DemoTools ==
    ASSUME NEW in, InputOK(in), in.runner = "demo", NEW D \in SUBSET Ref,
           NEW name \in {"inspect", "profile", "extract", "align", "hypotheses"},
           name \in {"profile", "extract"} => Id("inspect") \in D,
           name = "align" => Id("profile") \in D /\ Id("extract") \in D,
           name = "hypotheses" => Id(IF in.documents THEN "align" ELSE "profile") \in D
    PROVE  /\ Tool(Id(name)) \in Seq(Op)
           /\ InOrder(in.steps, D, Tool(Id(name)), D \cup {Id(name)})
           /\ InOrder(in.steps, D, Tool(Id(name)), D)
<1>1. PICK proposal \in BOOLEAN : in.steps = DemoPlan(in.documents, proposal)
  BY DEF InputOK
<1>2. \A k \in DOMAIN in.steps : Id(in.steps[k].id) = Id(name) =>
          \A need \in in.steps[k].needs : Id(need) \in D
  <2> SUFFICES ASSUME NEW k \in DOMAIN in.steps, in.steps[k].id = name, NEW need \in in.steps[k].needs
               PROVE  Id(need) \in D
    BY StepNames
  <2>1. in.documents \in BOOLEAN
    BY InputTypes
  <2>2. /\ name = "inspect" => in.steps[k].needs = {}
        /\ name \in {"profile", "extract"} => in.steps[k].needs = {"inspect"}
        /\ name = "align" => in.steps[k].needs = {"profile", "extract"}
        /\ name = "hypotheses" => in.steps[k].needs = {IF in.documents THEN "align" ELSE "profile"}
    BY <1>1, <2>1, DemoNeeds
  <2> QED  BY <2>2
<1> QED  BY <1>2, StepNames, OrderedTool

\* The demonstration inspects the data and then profiles it,
LEMMA DemoComputes ==
    ASSUME NEW in, InputOK(in), in.runner = "demo"
    PROVE  LET D == {Id("inspect"), Id("profile")} IN
           /\ PlanTools(in) \in Seq(Op) /\ InOrder(in.steps, {}, PlanTools(in), {Id("inspect")})
           /\ Compute(in) \in Seq(Op) /\ InOrder(in.steps, {Id("inspect")}, Compute(in), D)
<1>1. PICK D1 \in SUBSET Ref : D1 = {Id("inspect")}
  BY StepNames
<1>2. PICK D2 \in SUBSET Ref : D2 = {Id("inspect"), Id("profile")}
  BY StepNames
<1>3. Tool(Id("inspect")) \in Seq(Op) /\ InOrder(in.steps, {}, Tool(Id("inspect")), {} \cup D1)
  BY <1>1, DemoTools
<1>4. Poll \in OrderedFrom(in.steps, {}) /\ Poll \in OrderedFrom(in.steps, D1) /\ {} \cup D1 = D1
  BY OrderedFromDo DEF Noting, Reporting
<1>5. PlanTools(in) = Poll \o Tool(Id("inspect"))
  BY DEF PlanTools
<1>6. PlanTools(in) \in Seq(Op) /\ InOrder(in.steps, {}, PlanTools(in), D1)
  BY <1>3, <1>4, <1>5, OrderedBefore
<1>7. Tool(Id("profile")) \in Seq(Op) /\ InOrder(in.steps, D1, Tool(Id("profile")), D2)
  <2>1. D1 \cup {Id("profile")} = D2
    BY <1>1, <1>2
  <2> QED  BY <1>1, <2>1, DemoTools
<1>8. PICK x \in OrderedFrom(in.steps, D1) : x = Poll \o Emit("compute.plan.created", None)
  BY <1>4, OrderedFromDo, ToldNames, Refs DEF Noting, Reporting, Closed
<1>9. x \o Tool(Id("profile")) \in Seq(Op) /\ InOrder(in.steps, D1, x \o Tool(Id("profile")), D2)
  BY <1>7, OrderedBefore
<1>10. PICK W : W = OrderedFrom(in.steps, D2)
  OBVIOUS
<1>11. /\ Emit("data.profiled", None) \in W /\ Emit("compute.result.created", None) \in W
       /\ Emit("chart.spec.created", Id("dashboard")) \in W
       /\ Emit("dashboard.updated", Id("dashboard")) \in W
  BY <1>10, OrderedFromDo, ToldNames, Refs, Named DEF Noting, Reporting
<1>12. PICK V : V = {ops \in Seq(Op) : InOrder(in.steps, D1, ops, D2)}
  OBVIOUS
<1>13. \A a \in V, b \in W : a \o b \in V
  BY <1>10, <1>12, OrderedThen
<1>14. x \o Tool(Id("profile")) \in V
  BY <1>9, <1>12
<1>15. Compute(in) = x \o Tool(Id("profile")) \o Emit("data.profiled", None)
           \o Emit("compute.result.created", None) \o Emit("chart.spec.created", Id("dashboard"))
           \o Emit("dashboard.updated", Id("dashboard"))
  BY <1>8 DEF Compute, If
<1>16. Compute(in) \in V
  BY <1>11, <1>13, <1>14, <1>15
<1> QED  BY <1>1, <1>2, <1>6, <1>12, <1>16

\* and extracts the claims and then aligns them.
LEMMA DemoReads ==
    ASSUME NEW in, InputOK(in), in.runner = "demo", in.documents
    PROVE  LET D2 == {Id("inspect"), Id("profile")}
               D3 == {Id("inspect"), Id("profile"), Id("extract")}
               D4 == {Id("inspect"), Id("profile"), Id("extract"), Id("align")} IN
           /\ Documents(in) \in Seq(Op) /\ InOrder(in.steps, D2, Documents(in), D3)
           /\ Reasoning(in) \in Seq(Op) /\ InOrder(in.steps, D3, Reasoning(in), D4)
<1>1. PICK D2 \in SUBSET Ref : D2 = {Id("inspect"), Id("profile")}
  BY StepNames
<1>2. PICK D3 \in SUBSET Ref : D3 = {Id("inspect"), Id("profile"), Id("extract")}
  BY StepNames
<1>3. PICK D4 \in SUBSET Ref : D4 = {Id("inspect"), Id("profile"), Id("extract"), Id("align")}
  BY StepNames
<1>4. D2 \cup {Id("extract")} = D3 /\ D3 \cup {Id("align")} = D4
  BY <1>1, <1>2, <1>3
<1>5. Tool(Id("extract")) \in Seq(Op) /\ InOrder(in.steps, D2, Tool(Id("extract")), D3)
  BY <1>1, <1>4, DemoTools
<1>6. Tool(Id("align")) \in Seq(Op) /\ InOrder(in.steps, D3, Tool(Id("align")), D4)
  BY <1>2, <1>4, DemoTools
<1>7. Documents(in) \in Seq(Op) /\ InOrder(in.steps, D2, Documents(in), D3)
  <2>1. PICK W : W = OrderedFrom(in.steps, D3)
    OBVIOUS
  <2>2. PICK V : V = {ops \in Seq(Op) : InOrder(in.steps, D2, ops, D3)}
    OBVIOUS
  <2>3. \A a \in V, b \in W : a \o b \in V
    BY <2>1, <2>2, OrderedThen
  <2>4. Poll \in OrderedFrom(in.steps, D2)
    BY OrderedFromDo DEF Noting, Reporting
  <2>5. Poll \o Tool(Id("extract")) \in V
    BY <1>5, <2>2, <2>4, OrderedBefore
  <2>6. Emit("document.indexed", None) \in W /\ Emit("retrieval.result.created", Id("corpus")) \in W
    BY <2>1, OrderedFromDo, ToldNames, Refs, Named DEF Noting, Reporting
  <2>7. If(in.indexed, Node(Id("document-source"))) \in W
    BY <2>1, OrderedFromDo, Named DEF Building, Closed, If
  <2>8. Documents(in) = Poll \o Tool(Id("extract")) \o Emit("document.indexed", None)
            \o Emit("retrieval.result.created", Id("corpus")) \o If(in.indexed, Node(Id("document-source")))
    <3>1. If(in.documents /\ in.runner = "demo", Tool(Id("extract"))) = Tool(Id("extract"))
      BY DEF If
    <3> QED  BY <3>1 DEF Documents
  <2>9. Documents(in) \in V
    BY <2>3, <2>5, <2>6, <2>7, <2>8
  <2> QED  BY <2>2, <2>9
<1>8. Reasoning(in) \in Seq(Op) /\ InOrder(in.steps, D3, Reasoning(in), D4)
  <2>1. PICK W : W = OrderedFrom(in.steps, D4) /\ Closed(W) /\ Reporting(W) /\ Building(W) /\ Disputing(W)
    BY OrderedFromDo
  <2>2. PICK V : V = {ops \in Seq(Op) : InOrder(in.steps, D3, ops, D4)}
    OBVIOUS
  <2>3. \A a \in V, b \in W : a \o b \in V
    BY <2>1, <2>2, OrderedThen
  <2>4. Conflicts(in) \in W
    BY <2>1, ConflictsPart, PairPart
  <2>5. If(in.documents /\ ~SeenConflict(in), Emit("plan.revised", Id("plan"))) \in W
    BY <2>1, RevisedPart
  <2>6. Reasoning(in) = Tool(Id("align")) \o Conflicts(in)
            \o If(in.documents /\ ~SeenConflict(in), Emit("plan.revised", Id("plan")))
    BY DEF Reasoning, Conflicts, If, For
  <2>7. Tool(Id("align")) \in V
    BY <1>6, <2>2
  <2>8. Reasoning(in) \in V
    BY <2>3, <2>4, <2>5, <2>6, <2>7
  <2> QED  BY <2>2, <2>8
<1> QED  BY <1>1, <1>2, <1>3, <1>7, <1>8

\* What completes no more steps
LEMMA InOrderFrom ==
    ASSUME NEW steps, NEW D, NEW ops \in OrderedFrom(steps, D)
    PROVE  ops \in Seq(Op) /\ InOrder(steps, D, ops, D)
BY DEF OrderedFrom

(* The steps of a script start after those that they need, and complete.    *)
LEMMA ScriptInOrder ==
    ASSUME NEW in, InputOK(in)
    PROVE  InOrder(in.steps, {}, Script(in), {})
<1> DEFINE V(D) == {ops \in Seq(Op) : InOrder(in.steps, {}, ops, D)}
<1>1. \A D, E, a, b : a \in V(D) /\ b \in Seq(Op) /\ InOrder(in.steps, D, b, E) => a \o b \in V(E)
  BY OrderConcat, ConcatProperties
<1>2. \A D, a, b : a \in V(D) /\ b \in OrderedFrom(in.steps, D) => a \o b \in V(D)
  BY <1>1, InOrderFrom
<1>3. PICK a : a = If(in.cycle # <<>>, CycleRequest(in) \o CycleReport(in)) \o PlanReport(in) /\ a \in V({})
  <2>1. PICK W : W = OrderedFrom(in.steps, {}) /\ Closed(W) /\ Reporting(W) /\ Listing(W) /\ Building(W)
    BY OrderedFromDo
  <2>2. If(in.cycle # <<>>, CycleRequest(in) \o CycleReport(in)) \in W /\ PlanReport(in) \in W
    BY <2>1, ListingPlans, CyclePart, PlanReportPart DEF Building, Reporting
  <2>3. PICK x : x = If(in.cycle # <<>>, CycleRequest(in) \o CycleReport(in)) \o PlanReport(in) /\ x \in W
    BY <2>1, <2>2 DEF Closed
  <2> QED  BY <2>1, <2>3, InOrderFrom
<1>4. PICK hs : hs = For(Len(in.hypotheses), LAMBDA i : HypothesisGraph(in.hypotheses[i], i))
  OBVIOUS
<1>5. Script(in) = a \o PlanTools(in) \o Compute(in) \o SourceGraph \o If(in.cycle # <<>>, CycleGraph(in))
           \o Documents(in) \o For(Claims(in), ClaimGraph) \o Reasoning(in) \o hs \o Conclusion(in) \o Delivery
  BY <1>3, <1>4 DEF Script
<1>6. \A D : Script(in) \in V(D) => InOrder(in.steps, {}, Script(in), {})
  BY DEF InOrder
<1>7. CASE in.runner = "connected"
  <2>1. PICK D : D = {Id(in.steps[k].id) : k \in DOMAIN in.steps}
    OBVIOUS
  <2>2. PlanTools(in) \in Seq(Op) /\ InOrder(in.steps, {}, PlanTools(in), D)
    <3>1. PlanTools(in) \in Pieces
      BY PlanToolsPart, PiecesDo
    <3> QED  BY <1>7, <2>1, <3>1, ConnectedInOrder DEF Pieces
  <2>3. \A k \in DOMAIN in.steps : \A need \in in.steps[k].needs : Id(need) \in D
    <3>1. PlanOK(in.steps)
      BY <1>7 DEF InputOK
    <3> QED  BY <2>1, <3>1 DEF PlanOK
  <2>4. \A ops \in Pieces : ops \in OrderedFrom(in.steps, D)
    BY <2>3, OrderedAtLast DEF Pieces
  <2>5. /\ Tool(Id("profile")) \in Pieces /\ Tool(Id("extract")) \in Pieces
        /\ Tool(Id("align")) \in Pieces /\ Tool(Id("hypotheses")) \in Pieces
        /\ Node(Id("document-source")) \in Pieces
    BY PiecesDo, Named DEF Invoking, Building
  <2>6. /\ Compute(in) \in Pieces /\ Documents(in) \in Pieces
        /\ SourceGraph \in Pieces /\ If(in.cycle # <<>>, CycleGraph(in)) \in Pieces
        /\ For(Claims(in), ClaimGraph) \in Pieces /\ Reasoning(in) \in Pieces
        /\ hs \in Pieces /\ Conclusion(in) \in Pieces /\ Delivery \in Pieces
    <3>1. Closed(Pieces) /\ Reporting(Pieces) /\ Building(Pieces) /\ Disputing(Pieces)
      BY PiecesDo
    <3>2. Compute(in) \in Pieces /\ Documents(in) \in Pieces
      BY <2>5, <3>1, ComputePart, DocumentsPart
    <3>3. For(Len(in.hypotheses), LAMBDA i : HypothesisGraph(in.hypotheses[i], i)) \in Pieces
      <4>1. \A i \in DOMAIN in.hypotheses : in.hypotheses[i].id \in NodeRef /\ i \in Nat
        BY InputTypes
      <4>2. \A i \in DOMAIN in.hypotheses : HypothesisGraph(in.hypotheses[i], i) \in Pieces
        BY <2>5, <3>1, <4>1, HypothesisPart
      <4> QED  BY <3>1, <4>2, HypothesesPart
    <3>4. Reasoning(in) \in Pieces
      BY <2>5, <3>1, DisputesPart
    <3> QED  BY <1>4, <2>5, <3>1, <3>2, <3>3, <3>4, LaterParts
  <2>7. a \o PlanTools(in) \in V(D)
    BY <1>1, <1>3, <2>2
  <2>8. \A b \in V(D), c \in Pieces : b \o c \in V(D)
    BY <1>2, <2>4
  <2>9. Script(in) \in V(D)
    <3> HIDE DEF V
    <3> QED  BY <1>5, <2>6, <2>7, <2>8
  <2> QED  BY <1>6, <2>9
<1>8. CASE in.runner = "demo"
  <2>1. PICK D1 \in SUBSET Ref : D1 = {Id("inspect")}
    BY StepNames
  <2>2. PICK D2 \in SUBSET Ref : D2 = {Id("inspect"), Id("profile")}
    BY StepNames
  <2>3. PICK D3 \in SUBSET Ref : D3 = IF in.documents THEN {Id("inspect"), Id("profile"), Id("extract")} ELSE D2
    BY StepNames
  <2>4. PICK D4 \in SUBSET Ref : D4 =
            IF in.documents THEN {Id("inspect"), Id("profile"), Id("extract"), Id("align")} ELSE D2
    BY StepNames
  <2>5. a \o PlanTools(in) \o Compute(in) \in V(D2)
    <3>1. /\ PlanTools(in) \in Seq(Op) /\ InOrder(in.steps, {}, PlanTools(in), D1)
          /\ Compute(in) \in Seq(Op) /\ InOrder(in.steps, D1, Compute(in), D2)
      BY <1>8, <2>1, <2>2, DemoComputes
    <3> HIDE DEF V
    <3>2. a \o PlanTools(in) \in V(D1)
      BY <1>1, <1>3, <3>1
    <3> QED  BY <1>1, <3>1, <3>2
  <2>6. ASSUME NEW D \in SUBSET Ref, Id(IF in.documents THEN "align" ELSE "profile") \in D
        PROVE  /\ hs \in OrderedFrom(in.steps, D) /\ Conclusion(in) \in OrderedFrom(in.steps, D)
               /\ Delivery \in OrderedFrom(in.steps, D)
    <3>1. PICK W : W = OrderedFrom(in.steps, D) /\ Closed(W) /\ Reporting(W) /\ Building(W)
      BY OrderedFromDo
    <3>2. Tool(Id("hypotheses")) \in W
      BY <1>8, <2>6, <3>1, DemoTools DEF OrderedFrom
    <3>3. \A i \in DOMAIN in.hypotheses : in.hypotheses[i].id \in NodeRef /\ i \in Nat
      BY InputTypes
    <3>4. \A i \in DOMAIN in.hypotheses : HypothesisGraph(in.hypotheses[i], i) \in W
      BY <3>1, <3>2, <3>3, HypothesisPart
    <3>5. For(Len(in.hypotheses), LAMBDA i : HypothesisGraph(in.hypotheses[i], i)) \in W
      BY <3>1, <3>4, HypothesesPart
    <3> QED  BY <1>4, <3>1, <3>5, ConclusionPart
  <2>7. SourceGraph \in OrderedFrom(in.steps, D2) /\ If(in.cycle # <<>>, CycleGraph(in)) \in OrderedFrom(in.steps, D2)
    BY OrderedFromDo, SourceGraphPart, CycleGraphPart DEF If, Closed
  <2>8. For(Claims(in), ClaimGraph) \in OrderedFrom(in.steps, D3)
    <3>1. PICK W : W = OrderedFrom(in.steps, D3) /\ Closed(W) /\ Reporting(W) /\ Building(W)
      BY OrderedFromDo
    <3>2. \A i \in 1..Claims(in) : i \in Nat
      OBVIOUS
    <3>3. \A i \in 1..Claims(in) : ClaimGraph(i) \in W
      BY <3>1, <3>2, ClaimGraphPart
    <3> QED  BY <3>1, <3>3, ClaimsPart
  <2>9. Documents(in) \in Seq(Op) /\ InOrder(in.steps, D2, Documents(in), D3)
    <3>1. CASE in.documents
      BY <1>8, <2>2, <2>3, <3>1, DemoReads
    <3>2. CASE ~in.documents
      <4>1. Documents(in) \in OrderedFrom(in.steps, D2)
        BY <3>2, OrderedFromDo, DocumentsPart
      <4> QED  BY <2>3, <3>2, <4>1, InOrderFrom
    <3> QED  BY <3>1, <3>2
  <2>10. Reasoning(in) \in Seq(Op) /\ InOrder(in.steps, D3, Reasoning(in), D4)
    <3>1. CASE in.documents
      BY <1>8, <2>3, <2>4, <3>1, DemoReads
    <3>2. CASE ~in.documents
      <4>1. Reasoning(in) \in OrderedFrom(in.steps, D2)
        BY <3>2, OrderedFromDo, ReasoningPart, PairPart
      <4> QED  BY <2>3, <2>4, <3>2, <4>1, InOrderFrom
    <3> QED  BY <3>1, <3>2
  <2>11. Id(IF in.documents THEN "align" ELSE "profile") \in D4
    BY <2>2, <2>4
  <2>12. Script(in) \in V(D4)
    <3> HIDE DEF V
    <3>1. PICK x : x = a \o PlanTools(in) \o Compute(in) \o SourceGraph \o If(in.cycle # <<>>, CycleGraph(in))
                   /\ x \in V(D2)
      BY <1>2, <2>5, <2>7
    <3>2. PICK y : y = x \o Documents(in) \o For(Claims(in), ClaimGraph) /\ y \in V(D3)
      <4>1. x \o Documents(in) \in V(D3)
        BY <1>1, <2>9, <3>1
      <4> QED  BY <1>2, <2>8, <4>1
    <3>3. PICK z : z = y \o Reasoning(in) /\ z \in V(D4)
      BY <1>1, <2>10, <3>2
    <3>4. z \o hs \o Conclusion(in) \o Delivery \in V(D4)
      BY <1>2, <2>6, <2>11, <3>3
    <3> QED  BY <1>5, <3>1, <3>2, <3>3, <3>4
  <2> QED  BY <1>6, <2>12
<1>9. in.runner = "connected" \/ in.runner = "demo"
  BY InputTypes DEF Runners
<1> QED  BY <1>7, <1>8, <1>9

------------------------------------------------------------------------------
(****************************************************************************)
(* The graph: for unambiguous inputs every node that the engine adds is new,*)
(* and every edge and update is of nodes that it has added before.          *)
(****************************************************************************)
SavesNode(op) == op.do = "save" /\ op.kind = "node"
\* The nodes that are known when the operation i comes next
Known(N, ops, i) == N \cup {ops[j].ref : j \in {k \in 1..(i - 1) : SavesNode(ops[k])}}

(* With the nodes N known before, operations raise nothing, save no node    *)
(* twice and no edge or update of unknown ones, and then M are known.       *)
Builds(N, ops, M) ==
    /\ \A i \in DOMAIN ops :
           /\ ops[i].do # "raise"
           /\ SavesNode(ops[i]) => ops[i].ref \in NodeRef /\ ops[i].ref \notin Known(N, ops, i)
           /\ ops[i].do = "save" /\ ops[i].kind # "node" =>
                  /\ ops[i].ends \subseteq Known(N, ops, i)
                  /\ ops[i].ref \in ops[i].ends \/ ops[i].ref \in EdgeRef
    /\ M = Known(N, ops, Len(ops) + 1)
Built == {t \in (SUBSET NodeRef) \X Seq(Op) \X (SUBSET NodeRef) : Builds(t[1], t[2], t[3])}
BuiltFrom(N) == {ops \in Seq(Op) : Builds(N, ops, N)}

\* The judgements on graphs are those of Builds.
LEMMA BuiltAre ==
    ASSUME NEW N \in SUBSET NodeRef, NEW ops \in Seq(Op), NEW M \in SUBSET NodeRef
    PROVE  <<N, ops, M>> \in Built <=> Builds(N, ops, M)
BY DEF Built

\* What one sequence builds is known to the next.
LEMMA BuildsConcat ==
    ASSUME NEW N, NEW M, NEW L, NEW a \in Seq(Op), NEW b \in Seq(Op),
           Builds(N, a, M), Builds(M, b, L)
    PROVE  Builds(N, a \o b, L)
<1> DEFINE c == a \o b
<1>1. /\ Len(a) \in Nat /\ DOMAIN a = 1..Len(a) /\ Len(b) \in Nat /\ DOMAIN b = 1..Len(b)
      /\ DOMAIN c = 1..(Len(a) + Len(b)) /\ Len(c) = Len(a) + Len(b)
      /\ \A i \in 1..Len(a) : c[i] = a[i]
      /\ \A i \in 1..Len(b) : c[Len(a) + i] = b[i]
  BY Concat
<1> HIDE DEF c
<1>2. \A i \in 1..(Len(a) + 1) : Known(N, c, i) = Known(N, a, i)
  <2> TAKE i \in 1..(Len(a) + 1)
  <2>1. \A j \in 1..(i - 1) : c[j] = a[j]
    BY <1>1
  <2> QED  BY <2>1 DEF Known
<1>3. M = Known(N, a, Len(a) + 1)
  BY DEF Builds
<1>4. ASSUME NEW l \in 1..(Len(b) + 1) PROVE Known(N, c, Len(a) + l) = Known(M, b, l)
  <2>1. ASSUME NEW x, x \in Known(N, c, Len(a) + l) PROVE x \in Known(M, b, l)
    <3>1. CASE x \in N
      BY <1>3, <3>1 DEF Known
    <3>2. CASE x \notin N
      <4>1. PICK j \in 1..(Len(a) + l - 1) : SavesNode(c[j]) /\ c[j].ref = x
        BY <2>1, <3>2 DEF Known
      <4>2. CASE j <= Len(a)
        <5>1. j \in 1..((Len(a) + 1) - 1) /\ c[j] = a[j]
          BY <1>1, <4>2
        <5> QED  BY <1>3, <4>1, <5>1 DEF Known
      <4>3. CASE j > Len(a)
        <5>1. PICK m \in 1..(l - 1) : j = Len(a) + m /\ m \in 1..Len(b)
          <6>1. j - Len(a) \in 1..(l - 1) /\ j = Len(a) + (j - Len(a)) /\ j - Len(a) \in 1..Len(b)
            BY <1>1, <4>3
          <6> QED  BY <6>1
        <5>2. c[j] = b[m]
          BY <1>1, <5>1
        <5> QED  BY <4>1, <5>1, <5>2 DEF Known
      <4> QED  BY <1>1, <4>2, <4>3
    <3> QED  BY <3>1, <3>2
  <2>2. ASSUME NEW x, x \in Known(M, b, l) PROVE x \in Known(N, c, Len(a) + l)
    <3>1. CASE x \in N
      BY <3>1 DEF Known
    <3>2. CASE x \notin N /\ x \in M
      <4>1. PICK j \in 1..((Len(a) + 1) - 1) : SavesNode(a[j]) /\ a[j].ref = x
        BY <1>3, <3>2 DEF Known
      <4>2. j \in 1..(Len(a) + l - 1) /\ c[j] = a[j]
        BY <1>1
      <4> QED  BY <4>1, <4>2 DEF Known
    <3>3. CASE x \notin M
      <4>1. PICK m \in 1..(l - 1) : SavesNode(b[m]) /\ b[m].ref = x
        BY <2>2, <3>3 DEF Known
      <4>2. Len(a) + m \in 1..(Len(a) + l - 1) /\ m \in 1..Len(b)
        BY <1>1
      <4>3. c[Len(a) + m] = b[m]
        BY <1>1, <4>2
      <4> QED  BY <4>1, <4>2, <4>3 DEF Known
    <3> QED  BY <3>1, <3>2, <3>3
  <2> QED  BY <2>1, <2>2
<1>5. ASSUME NEW i \in DOMAIN c
      PROVE  /\ c[i].do # "raise"
             /\ SavesNode(c[i]) => c[i].ref \in NodeRef /\ c[i].ref \notin Known(N, c, i)
             /\ c[i].do = "save" /\ c[i].kind # "node" =>
                  /\ c[i].ends \subseteq Known(N, c, i)
                  /\ c[i].ref \in c[i].ends \/ c[i].ref \in EdgeRef
  <2>1. CASE i <= Len(a)
    <3>1. i \in DOMAIN a /\ c[i] = a[i] /\ i \in 1..(Len(a) + 1)
      BY <1>1, <2>1
    <3>2. Known(N, c, i) = Known(N, a, i)
      BY <1>2, <3>1
    <3> QED  BY <3>1, <3>2 DEF Builds
  <2>2. CASE i > Len(a)
    <3>1. PICK l \in DOMAIN b : i = Len(a) + l
      <4>1. i - Len(a) \in DOMAIN b /\ i = Len(a) + (i - Len(a))
        BY <1>1, <2>2
      <4> QED  BY <4>1
    <3>2. c[i] = b[l] /\ l \in 1..(Len(b) + 1)
      BY <1>1, <3>1
    <3>3. Known(N, c, i) = Known(M, b, l)
      BY <1>4, <3>1, <3>2
    <3> QED  BY <3>2, <3>3 DEF Builds
  <2>3. i <= Len(a) \/ i > Len(a)
    BY <1>1
  <2> QED  BY <2>1, <2>2, <2>3
<1>6. L = Known(N, c, Len(c) + 1)
  <2>1. Len(b) + 1 \in 1..(Len(b) + 1) /\ Len(c) + 1 = Len(a) + (Len(b) + 1)
    BY <1>1
  <2>2. L = Known(M, b, Len(b) + 1)
    BY DEF Builds
  <2> QED  BY <1>4, <2>1, <2>2
<1> QED  BY <1>5, <1>6 DEF Builds, c

(* Operations that save and raise nothing, at any time                      *)
LEMMA BuiltNothing ==
    ASSUME NEW N, NEW ops \in Seq({op \in Op : op.do \notin {"save", "raise"}})
    PROVE  ops \in BuiltFrom(N)
<1>1. PICK C : C = {op \in Op : op.do \notin {"save", "raise"}}
  OBVIOUS
<1>2. ops \in Seq(C)
  BY <1>1
<1>3. (\A i \in DOMAIN ops : ops[i] \in C) /\ DOMAIN ops = 1..Len(ops) /\ Len(ops) \in Nat
  BY <1>2
<1>4. C \in SUBSET Op
  BY <1>1
<1>5. ops \in Seq(Op)
  BY <1>2, <1>4
<1>6. \A i \in DOMAIN ops : ops[i].do # "raise" /\ ops[i].do # "save" /\ ~SavesNode(ops[i])
  BY <1>1, <1>3 DEF SavesNode
<1>7. N = Known(N, ops, Len(ops) + 1)
  <2>1. \A k \in 1..((Len(ops) + 1) - 1) : k \in DOMAIN ops
    BY <1>3
  <2> QED  BY <1>6, <2>1 DEF Known
<1> QED  BY <1>5, <1>6, <1>7 DEF BuiltFrom, Builds

(* A single save ...                                                        *)
LEMMA BuildsOne ==
    ASSUME NEW N, NEW save \in Op, save.do = "save",
           IF save.kind = "node" THEN save.ref \in NodeRef /\ save.ref \notin N
           ELSE save.ends \subseteq N /\ (save.ref \in save.ends \/ save.ref \in EdgeRef)
    PROVE  /\ <<save>> \in Seq(Op)
           /\ Builds(N, <<save>>, IF save.kind = "node" THEN N \cup {save.ref} ELSE N)
<1>1. PICK x : x = <<save>> /\ x \in Seq(Op) /\ Len(x) = 1 /\ DOMAIN x = 1..1 /\ x[1] = save
  BY OneOp
<1>2. Known(N, x, 1) = N
  BY DEF Known
<1>3. Known(N, x, Len(x) + 1) = IF save.kind = "node" THEN N \cup {save.ref} ELSE N
  <2>1. \A k : k \in 1..((Len(x) + 1) - 1) <=> k = 1
    BY <1>1
  <2>2. SavesNode(x[1]) <=> save.kind = "node"
    BY <1>1 DEF SavesNode
  <2> QED  BY <1>1, <2>1, <2>2 DEF Known
<1>4. \A i \in DOMAIN x : i = 1
  BY <1>1
<1> QED  BY <1>1, <1>2, <1>3, <1>4 DEF Builds, SavesNode

\* Operations that only report, call tools or announce build nothing.
LEMMA BuiltFromDo ==
    ASSUME NEW N
    PROVE  /\ Closed(BuiltFrom(N)) /\ Reporting(BuiltFrom(N)) /\ Listing(BuiltFrom(N))
           /\ Invoking(BuiltFrom(N)) /\ Disputing(BuiltFrom(N))
           /\ \A kind \in Announcements, ref \in Ref : Emit(kind, ref) \in BuiltFrom(N)
<1>1. PICK W : W = BuiltFrom(N)
  OBVIOUS
<1>2. PICK C : C = {op \in Op : op.do \notin {"save", "raise"}}
  OBVIOUS
<1>3. Seq(C) \subseteq W
  BY <1>1, <1>2, BuiltNothing
<1>4. C \in SUBSET Op /\ \A op \in Op : op.do \notin {"save", "raise"} => op \in C
  BY <1>2
<1>5. /\ Closed(Seq(C)) /\ Reporting(Seq(C)) /\ Listing(Seq(C)) /\ Disputing(Seq(C))
      /\ \A kind \in OpKinds \ {"step.started"}, ref \in Ref : Emit(kind, ref) \in Seq(C)
      /\ \A op \in C : <<op>> \in Seq(C)
  <2>1. /\ \A op \in Op : op.do \in {"poll", "store", "cycle"} => op \in C
        /\ \A op \in Op : op.do = "emit" /\ op.kind # "step.started" => op \in C
    BY <1>4
  <2> QED  BY <1>4, <2>1, SomeOps
<1>6. Closed(W)
  <2>1. W \subseteq Seq(Op) /\ \A a, b \in W : a \o b \in W
    BY <1>1, BuildsConcat, ConcatProperties DEF BuiltFrom
  <2> QED  BY <1>3, <1>5, <2>1 DEF Closed
<1>7. Reporting(W) /\ Listing(W) /\ Disputing(W)
  BY <1>3, <1>5 DEF Noting, Reporting, Listing, Disputing
<1>8. Invoking(W)
  <2> SUFFICES ASSUME NEW step \in Ref PROVE Tool(step) \in Seq(C)
    BY <1>3 DEF Invoking
  <2>1. PICK start : start = [do |-> "emit", kind |-> "step.started", ref |-> step, ends |-> {}]
    OBVIOUS
  <2>2. PICK run : run = [do |-> "invoke", kind |-> "", ref |-> step, ends |-> {}]
    OBVIOUS
  <2>3. {"step.started", ""} \subseteq OpKinds
        /\ {"tool.started", "tool.result", "step.completed"} \subseteq OpKinds \ {"step.started"}
    BY DEF OpKinds, Reports, Announcements, Answers
  <2>4. start \in C /\ run \in C
    BY <1>4, <2>1, <2>2, <2>3, CallKinds, OpType
  <2>5. Emit("step.started", step) \in Seq(C)
    BY <1>5, <2>1, <2>4 DEF Emit
  <2>6. <<[do |-> "invoke", kind |-> "", ref |-> step, ends |-> {}]>> \in Seq(C)
    BY <1>5, <2>2, <2>4
  <2> QED  BY <1>5, <2>3, <2>5, <2>6 DEF Tool, Closed
<1>9. \A kind \in Announcements : kind \in OpKinds \ {"step.started"}
  BY DEF Announcements, OpKinds, Reports
<1> QED  BY <1>1, <1>3, <1>5, <1>6, <1>7, <1>8, <1>9

(* ... announced: a node that is new, an edge between known nodes, an       *)
(* update of a known one.                                                   *)
LEMMA BuildsNode ==
    ASSUME NEW N, NEW ref \in NodeRef, ref \notin N
    PROVE  Node(ref) \in Seq(Op) /\ Builds(N, Node(ref), N \cup {ref})
<1>1. PICK save : save = [do |-> "save", kind |-> "node", ref |-> ref, ends |-> {}]
  OBVIOUS
<1>2. ref \in Ref /\ save \in Op
  BY <1>1, CallKinds, OpType DEF Ref, OpKinds
<1>3. PICK M : M = N \cup {ref}
  OBVIOUS
<1>4. <<save>> \in Seq(Op) /\ Builds(N, <<save>>, M)
  <2>1. save.do = "save" /\ save.kind = "node" /\ save.ref = ref
    BY <1>1
  <2> QED  BY <1>2, <1>3, <2>1, BuildsOne
<1>5. Emit("node.added", ref) \in Seq(Op) /\ Builds(M, Emit("node.added", ref), M)
  BY <1>2, BuiltFromDo DEF BuiltFrom, Announcements
<1>6. Node(ref) = <<save>> \o Emit("node.added", ref)
  BY <1>1 DEF Node, SaveNode
<1>7. <<save>> \o Emit("node.added", ref) \in Seq(Op)
  BY <1>4, <1>5, ConcatProperties
<1>8. Builds(N, <<save>> \o Emit("node.added", ref), M)
  BY <1>4, <1>5, BuildsConcat
<1> QED  BY <1>3, <1>6, <1>7, <1>8

\* An edge joins known nodes.
LEMMA BuildsEdge ==
    ASSUME NEW N \in SUBSET NodeRef, NEW ref \in EdgeRef, NEW source \in N, NEW target \in N
    PROVE  Edge(ref, source, target) \in BuiltFrom(N)
<1>1. PICK save : save = [do |-> "save", kind |-> "edge", ref |-> ref, ends |-> {source, target}]
  OBVIOUS
<1>2. ref \in Ref /\ source \in Ref /\ target \in Ref
  BY DEF Ref
<1>3. save \in Op
  BY <1>1, <1>2, OpType DEF OpKinds
<1>4. <<save>> \in BuiltFrom(N)
  <2>1. save.do = "save" /\ save.kind = "edge" /\ save.ref = ref /\ save.ends = {source, target}
    BY <1>1
  <2> QED  BY <1>3, <2>1, BuildsOne DEF BuiltFrom
<1>5. Emit("edge.activated", ref) \in BuiltFrom(N)
  BY <1>2, BuiltFromDo DEF Announcements
<1>6. PICK op : op = [do |-> "emit", kind |-> "edge.added", ref |-> ref, ends |-> {source, target}]
  OBVIOUS
<1>7. op \in {o \in Op : o.do \notin {"save", "raise"}}
  <2>1. "edge.added" \in OpKinds /\ {source, target} \in SUBSET Ref
    BY <1>2 DEF OpKinds, Reports, Announcements
  <2>2. op \in Op /\ op.do = "emit"
    BY <1>2, <1>6, <2>1, OpType
  <2> QED  BY <2>2
<1>8. <<op>> \in BuiltFrom(N)
  <2>1. PICK C : C = {o \in Op : o.do \notin {"save", "raise"}}
    OBVIOUS
  <2>2. op \in C
    BY <1>7, <2>1
  <2>3. <<op>> \in Seq(C)
    BY <2>2
  <2> QED  BY <2>1, <2>3, BuiltNothing
<1> QED  BY <1>1, <1>4, <1>5, <1>6, <1>8, BuiltFromDo DEF Closed, Edge, SaveEdge

\* An update is of a known node.
LEMMA BuildsUpdate ==
    ASSUME NEW N \in SUBSET NodeRef, NEW ref \in N
    PROVE  Update(ref) \in BuiltFrom(N)
<1>1. PICK save : save = [do |-> "save", kind |-> "update", ref |-> ref, ends |-> {ref}]
  OBVIOUS
<1>2. ref \in Ref
  BY DEF Ref
<1>3. save \in Op
  BY <1>1, <1>2, OpType DEF OpKinds
<1>4. <<save>> \in BuiltFrom(N)
  <2>1. save.do = "save" /\ save.kind = "update" /\ save.ref = ref /\ save.ends = {ref}
    BY <1>1
  <2> QED  BY <1>3, <2>1, BuildsOne DEF BuiltFrom
<1>5. Emit("node.updated", ref) \in BuiltFrom(N)
  BY <1>2, BuiltFromDo DEF Announcements
<1> QED  BY <1>1, <1>4, <1>5, BuiltFromDo DEF Closed, Update

\* Two sequences, one after the other,
LEMMA BuildsThen ==
    ASSUME NEW N, NEW M, NEW L, NEW a \in Seq(Op), NEW b \in Seq(Op),
           Builds(N, a, M), Builds(M, b, L)
    PROVE  a \o b \in Seq(Op) /\ Builds(N, a \o b, L)
BY BuildsConcat, ConcatProperties

\* five of them,
LEMMA BuildsFive ==
    ASSUME NEW N0, NEW N1, NEW N2, NEW N3, NEW N4, NEW N5, NEW a \in Seq(Op),
           NEW b \in Seq(Op), NEW c \in Seq(Op), NEW d \in Seq(Op),
           NEW e \in Seq(Op), Builds(N0, a, N1), Builds(N1, b, N2),
           Builds(N2, c, N3), Builds(N3, d, N4), Builds(N4, e, N5)
    PROVE  /\ a \o b \o c \o d \o e \in Seq(Op)
           /\ Builds(N0, a \o b \o c \o d \o e, N5)
<1>1. /\ a \o b \in Seq(Op)
      /\ Builds(N0, a \o b, N2)
  BY BuildsThen
<1>2. /\ a \o b \o c \in Seq(Op)
      /\ Builds(N0, a \o b \o c, N3)
  BY <1>1, BuildsThen
<1>3. /\ a \o b \o c \o d \in Seq(Op)
      /\ Builds(N0, a \o b \o c \o d, N4)
  BY <1>2, BuildsThen
<1> QED  BY <1>3, BuildsThen

\* What builds nothing new
LEMMA BuiltIs ==
    ASSUME NEW N, NEW ops \in BuiltFrom(N)
    PROVE  ops \in Seq(Op) /\ Builds(N, ops, N)
BY DEF BuiltFrom

(* A loop builds what its rounds build, one after the other.                *)
LEMMA BuildsFor ==
    ASSUME NEW n \in Nat, NEW seqs \in [1..n -> Seq(Op)], NEW K \in [0..n -> SUBSET NodeRef],
           \A i \in 1..n : Builds(K[i - 1], seqs[i], K[i])
    PROVE  FlattenSeq(seqs) \in Seq(Op) /\ Builds(K[0], FlattenSeq(seqs), K[n])
<1>1. PICK J : J = Built
  OBVIOUS
<1>2. \A s \in SUBSET NodeRef : <<s, <<>>, s>> \in J
  <2>1. PICK e : e = <<>> /\ e \in Seq(Op) /\ Len(e) = 0 /\ DOMAIN e = {}
    OBVIOUS
  <2>2. \A s : Builds(s, e, s)
    BY <2>1 DEF Builds, Known
  <2> QED  BY <1>1, <2>1, <2>2, BuiltAre
<1>3. \A s, t, u \in SUBSET NodeRef, a, b \in Seq(Op) :
          <<s, a, t>> \in J /\ <<t, b, u>> \in J => <<s, a \o b, u>> \in J
  BY <1>1, BuiltAre, BuildsThen
<1>4. \A i \in 1..n : <<K[i - 1], seqs[i], K[i]>> \in J
  <2> TAKE i \in 1..n
  <2>1. i - 1 \in 0..n /\ i \in 0..n
    OBVIOUS
  <2>2. K[i - 1] \in SUBSET NodeRef /\ K[i] \in SUBSET NodeRef
    BY <2>1
  <2> QED  BY <1>1, <2>2, BuiltAre
<1>5. <<K[0], FlattenSeq(seqs), K[n]>> \in J
  BY <1>2, <1>3, <1>4, FlattenJudged
<1> QED  BY <1>1, <1>5 DEF Built

\* Which nodes differ
LEMMA NodesDiffer ==
    /\ \A a, b, m, n : <<a, m>> = <<b, n>> <=> a = b /\ m = n
    /\ \A a, b : Id(a) = Id(b) <=> a = b
    /\ \A a, b : \A n \in Nat \ {0} : Id(a) # <<b, n>>
    /\ \A name \in EngineNodes : Id(name) \in NodeRef
    /\ \A name \in {"excerpt", "claim", "validation"}, n \in Nat : <<name, n>> \in NodeRef
BY NamesOK, Refs DEF Id, EngineNames, EngineNodes

\* The nodes that are known after the parts of a script
Base == {Id("data-source"), Id("compute-plan"), Id("data-signal")}
WithCycle(in) == Base \cup CycleRefs(in)
WithDocuments(in) == WithCycle(in) \cup (IF in.indexed THEN {Id("document-source")} ELSE {})
WithClaims(in, n) == WithDocuments(in) \cup {<<"excerpt", i>> : i \in 1..n} \cup {<<"claim", i>> : i \in 1..n}
WithHypotheses(in, n) ==
    WithClaims(in, Claims(in)) \cup {in.hypotheses[i].id : i \in 1..n} \cup {<<"validation", i>> : i \in 1..n}

\* They are all nodes.
LEMMA KnownNodes ==
    ASSUME NEW in, InputOK(in)
    PROVE  /\ Base \in SUBSET NodeRef /\ CycleRefs(in) \in SUBSET NodeRef
           /\ WithCycle(in) \in SUBSET NodeRef /\ WithDocuments(in) \in SUBSET NodeRef
           /\ \A n \in Nat : WithClaims(in, n) \in SUBSET NodeRef
           /\ \A n \in 0..Len(in.hypotheses) : WithHypotheses(in, n) \in SUBSET NodeRef
<1>1. Base \in SUBSET NodeRef /\ Id("document-source") \in NodeRef
  BY NodesDiffer DEF Base, EngineNodes
<1>2. CycleRefs(in) \in SUBSET NodeRef
  BY InputTypes, Refs DEF CycleRefs
<1>3. WithDocuments(in) \in SUBSET NodeRef /\ WithCycle(in) \in SUBSET NodeRef
  BY <1>1, <1>2 DEF WithCycle, WithDocuments
<1>4. \A n \in Nat : WithClaims(in, n) \in SUBSET NodeRef
  BY <1>3, NodesDiffer DEF WithClaims
<1>5. ASSUME NEW n \in 0..Len(in.hypotheses) PROVE WithHypotheses(in, n) \in SUBSET NodeRef
  <2>1. \A i \in 1..n : i \in DOMAIN in.hypotheses /\ i \in Nat
    BY InputTypes
  <2>2. WithClaims(in, Claims(in)) \in SUBSET NodeRef
    BY <1>4, InputTypes
  <2>3. \A i \in 1..n : in.hypotheses[i].id \in NodeRef /\ <<"validation", i>> \in NodeRef
    BY <2>1, InputTypes, NodesDiffer
  <2> QED  BY <2>2, <2>3 DEF WithHypotheses
<1> QED  BY <1>1, <1>2, <1>3, <1>4, <1>5

\* The first nodes are new, and their edges join them.
LEMMA SourceBuilds ==
    SourceGraph \in Seq(Op) /\ Builds({}, SourceGraph, Base)
<1>1. PICK a \in NodeRef : a = Id("data-source")
  BY NodesDiffer DEF EngineNodes
<1>2. PICK b \in NodeRef : b = Id("compute-plan")
  BY NodesDiffer DEF EngineNodes
<1>3. PICK c \in NodeRef : c = Id("data-signal")
  BY NodesDiffer DEF EngineNodes
<1>4. a # b /\ b # c /\ a # c
  BY <1>1, <1>2, <1>3, NodesDiffer
<1>5. PICK x : x = Node(a) /\ x \in Seq(Op) /\ Builds({}, x, {a})
  <2>1. {} \cup {a} = {a}
    OBVIOUS
  <2>2. a \notin {}
    OBVIOUS
  <2>3. Node(a) \in Seq(Op) /\ Builds({}, Node(a), {} \cup {a})
    BY <2>2, BuildsNode
  <2> QED  BY <2>1, <2>3
<1>6. PICK y : y = Node(b) /\ y \in Seq(Op) /\ Builds({a}, y, {a, b})
  <2>1. {a} \cup {b} = {a, b}
    OBVIOUS
  <2>2. b \notin {a}
    BY <1>4
  <2>3. Node(b) \in Seq(Op) /\ Builds({a}, Node(b), {a} \cup {b})
    BY <2>2, BuildsNode
  <2> QED  BY <2>1, <2>3
<1>7. PICK z : z = Node(c) /\ z \in Seq(Op) /\ Builds({a, b}, z, {a, b, c})
  <2>1. {a, b} \cup {c} = {a, b, c}
    OBVIOUS
  <2>2. c \notin {a, b}
    BY <1>4
  <2>3. Node(c) \in Seq(Op) /\ Builds({a, b}, Node(c), {a, b} \cup {c})
    BY <2>2, BuildsNode
  <2> QED  BY <2>1, <2>3
<1>8. PICK e : e = Edge(EdgeId("data-plan", 0), a, b) /\ e \in Seq(Op) /\ Builds({a, b}, e, {a, b})
  BY EdgeNamed, BuildsEdge, BuiltIs
<1>9. PICK f : f = Edge(EdgeId("plan-signal", 0), b, c) /\ f \in Seq(Op) /\ Builds({a, b, c}, f, {a, b, c})
  BY EdgeNamed, BuildsEdge, BuiltIs
<1>10. SourceGraph = x \o y \o e \o z \o f
  BY <1>1, <1>2, <1>3, <1>5, <1>6, <1>7, <1>8, <1>9 DEF SourceGraph
<1>11. x \o y \o e \o z \o f \in Seq(Op) /\ Builds({}, x \o y \o e \o z \o f, {a, b, c})
  BY <1>5, <1>6, <1>7, <1>8, <1>9, BuildsFive
<1>12. Base = {a, b, c}
  BY <1>1, <1>2, <1>3 DEF Base
<1> QED  BY <1>10, <1>11, <1>12

(* No call is made twice, so each artifact is a new node.                   *)
LEMMA CycleBuilds ==
    ASSUME NEW in, InputOK(in), in.cycle # <<>>, ~Repeats(in)
    PROVE  CycleGraph(in) \in Seq(Op) /\ Builds(Base, CycleGraph(in), WithCycle(in))
<1>1. PICK n \in Nat : n = Len(in.cycle) /\ DOMAIN in.cycle = 1..n
  BY InputTypes
<1>2. PICK K : K = [i \in 0..n |-> Base \cup {Id(in.cycle[j].call) : j \in {l \in 1..i : IsCall(in.cycle[l])}}]
  OBVIOUS
<1>3. \A i \in 1..n : /\ Id(in.cycle[i].call) \in NodeRef /\ Id(in.cycle[i].call) \notin Base
  <2> TAKE i \in 1..n
  <2>1. in.cycle[i].call \in Names /\ in.cycle[i].call \notin EngineNodes
    BY <1>1, InputTypes
  <2>2. {"data-source", "compute-plan", "data-signal"} \subseteq EngineNodes
    BY DEF EngineNodes
  <2>3. Id(in.cycle[i].call) \notin Base
    BY <2>1, <2>2, NodesDiffer DEF Base
  <2> QED  BY <2>1, <2>3, Refs
<1>4. K \in [0..n -> SUBSET NodeRef]
  <2>1. \A i \in 0..n : \A j \in 1..i : j \in 1..n
    OBVIOUS
  <2>2. Base \in SUBSET NodeRef
    BY KnownNodes
  <2> QED  BY <1>2, <1>3, <2>1, <2>2
<1>5. K[0] = Base
  BY <1>2
<1>6. K[n] = WithCycle(in)
  BY <1>1, <1>2 DEF WithCycle, CycleRefs
<1>7. ASSUME NEW i \in 1..n
      PROVE  /\ If(IsCall(in.cycle[i]), Node(Id(in.cycle[i].call))) \in Seq(Op)
             /\ Builds(K[i - 1], If(IsCall(in.cycle[i]), Node(Id(in.cycle[i].call))), K[i])
  <2>1. i - 1 \in 0..n /\ i \in 0..n /\ \A j : j \in 1..i <=> j \in 1..(i - 1) \/ j = i
    BY <1>7
  <2>2. CASE IsCall(in.cycle[i])
    <3>1. Id(in.cycle[i].call) \notin K[i - 1]
      <4>1. \A j \in 1..(i - 1) : j \in 1..n /\ j # i
        BY <1>7
      <4>2. \A j \in 1..(i - 1) : IsCall(in.cycle[j]) => in.cycle[j].call # in.cycle[i].call
        BY <1>1, <2>2, <4>1 DEF Repeats
      <4> QED  BY <1>2, <1>3, <2>1, <4>2, NodesDiffer
    <3>2. K[i] = K[i - 1] \cup {Id(in.cycle[i].call)}
      BY <1>2, <2>1, <2>2
    <3>3. If(IsCall(in.cycle[i]), Node(Id(in.cycle[i].call))) = Node(Id(in.cycle[i].call))
      BY <2>2 DEF If
    <3>4. Node(Id(in.cycle[i].call)) \in Seq(Op)
          /\ Builds(K[i - 1], Node(Id(in.cycle[i].call)), K[i - 1] \cup {Id(in.cycle[i].call)})
      BY <1>3, <3>1, BuildsNode
    <3> QED  BY <3>2, <3>3, <3>4
  <2>3. CASE ~IsCall(in.cycle[i])
    <3>1. K[i] = K[i - 1]
      BY <1>2, <2>1, <2>3
    <3>2. If(IsCall(in.cycle[i]), Node(Id(in.cycle[i].call))) = <<>>
      BY <2>3 DEF If
    <3>3. <<>> \in BuiltFrom(K[i - 1])
      BY BuiltFromDo DEF Closed
    <3>4. <<>> \in Seq(Op) /\ Builds(K[i - 1], <<>>, K[i - 1])
      BY <3>3, BuiltIs
    <3> QED  BY <3>1, <3>2, <3>4
  <2> QED  BY <2>2, <2>3
<1>8. PICK seqs : seqs = [i \in 1..n |-> If(IsCall(in.cycle[i]), Node(Id(in.cycle[i].call)))]
  OBVIOUS
<1>9. seqs \in [1..n -> Seq(Op)] /\ \A i \in 1..n : Builds(K[i - 1], seqs[i], K[i])
  BY <1>7, <1>8
<1>10. FlattenSeq(seqs) \in Seq(Op) /\ Builds(Base, FlattenSeq(seqs), WithCycle(in))
  BY <1>4, <1>5, <1>6, <1>9, BuildsFor
<1>11. PICK a : a = CycleNodes(in) /\ a \in Seq(Op) /\ Builds(Base, a, WithCycle(in))
  BY <1>1, <1>8, <1>10 DEF CycleNodes, For
<1>12. WithCycle(in) \in SUBSET NodeRef
  BY KnownNodes
<1>13. \A edge \in EdgeRef, source \in CycleRefs(in) \cup {Id("data-signal")}, target \in CycleRefs(in) :
           Edge(edge, source, target) \in BuiltFrom(WithCycle(in))
  <2>1. CycleRefs(in) \cup {Id("data-signal")} \subseteq WithCycle(in)
    BY DEF WithCycle, Base
  <2> QED  BY <1>12, <2>1, BuildsEdge
<1>14. CycleSource(in) \in BuiltFrom(WithCycle(in)) /\ CycleEdges(in) \in BuiltFrom(WithCycle(in))
  BY <1>13, BuiltFromDo, CycleEdgesPart
<1>15. PICK b : b = CycleSource(in) /\ b \in Seq(Op) /\ Builds(WithCycle(in), b, WithCycle(in))
  BY <1>14, BuiltIs
<1>16. PICK c : c = CycleEdges(in) /\ c \in Seq(Op) /\ Builds(WithCycle(in), c, WithCycle(in))
  BY <1>14, BuiltIs
<1>17. a \o b \in Seq(Op) /\ Builds(Base, a \o b, WithCycle(in))
  BY <1>11, <1>15, BuildsThen
<1>18. a \o b \o c \in Seq(Op) /\ Builds(Base, a \o b \o c, WithCycle(in))
  BY <1>16, <1>17, BuildsThen
<1>19. CycleGraph(in) = a \o b \o c
  BY <1>11, <1>15, <1>16 DEF CycleGraph, CycleNodes, CycleSource, CycleEdges, For
<1> QED  BY <1>18, <1>19

\* six,
LEMMA BuildsSix ==
    ASSUME NEW N0, NEW N1, NEW N2, NEW N3, NEW N4, NEW N5, NEW N6,
           NEW a \in Seq(Op), NEW b \in Seq(Op), NEW c \in Seq(Op),
           NEW d \in Seq(Op), NEW e \in Seq(Op), NEW f \in Seq(Op),
           Builds(N0, a, N1), Builds(N1, b, N2), Builds(N2, c, N3),
           Builds(N3, d, N4), Builds(N4, e, N5), Builds(N5, f, N6)
    PROVE  /\ a \o b \o c \o d \o e \o f \in Seq(Op)
           /\ Builds(N0, a \o b \o c \o d \o e \o f, N6)
<1>1. /\ a \o b \o c \o d \o e \in Seq(Op)
      /\ Builds(N0, a \o b \o c \o d \o e, N5)
  BY BuildsFive
<1> QED  BY <1>1, BuildsThen

\* eight,
LEMMA BuildsEight ==
    ASSUME NEW N0, NEW N1, NEW N2, NEW N3, NEW N4, NEW N5, NEW N6, NEW N7, NEW N8,
           NEW a \in Seq(Op), NEW b \in Seq(Op), NEW c \in Seq(Op),
           NEW d \in Seq(Op), NEW e \in Seq(Op), NEW f \in Seq(Op),
           NEW g \in Seq(Op), NEW h \in Seq(Op), Builds(N0, a, N1),
           Builds(N1, b, N2), Builds(N2, c, N3), Builds(N3, d, N4),
           Builds(N4, e, N5), Builds(N5, f, N6), Builds(N6, g, N7),
           Builds(N7, h, N8)
    PROVE  /\ a \o b \o c \o d \o e \o f \o g \o h \in Seq(Op)
           /\ Builds(N0, a \o b \o c \o d \o e \o f \o g \o h, N8)
<1>1. /\ a \o b \o c \o d \o e \o f \in Seq(Op)
      /\ Builds(N0, a \o b \o c \o d \o e \o f, N6)
  BY BuildsSix
<1>2. /\ a \o b \o c \o d \o e \o f \o g \in Seq(Op)
      /\ Builds(N0, a \o b \o c \o d \o e \o f \o g, N7)
  BY <1>1, BuildsThen
<1> QED  BY <1>2, BuildsThen

\* and nine
LEMMA BuildsNine ==
    ASSUME NEW N0, NEW N1, NEW N2, NEW N3, NEW N4, NEW N5, NEW N6, NEW N7, NEW N8,
           NEW N9, NEW a \in Seq(Op), NEW b \in Seq(Op), NEW c \in Seq(Op),
           NEW d \in Seq(Op), NEW e \in Seq(Op), NEW f \in Seq(Op),
           NEW g \in Seq(Op), NEW h \in Seq(Op), NEW k \in Seq(Op),
           Builds(N0, a, N1), Builds(N1, b, N2), Builds(N2, c, N3),
           Builds(N3, d, N4), Builds(N4, e, N5), Builds(N5, f, N6),
           Builds(N6, g, N7), Builds(N7, h, N8), Builds(N8, k, N9)
    PROVE  /\ a \o b \o c \o d \o e \o f \o g \o h \o k \in Seq(Op)
           /\ Builds(N0, a \o b \o c \o d \o e \o f \o g \o h \o k, N9)
<1>1. /\ a \o b \o c \o d \o e \o f \o g \o h \in Seq(Op)
      /\ Builds(N0, a \o b \o c \o d \o e \o f \o g \o h, N8)
  BY BuildsEight
<1> QED  BY <1>1, BuildsThen

\* Without a cycle its graph is empty.
LEMMA CycleBuilt ==
    ASSUME NEW in, InputOK(in), ~Repeats(in)
    PROVE  /\ If(in.cycle # <<>>, CycleGraph(in)) \in Seq(Op)
           /\ Builds(Base, If(in.cycle # <<>>, CycleGraph(in)), WithCycle(in))
<1>1. CASE in.cycle # <<>>
  <2>1. If(in.cycle # <<>>, CycleGraph(in)) = CycleGraph(in)
    BY <1>1 DEF If
  <2> QED  BY <1>1, <2>1, CycleBuilds
<1>2. CASE in.cycle = <<>>
  <2>1. If(in.cycle # <<>>, CycleGraph(in)) = <<>>
    BY <1>2 DEF If
  <2>2. WithCycle(in) = Base
    <3>1. DOMAIN in.cycle = {}
      BY <1>2
    <3> QED  BY <3>1 DEF WithCycle, CycleRefs
  <2>3. <<>> \in Seq(Op) /\ Builds(Base, <<>>, Base)
    <3>1. <<>> \in BuiltFrom(Base)
      BY BuiltFromDo DEF Closed
    <3> QED  BY <3>1, BuiltIs
  <2> QED  BY <2>1, <2>2, <2>3
<1> QED  BY <1>1, <1>2

(* The node of an engine that is not among the first three is new.          *)
LEMMA NotYet ==
    ASSUME NEW in, InputOK(in)
    PROVE  /\ \A name \in EngineNodes : Id(name) \in WithCycle(in) => Id(name) \in Base
           /\ Id("document-source") \notin WithCycle(in)
           /\ \A a : \A n \in Nat \ {0} : <<a, n>> \notin WithDocuments(in)
<1>1. \A i \in DOMAIN in.cycle : in.cycle[i].call \notin EngineNodes
  BY DEF InputOK
<1>2. \A name \in EngineNodes : Id(name) \notin CycleRefs(in)
  BY <1>1, NodesDiffer DEF CycleRefs
<1>3. Id("document-source") \notin Base
  BY NodesDiffer DEF Base
<1>4. "document-source" \in EngineNodes
  BY DEF EngineNodes
<1>5. ASSUME NEW a, NEW n \in Nat \ {0} PROVE <<a, n>> \notin WithDocuments(in)
  <2>1. \A name : Id(name) # <<a, n>>
    BY NodesDiffer
  <2> QED  BY <2>1 DEF WithDocuments, WithCycle, Base, CycleRefs
<1> QED  BY <1>2, <1>3, <1>4, <1>5 DEF WithCycle

\* The node of the documents is new.
LEMMA DocumentsBuild ==
    ASSUME NEW in, InputOK(in)
    PROVE  Documents(in) \in Seq(Op) /\ Builds(WithCycle(in), Documents(in), WithDocuments(in))
<1>1. PICK N : N = WithCycle(in) /\ N \in SUBSET NodeRef
  BY KnownNodes
<1>2. PICK W : W = BuiltFrom(N) /\ Closed(W) /\ Reporting(W) /\ Invoking(W)
  BY BuiltFromDo
<1>3. PICK a : a = Poll \o If(in.documents /\ in.runner = "demo", Tool(Id("extract")))
                   \o Emit("document.indexed", None) \o Emit("retrieval.result.created", Id("corpus"))
  OBVIOUS
<1>4. a \in W
  <2>1. If(in.documents /\ in.runner = "demo", Tool(Id("extract"))) \in W /\ Poll \in W
    BY <1>2, Named DEF If, Closed, Noting, Reporting, Invoking
  <2>2. Emit("document.indexed", None) \in W /\ Emit("retrieval.result.created", Id("corpus")) \in W
    BY <1>2, ToldNames, Refs, Named DEF Noting, Reporting
  <2> QED  BY <1>2, <1>3, <2>1, <2>2 DEF Closed
<1>5. a \in Seq(Op) /\ Builds(N, a, N)
  BY <1>2, <1>4, BuiltIs
<1>6. PICK b : b = If(in.indexed, Node(Id("document-source")))
  OBVIOUS
<1>7. PICK M : M = WithDocuments(in)
  OBVIOUS
<1>8. b \in Seq(Op) /\ Builds(N, b, M)
  <2>1. CASE in.indexed
    <3>1. b = Node(Id("document-source")) /\ M = N \cup {Id("document-source")}
      BY <1>1, <1>6, <1>7, <2>1 DEF If, WithDocuments
    <3>2. Id("document-source") \in NodeRef /\ Id("document-source") \notin N
      BY <1>1, NotYet, NodesDiffer DEF EngineNodes
    <3> QED  BY <3>1, <3>2, BuildsNode
  <2>2. CASE ~in.indexed
    <3>1. b = <<>> /\ M = N
      BY <1>1, <1>6, <1>7, <2>2 DEF If, WithDocuments
    <3>2. <<>> \in W
      BY <1>2 DEF Closed
    <3> QED  BY <1>2, <3>1, <3>2, BuiltIs
  <2> QED  BY <2>1, <2>2
<1>9. a \o b \in Seq(Op) /\ Builds(N, a \o b, M)
  BY <1>5, <1>8, BuildsThen
<1>10. Documents(in) = a \o b
  BY <1>3, <1>6 DEF Documents
<1> QED  BY <1>1, <1>7, <1>9, <1>10

\* An excerpt and a claim are new, and joined to each other and the source.
LEMMA ClaimBuilds ==
    ASSUME NEW in, InputOK(in), NEW i \in 1..Claims(in)
    PROVE  /\ ClaimGraph(i) \in Seq(Op)
           /\ Builds(WithClaims(in, i - 1), ClaimGraph(i), WithClaims(in, i))
<1>1. i \in Nat \ {0} /\ i - 1 \in Nat /\ \A j : j \in 1..i <=> j \in 1..(i - 1) \/ j = i
  BY InputTypes
<1>2. PICK source : source = Id("document-source")
  OBVIOUS
<1>3. PICK signal : signal = Id("data-signal")
  OBVIOUS
<1>4. PICK excerpt : excerpt = <<"excerpt", i>> /\ excerpt \in NodeRef
  BY <1>1, NodesDiffer
<1>5. PICK claim : claim = <<"claim", i>> /\ claim \in NodeRef /\ claim # excerpt
  <2>1. <<"claim", i>> # excerpt
    BY <1>4, NodesDiffer
  <2> QED  BY <1>1, <2>1, NodesDiffer
<1>6. PICK N : N = WithClaims(in, i - 1) /\ N \in SUBSET NodeRef
  BY <1>1, KnownNodes
<1>7. PICK M : M = N \cup {excerpt} /\ M \in SUBSET NodeRef
  <2>1. N \cup {excerpt} \in SUBSET NodeRef
    BY <1>4, <1>6
  <2> QED  BY <2>1
<1>8. PICK L : L = M \cup {claim} /\ L \in SUBSET NodeRef
  <2>1. M \cup {claim} \in SUBSET NodeRef
    BY <1>5, <1>7
  <2> QED  BY <2>1
<1>9. L = WithClaims(in, i)
  BY <1>1, <1>4, <1>5, <1>6, <1>7, <1>8 DEF WithClaims
<1>10. source \in N /\ signal \in N
  <2>1. in.indexed
    <3>1. in.claims > 0
      BY InputTypes DEF Claims
    <3> QED  BY <3>1 DEF InputOK
  <2> QED  BY <1>2, <1>3, <1>6, <2>1 DEF WithClaims, WithDocuments, WithCycle, Base
<1>11. excerpt \notin N /\ claim \notin M
  <2>1. \A j \in 1..(i - 1) : j # i
    BY <1>1
  <2>2. excerpt \notin WithDocuments(in) /\ claim \notin WithDocuments(in)
    BY <1>1, <1>4, <1>5, NotYet
  <2>3. \A j \in 1..(i - 1) : /\ excerpt # <<"excerpt", j>> /\ excerpt # <<"claim", j>>
                              /\ claim # <<"excerpt", j>> /\ claim # <<"claim", j>>
    BY <1>4, <1>5, <2>1
  <2> QED  BY <1>5, <1>6, <1>7, <2>2, <2>3 DEF WithClaims
<1>12. PICK a : a = Emit("claim.extracted", claim) /\ a \in Seq(Op) /\ Builds(N, a, N)
  <2>1. Emit("claim.extracted", claim) \in BuiltFrom(N)
    BY <1>5, BuiltFromDo, ToldNames DEF Noting, Reporting, Ref
  <2> QED  BY <2>1, BuiltIs
<1>13. PICK b : b = Node(excerpt) /\ b \in Seq(Op) /\ Builds(N, b, M)
  BY <1>4, <1>7, <1>11, BuildsNode
<1>14. PICK c : c = Edge(EdgeId("excerpt-source", i), source, excerpt) /\ c \in Seq(Op) /\ Builds(M, c, M)
  BY <1>1, <1>7, <1>10, EdgeNamed, BuildsEdge, BuiltIs
<1>15. PICK d : d = Node(claim) /\ d \in Seq(Op) /\ Builds(M, d, L)
  BY <1>5, <1>8, <1>11, BuildsNode
<1>16. PICK e : e = Edge(EdgeId("claim-source", i), excerpt, claim) /\ e \in Seq(Op) /\ Builds(L, e, L)
  BY <1>1, <1>7, <1>8, EdgeNamed, BuildsEdge, BuiltIs
<1>17. PICK f : f = Edge(EdgeId("claim", i), claim, signal) /\ f \in Seq(Op) /\ Builds(L, f, L)
  BY <1>1, <1>7, <1>8, <1>10, EdgeNamed, BuildsEdge, BuiltIs
<1>19. a \o b \o c \o d \o e \o f \in Seq(Op) /\ Builds(N, a \o b \o c \o d \o e \o f, L)
  BY <1>12, <1>13, <1>14, <1>15, <1>16, <1>17, BuildsSix
<1>20. ClaimGraph(i) = a \o b \o c \o d \o e \o f
  BY <1>2, <1>3, <1>4, <1>5, <1>12, <1>13, <1>14, <1>15, <1>16, <1>17 DEF ClaimGraph
<1> QED  BY <1>6, <1>9, <1>19, <1>20

\* All claims, one after the other,
LEMMA ClaimsBuild ==
    ASSUME NEW in, InputOK(in)
    PROVE  /\ For(Claims(in), ClaimGraph) \in Seq(Op)
           /\ Builds(WithDocuments(in), For(Claims(in), ClaimGraph), WithClaims(in, Claims(in)))
<1>1. PICK n \in Nat : n = Claims(in)
  BY InputTypes
<1>2. PICK K : K = [i \in 0..n |-> WithClaims(in, i)]
  OBVIOUS
<1>3. K \in [0..n -> SUBSET NodeRef]
  BY <1>2, KnownNodes
<1>4. K[0] = WithDocuments(in) /\ K[n] = WithClaims(in, Claims(in))
  <2>1. WithClaims(in, 0) = WithDocuments(in)
    BY DEF WithClaims
  <2> QED  BY <1>1, <1>2, <2>1
<1>5. PICK seqs : seqs = [i \in 1..n |-> ClaimGraph(i)]
  OBVIOUS
<1>6. seqs \in [1..n -> Seq(Op)] /\ \A i \in 1..n : Builds(K[i - 1], seqs[i], K[i])
  <2>1. \A i \in 1..n : i - 1 \in 0..n /\ i \in 0..n
    OBVIOUS
  <2>2. \A i \in 1..n : /\ ClaimGraph(i) \in Seq(Op)
                        /\ Builds(WithClaims(in, i - 1), ClaimGraph(i), WithClaims(in, i))
    BY <1>1, ClaimBuilds
  <2> QED  BY <1>2, <1>5, <2>1, <2>2
<1>7. FlattenSeq(seqs) \in Seq(Op) /\ Builds(K[0], FlattenSeq(seqs), K[n])
  BY <1>3, <1>6, BuildsFor
<1> QED  BY <1>1, <1>4, <1>5, <1>7 DEF For

(* Claims in conflict are known, so the edges between them are accepted.    *)
LEMMA ReasoningBuilds ==
    ASSUME NEW in, InputOK(in), \A pair \in in.conflicts : pair[2] <= MaxClaims
    PROVE  /\ Reasoning(in) \in Seq(Op)
           /\ Builds(WithClaims(in, Claims(in)), Reasoning(in), WithClaims(in, Claims(in)))
<1>1. PICK n \in Nat : n = Claims(in)
  BY InputTypes
<1>2. PICK N : N = WithClaims(in, n) /\ N \in SUBSET NodeRef
  BY KnownNodes
<1>3. PICK W : W = BuiltFrom(N) /\ Closed(W) /\ Reporting(W) /\ Invoking(W) /\ Disputing(W)
  BY BuiltFromDo
<1>4. ASSUME NEW pair \in in.conflicts, pair[1] <= Claims(in)
      PROVE  ConflictGraph(in, pair[1], pair[2]) \in W
  <2>1. /\ in.claims \in Nat
        /\ pair[1] \in 1..in.claims /\ pair[2] \in 1..in.claims /\ pair[1] \in 1..Claims(in)
    BY <1>4 DEF InputOK
  <2>2. pair[2] <= Claims(in)
    <3>1. pair[2] <= MaxClaims /\ pair[2] <= in.claims
      BY <2>1
    <3> QED  BY <3>1 DEF Claims
  <2>3. pair[1] \in 1..n /\ pair[2] \in 1..n
    BY <1>1, <2>1, <2>2
  <2>4. <<"claim", pair[1]>> \in N /\ <<"claim", pair[2]>> \in N
    BY <1>2, <2>3 DEF WithClaims
  <2>5. \A edge \in EdgeRef : Edge(edge, <<"claim", pair[1]>>, <<"claim", pair[2]>>) \in W
    BY <1>2, <1>3, <2>4, BuildsEdge
  <2>6. ~(pair[2] > Claims(in))
    BY <1>1, <2>3
  <2> QED  BY <1>3, <2>1, <2>5, <2>6, ConflictPart
<1>5. in.documents /\ in.runner = "demo" => Tool(Id("align")) \in W
  BY <1>3, Named DEF Invoking
<1>6. Reasoning(in) \in W
  BY <1>3, <1>4, <1>5, ReasoningPart
<1> QED  BY <1>1, <1>2, <1>3, <1>6, BuiltIs

(* No hypothesis bears the name of a node that is known.                    *)
LEMMA HypothesisNew ==
    ASSUME NEW in, InputOK(in), Unambiguous(in), NEW i \in DOMAIN in.hypotheses,
           NEW n \in 0..(i - 1)
    PROVE  /\ in.hypotheses[i].id \notin WithHypotheses(in, n)
           /\ <<"validation", i>> \notin WithHypotheses(in, n)
           /\ <<"validation", i>> # in.hypotheses[i].id
<1>1. i \in Nat \ {0} /\ n \in Nat /\ \A j \in 1..n : j \in DOMAIN in.hypotheses /\ j # i
  BY InputTypes
<1>2. PICK id : id = in.hypotheses[i].id
  OBVIOUS
<1>3. id \notin OtherNodes(in) /\ \A j \in 1..n : in.hypotheses[j].id # id
  BY <1>1, <1>2 DEF Unambiguous
<1>4. WithClaims(in, Claims(in)) \subseteq OtherNodes(in)
  <2>1. Base \cup {Id("document-source")} \subseteq OtherNodes(in)
    BY DEF Base, OtherNodes, EngineNodes
  <2>2. CycleRefs(in) \subseteq OtherNodes(in)
    BY DEF CycleRefs, OtherNodes
  <2>3. WithDocuments(in) \subseteq OtherNodes(in)
    BY <2>1, <2>2 DEF WithDocuments, WithCycle
  <2>4. \A j \in 1..Claims(in) : <<"excerpt", j>> \in OtherNodes(in) /\ <<"claim", j>> \in OtherNodes(in)
    BY DEF OtherNodes
  <2> QED  BY <2>3, <2>4 DEF WithClaims
<1>5. \A j \in DOMAIN in.hypotheses : <<"validation", j>> \in OtherNodes(in)
  BY DEF OtherNodes
<1>6. id \notin WithHypotheses(in, n)
  BY <1>1, <1>3, <1>4, <1>5 DEF WithHypotheses
<1>7. <<"validation", i>> \notin WithClaims(in, Claims(in))
  <2>1. <<"validation", i>> \notin WithDocuments(in)
    BY <1>1, NotYet
  <2>2. \A j : <<"validation", i>> # <<"excerpt", j>> /\ <<"validation", i>> # <<"claim", j>>
    BY NodesDiffer
  <2> QED  BY <2>1, <2>2 DEF WithClaims
<1>8. \A j \in 1..n : <<"validation", i>> # <<"validation", j>>
  BY <1>1, NodesDiffer
<1>9. \A j \in DOMAIN in.hypotheses : in.hypotheses[j].id # <<"validation", i>>
  BY <1>5 DEF Unambiguous
<1>10. <<"validation", i>> \notin WithHypotheses(in, n)
  BY <1>1, <1>7, <1>8, <1>9 DEF WithHypotheses
<1> QED  BY <1>2, <1>6, <1>9, <1>10

\* A hypothesis and its validation are new.
LEMMA HypothesisBuilds ==
    ASSUME NEW in, InputOK(in), Unambiguous(in), NEW i \in DOMAIN in.hypotheses
    PROVE  /\ HypothesisGraph(in.hypotheses[i], i) \in Seq(Op)
           /\ Builds(WithHypotheses(in, i - 1), HypothesisGraph(in.hypotheses[i], i), WithHypotheses(in, i))
<1>1. /\ i \in Nat \ {0} /\ i - 1 \in 0..(i - 1) /\ i - 1 \in 0..Len(in.hypotheses)
      /\ \A j : j \in 1..i <=> j \in 1..(i - 1) \/ j = i
  BY InputTypes
<1>2. PICK hypothesis : hypothesis = in.hypotheses[i]
  OBVIOUS
<1>3. PICK ref \in NodeRef : ref = hypothesis.id
  BY <1>2, InputTypes
<1>4. PICK validation \in NodeRef : validation = <<"validation", i>> /\ validation # ref
  BY <1>1, <1>2, <1>3, HypothesisNew, NodesDiffer
<1>5. PICK signal : signal = Id("data-signal")
  OBVIOUS
<1>6. PICK N : N = WithHypotheses(in, i - 1) /\ N \in SUBSET NodeRef
  BY <1>1, KnownNodes
<1>7. PICK M : M = N \cup {ref} /\ M \in SUBSET NodeRef
  <2>1. N \cup {ref} \in SUBSET NodeRef
    BY <1>6
  <2> QED  BY <2>1
<1>8. PICK L : L = M \cup {validation} /\ L \in SUBSET NodeRef
  <2>1. M \cup {validation} \in SUBSET NodeRef
    BY <1>7
  <2> QED  BY <2>1
<1>9. L = WithHypotheses(in, i)
  BY <1>1, <1>2, <1>3, <1>4, <1>6, <1>7, <1>8 DEF WithHypotheses
<1>10. signal \in L
  BY <1>5, <1>6, <1>7, <1>8 DEF WithHypotheses, WithClaims, WithDocuments, WithCycle, Base
<1>11. ref \notin N /\ validation \notin M
  BY <1>1, <1>2, <1>3, <1>4, <1>6, <1>7, HypothesisNew
<1>12. ref \in Ref
  BY DEF Ref
<1>13. PICK a : a = Emit("hypothesis.created", ref) /\ a \in Seq(Op) /\ Builds(N, a, N)
  BY <1>12, BuiltFromDo, ToldNames, BuiltIs DEF Noting, Reporting
<1>14. PICK b : b = Node(ref) /\ b \in Seq(Op) /\ Builds(N, b, M)
  BY <1>7, <1>11, BuildsNode
<1>15. PICK c : c = If(hypothesis.structured, Tool(Id("hypotheses"))) /\ c \in Seq(Op) /\ Builds(M, c, M)
  <2>1. If(hypothesis.structured, Tool(Id("hypotheses"))) \in BuiltFrom(M)
    BY BuiltFromDo, Named DEF If, Closed, Invoking
  <2> QED  BY <2>1, BuiltIs
<1>16. PICK d : d = Node(validation) /\ d \in Seq(Op) /\ Builds(M, d, L)
  BY <1>8, <1>11, BuildsNode
<1>17. PICK e : e = Edge(EdgeId("hypothesis", i), validation, ref) /\ e \in Seq(Op) /\ Builds(L, e, L)
  BY <1>1, <1>7, <1>8, EdgeNamed, BuildsEdge, BuiltIs
<1>18. PICK f : f = Edge(EdgeId("validation", i), signal, validation) /\ f \in Seq(Op) /\ Builds(L, f, L)
  BY <1>1, <1>8, <1>10, EdgeNamed, BuildsEdge, BuiltIs
<1>19. PICK g : g = If(hypothesis.structured, Update(ref)) /\ g \in Seq(Op) /\ Builds(L, g, L)
  <2>1. Update(ref) \in BuiltFrom(L)
    BY <1>7, <1>8, BuildsUpdate
  <2>2. If(hypothesis.structured, Update(ref)) \in BuiltFrom(L)
    BY <2>1, BuiltFromDo DEF If, Closed
  <2> QED  BY <2>2, BuiltIs
<1>20. PICK h : h = Emit("validation.completed", ref) /\ h \in Seq(Op) /\ Builds(L, h, L)
  BY <1>12, BuiltFromDo, ToldNames, BuiltIs DEF Noting, Reporting
<1>21. /\ a \o b \o c \o d \o e \o f \o g \o h \in Seq(Op)
       /\ Builds(N, a \o b \o c \o d \o e \o f \o g \o h, L)
  BY <1>13, <1>14, <1>15, <1>16, <1>17, <1>18, <1>19, <1>20, BuildsEight
<1>22. HypothesisGraph(hypothesis, i) = a \o b \o c \o d \o e \o f \o g \o h
  BY <1>3, <1>4, <1>5, <1>13, <1>14, <1>15, <1>16, <1>17, <1>18, <1>19, <1>20 DEF HypothesisGraph
<1> QED  BY <1>2, <1>6, <1>9, <1>21, <1>22

\* All hypotheses, one after the other,
LEMMA HypothesesBuild ==
    ASSUME NEW in, InputOK(in), Unambiguous(in)
    PROVE  /\ For(Len(in.hypotheses), LAMBDA i : HypothesisGraph(in.hypotheses[i], i)) \in Seq(Op)
           /\ Builds(WithClaims(in, Claims(in)),
                     For(Len(in.hypotheses), LAMBDA i : HypothesisGraph(in.hypotheses[i], i)),
                     WithHypotheses(in, Len(in.hypotheses)))
<1>1. PICK n \in Nat : n = Len(in.hypotheses) /\ DOMAIN in.hypotheses = 1..n
  BY InputTypes
<1>2. PICK K : K = [i \in 0..n |-> WithHypotheses(in, i)]
  OBVIOUS
<1>3. K \in [0..n -> SUBSET NodeRef]
  BY <1>1, <1>2, KnownNodes
<1>4. K[0] = WithClaims(in, Claims(in)) /\ K[n] = WithHypotheses(in, n)
  <2>1. WithHypotheses(in, 0) = WithClaims(in, Claims(in))
    BY DEF WithHypotheses
  <2> QED  BY <1>2, <2>1
<1>5. PICK seqs : seqs = [i \in 1..n |-> HypothesisGraph(in.hypotheses[i], i)]
  OBVIOUS
<1>6. seqs \in [1..n -> Seq(Op)] /\ \A i \in 1..n : Builds(K[i - 1], seqs[i], K[i])
  <2>1. \A i \in 1..n : i - 1 \in 0..n /\ i \in 0..n
    OBVIOUS
  <2>2. \A i \in 1..n :
            /\ HypothesisGraph(in.hypotheses[i], i) \in Seq(Op)
            /\ Builds(WithHypotheses(in, i - 1), HypothesisGraph(in.hypotheses[i], i),
                      WithHypotheses(in, i))
    BY <1>1, HypothesisBuilds
  <2> QED  BY <1>2, <1>5, <2>1, <2>2
<1>7. FlattenSeq(seqs) \in Seq(Op) /\ Builds(K[0], FlattenSeq(seqs), K[n])
  BY <1>3, <1>6, BuildsFor
<1> QED  BY <1>1, <1>4, <1>5, <1>7 DEF For

(* The last nodes of the engine are new.                                    *)
LEMMA LastNew ==
    ASSUME NEW in, InputOK(in), Unambiguous(in), NEW n \in 0..Len(in.hypotheses),
           NEW name \in {"analysis-conclusion", "recommended-action", "analysis-report"}
    PROVE  Id(name) \notin WithHypotheses(in, n)
<1>1. name \in EngineNodes
  BY DEF EngineNodes
<1>2. Id(name) \notin WithDocuments(in)
  <2>1. Id(name) \notin Base /\ Id(name) # Id("document-source")
    BY NodesDiffer DEF Base
  <2> QED  BY <1>1, <2>1, NotYet DEF WithDocuments
<1>3. \A a : \A i \in Nat \ {0} : Id(name) # <<a, i>>
  BY NodesDiffer
<1>4. \A i \in 1..Claims(in) : i \in Nat \ {0}
  BY InputTypes
<1>5. \A i \in 1..n : i \in DOMAIN in.hypotheses /\ i \in Nat \ {0}
  BY InputTypes
<1>6. \A i \in DOMAIN in.hypotheses : in.hypotheses[i].id # Id(name)
  <2>1. Id(name) \in OtherNodes(in)
    BY <1>1 DEF OtherNodes
  <2> QED  BY <2>1 DEF Unambiguous
<1> QED  BY <1>2, <1>3, <1>4, <1>5, <1>6 DEF WithHypotheses, WithClaims

\* The conclusion and the action are new, and joined to what they follow from.
LEMMA ConclusionBuilds ==
    ASSUME NEW in, InputOK(in), Unambiguous(in), NEW N, N = WithHypotheses(in, Len(in.hypotheses)),
           NEW M, M = N \cup {Id("analysis-conclusion"), Id("recommended-action")}
    PROVE  /\ M \in SUBSET NodeRef /\ Conclusion(in) \in Seq(Op) /\ Builds(N, Conclusion(in), M)
<1>1. PICK n \in Nat : n = Len(in.hypotheses) /\ DOMAIN in.hypotheses = 1..n
  BY InputTypes
<1>2. N \in SUBSET NodeRef
  BY <1>1, KnownNodes
<1>3. PICK conclusion \in NodeRef : conclusion = Id("analysis-conclusion") /\ conclusion \notin N
  <2>1. n \in 0..Len(in.hypotheses)
    BY <1>1
  <2> QED  BY <1>1, <2>1, LastNew, NodesDiffer DEF EngineNodes
<1>4. PICK action \in NodeRef : action = Id("recommended-action") /\ action \notin N
  <2>1. n \in 0..Len(in.hypotheses)
    BY <1>1
  <2> QED  BY <1>1, <2>1, LastNew, NodesDiffer DEF EngineNodes
<1>5. conclusion # action
  BY <1>3, <1>4, NodesDiffer
<1>6. PICK K : K = N \cup {conclusion}
  OBVIOUS
<1>7. K \in SUBSET NodeRef
  BY <1>2, <1>6
<1>8. M = K \cup {action} /\ M \in SUBSET NodeRef
  BY <1>3, <1>4, <1>6, <1>7
<1>9. Id("data-signal") \in K /\ \A i \in 1..n : <<"validation", i>> \in K
  BY <1>1, <1>6 DEF WithHypotheses, WithClaims, WithDocuments, WithCycle, Base
<1>10. PICK a : a = Node(conclusion) /\ a \in Seq(Op) /\ Builds(N, a, K)
  BY <1>3, <1>6, BuildsNode
<1>11. PICK W : W = BuiltFrom(K) /\ Closed(W) /\ Reporting(W)
  BY BuiltFromDo
<1>12. \A name \in Edges, i \in Nat, source \in K : Edge(EdgeId(name, i), source, conclusion) \in W
  <2>1. conclusion \in K
    BY <1>6
  <2>2. \A name \in Edges, i \in Nat : EdgeId(name, i) \in EdgeRef
    BY DEF EdgeId, EdgeRef
  <2> QED  BY <1>7, <1>11, <2>1, <2>2, BuildsEdge
<1>13. PICK b : b = Edge(EdgeId("signal-conclusion", 0), Id("data-signal"), conclusion) /\ b \in W
  BY <1>9, <1>12 DEF Edges
<1>14. PICK seqs : seqs = [i \in 1..n |->
           Edge(EdgeId("validation-conclusion", i), <<"validation", i>>, conclusion)]
  OBVIOUS
<1>15. seqs \in [1..n -> W]
  <2>1. "validation-conclusion" \in Edges
    BY DEF Edges
  <2>2. \A i \in 1..n : i \in Nat
    OBVIOUS
  <2> QED  BY <1>9, <1>12, <1>14, <2>1, <2>2
<1>16. PICK c : c = FlattenSeq(seqs) /\ c \in W
  BY <1>11, <1>15, ForIn
<1>17. PICK d : d = Emit("conclusion.created", conclusion) /\ d \in W
  BY <1>11, ToldNames DEF Noting, Reporting, Ref
<1>18. PICK e : e = Node(action) /\ e \in Seq(Op) /\ Builds(K, e, M)
  BY <1>4, <1>5, <1>6, <1>8, BuildsNode
<1>19. PICK f : /\ f = Edge(EdgeId("conclusion-action", 0), conclusion, action)
               /\ f \in Seq(Op) /\ Builds(M, f, M)
  BY <1>6, <1>8, EdgeNamed, BuildsEdge, BuiltIs
<1>24. a \o b \o c \o d \o e \o f \in Seq(Op) /\ Builds(N, a \o b \o c \o d \o e \o f, M)
  BY <1>10, <1>11, <1>13, <1>16, <1>17, <1>18, <1>19, BuiltIs, BuildsSix
<1>25. Conclusion(in) = a \o b \o c \o d \o e \o f
  BY <1>1, <1>3, <1>4, <1>10, <1>13, <1>14, <1>16, <1>17, <1>18, <1>19 DEF Conclusion, For
<1> QED  BY <1>8, <1>24, <1>25

\* The report is new.
LEMMA DeliveryBuilds ==
    ASSUME NEW N \in SUBSET NodeRef, Id("recommended-action") \in N, Id("analysis-report") \notin N
    PROVE  Delivery \in Seq(Op) /\ Builds(N, Delivery, N \cup {Id("analysis-report")})
<1>1. PICK report \in NodeRef : report = Id("analysis-report") /\ report \notin N
  BY NodesDiffer DEF EngineNodes
<1>2. PICK M : M = N \cup {report}
  OBVIOUS
<1>3. M \in SUBSET NodeRef
  BY <1>2
<1>4. PICK a : a = Store("knowledge") /\ a \in Seq(Op) /\ Builds(N, a, N)
  BY BuiltFromDo, BuiltIs DEF Noting, Reporting, OpKinds
<1>5. PICK b : b = Emit("knowledge.candidate", Id("knowledge")) /\ b \in Seq(Op) /\ Builds(N, b, N)
  <2>1. Emit("knowledge.candidate", Id("knowledge")) \in BuiltFrom(N)
    BY BuiltFromDo, ToldNames, Named DEF Noting, Reporting
  <2> QED  BY <2>1, BuiltIs
<1>6. PICK c : c = Node(report) /\ c \in Seq(Op) /\ Builds(N, c, M)
  BY <1>1, <1>2, BuildsNode
<1>7. PICK W : W = BuiltFrom(M) /\ Closed(W) /\ Reporting(W)
  BY BuiltFromDo
<1>8. PICK d : d = Edge(EdgeId("action-report", 0), Id("recommended-action"), report) /\ d \in W
  BY <1>2, <1>3, <1>7, EdgeNamed, BuildsEdge
<1>9. PICK e : e = Emit("evidence.linked", Id("graph")) /\ e \in W
  BY <1>7, ToldNames, Named DEF Noting, Reporting
<1>10. PICK f : f = Emit("report.generated", Id("graph")) /\ f \in W
  BY <1>7, ToldNames, Named DEF Noting, Reporting
<1>15. a \o b \o c \o d \o e \o f \in Seq(Op) /\ Builds(N, a \o b \o c \o d \o e \o f, M)
  BY <1>4, <1>5, <1>6, <1>7, <1>8, <1>9, <1>10, BuiltIs, BuildsSix
<1>16. Delivery = a \o b \o c \o d \o e \o f
  BY <1>1, <1>4, <1>5, <1>6, <1>8, <1>9, <1>10 DEF Delivery
<1> QED  BY <1>1, <1>2, <1>15, <1>16

(* Before the first node there is nothing to be refused.                    *)
LEMMA FirstParts ==
    ASSUME NEW in, InputOK(in), ~in.malformed, ~Repeats(in), NEW W, W = BuiltFrom({})
    PROVE  If(in.cycle # <<>>, CycleRequest(in) \o CycleReport(in))
           \o PlanReport(in) \o PlanTools(in) \o Compute(in) \in W
<1>1. Closed(W) /\ Reporting(W) /\ Noting(W) /\ Invoking(W) /\ Planning(in, W)
  BY BuiltFromDo, ListingPlans DEF Reporting
<1>2. If(in.cycle # <<>>, CycleRequest(in) \o CycleReport(in)) \in W
  BY <1>1, CyclePart
<1>3. PlanReport(in) \in W /\ PlanTools(in) \in W
  BY <1>1, PlanReportPart, PlanToolsPart
<1>4. Compute(in) \in W
  <2>1. Tool(Id("profile")) \in W
    BY <1>1, Named DEF Invoking
  <2> QED  BY <1>1, <2>1, ComputePart
<1> QED  BY <1>1, <1>2, <1>3, <1>4 DEF Closed

\* The nodes that a script adds
AllNodes(in) ==
    WithHypotheses(in, Len(in.hypotheses))
    \cup {Id("analysis-conclusion"), Id("recommended-action"), Id("analysis-report")}

\* The script of unambiguous inputs builds its graph from none: EvidenceGraph and
\* update_node refuse nothing of it, and no assertion fails.
LEMMA ScriptBuilds ==
    ASSUME NEW in, InputOK(in), Unambiguous(in)
    PROVE  Builds({}, Script(in), AllNodes(in))
<1>1. PICK n \in Nat : n = Len(in.hypotheses)
  BY InputTypes
<1>2. PICK a : /\ a = If(in.cycle # <<>>, CycleRequest(in) \o CycleReport(in))
                      \o PlanReport(in) \o PlanTools(in) \o Compute(in)
               /\ a \in BuiltFrom({})
  BY FirstParts DEF Unambiguous
<1>3. a \in Seq(Op) /\ Builds({}, a, {})
  BY <1>2, BuiltIs
<1>4. PICK b : b = SourceGraph /\ b \in Seq(Op) /\ Builds({}, b, Base)
  BY SourceBuilds
<1>5. PICK c : /\ c = If(in.cycle # <<>>, CycleGraph(in))
               /\ c \in Seq(Op) /\ Builds(Base, c, WithCycle(in))
  BY CycleBuilt DEF Unambiguous
<1>6. PICK d : /\ d = Documents(in)
               /\ d \in Seq(Op) /\ Builds(WithCycle(in), d, WithDocuments(in))
  BY DocumentsBuild
<1>7. PICK e : /\ e = For(Claims(in), ClaimGraph)
               /\ e \in Seq(Op) /\ Builds(WithDocuments(in), e, WithClaims(in, Claims(in)))
  BY ClaimsBuild
<1>8. PICK f : /\ f = Reasoning(in) /\ f \in Seq(Op)
               /\ Builds(WithClaims(in, Claims(in)), f, WithClaims(in, Claims(in)))
  BY ReasoningBuilds DEF Unambiguous
<1>9. PICK g : /\ g = For(Len(in.hypotheses), LAMBDA i : HypothesisGraph(in.hypotheses[i], i))
               /\ g \in Seq(Op)
               /\ Builds(WithClaims(in, Claims(in)), g, WithHypotheses(in, Len(in.hypotheses)))
  BY HypothesesBuild
<1>10. PICK N : N = WithHypotheses(in, n)
  OBVIOUS
<1>11. PICK M : M = N \cup {Id("analysis-conclusion"), Id("recommended-action")}
  OBVIOUS
<1>12. PICK h : h = Conclusion(in) /\ M \in SUBSET NodeRef /\ h \in Seq(Op) /\ Builds(N, h, M)
  BY <1>1, <1>10, <1>11, ConclusionBuilds
<1>13. Id("analysis-report") \notin M
  <2>1. Id("analysis-report") \notin N
    BY <1>1, <1>10, LastNew
  <2> QED  BY <1>11, <2>1, NodesDiffer
<1>14. PICK L : L = M \cup {Id("analysis-report")}
  OBVIOUS
<1>15. PICK k : k = Delivery /\ k \in Seq(Op) /\ Builds(M, k, L)
  <2>1. Id("recommended-action") \in M
    BY <1>11
  <2> QED  BY <1>12, <1>13, <1>14, <2>1, DeliveryBuilds
<1>16. Builds({}, a \o b \o c \o d \o e \o f \o g \o h \o k, L)
  BY <1>1, <1>3, <1>4, <1>5, <1>6, <1>7, <1>8, <1>9, <1>10, <1>12, <1>15, BuildsNine
<1>17. Script(in) = a \o b \o c \o d \o e \o f \o g \o h \o k
  BY <1>2, <1>4, <1>5, <1>6, <1>7, <1>8, <1>9, <1>12, <1>15 DEF Script, For
<1>18. L = AllNodes(in)
  BY <1>1, <1>10, <1>11, <1>14 DEF AllNodes
<1> QED  BY <1>16, <1>17, <1>18

(****************************************************************************)
(* What a script counts: each round is completed once, and each conflict is *)
(* detected once, after its edge was added.  Both are numbered.             *)
(****************************************************************************)
Emitting(op, kind) == op.do = "emit" /\ op.kind = kind
Counted == {"round.completed", "conflict.detected"}
Mark(kind, m) == IF kind = "conflict.detected" THEN EdgeId("conflict", m) ELSE <<"cycle-round", m>>
Joined(ops, i) == \E j \in 1..(i - 1) : Emitting(ops[j], "edge.added") /\ ops[j].ref = ops[i].ref

(* Operations count with some of the numbers after a, up to b.              *)
Numbers(kind, a, ops, b) ==
    /\ a <= b
    /\ \A i \in DOMAIN ops : Emitting(ops[i], kind) =>
           /\ \E m \in (a + 1)..b : ops[i].ref = Mark(kind, m)
           /\ kind = "conflict.detected" => Joined(ops, i)
    /\ \A i, j \in DOMAIN ops :
           Emitting(ops[i], kind) /\ Emitting(ops[j], kind) /\ ops[i].ref = ops[j].ref => i = j
Numbered(kind) == {t \in Nat \X Seq(Op) \X Nat : Numbers(kind, t[1], t[2], t[3])}
Silent(kind) == {op \in Op : ~Emitting(op, kind)}

\* Different numbers are different marks.
LEMMA MarksDiffer ==
    ASSUME NEW kind, NEW m, NEW n
    PROVE  Mark(kind, m) = Mark(kind, n) <=> m = n
BY DEF Mark, EdgeId

\* The judgements on numbers are those of Numbers.
LEMMA NumberedAre ==
    ASSUME NEW kind, NEW a \in Nat, NEW ops \in Seq(Op), NEW b \in Nat
    PROVE  <<a, ops, b>> \in Numbered(kind) <=> Numbers(kind, a, ops, b)
BY DEF Numbered

\* Of two sequences the second one counts on.
LEMMA NumbersConcat ==
    ASSUME NEW kind, NEW a \in Nat, NEW b \in Nat, NEW c \in Nat,
           NEW x \in Seq(Op), NEW y \in Seq(Op), Numbers(kind, a, x, b), Numbers(kind, b, y, c)
    PROVE  x \o y \in Seq(Op) /\ Numbers(kind, a, x \o y, c)
<1> DEFINE z == x \o y
<1>1. /\ z \in Seq(Op) /\ DOMAIN z = 1..(Len(x) + Len(y))
      /\ Len(x) \in Nat /\ DOMAIN x = 1..Len(x) /\ Len(y) \in Nat /\ DOMAIN y = 1..Len(y)
      /\ \A i \in 1..Len(x) : z[i] = x[i]
      /\ \A i \in 1..Len(y) : z[Len(x) + i] = y[i]
  BY Concat
<1> HIDE DEF z
<1>2. a <= b /\ b <= c
  BY DEF Numbers
<1>3. ASSUME NEW i \in DOMAIN z
      PROVE  \/ i \in DOMAIN x /\ z[i] = x[i] /\ (Joined(x, i) => Joined(z, i))
             \/ \E l \in DOMAIN y : i = Len(x) + l /\ z[i] = y[l] /\ (Joined(y, l) => Joined(z, i))
  <2>1. CASE i <= Len(x)
    <3>1. i \in DOMAIN x /\ z[i] = x[i]
      BY <1>1, <2>1
    <3>2. \A j \in 1..(i - 1) : z[j] = x[j]
      BY <1>1, <2>1
    <3> QED  BY <3>1, <3>2 DEF Joined
  <2>2. CASE i > Len(x)
    <3>1. PICK l \in DOMAIN y : i = Len(x) + l
      <4>1. i - Len(x) \in DOMAIN y /\ i = Len(x) + (i - Len(x))
        BY <1>1, <2>2
      <4> QED  BY <4>1
    <3>2. z[i] = y[l]
      BY <1>1, <3>1
    <3>3. ASSUME Joined(y, l) PROVE Joined(z, i)
      <4>1. PICK j \in 1..(l - 1) : Emitting(y[j], "edge.added") /\ y[j].ref = y[l].ref
        BY <3>3 DEF Joined
      <4>2. Len(x) + j \in 1..(i - 1) /\ j \in 1..Len(y)
        BY <1>1, <3>1
      <4>3. z[Len(x) + j] = y[j]
        BY <1>1, <4>2
      <4> QED  BY <3>2, <4>1, <4>2, <4>3 DEF Joined
    <3> QED  BY <3>1, <3>2, <3>3
  <2> QED  BY <1>1, <2>1, <2>2
<1>4. \A i \in DOMAIN x : Emitting(x[i], kind) => \E m \in (a + 1)..b : x[i].ref = Mark(kind, m)
  BY DEF Numbers
<1>5. \A i \in DOMAIN y : Emitting(y[i], kind) => \E m \in (b + 1)..c : y[i].ref = Mark(kind, m)
  BY DEF Numbers
<1>6. ASSUME NEW i \in DOMAIN z, Emitting(z[i], kind)
      PROVE  /\ \E m \in (a + 1)..c : z[i].ref = Mark(kind, m)
             /\ kind = "conflict.detected" => Joined(z, i)
  <2>1. CASE i \in DOMAIN x /\ z[i] = x[i] /\ (Joined(x, i) => Joined(z, i))
    <3>1. PICK m \in (a + 1)..b : x[i].ref = Mark(kind, m)
      BY <1>4, <1>6, <2>1
    <3>2. m \in (a + 1)..c
      BY <1>2
    <3> QED  BY <1>6, <2>1, <3>1, <3>2 DEF Numbers
  <2>2. ASSUME NEW l \in DOMAIN y, i = Len(x) + l, z[i] = y[l], Joined(y, l) => Joined(z, i)
        PROVE  /\ \E m \in (a + 1)..c : z[i].ref = Mark(kind, m)
               /\ kind = "conflict.detected" => Joined(z, i)
    <3>1. PICK m \in (b + 1)..c : y[l].ref = Mark(kind, m)
      BY <1>5, <1>6, <2>2
    <3>2. m \in (a + 1)..c
      BY <1>2
    <3> QED  BY <1>6, <2>2, <3>1, <3>2 DEF Numbers
  <2> QED  BY <1>3, <2>1, <2>2
<1>7. ASSUME NEW i \in DOMAIN x, NEW j \in DOMAIN y, Emitting(x[i], kind), Emitting(y[j], kind)
      PROVE  x[i].ref # y[j].ref
  <2>1. PICK m \in (a + 1)..b : x[i].ref = Mark(kind, m)
    BY <1>4, <1>7
  <2>2. PICK n \in (b + 1)..c : y[j].ref = Mark(kind, n)
    BY <1>5, <1>7
  <2>3. m # n
    OBVIOUS
  <2> QED  BY <2>1, <2>2, <2>3, MarksDiffer
<1>8. ASSUME NEW i \in DOMAIN z, NEW j \in DOMAIN z, Emitting(z[i], kind), Emitting(z[j], kind),
             z[i].ref = z[j].ref
      PROVE  i = j
  <2>1. \/ i \in DOMAIN x /\ z[i] = x[i]
        \/ \E l \in DOMAIN y : i = Len(x) + l /\ z[i] = y[l]
    BY <1>3
  <2>2. \/ j \in DOMAIN x /\ z[j] = x[j]
        \/ \E l \in DOMAIN y : j = Len(x) + l /\ z[j] = y[l]
    BY <1>3
  <2>3. /\ \A k, l \in DOMAIN x : Emitting(x[k], kind) /\ Emitting(x[l], kind) /\ x[k].ref = x[l].ref => k = l
        /\ \A k, l \in DOMAIN y : Emitting(y[k], kind) /\ Emitting(y[l], kind) /\ y[k].ref = y[l].ref => k = l
    BY DEF Numbers
  <2> QED  BY <1>7, <1>8, <2>1, <2>2, <2>3
<1>9. Numbers(kind, a, z, c)
  BY <1>2, <1>6, <1>8 DEF Numbers
<1> QED  BY <1>1, <1>9 DEF z

\* What counts with few numbers counts with more.
LEMMA NumbersWiden ==
    ASSUME NEW kind, NEW a \in Nat, NEW b \in Nat, NEW ops, Numbers(kind, a, ops, b),
           NEW c \in Nat, b <= c, NEW d \in Nat, d <= a
    PROVE  Numbers(kind, d, ops, c)
BY DEF Numbers

\* Operations of which none is counted
LEMMA SilentNumbers ==
    ASSUME NEW kind, NEW a \in Nat, NEW ops \in Seq(Silent(kind))
    PROVE  ops \in Seq(Op) /\ Numbers(kind, a, ops, a)
<1>1. \A i \in DOMAIN ops : ops[i] \in Silent(kind)
  OBVIOUS
<1>2. \A i \in DOMAIN ops : ~Emitting(ops[i], kind)
  BY <1>1 DEF Silent
<1>3. ops \in Seq(Op)
  BY DEF Silent
<1> QED  BY <1>2, <1>3 DEF Numbers

(* A loop counts on with each round.                                        *)
LEMMA NumbersFor ==
    ASSUME NEW kind, NEW n \in Nat, NEW seqs \in [1..n -> Seq(Op)], NEW K \in [0..n -> Nat],
           \A i \in 1..n : Numbers(kind, K[i - 1], seqs[i], K[i])
    PROVE  FlattenSeq(seqs) \in Seq(Op) /\ Numbers(kind, K[0], FlattenSeq(seqs), K[n])
<1>1. PICK J : J = Numbered(kind)
  OBVIOUS
<1>2. \A s \in Nat : <<s, <<>>, s>> \in J
  <2>1. PICK e : e = <<>>
    OBVIOUS
  <2>2. e \in Seq(Silent(kind))
    BY <2>1
  <2>3. \A s \in Nat : e \in Seq(Op) /\ Numbers(kind, s, e, s)
    BY <2>2, SilentNumbers
  <2> QED  BY <1>1, <2>1, <2>3, NumberedAre
<1>3. \A s, t, u \in Nat, a, b \in Seq(Op) :
          <<s, a, t>> \in J /\ <<t, b, u>> \in J => <<s, a \o b, u>> \in J
  BY <1>1, NumberedAre, NumbersConcat
<1>4. \A i \in 1..n : <<K[i - 1], seqs[i], K[i]>> \in J
  <2> TAKE i \in 1..n
  <2>1. i - 1 \in 0..n /\ i \in 0..n
    OBVIOUS
  <2>2. K[i - 1] \in Nat /\ K[i] \in Nat
    BY <2>1
  <2> QED  BY <1>1, <2>2, NumberedAre
<1>5. <<K[0], FlattenSeq(seqs), K[n]>> \in J
  BY <1>2, <1>3, <1>4, FlattenJudged
<1> QED  BY <1>1, <1>5 DEF Numbered

\* What a script consists of, but for the events that are counted
LEMMA SilentDoes ==
    ASSUME NEW kind \in Counted, NEW W, W = Seq(Silent(kind))
    PROVE  /\ Closed(W) /\ Reporting(W) /\ Invoking(W) /\ Building(W)
           /\ \A k \in OpKinds \ {kind}, ref \in Ref : Emit(k, ref) \in W
           /\ kind = "conflict.detected" => Listing(W)
           /\ kind = "round.completed" => Disputing(W)
<1>1. Closed(W)
  <2>1. <<>> \in W /\ \A a, b \in W : a \o b \in W
    OBVIOUS
  <2>2. W \in SUBSET Seq(Op)
    BY DEF Silent
  <2> QED  BY <2>1, <2>2 DEF Closed
<1>2. \A op \in Silent(kind) : <<op>> \in W
  OBVIOUS
<1>3. \A k \in OpKinds \ {kind}, ref \in Ref : Emit(k, ref) \in W
  <2> TAKE k \in OpKinds \ {kind}, ref \in Ref
  <2>1. PICK op : op = [do |-> "emit", kind |-> k, ref |-> ref, ends |-> {}]
    OBVIOUS
  <2>2. op \in Op /\ op.kind = k
    BY <2>1, CallKinds, OpType
  <2>3. op \in Silent(kind)
    BY <2>2 DEF Silent, Emitting
  <2> QED  BY <1>2, <2>1, <2>3 DEF Emit
<1>4. \A do \in {"save", "poll", "invoke", "cycle", "store", "raise"}, k \in OpKinds, ref \in Ref, ends \in SUBSET Ref :
          <<[do |-> do, kind |-> k, ref |-> ref, ends |-> ends]>> \in W
  <2> TAKE do \in {"save", "poll", "invoke", "cycle", "store", "raise"}, k \in OpKinds, ref \in Ref, ends \in SUBSET Ref
  <2>1. PICK op : op = [do |-> do, kind |-> k, ref |-> ref, ends |-> ends]
    OBVIOUS
  <2>2. op \in Op /\ op.do # "emit"
    BY <2>1, OpType
  <2>3. op \in Silent(kind)
    BY <2>2 DEF Silent, Emitting
  <2> QED  BY <1>2, <2>1, <2>3
<1>5. {"tool.started", "artifact.created", "tool.result", "step.started", "step.completed", "node.added",
       "node.updated", "edge.added", "edge.activated", "step.added", "round.planned"} \subseteq OpKinds \ {kind}
  BY DEF OpKinds, Reports, Announcements, Answers, Counted
<1>6. \A k \in Told : k \in OpKinds \ {kind}
  BY PlainKinds DEF Told, Counted
<1>7. /\ "" \in OpKinds /\ "node" \in OpKinds /\ "edge" \in OpKinds /\ "update" \in OpKinds
      /\ None \in Ref /\ {} \in SUBSET Ref
  BY Refs DEF OpKinds
<1>8. Reporting(W)
  <2>1. Poll \in W /\ \A k \in OpKinds : Store(k) \in W
    BY <1>4, <1>7 DEF Poll, Store
  <2> QED  BY <1>3, <1>4, <1>6, <1>7, <2>1 DEF Noting, Reporting
<1>9. Invoking(W)
  <2> SUFFICES ASSUME NEW step \in Ref PROVE Tool(step) \in W
    BY DEF Invoking
  <2>1. /\ Emit("step.started", step) \in W /\ Emit("tool.started", step) \in W
        /\ Emit("tool.result", step) \in W /\ Emit("step.completed", step) \in W
    BY <1>3, <1>5
  <2>2. <<[do |-> "invoke", kind |-> "", ref |-> step, ends |-> {}]>> \in W
    BY <1>4, <1>7
  <2> QED  BY <1>1, <2>1, <2>2 DEF Closed, Tool
<1>10. Building(W)
  <2>1. Raise \in W
    BY <1>4, <1>7 DEF Raise
  <2>2. ASSUME NEW ref \in Ref PROVE Node(ref) \in W /\ Update(ref) \in W
    <3>1. SaveNode(ref) \in W
      BY <1>4, <1>7 DEF SaveNode
    <3>2. <<[do |-> "save", kind |-> "update", ref |-> ref, ends |-> {ref}]>> \in W
      <4>1. {ref} \in SUBSET Ref
        OBVIOUS
      <4> QED  BY <1>4, <1>7, <4>1
    <3>3. Emit("node.added", ref) \in W /\ Emit("node.updated", ref) \in W
      BY <1>3, <1>5
    <3> QED  BY <1>1, <3>1, <3>2, <3>3 DEF Closed, Node, Update
  <2>3. ASSUME NEW ref \in EdgeRef, NEW source \in Ref, NEW target \in Ref
        PROVE  Edge(ref, source, target) \in W
    <3>1. ref \in Ref /\ {source, target} \in SUBSET Ref
      BY DEF Ref
    <3>2. PICK ends \in SUBSET Ref : ends = {source, target}
      BY <3>1
    <3>3. SaveEdge(ref, source, target) \in W
      BY <1>4, <1>7, <3>1, <3>2 DEF SaveEdge
    <3>4. <<[do |-> "emit", kind |-> "edge.added", ref |-> ref, ends |-> {source, target}]>> \in W
      <4>1. PICK op : op = [do |-> "emit", kind |-> "edge.added", ref |-> ref, ends |-> ends]
        OBVIOUS
      <4>2. op \in Op /\ op.kind # kind
        BY <1>5, <3>1, <4>1, OpType
      <4>3. op \in Silent(kind)
        BY <4>2 DEF Silent, Emitting
      <4> QED  BY <1>2, <3>2, <4>1, <4>3
    <3>5. Emit("edge.activated", ref) \in W
      BY <1>3, <1>5, <3>1
    <3> QED  BY <1>1, <3>3, <3>4, <3>5 DEF Closed, Edge
  <2> QED  BY <2>1, <2>2, <2>3 DEF Building
<1>11. ASSUME kind = "conflict.detected" PROVE Listing(W)
  <2>1. "round.completed" \in OpKinds \ {kind}
    BY <1>11 DEF OpKinds, Reports
  <2>2. \A step, artifact \in Ref : Created(step, artifact) \in W
    BY <1>1, <1>3, <1>5 DEF Closed, Created
  <2> QED  BY <1>3, <1>5, <2>1, <2>2 DEF Listing
<1>12. ASSUME kind = "round.completed" PROVE Disputing(W)
  <2>1. "conflict.detected" \in OpKinds \ {kind}
    BY <1>12 DEF OpKinds, Reports
  <2> QED  BY <1>3, <2>1 DEF Disputing, Ref
<1> QED  BY <1>1, <1>3, <1>8, <1>9, <1>10, <1>11, <1>12

\* One event that is counted
LEMMA NumbersOne ==
    ASSUME NEW kind \in Counted, NEW m \in Nat \ {0}, NEW op \in Op, Emitting(op, kind), op.ref = Mark(kind, m),
           kind = "round.completed"
    PROVE  <<op>> \in Seq(Op) /\ Numbers(kind, m - 1, <<op>>, m)
<1>1. PICK s : s = <<op>> /\ s \in Seq(Op) /\ DOMAIN s = 1..1 /\ s[1] = op
  BY OneOp
<1>2. \A i \in DOMAIN s : i = 1
  BY <1>1
<1>3. m \in (m - 1 + 1)..m /\ m - 1 <= m
  OBVIOUS
<1> QED  BY <1>1, <1>2, <1>3 DEF Numbers

\* A round counts once,
LEMMA RoundNumbers ==
    ASSUME NEW in, InputOK(in), NEW i \in DOMAIN in.cycle, NEW kind, kind = "round.completed"
    PROVE  CycleRound(in, i) \in Seq(Op) /\ Numbers(kind, i - 1, CycleRound(in, i), i)
<1>1. in.cycle[i].call \in Names /\ i \in Nat \ {0} /\ i - 1 \in Nat /\ "cycle-round" \in Names
  BY InputTypes, NamesOK DEF EngineNames
<1>2. PICK step \in Ref : step = <<"cycle-round", i>>
  BY <1>1, Refs
<1>3. PICK W : W = Seq(Silent(kind)) /\ Closed(W)
               /\ \A k \in OpKinds \ {kind}, ref \in Ref : Emit(k, ref) \in W
  BY SilentDoes DEF Counted
<1>4. {"round.planned", "round.started", "tool.started", "artifact.created", "tool.result"} \subseteq OpKinds \ {kind}
  BY DEF OpKinds, Reports, Announcements, Answers
<1>5. Id(in.cycle[i].call) \in Ref
  BY <1>1, Refs
<1>6. PICK x \in W : x = Emit("round.planned", step) \o Emit("round.started", step)
          \o If(IsCall(in.cycle[i]), Emit("tool.started", step) \o Emit("artifact.created", Id(in.cycle[i].call))
                                     \o Emit("tool.result", step))
  BY <1>3, <1>4, <1>5 DEF Closed, If
<1>7. PICK op : op = [do |-> "emit", kind |-> kind, ref |-> step, ends |-> {}]
  OBVIOUS
<1>8. op \in Op /\ Emitting(op, kind) /\ op.ref = Mark(kind, i)
  <2>1. kind \in OpKinds /\ {} \in SUBSET Ref
    BY DEF OpKinds, Reports
  <2>2. op \in Op
    BY <1>7, <2>1, OpType
  <2> QED  BY <1>2, <1>7, <2>2 DEF Emitting, Mark
<1>9. PICK y : y = <<op>> /\ y \in Seq(Op) /\ Numbers(kind, i - 1, y, i)
  BY <1>1, <1>8, NumbersOne DEF Counted
<1>10. x \in Seq(Op) /\ Numbers(kind, i - 1, x, i - 1)
  BY <1>1, <1>3, <1>6, SilentNumbers
<1>11. x \o y \in Seq(Op) /\ Numbers(kind, i - 1, x \o y, i)
  BY <1>1, <1>9, <1>10, NumbersConcat
<1>12. CycleRound(in, i) = x \o y
  BY <1>2, <1>6, <1>7, <1>9 DEF CycleRound, Emit
<1> QED  BY <1>11, <1>12

\* What counts up to n
Upto(kind, n) == {ops \in Seq(Op) : Numbers(kind, 0, ops, n)}

\* Nothing more is counted by silent operations, before or after.
LEMMA UptoSilent ==
    ASSUME NEW kind, NEW n \in Nat, NEW W, W = Seq(Silent(kind)), NEW x \in W, NEW v \in Upto(kind, n)
    PROVE  x \o v \in Upto(kind, n) /\ v \o x \in Upto(kind, n)
<1>1. v \in Seq(Op) /\ Numbers(kind, 0, v, n)
  BY DEF Upto
<1>2. x \in Seq(Op) /\ Numbers(kind, 0, x, 0) /\ Numbers(kind, n, x, n)
  BY SilentNumbers
<1>3. x \o v \in Seq(Op) /\ Numbers(kind, 0, x \o v, n)
  BY <1>1, <1>2, NumbersConcat
<1>4. v \o x \in Seq(Op) /\ Numbers(kind, 0, v \o x, n)
  BY <1>1, <1>2, NumbersConcat
<1> QED  BY <1>3, <1>4 DEF Upto

\* and all the rounds of a cycle.
LEMMA CycleNumbers ==
    ASSUME NEW in, InputOK(in), NEW kind, kind = "round.completed"
    PROVE  If(in.cycle # <<>>, CycleRequest(in) \o CycleReport(in)) \in Upto(kind, Len(in.cycle))
<1>1. PICK n \in Nat : n = Len(in.cycle) /\ DOMAIN in.cycle = 1..n
  BY InputTypes
<1>2. PICK W : W = Seq(Silent(kind)) /\ Closed(W) /\ Reporting(W) /\ Building(W)
  BY SilentDoes DEF Counted
<1>3. PICK seqs : seqs = [i \in 1..n |-> CycleRound(in, i)]
  OBVIOUS
<1>4. PICK K : K = [i \in 0..n |-> i]
  OBVIOUS
<1>5. K \in [0..n -> Nat] /\ K[0] = 0 /\ K[n] = n
  BY <1>4
<1>6. seqs \in [1..n -> Seq(Op)] /\ \A i \in 1..n : Numbers(kind, K[i - 1], seqs[i], K[i])
  <2>1. \A i \in 1..n : i - 1 \in 0..n /\ i \in 0..n
    OBVIOUS
  <2>2. \A i \in 1..n : CycleRound(in, i) \in Seq(Op) /\ Numbers(kind, i - 1, CycleRound(in, i), i)
    BY <1>1, RoundNumbers
  <2> QED  BY <1>3, <1>4, <2>1, <2>2
<1>7. FlattenSeq(seqs) \in Seq(Op) /\ Numbers(kind, K[0], FlattenSeq(seqs), K[n])
  BY <1>5, <1>6, NumbersFor
<1>8. PICK rounds \in Upto(kind, n) : rounds = For(Len(in.cycle), LAMBDA i : CycleRound(in, i))
  BY <1>1, <1>3, <1>5, <1>7 DEF For, Upto
<1>9. PICK cycle \in Ref : cycle = Id("cycle")
  BY Named
<1>10. PICK done \in W : done = Emit("cycle.completed", Id("cycle"))
  BY <1>2, <1>9, ToldNames DEF Reporting, Noting
<1>11. CycleRequest(in) \in W
  <2>1. Emit("cycle.started", cycle) \in W
    BY <1>2, ToldNames DEF Reporting, Noting
  <2>2. /\ <<[do |-> "cycle", kind |-> "", ref |-> cycle, ends |-> {}]>> \in W
        /\ If(Repeats(in), Raise) \in W
        /\ Store("analysis_cycle") \in W /\ Store("artifact_dashboard") \in W
    BY <1>2 DEF Closed, Reporting, Noting, Building, OpKinds, If
  <2> QED  BY <1>2, <1>9, <2>1, <2>2 DEF Closed, CycleRequest
<1>12. PICK request \in W : request = CycleRequest(in)
  BY <1>11
<1>13. PICK report \in Upto(kind, n) : report = CycleReport(in)
  BY <1>2, <1>8, <1>10, UptoSilent DEF CycleReport
<1>14. request \o report \in Upto(kind, n)
  BY <1>2, UptoSilent
<1>15. <<>> \in Upto(kind, n)
  <2>1. PICK e : e = <<>>
    OBVIOUS
  <2>2. e \in Seq(Silent(kind))
    BY <2>1
  <2>3. e \in Seq(Op) /\ Numbers(kind, 0, e, 0)
    BY <2>2, SilentNumbers
  <2>4. Numbers(kind, 0, e, n)
    BY <2>3, NumbersWiden
  <2> QED  BY <2>1, <2>3, <2>4 DEF Upto
<1> QED  BY <1>1, <1>12, <1>13, <1>14, <1>15 DEF If

\* What may be done by all parts of a script but its cycle and its reasoning
Working(in, W) ==
    /\ Closed(W) /\ Reporting(W) /\ Invoking(W) /\ Building(W)
    /\ \A i \in DOMAIN in.steps : Emit("step.added", Id(in.steps[i].id)) \in W

\* Those parts
LEMMA OtherParts ==
    ASSUME NEW in, InputOK(in), NEW W, Working(in, W)
    PROVE  /\ PlanReport(in) \in W /\ PlanTools(in) \in W /\ Compute(in) \in W /\ Documents(in) \in W
           /\ SourceGraph \in W /\ If(in.cycle # <<>>, CycleGraph(in)) \in W
           /\ For(Claims(in), ClaimGraph) \in W
           /\ For(Len(in.hypotheses), LAMBDA i : HypothesisGraph(in.hypotheses[i], i)) \in W
           /\ Conclusion(in) \in W /\ Delivery \in W
<1>1. Closed(W) /\ Reporting(W) /\ Noting(W) /\ Invoking(W) /\ Building(W)
  BY DEF Working, Reporting
<1>2. /\ Tool(Id("profile")) \in W /\ Tool(Id("extract")) \in W /\ Tool(Id("hypotheses")) \in W
      /\ Node(Id("document-source")) \in W
  BY <1>1, Named DEF Invoking, Building
<1>3. PlanReport(in) \in W
  <2>1. PICK n \in Nat : n = Len(in.steps) /\ DOMAIN in.steps = 1..n
    BY InputTypes
  <2>2. \A i \in 1..n : Emit("step.added", Id(in.steps[i].id)) \in W
    BY <2>1 DEF Working
  <2>3. For(Len(in.steps), LAMBDA i : Emit("step.added", Id(in.steps[i].id))) \in W
    BY <1>1, <2>1, <2>2, ForIn DEF For
  <2>4. Emit("plan.created", Id("plan")) \in W
    BY <1>1, ToldNames, Named DEF Noting
  <2>5. If(in.malformed, Raise) \in W
    BY <1>1 DEF Building, Closed, If
  <2> QED  BY <1>1, <2>3, <2>4, <2>5 DEF Closed, PlanReport
<1>4. PlanTools(in) \in W /\ Compute(in) \in W /\ Documents(in) \in W
  BY <1>1, <1>2, PlanToolsPart, ComputePart, DocumentsPart
<1>5. /\ SourceGraph \in W /\ If(in.cycle # <<>>, CycleGraph(in)) \in W
      /\ For(Claims(in), ClaimGraph) \in W
      /\ For(Len(in.hypotheses), LAMBDA i : HypothesisGraph(in.hypotheses[i], i)) \in W
      /\ Conclusion(in) \in W /\ Delivery \in W
  BY <1>1, <1>2, LaterParts
<1> QED  BY <1>3, <1>4, <1>5

\* Operations that are silent may be done, and count nothing more.
LEMMA SilentWorks ==
    ASSUME NEW in, InputOK(in), NEW kind \in Counted, NEW n \in Nat
    PROVE  \E W : /\ Working(in, W)
                  /\ \A v \in Upto(kind, n), x \in W : v \o x \in Upto(kind, n) /\ x \o v \in Upto(kind, n)
                  /\ kind = "conflict.detected" => Listing(W)
                  /\ kind = "round.completed" => Disputing(W)
<1>1. PICK W : W = Seq(Silent(kind)) /\ Closed(W) /\ Reporting(W) /\ Invoking(W) /\ Building(W)
               /\ (\A k \in OpKinds \ {kind}, ref \in Ref : Emit(k, ref) \in W)
               /\ (kind = "conflict.detected" => Listing(W)) /\ (kind = "round.completed" => Disputing(W))
  BY SilentDoes
<1>2. "step.added" \in OpKinds \ {kind}
  BY DEF OpKinds, Reports, Counted
<1>3. \A i \in DOMAIN in.steps : Id(in.steps[i].id) \in Ref
  BY InputTypes, Refs
<1>4. Working(in, W)
  BY <1>1, <1>2, <1>3 DEF Working
<1>5. \A v \in Upto(kind, n), x \in W : v \o x \in Upto(kind, n) /\ x \o v \in Upto(kind, n)
  BY <1>1, UptoSilent
<1> QED  BY <1>1, <1>4, <1>5

\* A script completes each of its rounds once.
LEMMA ScriptRounds ==
    ASSUME NEW in, InputOK(in), NEW kind, kind = "round.completed"
    PROVE  Script(in) \in Upto(kind, Len(in.cycle))
<1>1. PICK n \in Nat : n = Len(in.cycle)
  BY InputTypes
<1>2. kind \in Counted
  BY DEF Counted
<1>3. PICK V : V = Upto(kind, n)
  OBVIOUS
<1>4. PICK W : Working(in, W) /\ Disputing(W) /\ \A v \in V, x \in W : v \o x \in V
  BY <1>2, <1>3, SilentWorks
<1>5. If(in.cycle # <<>>, CycleRequest(in) \o CycleReport(in)) \in V
  BY <1>1, <1>3, CycleNumbers
<1>6. Reasoning(in) \in W
  <2>1. Closed(W) /\ Reporting(W) /\ Building(W) /\ Tool(Id("align")) \in W
    BY <1>4, Named DEF Invoking, Working
  <2> QED  BY <1>4, <2>1, DisputesPart
<1>7. Working(in, W)
  BY <1>4
<1>8. /\ PlanReport(in) \in W /\ PlanTools(in) \in W /\ Compute(in) \in W /\ Documents(in) \in W
      /\ SourceGraph \in W /\ If(in.cycle # <<>>, CycleGraph(in)) \in W
      /\ For(Claims(in), ClaimGraph) \in W
      /\ For(Len(in.hypotheses), LAMBDA i : HypothesisGraph(in.hypotheses[i], i)) \in W
      /\ Conclusion(in) \in W /\ Delivery \in W
  BY <1>7, OtherParts
<1> QED  BY <1>1, <1>3, <1>4, <1>5, <1>6, <1>8 DEF Script

\* A conflict counts once, its edge being added before.
LEMMA ConflictNumbers ==
    ASSUME NEW in, InputOK(in), NEW i \in 1..Claims(in), NEW j \in 1..in.claims,
           NEW m, m = in.claims * i + j, NEW kind, kind = "conflict.detected"
    PROVE  ConflictGraph(in, i, j) \in Seq(Op) /\ Numbers(kind, m - 1, ConflictGraph(in, i, j), m)
<1>0. in.claims \in Nat /\ Claims(in) \in Nat /\ i \in Nat /\ j \in Nat
  BY InputTypes
<1>1. m \in Nat /\ m - 1 \in Nat /\ m - 1 <= m
  <2>1. in.claims * i \in Nat
    BY <1>0
  <2> QED  BY <1>0, <2>1
<1>2. PICK edge \in EdgeRef : edge = EdgeId("conflict", m)
  BY <1>1, EdgeNamed
<1>3. PICK W : W = Seq(Silent(kind)) /\ Closed(W) /\ Building(W)
  BY SilentDoes DEF Counted
<1>4. CASE j > Claims(in)
  <2>1. ConflictGraph(in, i, j) = Raise
    BY <1>4 DEF ConflictGraph
  <2>2. Raise \in W
    BY <1>3 DEF Building
  <2>3. Raise \in Seq(Op) /\ Numbers(kind, m - 1, Raise, m - 1)
    BY <1>1, <1>3, <2>2, SilentNumbers
  <2>4. Numbers(kind, m - 1, Raise, m)
    BY <1>1, <2>3, NumbersWiden
  <2> QED  BY <2>1, <2>3, <2>4
<1>5. CASE j <= Claims(in)
  <2>1. PICK source \in Ref, target \in Ref : source = <<"claim", i>> /\ target = <<"claim", j>>
    BY <1>0, Named
  <2>2. PICK a : a = Edge(edge, source, target)
    OBVIOUS
  <2>3. a \in W
    BY <1>3, <2>2 DEF Building
  <2>4. PICK x : x = <<[do |-> "emit", kind |-> "edge.added", ref |-> edge, ends |-> {source, target}]>>
    OBVIOUS
  <2>5. a \in Seq(Op) /\ Numbers(kind, m - 1, a, m - 1)
    BY <1>1, <1>3, <2>3, SilentNumbers
  <2>6. PICK l \in DOMAIN a : Emitting(a[l], "edge.added") /\ a[l].ref = edge
    <3>1. PICK s1, s2, s3 : /\ s1 = [do |-> "save", kind |-> "edge", ref |-> edge, ends |-> {source, target}]
                            /\ s2 = [do |-> "emit", kind |-> "edge.added", ref |-> edge, ends |-> {source, target}]
                            /\ s3 = [do |-> "emit", kind |-> "edge.activated", ref |-> edge, ends |-> {}]
      OBVIOUS
    <3>2. edge \in Ref /\ {source, target} \in SUBSET Ref /\ {} \in SUBSET Ref
      BY DEF Ref
    <3>3. {"edge", "edge.added", "edge.activated"} \subseteq OpKinds
      BY DEF OpKinds, Reports, Announcements
    <3>4. s1 \in Op /\ s2 \in Op /\ s3 \in Op
      BY <3>1, <3>2, <3>3, OpType
    <3>5. a = <<s1, s2, s3>>
      BY <2>2, <3>1, <3>4, ThreeOps DEF Edge, SaveEdge, Emit
    <3>6. 2 \in DOMAIN a /\ a[2] = s2
      BY <3>5
    <3> QED  BY <3>1, <3>6 DEF Emitting
  <2>7. PICK op : op = [do |-> "emit", kind |-> kind, ref |-> edge, ends |-> {}]
    OBVIOUS
  <2>8. op \in Op /\ Emitting(op, kind) /\ op.ref = Mark(kind, m)
    <3>1. kind \in OpKinds /\ {} \in SUBSET Ref /\ edge \in Ref
      BY DEF OpKinds, Reports, Ref
    <3>2. op \in Op
      BY <2>7, <3>1, OpType
    <3> QED  BY <1>2, <2>7, <3>2 DEF Emitting, Mark
  <2>9. PICK y : y = <<op>> /\ y \in Seq(Op) /\ Len(y) = 1 /\ DOMAIN y = 1..1 /\ y[1] = op
    BY <2>8, OneOp
  <2>10. PICK z : z = a \o y
    OBVIOUS
  <2>11. /\ z \in Seq(Op) /\ DOMAIN z = 1..(Len(a) + 1) /\ Len(a) \in Nat /\ DOMAIN a = 1..Len(a)
         /\ (\A k \in 1..Len(a) : z[k] = a[k]) /\ (\A k \in 1..1 : z[Len(a) + k] = y[k])
    BY <2>5, <2>9, <2>10, Concat
  <2>12. z[Len(a) + 1] = op
    BY <2>9, <2>11
  <2>13. ASSUME NEW k \in DOMAIN z, Emitting(z[k], kind)
         PROVE  k = Len(a) + 1
    <3>1. \A n \in DOMAIN a : ~Emitting(a[n], kind)
      <4>1. \A n \in DOMAIN a : a[n] \in Silent(kind)
        BY <1>3, <2>3
      <4> QED  BY <4>1 DEF Silent
    <3>2. k \notin DOMAIN a
      BY <2>11, <2>13, <3>1
    <3> QED  BY <2>11, <3>2
  <2>14. Joined(z, Len(a) + 1)
    <3>1. l \in 1..(Len(a) + 1 - 1) /\ z[l] = a[l]
      BY <2>11
    <3> QED  BY <2>6, <2>8, <2>12, <3>1, <1>2 DEF Joined, Mark
  <2>15. m \in (m - 1 + 1)..m
    BY <1>1
  <2>16. Numbers(kind, m - 1, z, m)
    BY <1>1, <2>8, <2>12, <2>13, <2>14, <2>15 DEF Numbers
  <2>17. ConflictGraph(in, i, j) = z
    BY <1>0, <1>2, <1>5, <2>1, <2>2, <2>7, <2>9, <2>10 DEF ConflictGraph, Emit
  <2> QED  BY <2>11, <2>16, <2>17
<1> QED  BY <1>0, <1>4, <1>5

\* No operations at all
LEMMA NothingNumbers ==
    ASSUME NEW kind, NEW a \in Nat, NEW b \in Nat, a <= b
    PROVE  <<>> \in Seq(Op) /\ Numbers(kind, a, <<>>, b)
<1>1. PICK e : e = <<>>
  OBVIOUS
<1>2. e \in Seq(Silent(kind))
  BY <1>1
<1>3. e \in Seq(Op) /\ Numbers(kind, a, e, a)
  BY <1>2, SilentNumbers
<1>4. Numbers(kind, a, e, b)
  BY <1>3, NumbersWiden
<1> QED  BY <1>1, <1>3, <1>4

ClaimConflicts(in, i) == For(in.claims, LAMBDA j : If(<<i, j>> \in in.conflicts, ConflictGraph(in, i, j)))

\* A claim's conflicts, the pair of the claims with this one and a later one
\* being its number,
LEMMA ClaimNumbers ==
    ASSUME NEW in, InputOK(in), NEW i \in 1..Claims(in), NEW kind, kind = "conflict.detected",
           NEW a \in Nat, a = in.claims * i, NEW ops, ops = ClaimConflicts(in, i)
    PROVE  ops \in Seq(Op) /\ Numbers(kind, a, ops, a + in.claims)
<1>1. PICK n \in Nat : n = in.claims
  BY InputTypes
<1>2. PICK seqs : seqs = [j \in 1..n |-> If(<<i, j>> \in in.conflicts, ConflictGraph(in, i, j))]
  OBVIOUS
<1>3. PICK K : K = [j \in 0..n |-> a + j]
  OBVIOUS
<1>4. K \in [0..n -> Nat] /\ K[0] = a /\ K[n] = a + n
  BY <1>3
<1>5. ASSUME NEW j \in 1..n
      PROVE  seqs[j] \in Seq(Op) /\ Numbers(kind, K[j - 1], seqs[j], K[j])
  <2>1. j - 1 \in 0..n /\ j \in 0..n /\ a + j \in Nat /\ a + j - 1 \in Nat /\ a + j - 1 <= a + j
        /\ a + (j - 1) = a + j - 1
    OBVIOUS
  <2>2. K[j - 1] = a + j - 1 /\ K[j] = a + j
    BY <1>3, <2>1
  <2>3. CASE <<i, j>> \in in.conflicts
    <3>1. seqs[j] = ConflictGraph(in, i, j)
      BY <1>2, <2>3 DEF If
    <3>2. ConflictGraph(in, i, j) \in Seq(Op) /\ Numbers(kind, a + j - 1, ConflictGraph(in, i, j), a + j)
      BY <1>1, ConflictNumbers
    <3> QED  BY <2>2, <3>1, <3>2
  <2>4. CASE <<i, j>> \notin in.conflicts
    <3>1. seqs[j] = <<>>
      BY <1>2, <2>4 DEF If
    <3> QED  BY <2>1, <2>2, <3>1, NothingNumbers
  <2> QED  BY <2>3, <2>4
<1>6. seqs \in [1..n -> Seq(Op)]
  BY <1>2, <1>5
<1>7. FlattenSeq(seqs) \in Seq(Op) /\ Numbers(kind, K[0], FlattenSeq(seqs), K[n])
  BY <1>4, <1>5, <1>6, NumbersFor
<1>8. ops = FlattenSeq(seqs)
  BY <1>1, <1>2 DEF ClaimConflicts, For
<1> QED  BY <1>1, <1>4, <1>7, <1>8

\* all conflicts,
LEMMA ConflictsNumber ==
    ASSUME NEW in, InputOK(in), NEW kind, kind = "conflict.detected"
    PROVE  Conflicts(in) \in Upto(kind, in.claims * (Claims(in) + 1))
<1>1. PICK c \in Nat, n \in Nat : c = in.claims /\ n = Claims(in)
  BY InputTypes
<1>2. PICK seqs : seqs = [i \in 1..n |-> ClaimConflicts(in, i)]
  OBVIOUS
<1>3. PICK K : K = [i \in 0..n |-> c * (i + 1)]
  OBVIOUS
<1>4. K \in [0..n -> Nat] /\ K[0] \in Nat /\ K[n] = c * (n + 1)
  <2>1. \A i \in 0..n : c * (i + 1) \in Nat
    OBVIOUS
  <2> QED  BY <1>3, <2>1
<1>5. ASSUME NEW i \in 1..n
      PROVE  seqs[i] \in Seq(Op) /\ Numbers(kind, K[i - 1], seqs[i], K[i])
  <2>1. i - 1 \in 0..n /\ i \in 0..n /\ i - 1 + 1 = i
    OBVIOUS
  <2>2. PICK a \in Nat : a = c * i
    OBVIOUS
  <2>3. c * (i + 1) = c * i + c
    OBVIOUS
  <2>4. K[i - 1] = a /\ K[i] = a + c
    BY <1>3, <2>1, <2>2, <2>3
  <2>5. PICK ops : ops = ClaimConflicts(in, i)
    OBVIOUS
  <2>6. seqs[i] = ops
    BY <1>2, <2>5
  <2>7. ops \in Seq(Op) /\ Numbers(kind, a, ops, a + c)
    <3>1. i \in 1..Claims(in) /\ a = in.claims * i
      BY <1>1, <2>2
    <3>2. ops \in Seq(Op) /\ Numbers(kind, a, ops, a + in.claims)
      BY <2>2, <2>5, <3>1, ClaimNumbers
    <3> QED  BY <1>1, <3>2
  <2> QED  BY <2>4, <2>6, <2>7
<1>6. seqs \in [1..n -> Seq(Op)]
  BY <1>2, <1>5
<1>7. FlattenSeq(seqs) \in Seq(Op) /\ Numbers(kind, K[0], FlattenSeq(seqs), K[n])
  BY <1>4, <1>5, <1>6, NumbersFor
<1>8. Numbers(kind, 0, FlattenSeq(seqs), K[n])
  <2>1. K[n] \in Nat
    BY <1>4
  <2> QED  BY <1>4, <1>7, <2>1, NumbersWiden
<1>9. Conflicts(in) = FlattenSeq(seqs)
  BY <1>1, <1>2 DEF Conflicts, ClaimConflicts, For
<1> QED  BY <1>1, <1>4, <1>7, <1>8, <1>9 DEF Upto

\* and a script detects each conflict once.
LEMMA ScriptConflicts ==
    ASSUME NEW in, InputOK(in), NEW kind, kind = "conflict.detected"
    PROVE  Script(in) \in Upto(kind, in.claims * (Claims(in) + 1))
<1>1. PICK n \in Nat : n = in.claims * (Claims(in) + 1)
  <2>1. in.claims \in Nat /\ Claims(in) \in Nat
    BY InputTypes
  <2>2. in.claims * (Claims(in) + 1) \in Nat
    BY <2>1
  <2> QED  BY <2>2
<1>2. kind \in Counted
  BY DEF Counted
<1>3. PICK V : V = Upto(kind, n)
  OBVIOUS
<1>4. PICK W : Working(in, W) /\ Listing(W) /\ \A v \in V, x \in W : v \o x \in V /\ x \o v \in V
  BY <1>2, <1>3, SilentWorks
<1>5. Closed(W) /\ Reporting(W) /\ Noting(W) /\ Tool(Id("align")) \in W /\ Raise \in W /\ Planning(in, W)
  BY <1>4, Named, ListingPlans DEF Invoking, Working, Reporting, Building
<1>6. If(in.cycle # <<>>, CycleRequest(in) \o CycleReport(in)) \in W
  BY <1>5, CyclePart
<1>7. PICK c \in V : c = Conflicts(in)
  BY <1>1, <1>3, ConflictsNumber
<1>8. PICK r \in V : r = Reasoning(in)
  <2>1. PICK a \in W : a = If(in.documents /\ in.runner = "demo", Tool(Id("align")))
    BY <1>5 DEF Closed, If
  <2>2. PICK b \in W : b = If(in.documents /\ ~SeenConflict(in), Emit("plan.revised", Id("plan")))
    BY <1>5, RevisedPart
  <2>3. a \o c \in V
    BY <1>4
  <2>4. a \o c \o b \in V
    BY <1>4, <2>3
  <2>5. Reasoning(in) = a \o c \o b
    BY <1>7, <2>1, <2>2 DEF Reasoning, Conflicts
  <2> QED  BY <2>4, <2>5
<1>9. Working(in, W)
  BY <1>4
<1>10. /\ PlanReport(in) \in W /\ PlanTools(in) \in W /\ Compute(in) \in W /\ Documents(in) \in W
       /\ SourceGraph \in W /\ If(in.cycle # <<>>, CycleGraph(in)) \in W
       /\ For(Claims(in), ClaimGraph) \in W
       /\ For(Len(in.hypotheses), LAMBDA i : HypothesisGraph(in.hypotheses[i], i)) \in W
       /\ Conclusion(in) \in W /\ Delivery \in W
  BY <1>9, OtherParts
<1>11. PICK x : x = If(in.cycle # <<>>, CycleRequest(in) \o CycleReport(in))
                    \o PlanReport(in) \o PlanTools(in) \o Compute(in)
                    \o SourceGraph \o If(in.cycle # <<>>, CycleGraph(in))
                    \o Documents(in) \o For(Claims(in), ClaimGraph)
                /\ x \in W
  BY <1>5, <1>6, <1>10 DEF Closed
<1>12. x \o r \in V
  BY <1>4, <1>11
<1>13. x \o r \o For(Len(in.hypotheses), LAMBDA i : HypothesisGraph(in.hypotheses[i], i))
       \o Conclusion(in) \o Delivery \in V
  BY <1>4, <1>10, <1>12
<1> QED  BY <1>1, <1>3, <1>8, <1>11, <1>13 DEF Script

(****************************************************************************)
(* How a script begins: it reports all the rounds, their artifacts and the  *)
(* steps of its plan before a run can stop, for want of a poll or a tool.   *)
(****************************************************************************)
Has(ops, kind, ref) == \E i \in DOMAIN ops : Emitting(ops[i], kind) /\ ops[i].ref = ref

\* What one of two sequences has,
LEMMA HasConcat ==
    ASSUME NEW a \in Seq(Op), NEW b \in Seq(Op), NEW kind, NEW ref, Has(a, kind, ref) \/ Has(b, kind, ref)
    PROVE  Has(a \o b, kind, ref)
<1>1. PICK z : z = a \o b
  OBVIOUS
<1>2. /\ DOMAIN z = 1..(Len(a) + Len(b))
      /\ Len(a) \in Nat /\ DOMAIN a = 1..Len(a) /\ Len(b) \in Nat /\ DOMAIN b = 1..Len(b)
      /\ \A i \in 1..Len(a) : z[i] = a[i]
      /\ \A i \in 1..Len(b) : z[Len(a) + i] = b[i]
  BY <1>1, Concat
<1>3. CASE Has(a, kind, ref)
  <2>1. PICK i \in DOMAIN a : Emitting(a[i], kind) /\ a[i].ref = ref
    BY <1>3 DEF Has
  <2>2. i \in DOMAIN z /\ z[i] = a[i]
    BY <1>2
  <2> QED  BY <1>1, <2>1, <2>2 DEF Has
<1>4. CASE Has(b, kind, ref)
  <2>1. PICK i \in DOMAIN b : Emitting(b[i], kind) /\ b[i].ref = ref
    BY <1>4 DEF Has
  <2>2. Len(a) + i \in DOMAIN z /\ z[Len(a) + i] = b[i]
    BY <1>2
  <2> QED  BY <1>1, <2>1, <2>2 DEF Has
<1> QED  BY <1>3, <1>4

\* or one round of a loop, is there.
LEMMA HasFor ==
    ASSUME NEW n \in Nat, NEW seqs \in [1..n -> Seq(Op)], NEW i \in 1..n, NEW kind, NEW ref,
           Has(seqs[i], kind, ref)
    PROVE  Has(FlattenSeq(seqs), kind, ref)
<1>1. PICK J : J = {t \in {0, 1} \X Seq(Op) \X {0, 1} : t[3] = 1 => t[1] = 1 \/ Has(t[2], kind, ref)}
  OBVIOUS
<1>2. \A s, t \in {0, 1}, a \in Seq(Op) : <<s, a, t>> \in J <=> (t = 1 => s = 1 \/ Has(a, kind, ref))
  BY <1>1
<1>3. \A s \in {0, 1} : <<s, <<>>, s>> \in J
  <2>1. <<>> \in Seq(Op)
    OBVIOUS
  <2> QED  BY <1>2, <2>1
<1>4. \A s, t, u \in {0, 1}, a, b \in Seq(Op) :
          <<s, a, t>> \in J /\ <<t, b, u>> \in J => <<s, a \o b, u>> \in J
  <2> TAKE s, t, u \in {0, 1}, a, b \in Seq(Op)
  <2>1. a \o b \in Seq(Op)
    OBVIOUS
  <2> QED  BY <1>2, <2>1, HasConcat
<1>5. PICK K : K = [j \in 0..n |-> IF j < i THEN 0 ELSE 1]
  OBVIOUS
<1>6. K \in [0..n -> {0, 1}] /\ K[0] = 0 /\ K[n] = 1
  BY <1>5
<1>7. ASSUME NEW j \in 1..n PROVE <<K[j - 1], seqs[j], K[j]>> \in J
  <2>1. j - 1 \in 0..n /\ j \in 0..n
    OBVIOUS
  <2>2. K[j - 1] \in {0, 1} /\ K[j] \in {0, 1} /\ (K[j] = 1 => K[j - 1] = 1 \/ j = i)
    BY <1>5, <2>1
  <2> QED  BY <1>2, <2>2
<1>8. <<K[0], FlattenSeq(seqs), K[n]>> \in J
  BY <1>3, <1>4, <1>6, <1>7, FlattenJudged
<1>9. <<0, FlattenSeq(seqs), 1>> \in J
  BY <1>6, <1>8
<1> QED  BY <1>1, <1>9

Going == {op \in Op : op.do \notin {"poll", "invoke"}}

\* What may be done without a poll and a tool
LEMMA GoingDoes ==
    ASSUME NEW W, W = Seq(Going)
    PROVE  /\ Closed(W) /\ Noting(W) /\ Listing(W) /\ Raise \in W
           /\ \A kind \in OpKinds, ref \in Ref : Emit(kind, ref) \in W
<1>1. Closed(W)
  <2>1. <<>> \in W /\ \A a, b \in W : a \o b \in W
    OBVIOUS
  <2>2. W \in SUBSET Seq(Op)
    BY DEF Going
  <2> QED  BY <2>1, <2>2 DEF Closed
<1>2. \A op \in Going : <<op>> \in W
  OBVIOUS
<1>3. \A do \in {"emit", "cycle", "store", "raise"}, kind \in OpKinds, ref \in Ref :
          <<[do |-> do, kind |-> kind, ref |-> ref, ends |-> {}]>> \in W
  <2> TAKE do \in {"emit", "cycle", "store", "raise"}, kind \in OpKinds, ref \in Ref
  <2>1. PICK op : op = [do |-> do, kind |-> kind, ref |-> ref, ends |-> {}]
    OBVIOUS
  <2>2. op \in Op /\ op.do \notin {"poll", "invoke"}
    BY <2>1, CallKinds, OpType
  <2>3. op \in Going
    BY <2>2 DEF Going
  <2> QED  BY <1>2, <2>1, <2>3
<1>4. \A kind \in OpKinds, ref \in Ref : Emit(kind, ref) \in W
  BY <1>3 DEF Emit
<1>5. {"tool.started", "artifact.created", "tool.result", "step.added", "round.planned",
       "round.completed", ""} \subseteq OpKinds
  BY DEF OpKinds, Reports, Announcements, Answers
<1>6. \A kind \in Told : kind \in OpKinds
  BY PlainKinds DEF Told
<1>7. /\ \A kind \in OpKinds : Store(kind) \in W
      /\ \A ref \in Ref : <<[do |-> "cycle", kind |-> "", ref |-> ref, ends |-> {}]>> \in W
      /\ Raise \in W
  BY <1>3, <1>5, Refs DEF Raise, Store
<1>8. Noting(W)
  BY <1>4, <1>6, <1>7 DEF Noting
<1>9. Listing(W)
  <2>1. \A step, artifact \in Ref : Created(step, artifact) \in W
    BY <1>1, <1>4, <1>5 DEF Closed, Created
  <2> QED  BY <1>4, <1>5, <2>1 DEF Listing
<1> QED  BY <1>1, <1>4, <1>7, <1>8, <1>9

\* The operations that a script begins with
Beginning(in) == If(in.cycle # <<>>, CycleRequest(in) \o CycleReport(in)) \o PlanReport(in)

\* A round tells of its artifact and its end,
LEMMA RoundHas ==
    ASSUME NEW in, InputOK(in), NEW i \in DOMAIN in.cycle
    PROVE  /\ CycleRound(in, i) \in Seq(Op)
           /\ Has(CycleRound(in, i), "round.completed", <<"cycle-round", i>>)
           /\ IsCall(in.cycle[i]) => Has(CycleRound(in, i), "artifact.created", Id(in.cycle[i].call))
<1>1. in.cycle[i].call \in Names /\ i \in Nat /\ "cycle-round" \in Names
  BY InputTypes, NamesOK DEF EngineNames
<1>2. PICK step \in Ref, call \in Ref : step = <<"cycle-round", i>> /\ call = Id(in.cycle[i].call)
  BY <1>1, Refs
<1>3. {"round.planned", "round.started", "tool.started", "artifact.created", "tool.result", "round.completed"}
      \subseteq OpKinds
  BY DEF OpKinds, Reports, Answers
<1>4. \A kind \in OpKinds, ref \in Ref : Emit(kind, ref) \in Seq(Op) /\ Has(Emit(kind, ref), kind, ref)
  <2> TAKE kind \in OpKinds, ref \in Ref
  <2>1. PICK op : op = [do |-> "emit", kind |-> kind, ref |-> ref, ends |-> {}]
    OBVIOUS
  <2>2. op \in Op
    BY <2>1, CallKinds, OpType
  <2>3. <<op>> \in Seq(Op) /\ DOMAIN <<op>> = 1..1 /\ <<op>>[1] = op
    BY <2>2, OneOp
  <2>4. 1 \in 1..1
    OBVIOUS
  <2> QED  BY <2>1, <2>3, <2>4 DEF Emit, Has, Emitting
<1>5. PICK a \in Seq(Op) : a = Emit("round.planned", step) \o Emit("round.started", step)
  <2>1. PICK y \in Seq(Op), z \in Seq(Op) : y = Emit("round.planned", step) /\ z = Emit("round.started", step)
    BY <1>3, <1>4
  <2>2. y \o z \in Seq(Op)
    OBVIOUS
  <2> QED  BY <2>1, <2>2
<1>6. PICK b \in Seq(Op) : b = If(IsCall(in.cycle[i]), Emit("tool.started", step)
                                  \o Emit("artifact.created", call) \o Emit("tool.result", step))
                           /\ (IsCall(in.cycle[i]) => Has(b, "artifact.created", call))
  <2>1. PICK x \in Seq(Op), y \in Seq(Op), z \in Seq(Op) :
            /\ x = Emit("tool.started", step) /\ z = Emit("tool.result", step)
            /\ y = Emit("artifact.created", call) /\ Has(y, "artifact.created", call)
    BY <1>3, <1>4
  <2>2. x \o y \in Seq(Op) /\ x \o y \o z \in Seq(Op) /\ <<>> \in Seq(Op)
    OBVIOUS
  <2>3. Has(x \o y, "artifact.created", call)
    BY <2>1, HasConcat
  <2>4. Has(x \o y \o z, "artifact.created", call)
    BY <2>2, <2>3, HasConcat
  <2> QED  BY <2>1, <2>2, <2>4 DEF If
<1>7. PICK c \in Seq(Op) : c = Emit("round.completed", step) /\ Has(c, "round.completed", step)
  BY <1>3, <1>4
<1>8. a \o b \in Seq(Op) /\ a \o b \o c \in Seq(Op)
  OBVIOUS
<1>9. CycleRound(in, i) = a \o b \o c
  BY <1>2, <1>5, <1>6, <1>7 DEF CycleRound
<1>10. Has(a \o b \o c, "round.completed", step)
  BY <1>7, <1>8, HasConcat
<1>11. IsCall(in.cycle[i]) => Has(a \o b \o c, "artifact.created", call)
  BY <1>6, <1>8, HasConcat
<1> QED  BY <1>2, <1>8, <1>9, <1>10, <1>11

\* and a script begins with all of them, and the steps of its plan.
LEMMA BeginningHas ==
    ASSUME NEW in, InputOK(in), NEW x, x = Beginning(in)
    PROVE  /\ x \in Seq(Going)
           /\ \A i \in DOMAIN in.cycle :
                  /\ Has(x, "round.completed", <<"cycle-round", i>>)
                  /\ IsCall(in.cycle[i]) => Has(x, "artifact.created", Id(in.cycle[i].call))
           /\ \A i \in DOMAIN in.steps : Has(x, "step.added", Id(in.steps[i].id))
<1>1. PICK W : W = Seq(Going) /\ Closed(W) /\ Noting(W) /\ Listing(W) /\ Raise \in W
               /\ \A kind \in OpKinds, ref \in Ref : Emit(kind, ref) \in W
  BY GoingDoes
<1>2. Planning(in, W) /\ W \in SUBSET Seq(Op)
  BY <1>1, ListingPlans DEF Closed
<1>3. PICK a \in W : a = If(in.cycle # <<>>, CycleRequest(in) \o CycleReport(in))
  BY <1>1, <1>2, CyclePart
<1>4. PICK b \in W : b = PlanReport(in)
  BY <1>1, <1>2, PlanReportPart
<1>5. x = a \o b /\ a \in Seq(Op) /\ b \in Seq(Op)
  BY <1>2, <1>3, <1>4 DEF Beginning
<1>6. ASSUME NEW i \in DOMAIN in.cycle
      PROVE  /\ Has(a, "round.completed", <<"cycle-round", i>>)
             /\ IsCall(in.cycle[i]) => Has(a, "artifact.created", Id(in.cycle[i].call))
  <2>1. PICK n \in Nat : n = Len(in.cycle) /\ DOMAIN in.cycle = 1..n
    BY InputTypes
  <2>2. PICK seqs : seqs = [j \in 1..n |-> CycleRound(in, j)]
    OBVIOUS
  <2>3. seqs \in [1..n -> Seq(Op)] /\ seqs[i] = CycleRound(in, i) /\ i \in 1..n
    BY <2>1, <2>2, RoundHas
  <2>4. PICK rounds : rounds = FlattenSeq(seqs)
    OBVIOUS
  <2>5. /\ Has(rounds, "round.completed", <<"cycle-round", i>>)
        /\ IsCall(in.cycle[i]) => Has(rounds, "artifact.created", Id(in.cycle[i].call))
    BY <2>3, <2>4, RoundHas, HasFor
  <2>6. PICK cycle \in Ref : cycle = Id("cycle")
    BY Named
  <2>7. \A j \in 1..n : seqs[j] \in W
    BY <1>1, <1>2, <2>1, <2>2, CycleRoundPart
  <2>8. seqs \in [1..n -> W]
    BY <2>2, <2>7
  <2>9. rounds \in W
    BY <1>1, <2>4, <2>8, ForIn
  <2>10. PICK done \in W : done = Emit("cycle.completed", cycle)
    BY <1>1, ToldNames DEF Noting
  <2>11. CycleRequest(in) \in W
    <3>1. Emit("cycle.started", cycle) \in W
      BY <1>1, ToldNames DEF Noting
    <3>2. /\ <<[do |-> "cycle", kind |-> "", ref |-> cycle, ends |-> {}]>> \in W
          /\ If(Repeats(in), Raise) \in W
          /\ Store("analysis_cycle") \in W /\ Store("artifact_dashboard") \in W
      BY <1>1 DEF Closed, Noting, OpKinds, If
    <3> QED  BY <1>1, <2>6, <3>1, <3>2 DEF Closed, CycleRequest
  <2>12. PICK request \in W : request = CycleRequest(in)
    BY <2>11
  <2>13. CycleReport(in) = rounds \o done
    BY <2>1, <2>2, <2>4, <2>6, <2>10 DEF CycleReport, For
  <2>14. in.cycle # <<>>
    BY <2>3
  <2>15. a = request \o (rounds \o done)
    BY <1>3, <2>12, <2>13, <2>14 DEF If
  <2>16. request \in Seq(Op) /\ rounds \in Seq(Op) /\ done \in Seq(Op)
    BY <1>2, <2>9
  <2>17. rounds \o done \in Seq(Op)
    BY <2>16
  <2> QED  BY <2>5, <2>15, <2>16, <2>17, HasConcat
<1>7. ASSUME NEW i \in DOMAIN in.steps PROVE Has(b, "step.added", Id(in.steps[i].id))
  <2>1. PICK n \in Nat : n = Len(in.steps) /\ DOMAIN in.steps = 1..n
    BY InputTypes
  <2>2. PICK seqs : seqs = [j \in 1..n |-> Emit("step.added", Id(in.steps[j].id))]
    OBVIOUS
  <2>3. "step.added" \in OpKinds
    BY DEF OpKinds, Reports
  <2>4. \A j \in 1..n : seqs[j] \in Seq(Op) /\ Has(seqs[j], "step.added", Id(in.steps[j].id))
    <3> TAKE j \in 1..n
    <3>1. PICK ref \in Ref : ref = Id(in.steps[j].id)
      BY <2>1, InputTypes, Refs
    <3>2. PICK op : op = [do |-> "emit", kind |-> "step.added", ref |-> ref, ends |-> {}]
      OBVIOUS
    <3>3. op \in Op
      BY <2>3, <3>2, CallKinds, OpType
    <3>4. <<op>> \in Seq(Op) /\ DOMAIN <<op>> = 1..1 /\ <<op>>[1] = op
      BY <3>3, OneOp
    <3>5. 1 \in 1..1
      OBVIOUS
    <3>6. seqs[j] = <<op>>
      BY <2>2, <3>1, <3>2 DEF Emit
    <3> QED  BY <3>1, <3>2, <3>4, <3>5, <3>6 DEF Has, Emitting
  <2>5. seqs \in [1..n -> Seq(Op)] /\ i \in 1..n
    BY <2>1, <2>2, <2>4
  <2>6. Has(FlattenSeq(seqs), "step.added", Id(in.steps[i].id))
    BY <2>4, <2>5, HasFor
  <2>7. PICK c \in Seq(Op) : c = If(in.malformed, Raise) \o Emit("plan.created", Id("plan"))
    <3>1. Emit("plan.created", Id("plan")) \in W /\ If(in.malformed, Raise) \in W
      BY <1>1, ToldNames, Named DEF Noting, Closed, If
    <3> QED  BY <1>1, <1>2, <3>1 DEF Closed
  <2>8. \A j \in 1..n : seqs[j] \in W
    BY <1>2, <2>1, <2>2 DEF Planning
  <2>9. seqs \in [1..n -> W]
    BY <2>2, <2>8
  <2>10. FlattenSeq(seqs) \in Seq(Op)
    BY <1>1, <1>2, <2>9, ForIn
  <2>11. b = c \o FlattenSeq(seqs)
    BY <1>4, <2>1, <2>2, <2>7 DEF PlanReport, For
  <2> QED  BY <2>6, <2>7, <2>10, <2>11, HasConcat
<1>8. x \in Seq(Going)
  BY <1>1, <1>3, <1>4, <1>5 DEF Closed
<1> QED  BY <1>5, <1>6, <1>7, <1>8, HasConcat

\* A script begins with it.
LEMMA ScriptBegins ==
    ASSUME NEW in, InputOK(in), NEW x, x = Beginning(in), NEW s, s = Script(in)
    PROVE  /\ s \in Seq(Op) /\ x \in Seq(Op) /\ Len(x) <= Len(s)
           /\ \A l \in 1..Len(x) : s[l] = x[l]
<1>1. PICK W : Closed(W) /\ Reporting(W) /\ Listing(W) /\ Invoking(W) /\ Building(W) /\ Disputing(W)
  BY PiecesDo
<1>2. Noting(W) /\ Planning(in, W) /\ Raise \in W /\ Tool(Id("align")) \in W
  BY <1>1, ListingPlans, Named DEF Reporting, Building, Invoking
<1>3. Working(in, W)
  BY <1>1, <1>2 DEF Working, Planning
<1>4. If(in.cycle # <<>>, CycleRequest(in) \o CycleReport(in)) \in W
  BY <1>1, <1>2, CyclePart
<1>5. Reasoning(in) \in W
  BY <1>1, <1>2, DisputesPart
<1>6. /\ PlanReport(in) \in W /\ PlanTools(in) \in W /\ Compute(in) \in W /\ Documents(in) \in W
      /\ SourceGraph \in W /\ If(in.cycle # <<>>, CycleGraph(in)) \in W
      /\ For(Claims(in), ClaimGraph) \in W
      /\ For(Len(in.hypotheses), LAMBDA i : HypothesisGraph(in.hypotheses[i], i)) \in W
      /\ Conclusion(in) \in W /\ Delivery \in W
  BY <1>3, OtherParts
<1>7. x \in W /\ W \in SUBSET Seq(Op)
  BY <1>1, <1>4, <1>6 DEF Beginning, Closed
<1>8. PICK V : V = {ops \in Seq(Op) : Len(x) <= Len(ops) /\ \A l \in 1..Len(x) : ops[l] = x[l]}
  OBVIOUS
<1>9. x \in V /\ Len(x) \in Nat
  BY <1>7, <1>8
<1>10. ASSUME NEW v \in V, NEW w \in W
       PROVE  v \o w \in V
  <2>1. v \in Seq(Op) /\ w \in Seq(Op) /\ Len(x) <= Len(v) /\ \A l \in 1..Len(x) : v[l] = x[l]
    BY <1>7, <1>8
  <2>2. PICK z : z = v \o w
    OBVIOUS
  <2>3. /\ z \in Seq(Op) /\ Len(z) = Len(v) + Len(w) /\ Len(v) \in Nat /\ Len(w) \in Nat
        /\ \A l \in 1..Len(v) : z[l] = v[l]
    BY <2>1, <2>2, Concat
  <2>4. Len(x) <= Len(z) /\ \A l \in 1..Len(x) : z[l] = x[l]
    BY <1>9, <2>1, <2>3
  <2> QED  BY <1>8, <2>2, <2>3, <2>4
<1>11. Script(in) \in V
  <2>1. If(in.cycle # <<>>, CycleRequest(in) \o CycleReport(in)) \o PlanReport(in) \in V
    BY <1>9 DEF Beginning
  <2> QED  BY <1>5, <1>6, <1>10, <2>1 DEF Script
<1> QED  BY <1>7, <1>8, <1>11

Before(s, n, kind, ref) == \E l \in 1..(n - 1) : Emitting(s[l], kind) /\ s[l].ref = ref
Begun(in, s, n) ==
    /\ \A i \in DOMAIN in.cycle :
           /\ Before(s, n, "round.completed", <<"cycle-round", i>>)
           /\ IsCall(in.cycle[i]) => Before(s, n, "artifact.created", Id(in.cycle[i].call))
    /\ \A i \in DOMAIN in.steps : Before(s, n, "step.added", Id(in.steps[i].id))

\* A run that can be stopped has reported its rounds, artifacts and steps.
LEMMA ScriptHas ==
    ASSUME NEW in, InputOK(in), NEW s, s = Script(in), NEW n, n \in DOMAIN s \/ n = Len(s) + 1,
           n \in DOMAIN s => s[n].do \in {"poll", "invoke"}
    PROVE  Begun(in, s, n)
<1>1. PICK x : x = Beginning(in)
  OBVIOUS
<1>2. /\ Len(s) \in Nat /\ DOMAIN s = 1..Len(s) /\ Len(x) <= Len(s)
      /\ Len(x) \in Nat /\ DOMAIN x = 1..Len(x)
      /\ \A l \in 1..Len(x) : s[l] = x[l]
  <2>1. s \in Seq(Op) /\ x \in Seq(Op) /\ Len(x) <= Len(s) /\ \A l \in 1..Len(x) : s[l] = x[l]
    BY <1>1, ScriptBegins
  <2> QED  BY <2>1
<1>3. \A l \in DOMAIN x : x[l].do \notin {"poll", "invoke"}
  <2>1. x \in Seq(Going)
    BY <1>1, BeginningHas
  <2>2. \A l \in DOMAIN x : x[l] \in Going
    BY <2>1
  <2> QED  BY <2>2 DEF Going
<1>4. n > Len(x) /\ n \in Nat
  <2>1. CASE n \in DOMAIN s
    BY <1>2, <1>3, <2>1
  <2>2. CASE n = Len(s) + 1
    BY <1>2, <2>2
  <2> QED  BY <2>1, <2>2
<1>5. \A kind, ref : Has(x, kind, ref) => Before(s, n, kind, ref)
  <2> SUFFICES ASSUME NEW kind, NEW ref, Has(x, kind, ref) PROVE Before(s, n, kind, ref)
    OBVIOUS
  <2>1. PICK l \in DOMAIN x : Emitting(x[l], kind) /\ x[l].ref = ref
    BY DEF Has
  <2>2. l \in 1..(n - 1) /\ s[l] = x[l]
    BY <1>2, <1>4
  <2> QED  BY <2>1, <2>2 DEF Before
<1> QED  BY <1>1, <1>5, BeginningHas DEF Begun

(****************************************************************************)
(* How a script ends: after the report nothing more is added to the nodes,  *)
(* and the report is announced.                                             *)
(****************************************************************************)
Adders == {"step.added", "round.planned", "artifact.created", "node.added"}
Adding(op) == op.do = "emit" /\ op.kind \in Adders
Reported == Id("analysis-report")
\* The report is added, and then nothing else.
AddsLast(ops) ==
    \E q \in DOMAIN ops :
        /\ Emitting(ops[q], "node.added") /\ ops[q].ref = Reported
        /\ \A l \in DOMAIN ops : l > q => ~Adding(ops[l])

\* Whatever comes before, and whatever adds nothing after
LEMMA AddsLastConcat ==
    ASSUME NEW a \in Seq(Op), NEW b \in Seq(Op),
           \/ AddsLast(b)
           \/ AddsLast(a) /\ \A l \in DOMAIN b : ~Adding(b[l])
    PROVE  AddsLast(a \o b)
<1>1. PICK z : z = a \o b
  OBVIOUS
<1>2. /\ DOMAIN z = 1..(Len(a) + Len(b))
      /\ Len(a) \in Nat /\ DOMAIN a = 1..Len(a) /\ Len(b) \in Nat /\ DOMAIN b = 1..Len(b)
      /\ \A i \in 1..Len(a) : z[i] = a[i]
      /\ \A i \in 1..Len(b) : z[Len(a) + i] = b[i]
  BY <1>1, Concat
<1>3. \A l \in DOMAIN z : l > Len(a) => l - Len(a) \in DOMAIN b /\ z[l] = b[l - Len(a)]
  <2> SUFFICES ASSUME NEW l \in DOMAIN z, l > Len(a) PROVE l - Len(a) \in DOMAIN b /\ z[l] = b[l - Len(a)]
    OBVIOUS
  <2>1. l - Len(a) \in 1..Len(b) /\ Len(a) + (l - Len(a)) = l
    BY <1>2
  <2> QED  BY <1>2, <2>1
<1>4. CASE AddsLast(b)
  <2>1. PICK q \in DOMAIN b : /\ Emitting(b[q], "node.added") /\ b[q].ref = Reported
                              /\ \A l \in DOMAIN b : l > q => ~Adding(b[l])
    BY <1>4 DEF AddsLast
  <2>2. Len(a) + q \in DOMAIN z /\ z[Len(a) + q] = b[q]
    BY <1>2
  <2>3. \A l \in DOMAIN z : l > Len(a) + q => l > Len(a) /\ l - Len(a) > q
    BY <1>2
  <2>4. \A l \in DOMAIN z : l > Len(a) + q => ~Adding(z[l])
    BY <1>3, <2>1, <2>3
  <2> QED  BY <1>1, <2>1, <2>2, <2>4 DEF AddsLast
<1>5. CASE AddsLast(a) /\ \A l \in DOMAIN b : ~Adding(b[l])
  <2>1. PICK q \in DOMAIN a : /\ Emitting(a[q], "node.added") /\ a[q].ref = Reported
                              /\ \A l \in DOMAIN a : l > q => ~Adding(a[l])
    BY <1>5 DEF AddsLast
  <2>2. q \in DOMAIN z /\ z[q] = a[q]
    BY <1>2
  <2>3. ASSUME NEW l \in DOMAIN z, l > q PROVE ~Adding(z[l])
    <3>1. CASE l <= Len(a)
      <4>1. l \in DOMAIN a /\ z[l] = a[l]
        BY <1>2, <3>1
      <4> QED  BY <2>1, <2>3, <4>1
    <3>2. CASE l > Len(a)
      BY <1>3, <1>5, <3>2
    <3> QED  BY <1>2, <3>1, <3>2
  <2> QED  BY <1>1, <2>1, <2>2, <2>3 DEF AddsLast
<1> QED  BY <1>4, <1>5

\* The delivery adds the report and announces it,
LEMMA DeliveryEnds ==
    /\ Delivery \in Seq(Op) /\ AddsLast(Delivery)
    /\ Has(Delivery, "report.generated", Id("graph"))
<1>1. PICK report \in Ref, action \in Ref, graph \in Ref, knowledge \in Ref, edge \in EdgeRef :
          /\ report = Id("analysis-report") /\ action = Id("recommended-action") /\ graph = Id("graph")
          /\ knowledge = Id("knowledge") /\ edge = EdgeId("action-report", 0)
  BY Named, EdgeNamed
<1>2. PICK W : Closed(W) /\ Noting(W) /\ Building(W)
  BY PiecesDo DEF Reporting
<1>3. "knowledge" \in OpKinds /\ "node.added" \in OpKinds /\ "node" \in OpKinds /\ "edge" \in OpKinds
      /\ "edge.added" \in OpKinds /\ "edge.activated" \in OpKinds /\ {} \in SUBSET Ref
  BY DEF OpKinds, Reports, Announcements
<1>4. \A ops \in W : ops \in Seq(Op)
  BY <1>2 DEF Closed
<1>5. PICK a \in Seq(Op) : a = Store("knowledge") \o Emit("knowledge.candidate", knowledge)
  <2>1. Store("knowledge") \in W /\ Emit("knowledge.candidate", knowledge) \in W
    BY <1>2, <1>3, ToldNames DEF Noting
  <2>2. Store("knowledge") \o Emit("knowledge.candidate", knowledge) \in W
    BY <1>2, <2>1 DEF Closed
  <2> QED  BY <1>4, <2>2
<1>6. PICK b \in Seq(Op) : b = Node(report) /\ AddsLast(b)
  <2>1. PICK s1, s2 : /\ s1 = [do |-> "save", kind |-> "node", ref |-> report, ends |-> {}]
                      /\ s2 = [do |-> "emit", kind |-> "node.added", ref |-> report, ends |-> {}]
    OBVIOUS
  <2>2. s1 \in Op /\ s2 \in Op
    BY <1>3, <2>1, OpType
  <2>3. Node(report) = <<s1, s2>>
    BY <2>1, <2>2, TwoOps DEF Node, SaveNode, Emit
  <2>4. PICK b : b = <<s1, s2>>
    OBVIOUS
  <2>5. b \in Seq(Op)
    BY <2>2, <2>4
  <2>6. 2 \in DOMAIN b /\ b[2] = s2 /\ \A l \in DOMAIN b : ~(l > 2)
    BY <2>4
  <2>7. AddsLast(b)
    BY <1>1, <2>1, <2>6 DEF AddsLast, Emitting, Reported
  <2> QED  BY <2>3, <2>4, <2>5, <2>7
<1>7. PICK c \in Seq(Op) : c = Edge(edge, action, report) /\ \A l \in DOMAIN c : ~Adding(c[l])
  <2>1. PICK s1, s2, s3 : /\ s1 = [do |-> "save", kind |-> "edge", ref |-> edge, ends |-> {action, report}]
                          /\ s2 = [do |-> "emit", kind |-> "edge.added", ref |-> edge, ends |-> {action, report}]
                          /\ s3 = [do |-> "emit", kind |-> "edge.activated", ref |-> edge, ends |-> {}]
    OBVIOUS
  <2>2. edge \in Ref /\ {action, report} \in SUBSET Ref
    BY DEF Ref
  <2>3. s1 \in Op /\ s2 \in Op /\ s3 \in Op
    BY <1>3, <2>1, <2>2, OpType
  <2>4. Edge(edge, action, report) = <<s1, s2, s3>>
    BY <2>1, <2>3, ThreeOps DEF Edge, SaveEdge, Emit
  <2>5. PICK c : c = <<s1, s2, s3>>
    OBVIOUS
  <2>6. c \in Seq(Op)
    BY <2>3, <2>5
  <2>7. \A l \in DOMAIN c : c[l] = s1 \/ c[l] = s2 \/ c[l] = s3
    BY <2>5
  <2>8. ~Adding(s1) /\ ~Adding(s2) /\ ~Adding(s3)
    BY <2>1 DEF Adding, Adders
  <2> QED  BY <2>4, <2>5, <2>6, <2>7, <2>8
<1>8. \A kind \in {"evidence.linked", "report.generated"} :
          /\ Emit(kind, graph) \in Seq(Op) /\ \A l \in DOMAIN Emit(kind, graph) : ~Adding(Emit(kind, graph)[l])
          /\ Has(Emit(kind, graph), kind, graph)
  <2> TAKE kind \in {"evidence.linked", "report.generated"}
  <2>1. PICK op : op = [do |-> "emit", kind |-> kind, ref |-> graph, ends |-> {}]
    OBVIOUS
  <2>2. kind \in OpKinds
    BY DEF OpKinds, Reports
  <2>3. op \in Op
    BY <1>3, <2>1, <2>2, OpType
  <2>4. PICK e : e = <<op>> /\ e \in Seq(Op) /\ DOMAIN e = 1..1 /\ e[1] = op
    BY <2>3, OneOp
  <2>5. 1 \in DOMAIN e /\ \A l \in DOMAIN e : l = 1
    BY <2>4
  <2>6. ~Adding(op)
    BY <2>1 DEF Adding, Adders
  <2>7. Emit(kind, graph) = e
    BY <2>1, <2>4 DEF Emit
  <2>8. Has(e, kind, graph)
    BY <2>1, <2>4, <2>5 DEF Has, Emitting
  <2>9. \A l \in DOMAIN e : ~Adding(e[l])
    BY <2>4, <2>5, <2>6
  <2> QED  BY <2>4, <2>7, <2>8, <2>9
<1>9. PICK d \in Seq(Op) : d = Emit("evidence.linked", graph) /\ \A l \in DOMAIN d : ~Adding(d[l])
  BY <1>8
<1>10. PICK e \in Seq(Op) : e = Emit("report.generated", graph) /\ (\A l \in DOMAIN e : ~Adding(e[l]))
                            /\ Has(e, "report.generated", graph)
  BY <1>8
<1>11. a \o b \in Seq(Op) /\ a \o b \o c \in Seq(Op) /\ a \o b \o c \o d \in Seq(Op)
       /\ a \o b \o c \o d \o e \in Seq(Op)
  OBVIOUS
<1>12. AddsLast(a \o b)
  BY <1>6, AddsLastConcat
<1>13. AddsLast(a \o b \o c)
  BY <1>7, <1>11, <1>12, AddsLastConcat
<1>14. AddsLast(a \o b \o c \o d)
  BY <1>9, <1>11, <1>13, AddsLastConcat
<1>15. AddsLast(a \o b \o c \o d \o e)
  BY <1>10, <1>11, <1>14, AddsLastConcat
<1>16. Has(a \o b \o c \o d \o e, "report.generated", graph)
  BY <1>10, <1>11, HasConcat
<1>17. Delivery = a \o b \o c \o d \o e
  BY <1>1, <1>5, <1>6, <1>7, <1>9, <1>10 DEF Delivery
<1> QED  BY <1>1, <1>11, <1>15, <1>16, <1>17

\* and a script ends with it.
LEMMA ScriptEnds ==
    ASSUME NEW in, InputOK(in), NEW s, s = Script(in)
    PROVE  s \in Seq(Op) /\ AddsLast(s) /\ Has(s, "report.generated", Id("graph"))
<1>1. PICK W : Closed(W) /\ Reporting(W) /\ Listing(W) /\ Invoking(W) /\ Building(W) /\ Disputing(W)
  BY PiecesDo
<1>2. Noting(W) /\ Planning(in, W) /\ Raise \in W /\ Tool(Id("align")) \in W
  BY <1>1, ListingPlans, Named DEF Reporting, Building, Invoking
<1>3. Working(in, W)
  BY <1>1, <1>2 DEF Working, Planning
<1>4. If(in.cycle # <<>>, CycleRequest(in) \o CycleReport(in)) \in W
  BY <1>1, <1>2, CyclePart
<1>5. Reasoning(in) \in W
  BY <1>1, <1>2, DisputesPart
<1>6. /\ PlanReport(in) \in W /\ PlanTools(in) \in W /\ Compute(in) \in W /\ Documents(in) \in W
      /\ SourceGraph \in W /\ If(in.cycle # <<>>, CycleGraph(in)) \in W
      /\ For(Claims(in), ClaimGraph) \in W
      /\ For(Len(in.hypotheses), LAMBDA i : HypothesisGraph(in.hypotheses[i], i)) \in W
      /\ Conclusion(in) \in W /\ Delivery \in W
  BY <1>3, OtherParts
<1>7. PICK V : V = {ops \in Seq(Op) : AddsLast(ops) /\ Has(ops, "report.generated", Id("graph"))}
  OBVIOUS
<1>8. Delivery \in V
  BY <1>7, DeliveryEnds
<1>9. \A v \in V, w \in W : w \o v \in V
  <2> TAKE v \in V, w \in W
  <2>1. w \in Seq(Op) /\ v \in Seq(Op) /\ AddsLast(v) /\ Has(v, "report.generated", Id("graph"))
    BY <1>1, <1>7 DEF Closed
  <2>2. w \o v \in Seq(Op)
    BY <2>1
  <2> QED  BY <1>7, <2>1, <2>2, AddsLastConcat, HasConcat
<1>10. Script(in) \in V
  <2>1. PICK p : p = If(in.cycle # <<>>, CycleRequest(in) \o CycleReport(in))
           \o PlanReport(in) \o PlanTools(in) \o Compute(in)
           \o SourceGraph \o If(in.cycle # <<>>, CycleGraph(in))
           \o Documents(in) \o For(Claims(in), ClaimGraph)
           \o Reasoning(in)
           \o For(Len(in.hypotheses), LAMBDA i : HypothesisGraph(in.hypotheses[i], i))
           \o Conclusion(in) /\ p \in W
    BY <1>1, <1>4, <1>5, <1>6 DEF Closed
  <2>2. p \o Delivery \in V
    BY <1>8, <1>9, <2>1
  <2> QED  BY <2>1, <2>2 DEF Script
<1> QED  BY <1>7, <1>10
==============================================================================
