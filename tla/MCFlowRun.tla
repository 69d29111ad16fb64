----------------------------- MODULE MCFlowRun -----------------------------
(* Small instances of FlowRun for TLC: inputs that take every branch of the *)
(* engine's script.                                                         *)
EXTENDS FlowRun, TLC

MCNames == STRING
Round(call, prior) == [call |-> call, prior |-> prior]
Hypothesis(name, structured) == [id |-> Id(name), structured |-> structured]

DemoCycle == <<Round("detect_anomalies", {}), Round("compare_periods", {"detect_anomalies"}),
               Round("finish", {"compare_periods"})>>

\* A demo run over two conflicting claims and two structured hypotheses
DemoFull == [runner |-> "demo", steps |-> DemoPlan(TRUE, TRUE), cycle |-> DemoCycle,
             documents |-> TRUE, indexed |-> TRUE, claims |-> 2, conflicts |-> {<<1, 2>>}, malformed |-> FALSE,
             hypotheses |-> <<Hypothesis("h1", TRUE), Hypothesis("h2", TRUE)>>]

\* A demo run over data alone
DemoData == [runner |-> "demo", steps |-> DemoPlan(FALSE, TRUE), cycle |-> DemoCycle,
             documents |-> FALSE, indexed |-> FALSE, claims |-> 0, conflicts |-> {}, malformed |-> FALSE,
             hypotheses |-> <<Hypothesis("h1", FALSE)>>]

\* A connected run whose plan lists a step before the one it needs
Connected == [runner |-> "connected",
              steps |-> <<[id |-> "profile", needs |-> {"inspect"}], [id |-> "inspect", needs |-> {}],
                          [id |-> "align", needs |-> {"profile", "extract"}],
                          [id |-> "extract", needs |-> {"inspect"}]>>,
              cycle |-> <<Round("segment_rank", {}), Round("analyze_text", {"segment_rank"})>>,
              documents |-> TRUE, indexed |-> TRUE, claims |-> 1, conflicts |-> {}, malformed |-> FALSE,
              hypotheses |-> <<>>]

MCInputs == {DemoFull, DemoData, Connected}

\* One claim more than the dashboard keeps, in conflict with an earlier one
ManyClaims == {[DemoFull EXCEPT !.claims = 3, !.conflicts = {<<1, 3>>}]}

\* Three rounds, the third one asking for the first one's artifact again
RepeatedCall == {[Connected EXCEPT !.cycle =
    <<Round("segment_rank", {}), Round("analyze_text", {"segment_rank"}),
      Round("segment_rank", {"analyze_text"})>>]}

\* Two hypotheses of one name, which parse_hypotheses accepts
SameHypothesis == {[DemoData EXCEPT !.hypotheses =
    <<Hypothesis("h1", FALSE), Hypothesis("h1", FALSE)>>]}

\* A hypothesis that bears the name of a node of the engine's own
NamedAsNode == {[DemoData EXCEPT !.hypotheses = <<Hypothesis("data-signal", FALSE)>>]}

\* Documents none of which can be read
Unreadable == {[Connected EXCEPT !.indexed = FALSE, !.claims = 0]}

\* A proposal that parse_hypotheses refuses
Refused == {[DemoData EXCEPT !.malformed = TRUE, !.hypotheses = <<>>]}

AllInputs == MCInputs \cup ManyClaims \cup RepeatedCall \cup SameHypothesis \cup NamedAsNode
    \cup Unreadable \cup Refused
============================================================================
