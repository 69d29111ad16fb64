--------------------------- MODULE MCFlowCanvas ---------------------------
(* Small instances of FlowCanvas for TLC: runs that take every branch of    *)
(* the projection, and end in every way.                                    *)
EXTENDS FlowCanvas

MCNames == STRING
Round(call, prior) == [call |-> call, prior |-> prior]
Hypothesis(name, structured) == [id |-> Id(name), structured |-> structured]

DemoInput == [runner |-> "demo", steps |-> DemoPlan(TRUE, TRUE),
    cycle |-> <<Round("detect_anomalies", {}), Round("compare_periods", {"detect_anomalies"}),
                Round("finish", {"compare_periods"})>>,
    documents |-> TRUE, indexed |-> TRUE, claims |-> 2, conflicts |-> {<<1, 2>>}, malformed |-> FALSE,
    hypotheses |-> <<Hypothesis("h1", TRUE), Hypothesis("h2", FALSE)>>,
    verdicts |-> <<"contradicted", "insufficient">>, weak |-> {"compare_periods"}]

\* The plan lists a step before the one it needs.
ConnectedInput == [runner |-> "connected",
    steps |-> <<[id |-> "profile", needs |-> {"inspect"}], [id |-> "inspect", needs |-> {}],
                [id |-> "align", needs |-> {"profile", "extract"}],
                [id |-> "extract", needs |-> {"inspect"}]>>,
    cycle |-> <<Round("segment_rank", {}), Round("analyze_text", {"segment_rank"})>>,
    documents |-> TRUE, indexed |-> TRUE, claims |-> 1, conflicts |-> {}, malformed |-> FALSE, hypotheses |-> <<>>,
    verdicts |-> <<>>, weak |-> {}]

\* Runs that complete, and that end at the last operation of a kind
Run(in, end, script) ==
    [in |-> in, end |-> end,
     at |-> IF end = "completed" THEN Len(script) + 1
            ELSE Max({i \in DOMAIN script :
                      script[i].do = IF end = "failed" THEN "invoke" ELSE "poll"})]
DemoScript == Script(DemoInput)
ConnectedScript == Script(ConnectedInput)
MCRuns == <<Run(DemoInput, "completed", DemoScript), Run(DemoInput, "failed", DemoScript),
            Run(ConnectedInput, "completed", ConnectedScript),
            Run(ConnectedInput, "interrupted", ConnectedScript)>>
============================================================================
