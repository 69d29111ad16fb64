--------------------------- MODULE KnowledgeFacts ---------------------------
(****************************************************************************)
(* What the knowledge ledger promises of each piece of knowledge: it is     *)
(* proposed, then verified or rejected, and once verified it may be         *)
(* superseded by another one, each of these at once.  A decision is thus    *)
(* about what is known when it takes effect; only the replacement may have  *)
(* been superseded itself in the meantime.                                  *)
(****************************************************************************)
CONSTANTS Ids, Evidence, None

VARIABLE facts      \* what is known of each ID

\* Its state, its evidence, the evidence by which it was verified, and what
\* it was superseded by.
Fact(state, evidence, grounds, by) ==
    [state |-> state, evidence |-> evidence, grounds |-> grounds, by |-> by]

Unknown == Fact("unknown", {}, {}, None)

Become(id, fact) == facts' = [facts EXCEPT ![id] = fact]

Init == facts = [id \in Ids |-> Unknown]

Propose(id) ==
    /\ facts[id] = Unknown
    /\ \E evidence \in SUBSET Evidence : Become(id, Fact("candidate", evidence, {}, None))

Verify(id) ==
    /\ facts[id].state = "candidate"
    /\ \E evidence \in SUBSET Evidence :
           /\ facts[id].evidence \subseteq evidence /\ evidence # {}
           /\ Become(id, Fact("verified", evidence, evidence, None))

Reject(id) ==
    /\ facts[id].state = "candidate"
    /\ Become(id, Fact("rejected", facts[id].evidence, {}, None))

Supersede(id, by) ==
    /\ id # by
    /\ facts[id].state = "verified" /\ facts[by].state \in {"verified", "superseded"}
    /\ LET evidence == facts[id].evidence \cup facts[by].grounds
       IN  Become(id, Fact("superseded", evidence, facts[id].grounds, by))

Next == \E id \in Ids :
    \/ Propose(id) \/ Verify(id) \/ Reject(id)
    \/ \E by \in Ids : Supersede(id, by)

Spec == Init /\ [][Next]_facts
=============================================================================
