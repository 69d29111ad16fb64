--------------------------- MODULE KnowledgeLedger ---------------------------
(****************************************************************************)
(* The governed knowledge of one project: each knowledge ID has a history   *)
(* of versions that is only appended to.  A decision reads the history in   *)
(* one transaction and appends its version in another one, so several       *)
(* clients may decide on the same knowledge at once; the store accepts a    *)
(* version only if it continues the history as it then is.                  *)
(*                                                                          *)
(* A client takes the time of its decision from the wall clock of its own   *)
(* process: times are in no particular order.  (The names are none of       *)
(* AnalysisCycle, so that WorkspaceProofs can extend both.)                 *)
(****************************************************************************)
EXTENDS Naturals, Sequences, SequencesExt

CONSTANTS
    Ids,        \* knowledge IDs
    Clients,    \* processes and threads that use the ledger
    Sources,    \* what a proposal fixes for good: statement, sources, run
    Evidence,   \* evidence references
    Time,       \* wall clock times
    None        \* no client operation, no replacement

ASSUME TimeOK == Time \subseteq Nat \ {0}
ASSUME NoneOK == None \notin Ids

Never == 0
States == {"candidate", "verified", "superseded", "rejected"}
Record == [state: States, source: Sources, created: Time, updated: Time,
           validFrom: Time \cup {Never}, validTo: Time \cup {Never},
           replacement: Ids \cup {None}, evidence: SUBSET Evidence, decided: BOOLEAN]
ASSUME NoneIsNoRecord == None \notin Record

VARIABLES
    history,    \* the knowledge_versions rows of each ID, by revision
    pending     \* per client: the decision it has read for and not yet made

ledgerVars == <<history, pending>>

\* KnowledgeRecord.__post_init__
WellFormed(r) ==
    /\ r.created <= r.updated
    /\ r.validFrom # Never /\ r.validTo # Never => r.validFrom <= r.validTo
    /\ r.state = "candidate" =>
           r.validFrom = Never /\ r.validTo = Never /\ r.replacement = None /\ ~r.decided
    /\ r.state = "verified" =>
           r.validFrom # Never /\ r.decided /\ r.validTo = Never /\ r.replacement = None
    /\ r.state = "superseded" =>
           r.validFrom # Never /\ r.validTo # Never /\ r.replacement # None /\ r.decided
    /\ r.state = "rejected" =>
           r.decided /\ r.validFrom = Never /\ r.validTo = Never /\ r.replacement = None

Candidate(source, evidence, now) ==
    [state |-> "candidate", source |-> source, created |-> now, updated |-> now,
     validFrom |-> Never, validTo |-> Never, replacement |-> None,
     evidence |-> evidence, decided |-> FALSE]
Verified(r, evidence, now) ==
    [r EXCEPT !.state = "verified", !.updated = now, !.validFrom = now,
              !.evidence = r.evidence \cup evidence, !.decided = TRUE]
Rejected(r, now) ==
    [r EXCEPT !.state = "rejected", !.updated = now, !.decided = TRUE]
Superseded(r, id, replacement, now) ==
    [r EXCEPT !.state = "superseded", !.updated = now, !.validTo = now,
              !.replacement = id, !.evidence = r.evidence \cup replacement.evidence]

\* append_knowledge_version's allowed_transitions
Transitions == {<<"candidate", "verified">>, <<"candidate", "rejected">>, <<"verified", "superseded">>}

\* _current
Current(id, state) == history[id] # <<>> /\ Last(history[id]).state = state

LedgerInit ==
    /\ history = [id \in Ids |-> <<>>]
    /\ pending = [c \in Clients |-> None]

\* propose: a new ID, or an error
Propose ==
    \E id \in Ids, source \in Sources, evidence \in SUBSET Evidence, now \in Time :
        /\ history[id] = <<>>
        /\ history' = [history EXCEPT ![id] = <<Candidate(source, evidence, now)>>]
        /\ UNCHANGED pending

\* A client holds the version it read, and the one it will append.
Hold(c, id, version) ==
    /\ WellFormed(version)
    /\ pending' = [pending EXCEPT ![c] = [id |-> id, read |-> history[id], version |-> version]]
    /\ UNCHANGED history

\* Mutant: verification asks for no evidence.
ReadToVerifyOnTrust(c) ==
    /\ pending[c] = None
    /\ \E id \in Ids, evidence \in SUBSET Evidence, now \in Time :
           /\ Current(id, "candidate")
           /\ Hold(c, id, Verified(Last(history[id]), evidence, now))

\* verify, with deterministic verification and an approval
ReadToVerify(c) ==
    /\ pending[c] = None
    /\ \E id \in Ids, evidence \in SUBSET Evidence, now \in Time :
           /\ Current(id, "candidate")
           /\ Last(history[id]).evidence \cup evidence # {}
           /\ Hold(c, id, Verified(Last(history[id]), evidence, now))

ReadToReject(c) ==
    /\ pending[c] = None
    /\ \E id \in Ids, now \in Time :
           /\ Current(id, "candidate")
           /\ Hold(c, id, Rejected(Last(history[id]), now))

\* supersede reads the current version first ...
ReadToSupersede(c) ==
    /\ pending[c] = None
    /\ \E id \in Ids :
           /\ Current(id, "verified")
           /\ pending' = [pending EXCEPT ![c] = [id |-> id, read |-> history[id], version |-> None]]
    /\ UNCHANGED history

\* Mutant: any version of the replacement will do.
ReadReplacementAnyState(c) ==
    /\ pending[c] # None /\ pending[c].version = None
    /\ \E id \in Ids \ {pending[c].id}, now \in Time :
           /\ history[id] # <<>>
           /\ LET version == Superseded(Last(pending[c].read), id, Last(history[id]), now) IN
              /\ WellFormed(version)
              /\ pending' = [pending EXCEPT ![c].version = version]
    /\ UNCHANGED history

\* ... and its replacement, in a transaction of its own.
ReadReplacement(c) ==
    /\ pending[c] # None /\ pending[c].version = None
    /\ \E id \in Ids \ {pending[c].id}, now \in Time :
           /\ Current(id, "verified")
           /\ LET version == Superseded(Last(pending[c].read), id, Last(history[id]), now) IN
              /\ WellFormed(version)
              /\ pending' = [pending EXCEPT ![c].version = version]
    /\ UNCHANGED history

\* An error: the knowledge is not in the state the decision needs, or the
\* clock has gone back behind the version that was read.
GiveUp(c) ==
    /\ pending[c] # None /\ pending[c].version = None
    /\ pending' = [pending EXCEPT ![c] = None]
    /\ UNCHANGED history

\* Mutant: the version is appended after whatever is there.
AppendBlindly(c) ==
    LET p == pending[c] IN
    /\ p # None /\ p.version # None
    /\ history' = [history EXCEPT ![p.id] = Append(history[p.id], p.version)]
    /\ pending' = [pending EXCEPT ![c] = None]

\* append_knowledge_version: the revision must be the next one and the state
\* may follow the latest one's; otherwise the decision is an error.
AppendVersion(c) ==
    LET p == pending[c] IN
    /\ p # None /\ p.version # None
    /\ IF /\ Len(p.read) = Len(history[p.id])
          /\ p.version.source = Last(history[p.id]).source
          /\ p.version.created = Last(history[p.id]).created
          /\ <<Last(history[p.id]).state, p.version.state>> \in Transitions
       THEN history' = [history EXCEPT ![p.id] = Append(history[p.id], p.version)]
       ELSE UNCHANGED history
    /\ pending' = [pending EXCEPT ![c] = None]

LedgerNext ==
    \/ Propose
    \/ \E c \in Clients :
           \/ ReadToVerify(c) \/ ReadToReject(c) \/ ReadToSupersede(c)
           \/ ReadReplacement(c) \/ GiveUp(c) \/ AppendVersion(c)

LedgerSpec == LedgerInit /\ [][LedgerNext]_ledgerVars
------------------------------------------------------------------------------
Pending == [id: Ids, read: Seq(Record) \ {<<>>}, version: Record \cup {None}]
LedgerTypeOK ==
    /\ history \in [Ids -> Seq(Record)]
    /\ pending \in [Clients -> Pending \cup {None}]

\* Every history begins with a candidate, each later version is a decision
\* that the one before it allows, and what was proposed never changes.
HistoriesLegal == \A id \in Ids : \A i \in DOMAIN history[id] :
    /\ WellFormed(history[id][i])
    /\ IF i = 1 THEN history[id][i].state = "candidate"
       ELSE LET before == history[id][i - 1] IN
            /\ <<before.state, history[id][i].state>> \in Transitions
            /\ history[id][i].source = before.source /\ history[id][i].created = before.created

\* Verified knowledge rests on evidence, and superseding it never loses any.
FactsHaveEvidence == \A id \in Ids : \A i \in DOMAIN history[id] :
    history[id][i].state \in {"verified", "superseded"} =>
        /\ history[id][i].evidence # {}
        /\ history[id][i - 1].evidence \subseteq history[id][i].evidence

\* What superseded knowledge was replaced by has itself been verified.
ReplacementsVerified == \A id \in Ids : \A i \in DOMAIN history[id] :
    history[id][i].state = "superseded" =>
        \E k \in DOMAIN history[history[id][i].replacement] :
            history[history[id][i].replacement][k].state = "verified"

\* What counts as a fact, or did, has evidence, and what replaced it had too.
FactsHold == FactsHaveEvidence /\ ReplacementsVerified

\* A decision takes effect only on the very history it was made for.
DecisionsOnWhatWasRead == [][\A c \in Clients :
    pending[c] # None /\ pending'[c] = None /\ history' # history =>
        history[pending[c].id] = pending[c].read]_ledgerVars

\* What a client is told of a piece of knowledge is its latest version; the
\* grounds of a fact are the evidence of its second one.
Fact(versions) ==
    LET latest == Last(versions)
        settled == latest.state \in {"verified", "superseded"} IN
    IF versions = <<>> THEN [state |-> "unknown", evidence |-> {}, grounds |-> {}, by |-> None]
    ELSE [state |-> latest.state, evidence |-> latest.evidence, by |-> latest.replacement,
          grounds |-> IF settled THEN versions[2].evidence ELSE {}]
known == [id \in Ids |-> Fact(history[id])]
Facts == INSTANCE KnowledgeFacts WITH facts <- known

\* However the reads and writes of several clients interleave, every decision
\* is as if it were made at once, of what is known when it takes effect.
DecidesAtOnce == Facts!Spec

\* Versions are neither changed nor dropped.
HistoryAppendOnly == [][\A id \in Ids : IsPrefix(history[id], history'[id])]_ledgerVars
==============================================================================
