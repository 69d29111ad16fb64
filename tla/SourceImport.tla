---------------------------- MODULE SourceImport -----------------------------
(****************************************************************************)
(* How a user brings in a data source: DataImport of the workbench, and the *)
(* import panel of the older page (ingest-panel.js).  A local path, a file  *)
(* to upload or an API is previewed; the preview comes with a plan that     *)
(* says which of its fields hold date, metric and value; the user applies   *)
(* the plan and the server converts the source by it.                       *)
(*                                                                          *)
(* A plan is named after the source it was made for.  Nothing is disabled   *)
(* in the older page while requests are under way, so they overlap.  What   *)
(* the page then reads of the new source, and the settings stored with it,  *)
(* are left out.  (The names are none of TaskViews, so that PageProofs can  *)
(* extend both.)                                                            *)
(****************************************************************************)
EXTENDS Naturals

CONSTANTS
    Pages,          \* pages the browser may show
    Sources,        \* paths, files and snapshots
    Fields,         \* the fields of each
    MaxRequests,    \* bound: requests of the page
    MaxFaults       \* bound: of these, the ones that fail

ASSUME ImportOK ==
    /\ Pages \subseteq {"workbench", "legacy"} /\ "none" \notin Sources
    /\ DOMAIN Fields = Sources /\ {MaxRequests, MaxFaults} \subseteq Nat

VARIABLES
    page,
    open,       \* the import is shown
    tab,        \* the kind of source it is open for
    path,       \* sourcePath, currentPath
    preview,    \* the source whose preview is shown
    plan,       \* the source that the plan was made for
    busy,       \* the workbench's buttons are disabled
    requests,   \* under way, and whether anybody still waits for the answer
    sent,
    converted,  \* sources converted, each by what plan
    orderly,    \* one request at a time, and the preview of no upload failed
    faults

choice == <<path, preview, plan>>
importVars == <<page, open, tab, choice, busy, requests, sent, converted, orderly, faults>>

None == "none"
Workbench == page = "workbench"
Legacy == page = "legacy"
Kinds == {"path", "upload", "api"}
\* The older page has one tab for what is local.
TabOf(kind) == IF Legacy /\ kind = "upload" THEN "path" ELSE kind

ImportInit ==
    /\ page \in Pages /\ open = TRUE /\ tab = "path"
    /\ path = None /\ preview = None /\ plan = None /\ busy = FALSE
    /\ requests = {} /\ sent = 0 /\ converted = {} /\ orderly = TRUE /\ faults = 0

Ask(kind, source, by) ==
    /\ sent < MaxRequests /\ sent' = sent + 1
    /\ orderly' = (orderly /\ requests = {})
    /\ requests' = requests \cup {[id |-> sent + 1, kind |-> kind, source |-> source, plan |-> by,
                                   live |-> TRUE, orderly |-> orderly']}
------------------------------------------------------------------------------
\* Choosing and previewing a source

\* changeMode forgets the preview, setIngestTab does not; neither waits.
ChangeMode(t) ==
    /\ open /\ t # tab /\ tab' = t
    /\ IF Workbench THEN path' = None /\ preview' = None /\ plan' = None ELSE UNCHANGED choice
    /\ UNCHANGED <<page, open, busy, requests, sent, converted, orderly, faults>>

\* Mutant: the path is that of the source asked for.
PrepareSetsPath(kind, s) ==
    /\ open /\ tab = TabOf(kind) /\ ~busy /\ busy' = Workbench
    /\ Ask(kind, s, None) /\ path' = s
    /\ UNCHANGED <<page, open, tab, preview, plan, converted, faults>>
\* prepare, selectFile; handleLocalPathUse, handleFileSelected, handleApiFetch.
Prepare(kind, s) ==
    /\ open /\ tab = TabOf(kind) /\ ~busy /\ busy' = Workbench
    /\ Ask(kind, s, None)
    /\ UNCHANGED <<page, open, tab, choice, converted, faults>>

\* A file is uploaded, and then its preview asked for; uploadAndPreview takes its
\* path before, uploadFile with the preview.
Uploaded(r) ==
    /\ r.kind = "upload" /\ path' = IF Legacy THEN r.source ELSE path
    /\ requests' = (requests \ {r}) \cup {[r EXCEPT !.kind = "preview"]}
    /\ UNCHANGED <<page, open, tab, preview, plan, busy, sent, converted, orderly, faults>>

\* hidePreviewAndPlan and renderPreview; in the workbench a preview without a
\* suggestion cannot be applied, the older page lets the user choose.
Previewed(r) ==
    /\ r.kind \in {"path", "api", "preview"}
    /\ path' = IF Legacy /\ r.kind = "preview" THEN path ELSE r.source
    /\ preview' = r.source
    /\ plan' \in {r.source} \cup (IF Workbench THEN {None} ELSE {})
    /\ busy' = FALSE /\ requests' = requests \ {r}
    /\ UNCHANGED <<page, open, tab, sent, converted, orderly, faults>>

Propose ==
    /\ Legacy /\ path # None /\ preview # None
    /\ Ask("propose", path, None)
    /\ UNCHANGED <<page, open, tab, choice, busy, converted, faults>>

\* Mutant: the answer is taken whatever is shown by then.
ProposedAnyway(r) ==
    /\ r.kind = "propose" /\ requests' = requests \ {r}
    /\ plan' \in {plan, r.source}
    /\ UNCHANGED <<page, open, tab, path, preview, busy, sent, converted, orderly, faults>>
\* handlePropose: an agent may have a plan of its own; it is taken if the
\* preview shown has its fields.
Proposed(r) ==
    /\ r.kind = "propose" /\ requests' = requests \ {r}
    /\ plan' \in {plan} \cup (IF Fields[r.source] \subseteq Fields[preview] THEN {r.source} ELSE {})
    /\ UNCHANGED <<page, open, tab, path, preview, busy, sent, converted, orderly, faults>>
------------------------------------------------------------------------------
\* Applying the plan

\* apply, handlePlanSubmit.
Apply ==
    /\ open /\ ~busy /\ path # None /\ plan # None
    /\ busy' = Workbench
    /\ Ask("apply", path, plan)
    /\ UNCHANGED <<page, open, tab, choice, converted, faults>>

\* ingest_apply, apply_plan: rows without the plan's fields are not converted.
Convertible(r) == r.kind = "apply" /\ Fields[r.plan] \subseteq Fields[r.source]
Convert(r) == converted' = converted \cup {[source |-> r.source, plan |-> r.plan, orderly |-> r.orderly]}

\* Nobody waits for previews of an import that is gone; what is being
\* converted is converted, and added to its task, all the same.
Unheard(rs) == {[r EXCEPT !.live = FALSE] : r \in {q \in rs : q.kind \in {"apply", "attach"}}}

\* applyImportToTask has the converted source added to the task by a request of
\* its own.
Applied(r) ==
    /\ Convertible(r) /\ Convert(r)
    /\ requests' = (requests \ {r}) \cup (IF Legacy THEN {} ELSE {[r EXCEPT !.kind = "attach"]})
    /\ UNCHANGED <<page, open, tab, choice, busy, sent, orderly, faults>>

\* The workbench shows the import to tasks without data only.
AddedToTask(r) ==
    /\ r.kind = "attach"
    /\ open' = FALSE /\ busy' = FALSE /\ requests' = Unheard(requests \ {r})
    /\ UNCHANGED <<page, tab, choice, sent, converted, orderly, faults>>

\* Mutant: only an answer enables the buttons again.
FreeNever(r) == busy
\* The finally of the handlers, unless nobody waits for them any more.
Free(r) == IF r.live THEN FALSE ELSE busy

Refused(r) ==
    /\ r.kind = "apply" /\ ~Convertible(r)
    /\ busy' = Free(r) /\ requests' = requests \ {r}
    /\ UNCHANGED <<page, open, tab, choice, sent, converted, orderly, faults>>

\* A request fails, or its answer is lost after all was done.
RequestFails(r) ==
    /\ faults < MaxFaults /\ faults' = faults + 1
    /\ IF Convertible(r) THEN Convert(r) \/ UNCHANGED converted ELSE UNCHANGED converted
    /\ orderly' = (orderly /\ r.kind # "preview")
    /\ busy' = Free(r) /\ requests' = requests \ {r}
    /\ UNCHANGED <<page, open, tab, choice, sent>>

\* The shell shows another of its tabs, and what was previewed is gone.
LeaveImport ==
    /\ Workbench /\ open
    /\ tab' = "path" /\ path' = None /\ preview' = None /\ plan' = None /\ busy' = FALSE
    /\ requests' = Unheard(requests)
    /\ UNCHANGED <<page, open, sent, converted, orderly, faults>>
------------------------------------------------------------------------------
Answered(r) == Uploaded(r) \/ Previewed(r) \/ Proposed(r) \/ Applied(r) \/ AddedToTask(r) \/ Refused(r)

ImportNext ==
    \/ \E kind \in Kinds : ChangeMode(TabOf(kind)) \/ \E s \in Sources : Prepare(kind, s)
    \/ Propose \/ Apply \/ LeaveImport
    \/ \E r \in requests : Answered(r) \/ RequestFails(r)

ImportSpec == ImportInit /\ [][ImportNext]_importVars

\* Requests are answered, or fail.
FairImport == ImportSpec /\ WF_importVars(\E r \in requests : Answered(r))
------------------------------------------------------------------------------
ImportTypeOK ==
    /\ tab \in {TabOf(kind) : kind \in Kinds}
    /\ {path, preview, plan} \subseteq Sources \cup {None}
    /\ busy => Workbench

\* However answers, proposals and changes of the tab overtake each other, the
\* plan shown names fields of the preview shown, and a source is converted by
\* the plan that was shown for it.  The older page keeps to that only as long
\* as its requests do not overlap and each upload gets its preview.
PlansFit ==
    /\ ImportTypeOK
    /\ plan # None => Fields[plan] \subseteq Fields[preview]
    /\ \A c \in converted : c.source = c.plan \/ (Legacy /\ ~c.orderly)

\* Whatever fails, the workbench lets the user try again.
BusyEnds == busy ~> ~busy
==============================================================================
