--------------------------- MODULE ReviewRecords ---------------------------
(***************************************************************************)
(* The review loop: saved reports, judgements on answers (human feedback), *)
(* the active-learning queue with its workflow states, and e-mail digests. *)
(*                                                                         *)
(* Each record is one JSON file, written in place (write_text truncates it *)
(* first).  No lock is taken: handlers of the API's thread pool and CLI    *)
(* processes interleave between the files they read and write, and a       *)
(* process may die between truncating a file and filling it.               *)
(*                                                                         *)
(* Identifiers are numbered in the order of created_at.  A call that is    *)
(* refused before it reads or writes anything changes nothing and is not a *)
(* step.  Listing a directory is one step.  What a queue or a digest holds *)
(* is a set: the order it is shown in is left out.                         *)
(***************************************************************************)
EXTENDS Integers, FiniteSets

CONSTANTS
  Processes,    \* handler threads of the API and CLI processes
  Cli,          \* the CLI processes among them
  Tenants,      \* tenant identifiers
  Judgements,   \* what reviewers may say in their records, in order: sequences
                \* of a rating, the answer's confidence, whether there is a comment
  Patches,      \* the fields a workflow update may set
  Assignees,    \* who a workflow state may be assigned to
  MaxFeedback,  \* bound on feedback records
  MaxReports,   \* bound on reports
  MaxItems,     \* max_items of a queue
  MaxDigest,    \* max_reports of a digest
  MaxCalls,     \* bound on calls
  None,
  Missing,      \* there is no such file
  Torn          \* a file that was truncated and not filled yet

ASSUME CallersAssumption == Cli \subseteq Processes /\ None \notin Tenants
\* The request schemas and build_active_learning_queue bound a digest and a queue
\* from below, too.
ASSUME BoundsAssumption ==
  /\ {MaxFeedback, MaxReports, MaxItems, MaxDigest, MaxCalls} \subseteq Nat
  /\ MaxItems >= 1 /\ MaxDigest >= 1

VARIABLES
  reports,   \* reports[r]: Missing, Torn, or the tenant of the report
  feedback,  \* feedback[f]: Missing, Torn, or the tenant of the judgement
  judgement, \* judgement[f]: what the reviewer says in record f
  states,    \* states[f]: Missing, Torn, or the workflow state; of Unknown, too
  calls,     \* calls[p]: the call process p works on, or its answer
  started,   \* the number of calls so far (bound)
  ledger,    \* history: every patch written so far, one on top of the other
  raced      \* history: the records two updates of which overlapped

vars == <<reports, feedback, judgement, states, calls, started, ledger, raced>>
history == <<ledger, raced>>

NoFile == {Missing, Torn}
Feedback == 1..MaxFeedback
Reports == 1..MaxReports
Unknown == 0                  \* a well-formed identifier of no record
Threshold == 650              \* low_confidence_threshold, in thousandths

\* A judgement has a rating, the answer's confidence, and perhaps a comment.
JudgementRecords == [useful : BOOLEAN, confidence : 0..1000, comment : BOOLEAN]

ASSUME JudgementsAssumption ==
  Judgements \subseteq [Feedback -> JudgementRecords]

\* ActiveLearningState: the fields a reviewer sets, and a new state.  (The notes are
\* set and kept as the assignee is, and left out.)
Fields == {"status", "assignee"}
Statuses == {"open", "assigned", "in_progress", "resolved", "dismissed"}
WorkflowStates == {state \in [Fields -> Statuses \cup Assignees \cup {None}] :
                     /\ state["status"] \in Statuses
                     /\ state["assignee"] \in Assignees \cup {None}}
Fresh == [field \in Fields |-> IF field = "status" THEN "open" ELSE None]

\* A patch sets some of the fields, to values they may have.
ASSUME PatchesAssumption ==
  \A patch \in Patches :
    /\ DOMAIN patch \subseteq Fields
    /\ "status" \in DOMAIN patch => patch["status"] \in Statuses
    /\ "assignee" \in DOMAIN patch => patch["assignee"] \in Assignees \cup {None}

\* A file that is missing or cut off holds no record.
ASSUME NoFileAssumption ==
  Missing # Torn /\ NoFile \cap (Tenants \cup WorkflowStates) = {}

-----------------------------------------------------------------------------
(* Access.  A principal is its tenant binding; None is global.             *)

\* Mutant: a bound key may name any tenant.
PermitsAll(principal, tenant) == TRUE

\* ApiPrincipal.permits_tenant.
Permits(principal, tenant) == principal \in {None, tenant}

\* _tenant_scope of a permitted request.
Scope(principal, requested) == IF principal # None THEN principal ELSE requested

MayAsk(principal, requested) == requested # None => Permits(principal, requested)

\* JsonHumanFeedbackStore.list and JsonInsightReportStore.list: every file of
\* the directory is parsed, so one torn file fails the list.
Listable(files) == \A i \in DOMAIN files : files[i] # Torn

\* Mutant: a list is not filtered by tenant.
ListedAll(tenant) == {f \in Feedback : feedback[f] \notin NoFile}

Listed(tenant) ==
  {f \in Feedback : feedback[f] \notin NoFile /\ (tenant # None => feedback[f] = tenant)}

ListedReports(tenant) ==
  {r \in Reports : reports[r] \notin NoFile /\ (tenant # None => reports[r] = tenant)}

-----------------------------------------------------------------------------
(* The active-learning queue.                                              *)

\* Why an answer is revisited: it was not useful, or hardly confident.
IsCandidate(j) == ~j.useful \/ j.confidence <= Threshold

\* Mutant: the confidence counts instead of what it lacks.
PriorityByConfidence(j) == (IF j.useful THEN 0 ELSE 1000) + j.confidence

\* priority_score, in thousandths.
Priority(j) ==
  (IF j.useful THEN 0 ELSE 1000)
    + (IF j.confidence < Threshold THEN Threshold - j.confidence ELSE 0)
    + (IF j.comment THEN 100 ELSE 0)

\* The answers to revisit among the listed ones, and their ranking by
\* (priority, created_at, id), the best first.
Candidates(listed) == {f \in listed : IsCandidate(judgement[f])}

Before(f, g) ==
  \/ Priority(judgement[f]) > Priority(judgement[g])
  \/ Priority(judgement[f]) = Priority(judgement[g]) /\ f > g

Ahead(listed, g) == {f \in Candidates(listed) : Before(f, g)}

\* build_active_learning_queue over the listed records: the candidates, of which
\* the first max_items in the ranking are shown.
Queue(listed) ==
  [total |-> Cardinality(Candidates(listed)),
   items |-> {g \in Candidates(listed) : Cardinality(Ahead(listed, g)) < MaxItems}]

\* apply_active_learning_states: an item without a state is open.
Overlay(items) == [f \in items |-> IF states[f] = Missing THEN Fresh ELSE states[f]]

-----------------------------------------------------------------------------
(* Analytics.                                                              *)

\* _stats_for_group; the rate is 0 of no records.
Stats(records) ==
  LET useful == {f \in records : judgement[f].useful}
  IN  [total |-> Cardinality(records), useful |-> Cardinality(useful),
       not_useful |-> Cardinality(records \ useful)]

\* summarise_human_feedback: over all listed records, and for each tenant of them.
Analytics(listed) ==
  [all |-> Stats(listed),
   with_comments |-> Cardinality({f \in listed : judgement[f].comment}),
   by_tenant |-> [t \in {feedback[f] : f \in listed} |->
                    Stats({f \in listed : feedback[f] = t})]]

-----------------------------------------------------------------------------
(* Workflow updates.                                                       *)

\* The fields of a patch, on top of a state.
Over(patch, state) ==
  [field \in Fields |-> IF field \in DOMAIN patch THEN patch[field] ELSE state[field]]

\* Mutant: fields the request does not name are reset.
PatchedWhole(state, patch) == Over(patch, Fresh)

\* _apply_state_update: only the fields of model_fields_set change.
Patched(state, patch) == Over(patch, IF state = Missing THEN Fresh ELSE state)

-----------------------------------------------------------------------------
\* What a process remembers of its call, field by field; a call leaves the fields
\* it has no use for as they are here.
Idle ==
  [op |-> "none", at |-> "idle", principal |-> None, tenant |-> None, link |-> None,
   id |-> Unknown, patch |-> None, updated |-> None, list |-> "none", ids |-> {},
   code |-> 0, shows |-> {}, sent |-> {}]

\* The stores hold whatever earlier calls left.
Init ==
  /\ \E kept \in 0..MaxReports : \E tenants \in [1..kept -> Tenants] :
       reports = [r \in Reports |-> IF r <= kept THEN tenants[r] ELSE Missing]
  /\ \E kept \in 0..MaxFeedback :
       \E tenants \in [1..kept -> Tenants] :
         feedback = [f \in Feedback |-> IF f <= kept THEN tenants[f] ELSE Missing]
  /\ judgement \in Judgements
  /\ states = [f \in Feedback \cup {Unknown} |-> Missing]
  /\ calls = [p \in Processes |-> Idle]
  /\ started = 0
  /\ ledger = [f \in DOMAIN states |-> Fresh]
  /\ raced = {}

\* Who calls the API, and for which tenant: the key's, or one that is named.
Principals == Tenants \cup {None}

\* A call op of a principal about a tenant's records, at its first step.
Ask(op, at, principal, tenant) ==
  [Idle EXCEPT !.op = op, !.at = at, !.principal = principal, !.tenant = tenant]

\* A process that is idle or has answered takes its next call.
Begin(p, call) ==
  /\ calls[p].at \in {"idle", "answered"}
  /\ started < MaxCalls
  /\ started' = started + 1
  /\ calls' = [calls EXCEPT ![p] = call]
  /\ UNCHANGED <<reports, feedback, judgement, states, history>>

Go(p, call) == calls' = [calls EXCEPT ![p] = call]

Answer(p, code, shows) ==
  Go(p, [Idle EXCEPT !.op = calls[p].op, !.at = "answered",
                     !.principal = calls[p].principal, !.code = code, !.shows = shows])

Refuse(p, code) == Answer(p, code, {})

-----------------------------------------------------------------------------
(* Records that are written once.                                          *)

\* POST /reports.  A global caller that names no tenant gets the schema's,
\* "default", a tenant like any other.
SaveReport(p) ==
  \E principal \in Principals, requested \in Tenants :
    /\ p \notin Cli /\ MayAsk(principal, requested)
    /\ Begin(p, Ask("report", "create", principal, Scope(principal, requested)))

\* The command "reports save".
ReportsSave(p) ==
  \E tenant \in Tenants :
    /\ p \in Cli
    /\ Begin(p, Ask("report", "create", None, tenant))

\* POST /answer-feedback.  A bound key that links a report reads that report first.
SubmitFeedback(p) ==
  \E principal \in Principals, requested \in Tenants, link \in Reports \cup {None} :
    LET at == IF principal # None /\ link # None THEN "check_link" ELSE "create"
    IN  /\ p \notin Cli /\ MayAsk(principal, requested)
        /\ Begin(p, [Ask("submit", at, principal, Scope(principal, requested))
                       EXCEPT !.link = link])

\* The command "answer-feedback submit", which checks no link.
FeedbackSubmit(p) ==
  \E tenant \in Tenants :
    /\ p \in Cli
    /\ Begin(p, Ask("submit", "create", None, tenant))

\* GET /reports/{id} and its Markdown export.
GetReport(p) ==
  \E principal \in Principals, r \in Reports :
    /\ p \notin Cli
    /\ Begin(p, [Ask("show", "check_link", principal, None) EXCEPT !.link = r])

\* The commands "reports get" and "reports export".
ReportsGet(p) ==
  \E r \in Reports :
    p \in Cli /\ Begin(p, [Ask("show", "check_link", None, None) EXCEPT !.link = r])

\* caller_report.
CheckLink(p) ==
  LET call == calls[p]
      report == reports[call.link]
  IN  /\ call.at = "check_link"
      /\ \/ report = Torn /\ Refuse(p, 400)
         \/ report = Missing /\ Refuse(p, 404)
         \/ report \notin NoFile /\ ~Permits(call.principal, report) /\ Refuse(p, 404)
         \/ /\ report \notin NoFile /\ Permits(call.principal, report)
            /\ IF call.op = "show" THEN Answer(p, 200, {report})
               ELSE Go(p, [call EXCEPT !.at = "create"])
      /\ UNCHANGED <<reports, feedback, judgement, states, started, history>>

\* save: a fresh identifier, and write_text has truncated the file.
Create(p) ==
  LET call == calls[p]
      store == IF call.op = "report" THEN reports ELSE feedback
  IN  /\ call.at = "create"
      /\ \E id \in DOMAIN store :
           /\ store[id] = Missing /\ (id > 1 => store[id - 1] # Missing)
           /\ Go(p, [call EXCEPT !.at = "fill", !.id = id])
           /\ IF call.op = "report"
              THEN reports' = [reports EXCEPT ![id] = Torn] /\ UNCHANGED feedback
              ELSE feedback' = [feedback EXCEPT ![id] = Torn] /\ UNCHANGED reports
      /\ UNCHANGED <<judgement, states, started, history>>

\* save: the record is in its file, and the call answers 201.
Fill(p) ==
  LET call == calls[p]
  IN  /\ call.at = "fill" /\ call.op \in {"report", "submit"}
      /\ IF call.op = "report"
         THEN reports' = [reports EXCEPT ![call.id] = call.tenant] /\ UNCHANGED feedback
         ELSE feedback' = [feedback EXCEPT ![call.id] = call.tenant] /\ UNCHANGED reports
      /\ Answer(p, 201, {call.tenant})
      /\ UNCHANGED <<judgement, states, started, history>>

-----------------------------------------------------------------------------
(* Workflow states.                                                        *)

Targets == {f \in Feedback : feedback[f] # Missing} \cup {Unknown}

\* PATCH /answer-feedback/active-learning/{id}.
PatchState(p) ==
  \E principal \in Principals, f \in Targets, patch \in Patches :
    /\ p \notin Cli
    /\ Begin(p, [Ask("update", "check_feedback", principal, None)
                   EXCEPT !.id = f, !.patch = patch])

\* The command "active-learning-update" does not look at the feedback.
StateUpdate(p) ==
  \E f \in Targets, patch \in Patches :
    /\ p \in Cli
    /\ Begin(p, [Ask("update", "read", None, None) EXCEPT !.id = f, !.patch = patch])

\* GET /answer-feedback/active-learning/{id}: only a bound key's is checked.
GetState(p) ==
  \E principal \in Principals, f \in Targets :
    LET at == IF principal = None THEN "read" ELSE "check_feedback"
    IN  p \notin Cli /\ Begin(p, [Ask("get", at, principal, None) EXCEPT !.id = f])

\* GET /answer-feedback/{id}, and the command "answer-feedback get".
GetFeedback(p) ==
  \E principal \in Principals, f \in Targets :
    /\ p \in Cli => principal = None
    /\ Begin(p, [Ask("feedback", "check_feedback", principal, None) EXCEPT !.id = f])

\* caller_feedback.
CheckFeedback(p) ==
  LET call == calls[p]
      record == IF call.id = Unknown THEN Missing ELSE feedback[call.id]
  IN  /\ call.at = "check_feedback"
      /\ \/ record = Torn /\ Refuse(p, 400)
         \/ record = Missing /\ Refuse(p, 404)
         \/ record \notin NoFile /\ ~Permits(call.principal, record) /\ Refuse(p, 404)
         \/ /\ record \notin NoFile /\ Permits(call.principal, record)
            /\ IF call.op = "feedback" THEN Answer(p, 200, {record})
               ELSE Go(p, [call EXCEPT !.at = "read"])
      /\ UNCHANGED <<reports, feedback, judgement, states, started, history>>

\* The tenants an answer about the records fs shows; Unknown belongs to nobody.
TenantsOf(fs) == {IF f = Unknown THEN None ELSE feedback[f] : f \in fs}

\* Between reading a state and writing it back.
Updating(p, f) ==
  calls[p].op = "update" /\ calls[p].at \in {"write", "fill"} /\ calls[p].id = f

\* JsonActiveLearningStateStore.get, by itself or at the start of update.
ReadState(p) ==
  LET call == calls[p]
      state == states[call.id]
      others == {q \in Processes \ {p} : Updating(q, call.id)}
  IN  /\ call.at = "read"
      /\ \/ state = Torn /\ Refuse(p, 400) /\ UNCHANGED raced
         \/ state = Missing /\ call.op = "get" /\ Refuse(p, 404) /\ UNCHANGED raced
         \/ /\ state \notin NoFile /\ call.op = "get"
            /\ Answer(p, 200, TenantsOf({call.id})) /\ UNCHANGED raced
         \/ /\ state # Torn /\ call.op = "update"
            /\ Go(p, [call EXCEPT !.at = "write", !.updated = Patched(state, call.patch)])
            /\ raced' = IF others # {} THEN raced \cup {call.id} ELSE raced
      /\ UNCHANGED <<reports, feedback, judgement, states, started, ledger>>

\* update: write_text truncates the file ...
TruncateState(p) ==
  /\ calls[p].at = "write"
  /\ states' = [states EXCEPT ![calls[p].id] = Torn]
  /\ Go(p, [calls[p] EXCEPT !.at = "fill"])
  /\ UNCHANGED <<reports, feedback, judgement, started, history>>

\* ... and fills it.
FillState(p) ==
  LET call == calls[p]
  IN  /\ call.at = "fill" /\ call.op = "update"
      /\ states' = [states EXCEPT ![call.id] = call.updated]
      /\ ledger' = [ledger EXCEPT ![call.id] = Over(call.patch, @)]
      /\ Answer(p, 200, IF p \in Cli THEN {} ELSE TenantsOf({call.id}))
      /\ UNCHANGED <<reports, feedback, judgement, started, raced>>

-----------------------------------------------------------------------------
(* Lists of one store.                                                     *)

\* GET /reports, /answer-feedback and /answer-feedback/analytics.
GetList(p) ==
  \E principal \in Principals, requested \in Tenants \cup {None},
     list \in {"reports", "feedback", "analytics"} :
    /\ p \notin Cli /\ MayAsk(principal, requested)
    /\ Begin(p, [Ask("list", "list", principal, Scope(principal, requested)) EXCEPT !.list = list])

\* The commands "reports list", "answer-feedback list" and "analytics".
ListCommand(p) ==
  \E tenant \in Tenants \cup {None}, list \in {"reports", "feedback", "analytics"} :
    p \in Cli /\ Begin(p, [Ask("list", "list", None, tenant) EXCEPT !.list = list])

ShowList(p) ==
  LET call == calls[p]
      records == Listed(call.tenant)
      store == IF call.list = "reports" THEN reports ELSE feedback
      shown == [reports |-> {reports[r] : r \in ListedReports(call.tenant)},
                feedback |-> TenantsOf(records),
                analytics |-> DOMAIN Analytics(records).by_tenant]
  IN  /\ call.at = "list"
      /\ IF Listable(store) THEN Answer(p, 200, shown[call.list]) ELSE Refuse(p, 500)
      /\ UNCHANGED <<reports, feedback, judgement, states, started, history>>

-----------------------------------------------------------------------------
(* Lists that combine two stores.                                          *)

\* GET /answer-feedback/active-learning.
GetQueue(p) ==
  \E principal \in Principals, requested \in Tenants \cup {None} :
    /\ p \notin Cli /\ MayAsk(principal, requested)
    /\ Begin(p, Ask("queue", "rank", principal, Scope(principal, requested)))

\* The command "answer-feedback active-learning".
QueueCommand(p) ==
  \E tenant \in Tenants \cup {None} :
    /\ p \in Cli
    /\ Begin(p, Ask("queue", "rank", None, tenant))

RankQueue(p) ==
  /\ calls[p].at = "rank"
  /\ IF Listable(feedback)
     THEN Go(p, [calls[p] EXCEPT !.at = "overlay",
                                !.ids = Queue(Listed(calls[p].tenant)).items])
     ELSE Refuse(p, 400)
  /\ UNCHANGED <<reports, feedback, judgement, states, started, history>>

OverlayStates(p) ==
  /\ calls[p].at = "overlay"
  /\ IF Listable(states)
     THEN Answer(p, 200, TenantsOf(DOMAIN Overlay(calls[p].ids)))
     ELSE Refuse(p, 400)
  /\ UNCHANGED <<reports, feedback, judgement, states, started, history>>

\* GET /answer-feedback/active-learning/states, and the command
\* "answer-feedback active-learning-states": the states are listed first.
GetStates(p) ==
  \E principal \in Principals :
    /\ p \in Cli => principal = None
    /\ Begin(p, Ask("states", "states", principal, None))

ListStates(p) ==
  LET call == calls[p]
      found == {f \in DOMAIN states : states[f] # Missing}
  IN  /\ call.at = "states"
      /\ \/ ~Listable(states) /\ Refuse(p, 500)
         \/ Listable(states) /\ call.principal = None /\ Answer(p, 200, TenantsOf({}))
         \/ /\ Listable(states) /\ call.principal # None
            /\ Go(p, [call EXCEPT !.at = "visible", !.ids = found])
      /\ UNCHANGED <<reports, feedback, judgement, states, started, history>>

KeepVisible(p) ==
  LET call == calls[p]
  IN  /\ call.at = "visible"
      /\ IF Listable(feedback)
         THEN Answer(p, 200, TenantsOf(call.ids \cap Listed(call.principal)))
         ELSE Refuse(p, 500)
      /\ UNCHANGED <<reports, feedback, judgement, states, started, history>>

-----------------------------------------------------------------------------
(* E-mail digests.                                                         *)

\* The reports a digest is asked for by identifier; none for the latest.  What a
\* request names after its first max_reports is ignored, unknown or not.
Selections == {named \in SUBSET Reports : Cardinality(named) <= MaxDigest}

\* POST /reports/email-summary, sending.
EmailSummary(p) ==
  \E principal \in Principals, requested \in Tenants \cup {None}, named \in Selections :
    LET at == IF named = {} THEN "latest" ELSE "resolve"
    IN  /\ p \notin Cli /\ MayAsk(principal, requested)
        /\ Begin(p, [Ask("digest", at, principal, Scope(principal, requested))
                       EXCEPT !.ids = named])

\* The command "reports email-summary --send".  It exits with 1 for a report that
\* was not found and with 2 where the API answers 400.
EmailSummaryCommand(p) ==
  \E tenant \in Tenants \cup {None}, named \in Selections :
    LET at == IF named = {} THEN "latest" ELSE "resolve"
    IN  p \in Cli /\ Begin(p, [Ask("digest", at, None, tenant) EXCEPT !.ids = named])

\* The first max_reports of a list, the newest first.
Newest(listed) == {r \in listed : Cardinality({s \in listed : s > r}) < MaxDigest}

\* select_reports_for_summary without identifiers: the newest of the list.
PickLatest(p) ==
  LET newest == Newest(ListedReports(calls[p].tenant))
  IN  /\ calls[p].at = "latest"
      /\ IF Listable(reports) /\ newest # {}
         THEN Go(p, [calls[p] EXCEPT !.at = "resolve", !.ids = newest])
         ELSE Refuse(p, 400)
      /\ UNCHANGED <<reports, feedback, judgement, states, started, history>>

FoundIn(r, tenant) == reports[r] # Missing /\ (tenant # None => reports[r] = tenant)

\* select_reports_for_summary: each report is read, and must be of the tenant.
Resolve(p) ==
  LET call == calls[p]
      torn == \E r \in call.ids : reports[r] = Torn
      found == \A r \in call.ids : FoundIn(r, call.tenant)
  IN  /\ call.at = "resolve"
      /\ \/ torn /\ Refuse(p, 400)
         \/ ~torn /\ ~found /\ Refuse(p, 404)
         \/ ~torn /\ found /\ Go(p, [call EXCEPT !.at = "deliver"])
      /\ UNCHANGED <<reports, feedback, judgement, states, started, history>>

\* Mutant: a connection that fails is reported as a delivery.
HopefulOutcomes(digest) == {[code |-> 200, sent |-> digest], [code |-> 200, sent |-> {}]}

\* deliver_email_summary: without a host nothing is sent; the server may take the
\* message, or refuse it, or take it and the connection then fails.
Outcomes(digest) ==
  {[code |-> 200, sent |-> digest], [code |-> 400, sent |-> {}],
   [code |-> 500, sent |-> {}], [code |-> 500, sent |-> digest]}

Deliver(p) ==
  LET call == calls[p]
  IN  /\ call.at = "deliver"
      /\ \E outcome \in Outcomes(call.ids) :
           Go(p, [Idle EXCEPT !.op = "digest", !.at = "answered",
                              !.principal = call.principal, !.code = outcome.code,
                              !.ids = call.ids, !.sent = outcome.sent,
                              !.shows = {reports[r] : r \in outcome.sent}])
      /\ UNCHANGED <<reports, feedback, judgement, states, started, history>>

-----------------------------------------------------------------------------
\* A process dies while it writes: what it had truncated stays torn.  (One that
\* dies anywhere else leaves nothing behind.)
Crash(p) ==
  /\ calls[p].at = "fill"
  /\ Go(p, Idle)
  /\ UNCHANGED <<reports, feedback, judgement, states, started, history>>

Step(p) ==
  \/ CheckLink(p) \/ Create(p) \/ Fill(p)
  \/ CheckFeedback(p) \/ ReadState(p) \/ TruncateState(p) \/ FillState(p)
  \/ ShowList(p) \/ RankQueue(p) \/ OverlayStates(p) \/ ListStates(p) \/ KeepVisible(p)
  \/ PickLatest(p) \/ Resolve(p) \/ Deliver(p)

Next ==
  \E p \in Processes :
    \/ SaveReport(p) \/ ReportsSave(p) \/ SubmitFeedback(p) \/ FeedbackSubmit(p)
    \/ GetReport(p) \/ ReportsGet(p) \/ GetFeedback(p) \/ GetList(p) \/ ListCommand(p)
    \/ PatchState(p) \/ StateUpdate(p) \/ GetState(p)
    \/ GetQueue(p) \/ QueueCommand(p) \/ GetStates(p)
    \/ EmailSummary(p) \/ EmailSummaryCommand(p)
    \/ Step(p) \/ Crash(p)

Spec == Init /\ [][Next]_vars

-----------------------------------------------------------------------------
(* Properties.                                                             *)

\* What a process may remember of its call.
Ops == {"none", "report", "submit", "show", "update", "get", "feedback", "list", "queue",
        "states", "digest"}
Places == {"idle", "create", "check_link", "check_feedback", "fill", "read", "write",
           "list", "rank", "overlay", "states", "visible", "latest", "resolve", "deliver",
           "answered"}
Call ==
  [op : Ops, at : Places,
   principal : Principals, tenant : Principals, link : Reports \cup {None},
   id : Nat, patch : Patches \cup {None}, updated : WorkflowStates \cup {None},
   list : {"none", "reports", "feedback", "analytics"}, ids : SUBSET Nat, code : Nat,
   shows : SUBSET (Principals \cup NoFile), sent : SUBSET Nat]

\* Every file holds nothing, a cut-off write, or a record of its store.
TypeOK ==
  /\ reports \in [Reports -> NoFile \cup Tenants]
  /\ feedback \in [Feedback -> NoFile \cup Tenants]
  /\ judgement \in Judgements
  /\ states \in [Feedback \cup {Unknown} -> NoFile \cup WorkflowStates]
  /\ calls \in [Processes -> Call]
  /\ started \in 0..MaxCalls
  /\ ledger \in [Feedback \cup {Unknown} -> WorkflowStates]
  /\ raced \subseteq Feedback \cup {Unknown}

Answered(p) == calls[p].at = "answered"

\* A tenant-bound key is shown, and mails, records of its own tenant only: also
\* where an answer joins two stores that were read one after the other.
TenantsStayApart ==
  \A p \in Processes : Answered(p) /\ calls[p].principal # None =>
    calls[p].shows \subseteq {calls[p].principal}

\* A judgement that a bound key links to a report is of the report's tenant.
LinksStayInTenant ==
  \A p \in Processes :
    calls[p].op = "submit" /\ calls[p].at = "fill" /\ calls[p].principal # None
      /\ calls[p].link # None
    => reports[calls[p].link] = calls[p].tenant

\* A field that an update set keeps its value until an update sets it again: a
\* patch is lost only when two updates of the record overlapped.
PatchIsKept ==
  \A f \in DOMAIN states :
    states[f] \notin NoFile /\ f \notin raced => states[f] = ledger[f]

\* A digest that was refused was not sent; one that was reported sent holds each
\* of the reports it names.
RefusedDigestIsNotSent ==
  \A p \in Processes : calls[p].op = "digest" /\ Answered(p) =>
    /\ calls[p].code \in {400, 404} => calls[p].shows = {}
    /\ calls[p].code = 200 => calls[p].sent = calls[p].ids /\ calls[p].sent # {}

\* Why the judgement of an answer is urgent, in the words of the queue's reader:
\* rejected answers first, then the ones that lack most confidence.
MoreUrgent(j, k) ==
  \/ ~j.useful /\ k.useful /\ j.comment = k.comment /\ j.confidence <= k.confidence
  \/ j.useful = k.useful /\ j.comment /\ ~k.comment /\ j.confidence = k.confidence
  \/ j.useful = k.useful /\ j.comment = k.comment /\ j.confidence < k.confidence
       /\ j.confidence < Threshold

\* The cut keeps the most urgent: of the answers a tenant's reader is shown, none
\* that was left out is more urgent than one in the queue, and the total counts
\* the ones left out.
QueueKeepsTheMostUrgent ==
  \A tenant \in Tenants \cup {None} :
    LET queue == Queue(Listed(tenant))
    IN  /\ \A f \in Listed(tenant) \ queue.items, g \in queue.items :
             ~MoreUrgent(judgement[f], judgement[g])
        /\ queue.total > Cardinality(queue.items) => Cardinality(queue.items) = MaxItems

-----------------------------------------------------------------------------
(* The inductive invariant.  Its first parts are about one call c and the  *)
(* stores of reports rs and of feedback fs.                                *)

\* Which call may be at which place, with what it needs there.
Fits(c) ==
  /\ c.at = "check_link" => c.op \in {"show", "submit"} /\ c.link \in Reports
  /\ c.at = "create" => c.op \in {"report", "submit"}
  /\ c.at # "answered" /\ c.op \in {"report", "submit"} => c.tenant \in Tenants
  /\ c.at = "check_feedback" => c.op \in {"update", "get", "feedback"}
  /\ c.at = "read" => c.op \in {"update", "get"}
  /\ c.at = "write" => c.op = "update"
  /\ c.at = "fill" =>
       \/ c.op = "report" /\ c.id \in Reports
       \/ c.op = "submit" /\ c.id \in Feedback
       \/ c.op = "update"
  /\ c.op \in {"update", "get", "feedback"} => c.id \in Feedback \cup {Unknown}
  /\ c.at # "answered" /\ c.op = "update" => c.patch \in Patches
  /\ c.at \in {"write", "fill"} /\ c.op = "update" => c.updated \in WorkflowStates
  /\ c.at = "list" => c.op = "list" /\ c.list # "none"
  /\ c.at \in {"rank", "overlay"} => c.op = "queue"
  /\ c.at = "overlay" => c.ids \subseteq Feedback
  /\ c.at = "states" => c.op = "states"
  /\ c.at = "visible" => c.op = "states" /\ c.principal # None
  /\ c.at \in {"latest", "resolve", "deliver"} => c.op = "digest"
  /\ c.at \in {"resolve", "deliver"} => c.ids \subseteq Reports /\ c.ids # {}

\* The tenant and the records that the call of a bound key works on are the key's.
InTenant(c, rs, fs) ==
  c.principal # None =>
    /\ c.at \in {"create", "list", "rank", "latest", "resolve"} => c.tenant = c.principal
    /\ c.at \in {"check_link", "fill"} /\ c.op \in {"report", "submit"} =>
         c.tenant = c.principal
    /\ c.at \in {"read", "write", "fill"} /\ c.op \in {"update", "get"} =>
         c.id \in Feedback /\ fs[c.id] = c.principal
    /\ c.at = "overlay" => \A f \in c.ids : fs[f] = c.principal
    /\ c.at = "deliver" => \A r \in c.ids : rs[r] = c.principal
    /\ c.at = "answered" => c.shows \subseteq {c.principal}

\* A link was checked before its judgement is written.
LinkIsChecked(c, rs) ==
  c.op = "submit" /\ c.at \in {"create", "fill"} /\ c.principal # None /\ c.link # None
  => rs[c.link] = c.tenant

\* What the answer to a digest tells of the message.
DigestIsTold(c) ==
  c.op = "digest" /\ c.at = "answered" =>
    /\ c.code \in {400, 404} => c.shows = {}
    /\ c.code = 200 => c.sent = c.ids /\ c.sent # {}

CallsAreSound ==
  \A p \in Processes :
    /\ Fits(calls[p]) /\ InTenant(calls[p], reports, feedback)
    /\ LinkIsChecked(calls[p], reports) /\ DigestIsTold(calls[p])

\* Process p has truncated a file of the store that its call op adds to.
Adding(p, op) == calls[p].at = "fill" /\ calls[p].op = op

\* A record is added by one process, and nobody touches it before it is filled.
AddersApart ==
  /\ \A p \in Processes :
       /\ Adding(p, "report") => reports[calls[p].id] = Torn
       /\ Adding(p, "submit") => feedback[calls[p].id] = Torn
  /\ \A p, q \in Processes : \A op \in {"report", "submit"} :
       p # q /\ Adding(p, op) /\ Adding(q, op) => calls[p].id # calls[q].id

\* Two updates between their read and their write have raced; the one that has not
\* raced is about to write its patch on top of all earlier ones.
RacesAreKnown ==
  /\ \A f \in Feedback \cup {Unknown} : states[f] = Missing => ledger[f] = Fresh
  /\ \A p \in Processes, f \in Feedback \cup {Unknown} :
       Updating(p, f) /\ f \notin raced =>
         calls[p].updated = Over(calls[p].patch, ledger[f])
  /\ \A p, q \in Processes, f \in Feedback \cup {Unknown} :
       p # q /\ Updating(p, f) /\ Updating(q, f) => f \in raced

ReviewInv == TypeOK /\ CallsAreSound /\ AddersApart /\ RacesAreKnown /\ PatchIsKept
=============================================================================
