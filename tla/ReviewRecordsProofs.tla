------------------------ MODULE ReviewRecordsProofs ------------------------
(***************************************************************************)
(* For every number of processes, tenants and records: what a tenant-bound *)
(* key is shown, mailed and linked to is its tenant's; a reviewer's field  *)
(* survives every update that does not overlap with its own; and the queue *)
(* cuts off the least urgent.                                              *)
(***************************************************************************)
EXTENDS ReviewRecords, FiniteSetTheorems, TLAPS

\* What makes the call c sound, with the stores as they are.
Sound(c) ==
  Fits(c) /\ InTenant(c, reports, feedback) /\ LinkIsChecked(c, reports) /\ DigestIsTold(c)

\* A record that is in its file stays there.
Kept(xs, ys) == \A i \in DOMAIN xs : xs[i] \in Tenants => ys[i] = xs[i]

-----------------------------------------------------------------------------
(* Calls.                                                                  *)

\* A process that does nothing remembers nothing.
LEMMA IdleIsSound == Idle \in Call /\ Sound(Idle)
  BY DEF Idle, Call, Ops, Places, Sound, Fits, InTenant, LinkIsChecked, DigestIsTold,
         Principals, Unknown

\* What was true of a call stays true while records are added.
LEMMA CallsStaySound ==
  ASSUME NEW c \in Call, Fits(c),
         NEW rs \in [Reports -> NoFile \cup Tenants], NEW rs2, Kept(rs, rs2),
         NEW fs \in [Feedback -> NoFile \cup Tenants], NEW fs2, Kept(fs, fs2),
         InTenant(c, rs, fs), LinkIsChecked(c, rs)
  PROVE  InTenant(c, rs2, fs2) /\ LinkIsChecked(c, rs2)
  <1>1. CASE c.principal = None
    BY <1>1 DEF InTenant, LinkIsChecked
  <1>2. CASE c.principal # None
    <2>1. c.principal \in Tenants
      BY <1>2 DEF Call, Principals
    <2>2. InTenant(c, rs2, fs2)
      BY <1>2, <2>1 DEF InTenant, Kept, Fits
    <2>3. c.op = "submit" /\ c.at \in {"create", "fill"} => c.tenant = c.principal
      BY <1>2 DEF InTenant
    <2>4. c.link # None => c.link \in Reports
      BY DEF Call
    <2>5. LinkIsChecked(c, rs2)
      BY <1>2, <2>1, <2>3, <2>4 DEF LinkIsChecked, Kept
    <2> QED BY <2>2, <2>5
  <1> QED BY <1>1, <1>2

\* A step to a sound call that neither writes nor is about to write a file.
LEMMA QuietStep ==
  ASSUME ReviewInv, NEW p \in Processes, NEW c \in Call, Sound(c),
         calls' = [calls EXCEPT ![p] = c], c.at \notin {"fill", "write"},
         UNCHANGED <<reports, feedback, judgement, states, history>>,
         started' \in 0..MaxCalls
  PROVE  ReviewInv'
  <1>1. /\ \A q \in Processes : calls'[q] = IF q = p THEN c ELSE calls[q]
        /\ calls' \in [Processes -> Call]
    BY DEF ReviewInv, TypeOK
  <1>2. TypeOK'
    BY <1>1 DEF ReviewInv, TypeOK, history
  <1>3. CallsAreSound'
    BY <1>1 DEF ReviewInv, CallsAreSound, Sound
  <1>4. AddersApart'
    BY <1>1 DEF ReviewInv, AddersApart, Adding
  <1>5. RacesAreKnown' /\ PatchIsKept'
    BY <1>1 DEF ReviewInv, RacesAreKnown, Updating, PatchIsKept, history
  <1> QED BY <1>2, <1>3, <1>4, <1>5 DEF ReviewInv

\* An answered call is a call.
LEMMA AnsweredIsCall ==
  ASSUME NEW op \in Ops, NEW at \in Places, NEW principal \in Principals, NEW code \in Nat,
         NEW shows \in SUBSET (Principals \cup NoFile)
  PROVE  [Idle EXCEPT !.op = op, !.at = at, !.principal = principal,
                      !.code = code, !.shows = shows] \in Call
  <1>1. [Idle EXCEPT !.op = op, !.at = at] \in Call
    BY IdleIsSound DEF Call
  <1>2. \A c \in Call : [c EXCEPT !.principal = principal, !.code = code, !.shows = shows] \in Call
    BY DEF Call
  <1> QED BY <1>1, <1>2

\* An answer that shows a bound key only what is of the key's tenant is sound,
\* however the stores look by then.
LEMMA AnswerIsSound ==
  ASSUME NEW p \in Processes, calls[p] \in Call, NEW code \in Nat,
         NEW shows \in SUBSET (Principals \cup NoFile), Answer(p, code, shows),
         calls[p].principal # None => shows \subseteq {calls[p].principal},
         calls[p].op = "digest" => shows = {} /\ code # 200
  PROVE  \E c \in Call :
           /\ Go(p, c) /\ c.at = "answered" /\ c.op = calls[p].op
           /\ Fits(c) /\ DigestIsTold(c)
           /\ \A rs, fs : InTenant(c, rs, fs) /\ LinkIsChecked(c, rs)
  <1> DEFINE c == [Idle EXCEPT !.op = calls[p].op, !.at = "answered",
                     !.principal = calls[p].principal, !.code = code, !.shows = shows]
  <1>1. c \in Call
    <2>1. "answered" \in Places /\ calls[p].op \in Ops /\ calls[p].principal \in Principals
      BY DEF Call, Places
    <2> QED BY <2>1, AnsweredIsCall
  <1>2. /\ c.at = "answered" /\ c.op = calls[p].op /\ c.code = code /\ c.shows = shows
        /\ c.principal = calls[p].principal /\ c.id = Unknown
    BY DEF Idle
  <1>3. Go(p, c)
    BY DEF Answer
  <1> HIDE DEF c
  <1>4. Fits(c) /\ DigestIsTold(c)
    BY <1>2 DEF Fits, DigestIsTold
  <1>5. \A rs, fs : InTenant(c, rs, fs) /\ LinkIsChecked(c, rs)
    BY <1>2 DEF InTenant, LinkIsChecked
  <1> QED BY <1>1, <1>2, <1>3, <1>4, <1>5

\* An answer keeps the invariant if a bound key is shown its own tenant only.
LEMMA AnswerKeeps ==
  ASSUME ReviewInv, NEW p \in Processes, NEW code \in Nat,
         NEW shows \in SUBSET (Principals \cup NoFile), Answer(p, code, shows),
         calls[p].principal # None => shows \subseteq {calls[p].principal},
         calls[p].op = "digest" => shows = {} /\ code # 200,
         UNCHANGED <<reports, feedback, judgement, states, started, history>>
  PROVE  ReviewInv'
  <1>1. calls[p] \in Call /\ started' \in 0..MaxCalls
    BY DEF ReviewInv, TypeOK
  <1>2. PICK c \in Call :
          /\ Go(p, c) /\ c.at = "answered" /\ Fits(c) /\ DigestIsTold(c)
          /\ \A rs, fs : InTenant(c, rs, fs) /\ LinkIsChecked(c, rs)
    BY <1>1, AnswerIsSound
  <1>3. Sound(c)
    BY <1>2 DEF Sound
  <1> QED BY <1>1, <1>2, <1>3, QuietStep DEF Go

-----------------------------------------------------------------------------
(* Calls begin.                                                            *)

\* A permitted request of a bound key is about the key's tenant.
LEMMA ScopeIsOwn ==
  ASSUME NEW principal \in Principals, NEW requested \in Principals
  PROVE  /\ Scope(principal, requested) \in Principals
         /\ requested \in Tenants => Scope(principal, requested) \in Tenants
         /\ principal # None => Scope(principal, requested) = principal
  BY DEF Scope, Principals

\* A new call keeps the invariant: it holds no record yet.
LEMMA BeginKeeps ==
  ASSUME ReviewInv, NEW p \in Processes, NEW c \in Call, Sound(c),
         c.at \notin {"fill", "write"}, Begin(p, c)
  PROVE  ReviewInv'
  <1>1. started' \in 0..MaxCalls
    <2>1. started \in 0..MaxCalls
      BY DEF ReviewInv, TypeOK
    <2> QED BY <2>1, BoundsAssumption DEF Begin
  <1> QED BY <1>1, QuietStep DEF Begin

\* The first step of a call that names no record yet.
LEMMA AskIsCall ==
  ASSUME NEW op \in Ops, NEW at \in Places, NEW principal \in Principals,
         NEW tenant \in Principals
  PROVE  /\ Ask(op, at, principal, tenant) \in Call
         /\ Ask(op, at, principal, tenant).op = op
         /\ Ask(op, at, principal, tenant).at = at
         /\ Ask(op, at, principal, tenant).principal = principal
         /\ Ask(op, at, principal, tenant).tenant = tenant
         /\ Ask(op, at, principal, tenant).link = None
  <1>1. Ask(op, at, principal, tenant) \in Call
    BY IdleIsSound DEF Ask, Call
  <1> QED BY <1>1 DEF Ask, Idle

\* Calls that add or show one record.
LEMMA RecordCallsBegin ==
  ASSUME ReviewInv, NEW p \in Processes,
         \/ SaveReport(p) \/ ReportsSave(p) \/ SubmitFeedback(p) \/ FeedbackSubmit(p)
         \/ GetReport(p) \/ ReportsGet(p)
  PROVE  ReviewInv'
  <1>1. /\ {"report", "submit", "show"} \subseteq Ops
        /\ {"create", "check_link"} \subseteq Places
        /\ None \in Principals /\ Tenants \subseteq Principals
    BY DEF Ops, Places, Principals
  <1>2. ASSUME NEW op \in {"report", "submit"}, NEW principal \in Principals,
               NEW tenant \in Tenants, principal # None => tenant = principal,
               Begin(p, Ask(op, "create", principal, tenant))
        PROVE  ReviewInv'
    <2> DEFINE c == Ask(op, "create", principal, tenant)
    <2>1. c \in Call /\ c.op = op /\ c.at = "create"
          /\ c.principal = principal /\ c.tenant = tenant /\ c.link = None
      BY <1>1, AskIsCall
    <2> HIDE DEF c
    <2>2. Sound(c)
      BY <1>2, <2>1 DEF Sound, Fits, InTenant, LinkIsChecked, DigestIsTold
    <2> QED BY <1>2, <2>1, <2>2, BeginKeeps DEF c
  <1>3. ASSUME NEW op \in {"submit", "show"}, NEW at \in {"create", "check_link"},
               NEW principal \in Principals, NEW tenant \in Principals,
               op = "submit" =>
                 tenant \in Tenants /\ (principal # None => tenant = principal),
               NEW link \in Reports \cup {None},
               at = "create" => op = "submit" /\ (principal = None \/ link = None),
               at = "check_link" => link \in Reports,
               Begin(p, [Ask(op, at, principal, tenant) EXCEPT !.link = link])
        PROVE  ReviewInv'
    <2> DEFINE a == Ask(op, at, principal, tenant)
               c == [a EXCEPT !.link = link]
    <2>1. a \in Call /\ a.op = op /\ a.at = at
          /\ a.principal = principal /\ a.tenant = tenant
      BY <1>1, AskIsCall
    <2> HIDE DEF a
    <2>2. c \in Call /\ c.op = op /\ c.at = at /\ c.principal = principal
          /\ c.tenant = tenant /\ c.link = link
      BY <2>1 DEF Call
    <2> HIDE DEF c
    <2>3. Sound(c)
      BY <1>3, <2>2 DEF Sound, Fits, InTenant, LinkIsChecked, DigestIsTold
    <2>4. c.at \notin {"fill", "write"}
      BY <2>2
    <2> QED BY <1>3, <2>2, <2>3, <2>4, BeginKeeps DEF a, c
  <1>4. CASE SaveReport(p)
    BY <1>1, <1>2, <1>4, ScopeIsOwn DEF SaveReport
  <1>5. CASE ReportsSave(p)
    BY <1>1, <1>2, <1>5 DEF ReportsSave
  <1>6. CASE SubmitFeedback(p)
    BY <1>1, <1>3, <1>6, ScopeIsOwn DEF SubmitFeedback
  <1>7. CASE FeedbackSubmit(p)
    BY <1>1, <1>2, <1>7 DEF FeedbackSubmit
  <1>8. CASE GetReport(p)
    BY <1>1, <1>3, <1>8 DEF GetReport
  <1>9. CASE ReportsGet(p)
    BY <1>1, <1>3, <1>9 DEF ReportsGet
  <1> QED BY <1>4, <1>5, <1>6, <1>7, <1>8, <1>9

\* Calls that read or update a workflow state, or read its judgement.
LEMMA StateCallsBegin ==
  ASSUME ReviewInv, NEW p \in Processes,
         PatchState(p) \/ StateUpdate(p) \/ GetState(p) \/ GetFeedback(p)
  PROVE  ReviewInv'
  <1>1. /\ {"update", "get", "feedback"} \subseteq Ops
        /\ {"check_feedback", "read"} \subseteq Places
        /\ None \in Principals /\ Targets \subseteq Feedback \cup {Unknown}
        /\ Feedback \cup {Unknown} \subseteq Nat
    BY BoundsAssumption DEF Ops, Places, Principals, Targets, Feedback, Unknown
  <1>2. ASSUME NEW c \in Call, c.op \in {"update", "get", "feedback"},
               c.at \in {"check_feedback", "read"},
               c.at = "read" => c.principal = None /\ c.op # "feedback",
               c.id \in Targets, c.op = "update" => c.patch \in Patches, Begin(p, c)
        PROVE  ReviewInv'
    <2>1. Sound(c)
      BY <1>1, <1>2 DEF Sound, Fits, InTenant, LinkIsChecked, DigestIsTold
    <2>2. c.at \notin {"fill", "write"}
      BY <1>2
    <2> QED BY <1>2, <2>1, <2>2, BeginKeeps
  <1>3. ASSUME NEW at \in {"check_feedback", "read"}, NEW principal \in Principals,
               at = "read" => principal = None, NEW f \in Targets, NEW patch \in Patches,
               Begin(p, [Ask("update", at, principal, None)
                           EXCEPT !.id = f, !.patch = patch])
        PROVE  ReviewInv'
    <2> DEFINE a == Ask("update", at, principal, None)
               c == [a EXCEPT !.id = f, !.patch = patch]
    <2>1. a \in Call /\ a.op = "update" /\ a.at = at /\ a.principal = principal
      BY <1>1, AskIsCall
    <2> HIDE DEF a
    <2>2. c \in Call /\ c.op = "update" /\ c.at = at /\ c.principal = principal
          /\ c.id = f /\ c.patch = patch
      BY <1>1, <2>1 DEF Call
    <2> HIDE DEF c
    <2> QED BY <1>2, <1>3, <2>2 DEF a, c
  <1>4. ASSUME NEW op \in {"get", "feedback"}, NEW at \in {"check_feedback", "read"},
               NEW principal \in Principals,
               at = "read" => principal = None /\ op = "get", NEW f \in Targets,
               Begin(p, [Ask(op, at, principal, None) EXCEPT !.id = f])
        PROVE  ReviewInv'
    <2> DEFINE a == Ask(op, at, principal, None)
               c == [a EXCEPT !.id = f]
    <2>1. a \in Call /\ a.op = op /\ a.at = at /\ a.principal = principal
      BY <1>1, AskIsCall
    <2> HIDE DEF a
    <2>2. c \in Call /\ c.op = op /\ c.at = at /\ c.principal = principal /\ c.id = f
      BY <1>1, <2>1 DEF Call
    <2> HIDE DEF c
    <2> QED BY <1>2, <1>4, <2>2 DEF a, c
  <1>5. CASE PatchState(p)
    BY <1>3, <1>5 DEF PatchState
  <1>6. CASE StateUpdate(p)
    BY <1>1, <1>3, <1>6 DEF StateUpdate
  <1>7. CASE GetState(p)
    BY <1>4, <1>7 DEF GetState
  <1>8. CASE GetFeedback(p)
    BY <1>4, <1>8 DEF GetFeedback
  <1> QED BY <1>5, <1>6, <1>7, <1>8

\* Calls that list records, rank them, or mail reports.
LEMMA ListCallsBegin ==
  ASSUME ReviewInv, NEW p \in Processes,
         \/ GetList(p) \/ ListCommand(p) \/ GetQueue(p) \/ QueueCommand(p) \/ GetStates(p)
         \/ EmailSummary(p) \/ EmailSummaryCommand(p)
  PROVE  ReviewInv'
  <1>1. /\ {"list", "queue", "states", "digest"} \subseteq Ops
        /\ {"list", "rank", "states", "latest", "resolve"} \subseteq Places
        /\ None \in Principals /\ Tenants \cup {None} = Principals
        /\ Reports \subseteq Nat
    BY BoundsAssumption DEF Ops, Places, Principals, Reports
  <1>2. ASSUME NEW principal \in Principals, NEW tenant \in Principals,
               principal # None => tenant = principal,
               NEW list \in {"reports", "feedback", "analytics"},
               Begin(p, [Ask("list", "list", principal, tenant) EXCEPT !.list = list])
        PROVE  ReviewInv'
    <2> DEFINE a == Ask("list", "list", principal, tenant)
               c == [a EXCEPT !.list = list]
    <2>1. a \in Call /\ a.op = "list" /\ a.at = "list"
          /\ a.principal = principal /\ a.tenant = tenant
      BY <1>1, AskIsCall
    <2> HIDE DEF a
    <2>2. c \in Call /\ c.op = "list" /\ c.at = "list" /\ c.list = list
          /\ c.principal = principal /\ c.tenant = tenant
      BY <2>1 DEF Call
    <2> HIDE DEF c
    <2>3. Sound(c)
      BY <1>2, <2>2 DEF Sound, Fits, InTenant, LinkIsChecked, DigestIsTold
    <2> QED BY <1>2, <2>2, <2>3, BeginKeeps DEF a, c
  <1>3. ASSUME NEW op \in {"queue", "states"}, NEW at \in {"rank", "states"},
               op = "queue" <=> at = "rank",
               NEW principal \in Principals, NEW tenant \in Principals,
               op = "queue" /\ principal # None => tenant = principal,
               Begin(p, Ask(op, at, principal, tenant))
        PROVE  ReviewInv'
    <2> DEFINE c == Ask(op, at, principal, tenant)
    <2>1. c \in Call /\ c.op = op /\ c.at = at
          /\ c.principal = principal /\ c.tenant = tenant
      BY <1>1, AskIsCall
    <2> HIDE DEF c
    <2>2. Sound(c)
      BY <1>3, <2>1 DEF Sound, Fits, InTenant, LinkIsChecked, DigestIsTold
    <2>3. c.at \notin {"fill", "write"}
      BY <2>1
    <2> QED BY <1>3, <2>1, <2>2, <2>3, BeginKeeps DEF c
  <1>4. ASSUME NEW principal \in Principals, NEW tenant \in Principals,
               principal # None => tenant = principal,
               NEW named \in Selections, NEW at \in {"latest", "resolve"},
               at = "resolve" => named # {},
               Begin(p, [Ask("digest", at, principal, tenant) EXCEPT !.ids = named])
        PROVE  ReviewInv'
    <2> DEFINE a == Ask("digest", at, principal, tenant)
               c == [a EXCEPT !.ids = named]
    <2>1. a \in Call /\ a.op = "digest" /\ a.at = at
          /\ a.principal = principal /\ a.tenant = tenant
      BY <1>1, AskIsCall
    <2> HIDE DEF a
    <2>2. named \subseteq Reports
      BY DEF Selections
    <2>3. c \in Call /\ c.op = "digest" /\ c.at = at /\ c.ids = named
          /\ c.principal = principal /\ c.tenant = tenant
      BY <1>1, <2>1, <2>2 DEF Call
    <2> HIDE DEF c
    <2>4. Sound(c)
      BY <1>4, <2>2, <2>3 DEF Sound, Fits, InTenant, LinkIsChecked, DigestIsTold
    <2>5. c.at \notin {"fill", "write"}
      BY <2>3
    <2> QED BY <1>4, <2>3, <2>4, <2>5, BeginKeeps DEF a, c
  <1>5. CASE GetList(p)
    BY <1>1, <1>2, <1>5, ScopeIsOwn DEF GetList
  <1>6. CASE ListCommand(p)
    BY <1>1, <1>2, <1>6 DEF ListCommand
  <1>7. CASE GetQueue(p)
    BY <1>1, <1>3, <1>7, ScopeIsOwn DEF GetQueue
  <1>8. CASE QueueCommand(p)
    BY <1>1, <1>3, <1>8 DEF QueueCommand
  <1>9. CASE GetStates(p)
    BY <1>1, <1>3, <1>9 DEF GetStates
  <1>10. CASE EmailSummary(p)
    <2>1. PICK principal \in Principals, requested \in Tenants \cup {None},
               named \in Selections :
            Begin(p, [Ask("digest", IF named = {} THEN "latest" ELSE "resolve", principal,
                          Scope(principal, requested)) EXCEPT !.ids = named])
      BY <1>10 DEF EmailSummary
    <2>2. Scope(principal, requested) \in Principals
          /\ (principal # None => Scope(principal, requested) = principal)
      BY <1>1, ScopeIsOwn
    <2> QED BY <1>4, <2>1, <2>2
  <1>11. CASE EmailSummaryCommand(p)
    BY <1>1, <1>4, <1>11 DEF EmailSummaryCommand
  <1> QED BY <1>5, <1>6, <1>7, <1>8, <1>9, <1>10, <1>11

-----------------------------------------------------------------------------
(* Calls that read.                                                        *)

\* What is known of the call a process works on.
LEMMA CallFacts ==
  ASSUME ReviewInv, NEW p \in Processes
  PROVE  /\ calls[p] \in Call /\ Sound(calls[p])
         /\ calls[p].principal \in Tenants \cup {None}
         /\ calls[p].tenant \in Tenants \cup {None}
  BY DEF ReviewInv, TypeOK, CallsAreSound, Sound, Call, Principals

\* A call that is refused shows nothing.
LEMMA RefuseKeeps ==
  ASSUME ReviewInv, NEW p \in Processes, NEW code \in {400, 404, 500}, Refuse(p, code),
         UNCHANGED <<reports, feedback, judgement, states, started, history>>
  PROVE  ReviewInv'
  BY AnswerKeeps DEF Refuse

\* A call that goes on to read something else.
LEMMA GoKeeps ==
  ASSUME ReviewInv, NEW p \in Processes, NEW c \in Call, Go(p, c), Sound(c),
         c.at \notin {"fill", "write"},
         UNCHANGED <<reports, feedback, judgement, states, started, history>>
  PROVE  ReviewInv'
  <1>1. started' \in 0..MaxCalls
    BY DEF ReviewInv, TypeOK
  <1> QED BY <1>1, QuietStep DEF Go

\* The link of a judgement is checked against a report of the caller's tenant.
LEMMA CheckLinkKeeps == ASSUME ReviewInv, NEW p \in Processes, CheckLink(p) PROVE ReviewInv'
  <1> DEFINE call == calls[p]
             report == reports[call.link]
             c == [call EXCEPT !.at = "create"]
  <1>1. /\ call \in Call /\ Sound(call) /\ call.at = "check_link"
        /\ call.op \in {"show", "submit"} /\ call.link \in Reports
        /\ call.op = "submit" => call.tenant \in Tenants
        /\ call.principal \in Tenants \cup {None}
    BY CallFacts DEF CheckLink, Sound, Fits
  <1>2. report \in NoFile \cup Tenants
    BY <1>1 DEF ReviewInv, TypeOK
  <1>3. CASE Refuse(p, 400) \/ Refuse(p, 404)
    BY <1>3, RefuseKeeps DEF CheckLink
  <1>4. CASE Permits(call.principal, report) /\ call.op = "show" /\ Answer(p, 200, {report})
    <2>1. {report} \in SUBSET (Principals \cup NoFile)
      BY <1>2 DEF Principals
    <2>2. call.principal # None => {report} \subseteq {call.principal}
      BY <1>4 DEF Permits
    <2> QED BY <1>4, <2>1, <2>2, AnswerKeeps DEF CheckLink
  <1>5. CASE Permits(call.principal, report) /\ call.op # "show" /\ Go(p, c)
    <2> HIDE DEF call
    <2>1. "create" \in Places
      BY DEF Places
    <2>2. c \in Call
      BY <1>1, <2>1 DEF Call
    <2>3. /\ c.at = "create" /\ c.op = "submit" /\ c.link = call.link /\ c.id = call.id
          /\ c.principal = call.principal /\ c.tenant = call.tenant
      BY <1>1, <1>5 DEF Call
    <2>4. c.principal # None => reports[c.link] = c.tenant /\ c.tenant = c.principal
      BY <1>1, <1>5, <2>3 DEF Sound, InTenant, Permits
    <2>5. Sound(c)
      BY <1>1, <1>5, <2>3, <2>4 DEF Sound, Fits, InTenant, LinkIsChecked, DigestIsTold
    <2> HIDE DEF c
    <2> QED BY <1>5, <2>2, <2>3, <2>5, GoKeeps DEF CheckLink
  <1> QED BY <1>3, <1>4, <1>5 DEF CheckLink

\* Only a judgement of the caller's tenant is updated.
LEMMA CheckFeedbackKeeps ==
  ASSUME ReviewInv, NEW p \in Processes, CheckFeedback(p) PROVE ReviewInv'
  <1> DEFINE call == calls[p]
             record == IF call.id = Unknown THEN Missing ELSE feedback[call.id]
             c == [call EXCEPT !.at = "read"]
  <1>1. /\ call \in Call /\ Sound(call) /\ call.at = "check_feedback"
        /\ call.op \in {"update", "get", "feedback"} /\ call.id \in Feedback \cup {Unknown}
        /\ call.principal \in Tenants \cup {None}
    BY CallFacts DEF CheckFeedback, Sound, Fits
  <1>2. record \in NoFile \cup Tenants
    BY <1>1 DEF ReviewInv, TypeOK, NoFile
  <1>3. CASE Refuse(p, 400) \/ Refuse(p, 404)
    BY <1>3, RefuseKeeps DEF CheckFeedback
  <1>4. CASE /\ Permits(call.principal, record) /\ call.op = "feedback"
             /\ Answer(p, 200, {record})
    <2>1. {record} \in SUBSET (Principals \cup NoFile)
      BY <1>2 DEF Principals
    <2>2. call.principal # None => {record} \subseteq {call.principal}
      BY <1>4 DEF Permits
    <2> QED BY <1>4, <2>1, <2>2, AnswerKeeps DEF CheckFeedback
  <1>5. CASE /\ record \notin NoFile /\ Permits(call.principal, record)
             /\ call.op # "feedback" /\ Go(p, c)
    <2>1. call.id \in Feedback
      BY <1>1, <1>5 DEF NoFile
    <2>2. call.principal # None => feedback[call.id] = call.principal
      BY <1>1, <1>5, <2>1 DEF Permits, NoFile
    <2> HIDE DEF call
    <2>3. "read" \in Places
      BY DEF Places
    <2>4. c \in Call
      BY <1>1, <2>3 DEF Call
    <2>5. /\ c.at = "read" /\ c.op = call.op /\ c.id = call.id /\ c.patch = call.patch
          /\ c.principal = call.principal
      BY <1>1 DEF Call
    <2>6. Sound(c)
      BY <1>1, <1>5, <2>1, <2>2, <2>5 DEF Sound, Fits, InTenant, LinkIsChecked, DigestIsTold
    <2> HIDE DEF c
    <2> QED BY <1>5, <2>4, <2>5, <2>6, GoKeeps DEF CheckFeedback
  <1> QED BY <1>3, <1>4, <1>5 DEF CheckFeedback

\* Whose records an answer about some judgements shows.
LEMMA TenantsOfRecords ==
  ASSUME TypeOK, NEW fs \in SUBSET (Feedback \cup {Unknown})
  PROVE  /\ TenantsOf(fs) \in SUBSET (Principals \cup NoFile)
         /\ \A t : (\A f \in fs : f \in Feedback /\ feedback[f] = t)
                    => TenantsOf(fs) \subseteq {t}
  <1>1. Unknown \notin Feedback
    BY BoundsAssumption DEF Unknown, Feedback
  <1> QED BY <1>1 DEF TypeOK, TenantsOf, Principals

\* A list that is filtered by tenant holds the tenant's records.
LEMMA ListedAreRecords ==
  ASSUME TypeOK, NEW tenant \in Principals
  PROVE  /\ Listed(tenant) \subseteq Feedback
         /\ tenant # None => \A f \in Listed(tenant) : feedback[f] = tenant
         /\ ListedReports(tenant) \subseteq Reports
         /\ tenant # None => \A r \in ListedReports(tenant) : reports[r] = tenant
  BY DEF Listed, ListedReports

\* A list shows a bound key its own tenant.
LEMMA ShowListKeeps == ASSUME ReviewInv, NEW p \in Processes, ShowList(p) PROVE ReviewInv'
  <1> DEFINE call == calls[p]
             records == Listed(call.tenant)
             shown == [reports |-> {reports[r] : r \in ListedReports(call.tenant)},
                       feedback |-> TenantsOf(records),
                       analytics |-> DOMAIN Analytics(records).by_tenant]
  <1>1. /\ call.op = "list" /\ call.list \in {"reports", "feedback", "analytics"}
        /\ call.tenant \in Principals
        /\ call.principal # None => call.tenant = call.principal
    BY CallFacts DEF ShowList, Sound, Fits, InTenant, Call
  <1>2. TypeOK
    BY DEF ReviewInv
  <1>3. /\ records \subseteq Feedback
        /\ call.tenant # None => \A f \in records : feedback[f] = call.tenant
    BY <1>1, <1>2, ListedAreRecords
  <1>4. /\ shown["reports"] = {reports[r] : r \in ListedReports(call.tenant)}
        /\ shown["feedback"] = TenantsOf(records)
        /\ shown["analytics"] = {feedback[f] : f \in records}
    BY DEF Analytics
  <1> HIDE DEF shown
  <1>5. /\ shown["reports"] \in SUBSET (Principals \cup NoFile)
        /\ call.tenant # None => shown["reports"] \subseteq {call.tenant}
    BY <1>1, <1>2, <1>4, ListedAreRecords DEF TypeOK, Principals
  <1>6. /\ shown["feedback"] \in SUBSET (Principals \cup NoFile)
        /\ call.tenant # None => shown["feedback"] \subseteq {call.tenant}
    BY <1>2, <1>3, <1>4, TenantsOfRecords
  <1>7. /\ shown["analytics"] \in SUBSET (Principals \cup NoFile)
        /\ call.tenant # None => shown["analytics"] \subseteq {call.tenant}
    BY <1>2, <1>3, <1>4 DEF TypeOK, Principals
  <1>8. CASE Answer(p, 200, shown[call.list])
    <2>1. /\ shown[call.list] \in SUBSET (Principals \cup NoFile)
          /\ call.principal # None => shown[call.list] \subseteq {call.principal}
      BY <1>1, <1>5, <1>6, <1>7
    <2> QED BY <1>1, <1>8, <2>1, AnswerKeeps DEF ShowList
  <1>9. CASE Refuse(p, 500)
    BY <1>9, RefuseKeeps DEF ShowList
  <1> QED BY <1>8, <1>9 DEF ShowList, shown

\* The queue is ranked from the judgements of the tenant.
LEMMA RankQueueKeeps == ASSUME ReviewInv, NEW p \in Processes, RankQueue(p) PROVE ReviewInv'
  <1> DEFINE call == calls[p]
             items == Queue(Listed(call.tenant)).items
             c == [call EXCEPT !.at = "overlay", !.ids = items]
  <1>1. /\ call \in Call /\ call.op = "queue" /\ call.tenant \in Principals
        /\ call.principal # None => call.tenant = call.principal
    BY CallFacts DEF RankQueue, Sound, Fits, InTenant, Call
  <1>2. items \subseteq Listed(call.tenant)
    BY DEF Queue, Candidates
  <1>3. TypeOK /\ Feedback \subseteq Nat
    BY BoundsAssumption DEF ReviewInv, Feedback
  <1>4. /\ items \subseteq Feedback
        /\ call.principal # None => \A f \in items : feedback[f] = call.principal
    BY <1>1, <1>2, <1>3, ListedAreRecords
  <1>5. CASE Go(p, c)
    <2>1. "overlay" \in Places
      BY DEF Places
    <2> HIDE DEF call, items
    <2>2. c \in Call
      BY <1>1, <1>3, <1>4, <2>1 DEF Call
    <2>3. /\ c.at = "overlay" /\ c.op = "queue" /\ c.ids = items
          /\ c.principal = call.principal
      BY <1>1 DEF Call
    <2>4. Sound(c)
      BY <1>4, <2>3 DEF Sound, Fits, InTenant, LinkIsChecked, DigestIsTold
    <2> HIDE DEF c
    <2> QED BY <1>5, <2>2, <2>3, <2>4, GoKeeps DEF RankQueue
  <1>6. CASE Refuse(p, 400)
    BY <1>6, RefuseKeeps DEF RankQueue
  <1> QED BY <1>5, <1>6 DEF RankQueue

\* States read later are shown only over judgements read before.
LEMMA OverlayStatesKeeps ==
  ASSUME ReviewInv, NEW p \in Processes, OverlayStates(p) PROVE ReviewInv'
  <1> DEFINE call == calls[p]
             shown == TenantsOf(DOMAIN Overlay(call.ids))
  <1>1. /\ call.op = "queue" /\ call.ids \subseteq Feedback
        /\ call.principal # None => \A f \in call.ids : feedback[f] = call.principal
    BY CallFacts DEF OverlayStates, Sound, Fits, InTenant
  <1>2. shown = TenantsOf(call.ids) /\ TypeOK
    BY DEF Overlay, ReviewInv
  <1>3. /\ shown \in SUBSET (Principals \cup NoFile)
        /\ call.principal # None => shown \subseteq {call.principal}
    BY <1>1, <1>2, TenantsOfRecords
  <1>4. CASE Answer(p, 200, shown)
    BY <1>1, <1>3, <1>4, AnswerKeeps DEF OverlayStates
  <1>5. CASE Refuse(p, 400)
    BY <1>5, RefuseKeeps DEF OverlayStates
  <1> QED BY <1>4, <1>5 DEF OverlayStates

\* A list of states remembers which judgements have one.
LEMMA ListStatesKeeps ==
  ASSUME ReviewInv, NEW p \in Processes, ListStates(p) PROVE ReviewInv'
  <1> DEFINE call == calls[p]
             found == {f \in DOMAIN states : states[f] # Missing}
             c == [call EXCEPT !.at = "visible", !.ids = found]
  <1>1. call \in Call /\ call.op = "states"
    BY CallFacts DEF ListStates, Sound, Fits
  <1>2. CASE Refuse(p, 500)
    BY <1>2, RefuseKeeps DEF ListStates
  <1>3. CASE call.principal = None /\ Answer(p, 200, TenantsOf({}))
    <2>1. TenantsOf({}) \in SUBSET (Principals \cup NoFile)
      BY TenantsOfRecords DEF ReviewInv
    <2> QED BY <1>1, <1>3, <2>1, AnswerKeeps DEF ListStates
  <1>4. CASE call.principal # None /\ Go(p, c)
    <2>1. "visible" \in Places /\ found \subseteq Nat
      BY BoundsAssumption DEF Places, ReviewInv, TypeOK, Feedback, Unknown
    <2> HIDE DEF call, found
    <2>2. c \in Call
      BY <1>1, <2>1 DEF Call
    <2>3. c.at = "visible" /\ c.op = "states" /\ c.principal = call.principal
      BY <1>1 DEF Call
    <2>4. Sound(c)
      BY <1>4, <2>3 DEF Sound, Fits, InTenant, LinkIsChecked, DigestIsTold
    <2> HIDE DEF c
    <2> QED BY <1>4, <2>2, <2>3, <2>4, GoKeeps DEF ListStates, call, found, c
  <1> QED BY <1>2, <1>3, <1>4 DEF ListStates

\* States of other tenants are left out of the answer.
LEMMA KeepVisibleKeeps ==
  ASSUME ReviewInv, NEW p \in Processes, KeepVisible(p) PROVE ReviewInv'
  <1> DEFINE call == calls[p]
             seen == call.ids \cap Listed(call.principal)
  <1>1. call.op = "states" /\ call.principal # None /\ call.principal \in Principals
    BY CallFacts DEF KeepVisible, Sound, Fits, Principals
  <1>2. /\ seen \subseteq Feedback /\ TypeOK
        /\ \A f \in seen : feedback[f] = call.principal
    BY <1>1, ListedAreRecords DEF ReviewInv
  <1>3. /\ TenantsOf(seen) \in SUBSET (Principals \cup NoFile)
        /\ TenantsOf(seen) \subseteq {call.principal}
    BY <1>2, TenantsOfRecords
  <1>4. CASE Answer(p, 200, TenantsOf(seen))
    BY <1>1, <1>3, <1>4, AnswerKeeps DEF KeepVisible
  <1>5. CASE Refuse(p, 500)
    BY <1>5, RefuseKeeps DEF KeepVisible
  <1> QED BY <1>4, <1>5 DEF KeepVisible

\* The newest reports of a tenant are picked for a digest.
LEMMA PickLatestKeeps ==
  ASSUME ReviewInv, NEW p \in Processes, PickLatest(p) PROVE ReviewInv'
  <1> DEFINE call == calls[p]
             newest == Newest(ListedReports(call.tenant))
             c == [call EXCEPT !.at = "resolve", !.ids = newest]
  <1>1. /\ call \in Call /\ call.op = "digest" /\ call.tenant \in Principals
        /\ call.principal # None => call.tenant = call.principal
    BY CallFacts DEF PickLatest, Sound, Fits, InTenant, Call
  <1>2. newest \subseteq Reports /\ Reports \subseteq Nat
    BY <1>1, ListedAreRecords, BoundsAssumption DEF Newest, ReviewInv, Reports
  <1>3. CASE newest # {} /\ Go(p, c)
    <2>1. "resolve" \in Places
      BY DEF Places
    <2> HIDE DEF call, newest
    <2>2. c \in Call
      BY <1>1, <1>2, <2>1 DEF Call
    <2>3. /\ c.at = "resolve" /\ c.op = "digest" /\ c.ids = newest
          /\ c.principal = call.principal /\ c.tenant = call.tenant
      BY <1>1 DEF Call
    <2>4. Sound(c)
      BY <1>1, <1>2, <1>3, <2>3 DEF Sound, Fits, InTenant, LinkIsChecked, DigestIsTold
    <2> HIDE DEF c
    <2> QED BY <1>3, <2>2, <2>3, <2>4, GoKeeps DEF PickLatest
  <1>4. CASE Refuse(p, 400)
    BY <1>4, RefuseKeeps DEF PickLatest
  <1> QED BY <1>3, <1>4 DEF PickLatest

\* A digest resolves to reports of its tenant, or is refused.
LEMMA ResolveKeeps == ASSUME ReviewInv, NEW p \in Processes, Resolve(p) PROVE ReviewInv'
  <1> DEFINE call == calls[p]
             c == [call EXCEPT !.at = "deliver"]
  <1>1. /\ call \in Call /\ call.op = "digest"
        /\ call.ids \subseteq Reports /\ call.ids # {}
        /\ call.principal # None => call.tenant = call.principal
    BY CallFacts DEF Resolve, Sound, Fits, InTenant
  <1>2. CASE Refuse(p, 400) \/ Refuse(p, 404)
    BY <1>2, RefuseKeeps DEF Resolve
  <1>3. CASE (\A r \in call.ids : FoundIn(r, call.tenant)) /\ Go(p, c)
    <2>1. "deliver" \in Places
      BY DEF Places
    <2>2. call.principal # None => \A r \in call.ids : reports[r] = call.principal
      BY <1>1, <1>3 DEF FoundIn
    <2> HIDE DEF call
    <2>3. c \in Call
      BY <1>1, <2>1 DEF Call
    <2>4. /\ c.at = "deliver" /\ c.op = "digest" /\ c.ids = call.ids
          /\ c.principal = call.principal
      BY <1>1 DEF Call
    <2>5. Sound(c)
      BY <1>1, <2>2, <2>4 DEF Sound, Fits, InTenant, LinkIsChecked, DigestIsTold
    <2> HIDE DEF c
    <2> QED BY <1>3, <2>3, <2>4, <2>5, GoKeeps DEF Resolve
  <1> QED BY <1>2, <1>3 DEF Resolve

\* A digest is sent as it was resolved.
LEMMA DeliverKeeps == ASSUME ReviewInv, NEW p \in Processes, Deliver(p) PROVE ReviewInv'
  <1> DEFINE call == calls[p]
  <1>1. /\ call \in Call /\ call.ids \subseteq Reports /\ call.ids # {}
        /\ call.principal # None => \A r \in call.ids : reports[r] = call.principal
        /\ call.principal \in Principals
    BY CallFacts DEF Deliver, Sound, Fits, InTenant, Principals
  <1>2. PICK outcome \in Outcomes(call.ids) :
          Go(p, [Idle EXCEPT !.op = "digest", !.at = "answered",
                             !.principal = call.principal, !.code = outcome.code,
                             !.ids = call.ids, !.sent = outcome.sent,
                             !.shows = {reports[r] : r \in outcome.sent}])
    BY DEF Deliver
  <1> DEFINE shows == {reports[r] : r \in outcome.sent}
             code == outcome.code
             sent == outcome.sent
             ids == call.ids
             principal == call.principal
             c == [Idle EXCEPT !.op = "digest", !.at = "answered", !.principal = principal,
                               !.code = code, !.ids = ids, !.sent = sent, !.shows = shows]
  <1>3. /\ code \in {200, 400, 500} /\ sent \subseteq ids
        /\ code = 200 => sent = ids
        /\ code = 400 => sent = {}
    BY DEF Outcomes
  <1>4. /\ shows \in SUBSET (Principals \cup NoFile)
        /\ principal # None => shows \subseteq {principal}
        /\ code = 400 => shows = {}
    BY <1>1, <1>3 DEF ReviewInv, TypeOK, Principals
  <1>5. "digest" \in Ops /\ "answered" \in Places /\ ids \subseteq Nat /\ ids # {}
        /\ principal \in Principals
    BY <1>1, BoundsAssumption DEF Ops, Places, Reports
  <1>6. Go(p, c)
    BY <1>2
  <1> HIDE DEF call, shows, code, sent, ids, principal
  <1>7. c \in Call
    <2> DEFINE d == [Idle EXCEPT !.op = "digest", !.at = "answered",
                                 !.principal = principal, !.code = code]
    <2>1. code \in Nat /\ sent \subseteq Nat /\ ids \subseteq Nat
      <3>1. code \in Nat
        BY <1>3
      <3>2. sent \subseteq Nat
        BY <1>3, <1>5
      <3> QED BY <1>5, <3>1, <3>2
    <2>2. d \in Call
      BY <1>5, <2>1, IdleIsSound DEF Call
    <2> HIDE DEF d
    <2>3. [d EXCEPT !.ids = ids, !.sent = sent, !.shows = shows] \in Call
      BY <1>4, <2>1, <2>2 DEF Call
    <2> QED BY <2>3 DEF d
  <1>8. /\ c.at = "answered" /\ c.op = "digest" /\ c.code = code /\ c.ids = ids
        /\ c.sent = sent /\ c.shows = shows /\ c.principal = principal
    BY DEF Idle
  <1>9. Sound(c)
    BY <1>3, <1>4, <1>5, <1>8 DEF Sound, Fits, InTenant, LinkIsChecked, DigestIsTold
  <1> HIDE DEF c
  <1> QED BY <1>6, <1>7, <1>8, <1>9, GoKeeps DEF Deliver

\* A crash forgets a call and leaves the files.
LEMMA CrashKeeps == ASSUME ReviewInv, NEW p \in Processes, Crash(p) PROVE ReviewInv'
  <1>1. Idle.at \notin {"fill", "write"}
    BY DEF Idle
  <1> QED BY <1>1, IdleIsSound, GoKeeps DEF Crash

-----------------------------------------------------------------------------
(* Calls that write.                                                       *)

\* While a process adds a record, the calls of the others stay sound.
LEMMA OthersStaySound ==
  ASSUME ReviewInv, NEW p \in Processes, NEW c \in Call, Go(p, c),
         Kept(reports, reports'), Kept(feedback, feedback'),
         Fits(c), InTenant(c, reports', feedback'), LinkIsChecked(c, reports'),
         DigestIsTold(c)
  PROVE  CallsAreSound'
  <1> SUFFICES ASSUME NEW q \in Processes
               PROVE  /\ Fits(calls'[q]) /\ InTenant(calls'[q], reports', feedback')
                      /\ LinkIsChecked(calls'[q], reports') /\ DigestIsTold(calls'[q])
    BY DEF CallsAreSound
  <1>1. calls'[q] = IF q = p THEN c ELSE calls[q]
    BY DEF Go, ReviewInv, TypeOK
  <1>2. CASE q = p
    BY <1>1, <1>2
  <1>3. CASE q # p
    <2>1. calls[q] \in Call /\ Sound(calls[q])
      BY CallFacts
    <2>2. /\ reports \in [Reports -> NoFile \cup Tenants]
          /\ feedback \in [Feedback -> NoFile \cup Tenants]
      BY DEF ReviewInv, TypeOK
    <2>3. InTenant(calls[q], reports', feedback') /\ LinkIsChecked(calls[q], reports')
      BY <2>1, <2>2, CallsStaySound DEF Sound
    <2> QED BY <1>1, <1>3, <2>1, <2>3 DEF Sound
  <1> QED BY <1>2, <1>3

\* A step to a call that does not write a state leaves the updates alone.
LEMMA UpdatesUntouched ==
  ASSUME ReviewInv, NEW p \in Processes, NEW c \in Call, Go(p, c),
         c.op # "update", UNCHANGED <<states, history>>
  PROVE  RacesAreKnown' /\ PatchIsKept'
  <1>1. \A q \in Processes : calls'[q] = IF q = p THEN c ELSE calls[q]
    BY DEF Go, ReviewInv, TypeOK
  <1> QED BY <1>1 DEF ReviewInv, RacesAreKnown, Updating, PatchIsKept, history

\* What a process adds is a record of its store.
LEMMA AddedIds ==
  ASSUME ReviewInv, NEW p \in Processes
  PROVE  /\ Adding(p, "report") => calls[p].id \in Reports
         /\ Adding(p, "submit") => calls[p].id \in Feedback
  BY CallFacts DEF Adding, Sound, Fits

\* The marker of a missing or torn file is neither a tenant nor a state.
LEMMA NoFileIsNoTenant == NoFile \cap Tenants = {} /\ NoFile \cap WorkflowStates = {}
  BY NoFileAssumption

\* A fresh identifier is nobody else's.
LEMMA CreateKeeps == ASSUME ReviewInv, NEW p \in Processes, Create(p) PROVE ReviewInv'
  <1> DEFINE call == calls[p]
             store == IF call.op = "report" THEN reports ELSE feedback
  <1>1. /\ call \in Call /\ Sound(call) /\ call.at = "create"
        /\ call.op \in {"report", "submit"} /\ call.tenant \in Tenants
    BY CallFacts DEF Create, Sound, Fits
  <1>2. PICK id \in DOMAIN store :
          /\ store[id] = Missing
          /\ Go(p, [call EXCEPT !.at = "fill", !.id = id])
          /\ IF call.op = "report"
             THEN reports' = [reports EXCEPT ![id] = Torn] /\ UNCHANGED feedback
             ELSE feedback' = [feedback EXCEPT ![id] = Torn] /\ UNCHANGED reports
    BY DEF Create
  <1> DEFINE c == [call EXCEPT !.at = "fill", !.id = id]
  <1>3. /\ call.op = "report" => id \in Reports /\ reports[id] = Missing
        /\ call.op = "submit" => id \in Feedback /\ feedback[id] = Missing
        /\ id \in Nat
    BY <1>1, <1>2, BoundsAssumption DEF ReviewInv, TypeOK, Reports, Feedback
  <1>4. UNCHANGED <<judgement, states, started, history>> /\ Go(p, c)
    BY <1>2 DEF Create
  <1> HIDE DEF call, store
  <1>5. c \in Call
    <2>1. "fill" \in Places
      BY DEF Places
    <2> QED BY <1>1, <1>3, <2>1 DEF Call
  <1>6. /\ c.at = "fill" /\ c.op = call.op /\ c.id = id /\ c.principal = call.principal
        /\ c.tenant = call.tenant /\ c.link = call.link
    BY <1>1 DEF Call
  <1> HIDE DEF c
  <1>7. Kept(reports, reports') /\ Kept(feedback, feedback')
    BY <1>1, <1>2, <1>3, NoFileIsNoTenant DEF Kept, ReviewInv, TypeOK, NoFile
  <1>8. Fits(c) /\ DigestIsTold(c)
    BY <1>1, <1>3, <1>6 DEF Fits, DigestIsTold
  <1>9. InTenant(c, reports', feedback') /\ LinkIsChecked(c, reports')
    <2>1. InTenant(c, reports, feedback) /\ LinkIsChecked(c, reports)
      BY <1>1, <1>6 DEF Sound, InTenant, LinkIsChecked
    <2>2. /\ reports \in [Reports -> NoFile \cup Tenants]
          /\ feedback \in [Feedback -> NoFile \cup Tenants]
      BY DEF ReviewInv, TypeOK
    <2> QED BY <1>5, <1>7, <1>8, <2>1, <2>2, CallsStaySound
  <1>10. CallsAreSound'
    BY <1>4, <1>5, <1>7, <1>8, <1>9, OthersStaySound
  <1>11. \A q \in Processes : calls'[q] = IF q = p THEN c ELSE calls[q]
    BY <1>4 DEF Go, ReviewInv, TypeOK
  <1>12. TypeOK'
    BY <1>1, <1>2, <1>3, <1>4, <1>5 DEF ReviewInv, TypeOK, Go, NoFile, history
  <1>13. AddersApart'
    <2>1. \A q \in Processes : q # p /\ Adding(q, call.op) => calls[q].id # id
      BY <1>1, <1>3, NoFileAssumption DEF ReviewInv, AddersApart
    <2>2. ASSUME NEW q \in Processes PROVE
            /\ Adding(q, "report")' => (reports[calls[q].id] = Torn)'
            /\ Adding(q, "submit")' => (feedback[calls[q].id] = Torn)'
      <3>1. CASE q = p
        BY <1>1, <1>2, <1>3, <1>6, <1>11, <3>1 DEF Adding, ReviewInv, TypeOK
      <3>2. CASE q # p
        <4>1. calls'[q] = calls[q]
          BY <1>11, <3>2
        <4>2. Adding(q, "report") => (reports[calls[q].id])' = Torn
          BY <1>1, <1>2, <2>1, <3>2, <4>1, AddedIds DEF ReviewInv, TypeOK, AddersApart
        <4>3. Adding(q, "submit") => (feedback[calls[q].id])' = Torn
          BY <1>1, <1>2, <2>1, <3>2, <4>1, AddedIds DEF ReviewInv, TypeOK, AddersApart
        <4> QED BY <4>1, <4>2, <4>3 DEF Adding
      <3> QED BY <3>1, <3>2
    <2>3. ASSUME NEW q \in Processes, NEW r \in Processes, NEW op \in {"report", "submit"},
                 q # r, Adding(q, op)', Adding(r, op)'
          PROVE  (calls[q].id # calls[r].id)'
      BY <1>6, <1>11, <2>1, <2>3 DEF Adding, ReviewInv, AddersApart
    <2> QED BY <2>2, <2>3 DEF AddersApart
  <1>14. RacesAreKnown' /\ PatchIsKept'
    BY <1>1, <1>4, <1>5, <1>6, UpdatesUntouched
  <1> QED BY <1>10, <1>12, <1>13, <1>14 DEF ReviewInv

\* A record that is written is the one the call made.
LEMMA FillKeeps == ASSUME ReviewInv, NEW p \in Processes, Fill(p) PROVE ReviewInv'
  <1> DEFINE call == calls[p]
  <1>1. /\ call \in Call /\ Sound(call) /\ call.at = "fill"
        /\ call.op \in {"report", "submit"} /\ call.tenant \in Tenants
        /\ call.principal # None => call.tenant = call.principal
    BY CallFacts DEF Fill, Sound, Fits, InTenant
  <1>2. /\ call.op = "report" => call.id \in Reports /\ reports[call.id] = Torn
        /\ call.op = "submit" => call.id \in Feedback /\ feedback[call.id] = Torn
    BY <1>1, AddedIds DEF Adding, ReviewInv, AddersApart
  <1>3. PICK c \in Call :
          /\ Go(p, c) /\ c.at = "answered" /\ c.op = call.op /\ Fits(c) /\ DigestIsTold(c)
          /\ \A rs, fs : InTenant(c, rs, fs) /\ LinkIsChecked(c, rs)
    <2>1. /\ {call.tenant} \in SUBSET (Principals \cup NoFile)
          /\ call.principal # None => {call.tenant} \subseteq {call.principal}
      BY <1>1 DEF Principals
    <2> QED BY <1>1, <2>1, AnswerIsSound DEF Fill
  <1>4. Kept(reports, reports') /\ Kept(feedback, feedback')
    BY <1>1, <1>2, NoFileIsNoTenant DEF Fill, Kept, ReviewInv, TypeOK, NoFile
  <1>5. CallsAreSound'
    BY <1>3, <1>4, OthersStaySound
  <1>6. UNCHANGED <<judgement, states, started, history>>
    BY DEF Fill
  <1>7. \A q \in Processes : calls'[q] = IF q = p THEN c ELSE calls[q]
    BY <1>3 DEF Go, ReviewInv, TypeOK
  <1>8. TypeOK'
    BY <1>1, <1>2, <1>3, <1>6 DEF Fill, ReviewInv, TypeOK, Go, history
  <1>9. AddersApart'
    <2>1. ASSUME NEW q \in Processes, q # p PROVE
            /\ Adding(q, "report") => (reports[calls[q].id])' = Torn
            /\ Adding(q, "submit") => (feedback[calls[q].id])' = Torn
      <3>1. calls'[q] = calls[q]
        BY <1>7, <2>1
      <3>2. /\ Adding(q, "report") /\ call.op = "report" => calls[q].id # call.id
            /\ Adding(q, "submit") /\ call.op = "submit" => calls[q].id # call.id
        BY <1>1, <2>1 DEF Adding, ReviewInv, AddersApart
      <3>3. Adding(q, "report") => (reports[calls[q].id])' = Torn
        BY <1>1, <3>1, <3>2, AddedIds DEF Fill, ReviewInv, TypeOK, AddersApart
      <3>4. Adding(q, "submit") => (feedback[calls[q].id])' = Torn
        BY <1>1, <3>1, <3>2, AddedIds DEF Fill, ReviewInv, TypeOK, AddersApart
      <3> QED BY <3>3, <3>4
    <2>2. \A q \in Processes : \A op \in {"report", "submit"} :
            Adding(q, op)' => q # p /\ Adding(q, op)
      BY <1>3, <1>7 DEF Adding
    <2> QED BY <1>7, <2>1, <2>2 DEF ReviewInv, AddersApart
  <1>10. RacesAreKnown' /\ PatchIsKept'
    BY <1>1, <1>3, <1>6, UpdatesUntouched
  <1> QED BY <1>5, <1>8, <1>9, <1>10 DEF ReviewInv

-----------------------------------------------------------------------------
(* Updates of workflow states.                                             *)

\* A new state is a state, and so is a state with a patch on top.
LEMMA PatchesMakeStates ==
  /\ Fresh \in WorkflowStates
  /\ \A patch \in Patches, state \in WorkflowStates : Over(patch, state) \in WorkflowStates
  <1>1. Fresh \in WorkflowStates
    BY DEF Fresh, WorkflowStates, Fields, Statuses
  <1>2. ASSUME NEW patch \in Patches, NEW state \in WorkflowStates
        PROVE  Over(patch, state) \in WorkflowStates
    BY PatchesAssumption DEF Over, WorkflowStates, Fields
  <1> QED BY <1>1, <1>2

\* A step that writes no record keeps calls and adders apart.
LEMMA NothingAdded ==
  ASSUME ReviewInv, NEW p \in Processes, NEW c \in Call, Go(p, c),
         c.at = "fill" => c.op = "update",
         Fits(c), InTenant(c, reports, feedback), LinkIsChecked(c, reports),
         DigestIsTold(c), UNCHANGED <<reports, feedback>>
  PROVE  CallsAreSound' /\ AddersApart'
  <1>1. Kept(reports, reports') /\ Kept(feedback, feedback')
    BY DEF Kept
  <1>2. CallsAreSound'
    BY <1>1, OthersStaySound
  <1>3. \A q \in Processes : calls'[q] = IF q = p THEN c ELSE calls[q]
    BY DEF Go, ReviewInv, TypeOK
  <1>4. AddersApart'
    BY <1>3 DEF ReviewInv, AddersApart, Adding
  <1> QED BY <1>2, <1>4

\* An update begins with what it reads; the updates in between are known.
LEMMA ReadStateKeeps == ASSUME ReviewInv, NEW p \in Processes, ReadState(p) PROVE ReviewInv'
  <1> DEFINE call == calls[p]
             id == call.id
             state == states[id]
             others == {q \in Processes \ {p} : Updating(q, id)}
             updated == Patched(state, call.patch)
             c == [call EXCEPT !.at = "write", !.updated = updated]
  <1>1. /\ call \in Call /\ Sound(call) /\ call.at = "read"
        /\ call.op \in {"update", "get"} /\ id \in Feedback \cup {Unknown}
        /\ call.op = "update" => call.patch \in Patches
        /\ call.principal # None => id \in Feedback /\ feedback[id] = call.principal
    BY CallFacts DEF ReadState, Sound, Fits, InTenant
  <1>2. UNCHANGED <<reports, feedback, judgement, states, started, ledger>>
    BY DEF ReadState
  <1>3. CASE (Refuse(p, 400) \/ Refuse(p, 404)) /\ UNCHANGED raced
    BY <1>2, <1>3, RefuseKeeps DEF history
  <1>4. CASE call.op = "get" /\ Answer(p, 200, TenantsOf({id})) /\ UNCHANGED raced
    <2>1. /\ TenantsOf({id}) \in SUBSET (Principals \cup NoFile)
          /\ call.principal # None => TenantsOf({id}) \subseteq {call.principal}
      <3>1. {id} \in SUBSET (Feedback \cup {Unknown}) /\ TypeOK
        BY <1>1 DEF ReviewInv
      <3> QED BY <1>1, <3>1, TenantsOfRecords
    <2> QED BY <1>2, <1>4, <2>1, AnswerKeeps DEF history
  <1>5. CASE /\ state # Torn /\ call.op = "update" /\ Go(p, c)
             /\ raced' = IF others # {} THEN raced \cup {id} ELSE raced
    <2>1. /\ state \in WorkflowStates \cup {Missing}
          /\ state = Missing => ledger[id] = Fresh
          /\ id \notin raced /\ state # Missing => state = ledger[id]
      BY <1>1, <1>5, NoFileIsNoTenant
         DEF ReviewInv, TypeOK, RacesAreKnown, PatchIsKept, NoFile
    <2>2. /\ updated \in WorkflowStates
          /\ id \notin raced => updated = Over(call.patch, ledger[id])
      BY <1>1, <1>5, <2>1, PatchesMakeStates DEF Patched
    <2>3. "write" \in Places
      BY DEF Places
    <2>4. id = call.id
      OBVIOUS
    <2> HIDE DEF call, updated, id
    <2>5. c \in Call
      BY <1>1, <2>2, <2>3 DEF Call
    <2>6. /\ c.at = "write" /\ c.op = "update" /\ c.id = id /\ c.updated = updated
          /\ c.principal = call.principal /\ c.patch = call.patch
      BY <1>1, <1>5, <2>4 DEF Call
    <2> HIDE DEF c
    <2>7. Sound(c)
      BY <1>1, <1>5, <2>2, <2>6 DEF Sound, Fits, InTenant, LinkIsChecked, DigestIsTold
    <2>8. CallsAreSound' /\ AddersApart'
      BY <1>2, <1>5, <2>5, <2>6, <2>7, NothingAdded DEF Sound
    <2>9. \A q \in Processes : calls'[q] = IF q = p THEN c ELSE calls[q]
      BY <1>5 DEF Go, ReviewInv, TypeOK
    <2>10. TypeOK'
      BY <1>1, <1>2, <1>5, <2>5 DEF ReviewInv, TypeOK, Go
    <2>11. \A q \in Processes, f \in Feedback \cup {Unknown} :
             Updating(q, f)' => IF q = p THEN f = id ELSE Updating(q, f)
      BY <2>6, <2>9 DEF Updating
    <2>12. raced \subseteq raced'
      BY <1>5
    <2>13. \A q \in Processes, f \in Feedback \cup {Unknown} :
             Updating(q, f)' /\ f \notin raced' =>
               calls'[q].updated = Over(calls'[q].patch, ledger'[f])
      BY <1>2, <2>2, <2>6, <2>9, <2>11, <2>12 DEF ReviewInv, RacesAreKnown
    <2>14. \A q, r \in Processes, f \in Feedback \cup {Unknown} :
             q # r /\ Updating(q, f)' /\ Updating(r, f)' => f \in raced'
      BY <1>5, <2>11, <2>12 DEF ReviewInv, RacesAreKnown
    <2>15. RacesAreKnown'
      BY <1>2, <2>13, <2>14 DEF ReviewInv, RacesAreKnown
    <2>16. PatchIsKept'
      BY <1>2, <2>12 DEF ReviewInv, PatchIsKept
    <2> QED BY <2>8, <2>10, <2>15, <2>16 DEF ReviewInv
  <1> QED BY <1>3, <1>4, <1>5 DEF ReadState

\* Truncating a state leaves the promises made of it.
LEMMA TruncateStateKeeps ==
  ASSUME ReviewInv, NEW p \in Processes, TruncateState(p) PROVE ReviewInv'
  <1> DEFINE call == calls[p]
             id == call.id
             c == [call EXCEPT !.at = "fill"]
  <1>1. /\ call \in Call /\ Sound(call) /\ call.at = "write" /\ call.op = "update"
        /\ id \in Feedback \cup {Unknown} /\ call.updated \in WorkflowStates
    BY CallFacts DEF TruncateState, Sound, Fits
  <1>2. /\ UNCHANGED <<reports, feedback, judgement, started, history>>
        /\ states' = [states EXCEPT ![id] = Torn] /\ Go(p, c)
    BY DEF TruncateState
  <1>3. id = call.id
    OBVIOUS
  <1> HIDE DEF call, id
  <1>4. c \in Call
    <2>1. "fill" \in Places
      BY DEF Places
    <2> QED BY <1>1, <2>1 DEF Call
  <1>5. /\ c.at = "fill" /\ c.op = "update" /\ c.id = id /\ c.updated = call.updated
        /\ c.principal = call.principal /\ c.patch = call.patch
    BY <1>1, <1>3 DEF Call
  <1> HIDE DEF c
  <1>6. Sound(c)
    BY <1>1, <1>3, <1>5 DEF Sound, Fits, InTenant, LinkIsChecked, DigestIsTold
  <1>7. CallsAreSound' /\ AddersApart'
    BY <1>2, <1>4, <1>5, <1>6, NothingAdded DEF Sound
  <1>8. \A q \in Processes : calls'[q] = IF q = p THEN c ELSE calls[q]
    BY <1>2 DEF Go, ReviewInv, TypeOK
  <1>9. TypeOK'
    BY <1>1, <1>2, <1>4 DEF ReviewInv, TypeOK, Go, NoFile, history
  <1>10. \A q \in Processes, f \in Feedback \cup {Unknown} :
           /\ Updating(q, f)' => Updating(q, f)
           /\ Updating(q, f)' => calls'[q].updated = calls[q].updated
                                 /\ calls'[q].patch = calls[q].patch
    BY <1>1, <1>3, <1>5, <1>8 DEF Updating, call
  <1>11. \A f \in Feedback \cup {Unknown} : states'[f] # Torn => states'[f] = states[f]
    BY <1>1, <1>2 DEF ReviewInv, TypeOK
  <1>12. RacesAreKnown'
    BY <1>2, <1>10, <1>11, NoFileAssumption DEF ReviewInv, RacesAreKnown, history
  <1>13. PatchIsKept'
    BY <1>1, <1>2, <1>11 DEF ReviewInv, TypeOK, PatchIsKept, NoFile, history
  <1> QED BY <1>7, <1>9, <1>12, <1>13 DEF ReviewInv

\* A state is filled with the patch on top of what was read.
LEMMA FillStateKeeps == ASSUME ReviewInv, NEW p \in Processes, FillState(p) PROVE ReviewInv'
  <1> DEFINE call == calls[p]
             id == call.id
             shown == IF p \in Cli THEN {} ELSE TenantsOf({id})
  <1>1. /\ call \in Call /\ Sound(call) /\ call.at = "fill" /\ call.op = "update"
        /\ id \in Feedback \cup {Unknown} /\ call.updated \in WorkflowStates
        /\ call.patch \in Patches
        /\ call.principal # None => id \in Feedback /\ feedback[id] = call.principal
    BY CallFacts DEF FillState, Sound, Fits, InTenant
  <1>2. /\ UNCHANGED <<reports, feedback, judgement, started, raced>>
        /\ states' = [states EXCEPT ![id] = call.updated]
        /\ ledger' = [ledger EXCEPT ![id] = Over(call.patch, ledger[id])]
        /\ Answer(p, 200, shown)
    BY <1>1 DEF FillState, ReviewInv, TypeOK
  <1>3. /\ shown \in SUBSET (Principals \cup NoFile)
        /\ call.principal # None => shown \subseteq {call.principal}
    <2>1. {id} \in SUBSET (Feedback \cup {Unknown}) /\ TypeOK
      BY <1>1 DEF ReviewInv
    <2> QED BY <1>1, <2>1, TenantsOfRecords
  <1>4. PICK c \in Call :
          /\ Go(p, c) /\ c.at = "answered" /\ Fits(c) /\ DigestIsTold(c)
          /\ \A rs, fs : InTenant(c, rs, fs) /\ LinkIsChecked(c, rs)
    BY <1>1, <1>2, <1>3, AnswerIsSound
  <1>5. CallsAreSound' /\ AddersApart'
    BY <1>2, <1>4, NothingAdded
  <1>6. \A q \in Processes : calls'[q] = IF q = p THEN c ELSE calls[q]
    BY <1>4 DEF Go, ReviewInv, TypeOK
  <1>7. Over(call.patch, ledger[id]) \in WorkflowStates
    BY <1>1, PatchesMakeStates DEF ReviewInv, TypeOK
  <1>8. TypeOK'
    BY <1>1, <1>2, <1>4, <1>7 DEF ReviewInv, TypeOK, Go
  <1>9. \A q \in Processes, f \in Feedback \cup {Unknown} :
          Updating(q, f)' => q # p /\ Updating(q, f) /\ calls'[q] = calls[q]
    BY <1>4, <1>6 DEF Updating
  <1>10. Updating(p, id)
    BY <1>1 DEF Updating
  <1>11. \A f \in Feedback \cup {Unknown} :
           f # id => states'[f] = states[f] /\ ledger'[f] = ledger[f]
    BY <1>1, <1>2 DEF ReviewInv, TypeOK
  <1>12. states'[id] = call.updated /\ ledger'[id] = Over(call.patch, ledger[id])
    BY <1>1, <1>2 DEF ReviewInv, TypeOK
  <1>13. id \notin raced => call.updated = Over(call.patch, ledger[id])
    BY <1>1, <1>10 DEF ReviewInv, RacesAreKnown
  <1> HIDE DEF call, id
  <1>14. RacesAreKnown'
    <2>1. \A f \in Feedback \cup {Unknown} : states'[f] = Missing => ledger'[f] = Fresh
      BY <1>1, <1>11, <1>12, NoFileIsNoTenant DEF ReviewInv, RacesAreKnown, NoFile
    <2>2. \A q \in Processes, f \in Feedback \cup {Unknown} :
            Updating(q, f)' /\ f \notin raced' => f # id
      BY <1>1, <1>2, <1>9, <1>10 DEF ReviewInv, RacesAreKnown
    <2>3. \A q \in Processes, f \in Feedback \cup {Unknown} :
            Updating(q, f)' /\ f \notin raced' =>
              calls'[q].updated = Over(calls'[q].patch, ledger'[f])
      BY <1>2, <1>9, <1>11, <2>2 DEF ReviewInv, RacesAreKnown
    <2>4. \A q, r \in Processes, f \in Feedback \cup {Unknown} :
            q # r /\ Updating(q, f)' /\ Updating(r, f)' => f \in raced'
      BY <1>2, <1>9 DEF ReviewInv, RacesAreKnown
    <2> QED BY <2>1, <2>3, <2>4 DEF RacesAreKnown
  <1>15. PatchIsKept'
    BY <1>2, <1>8, <1>11, <1>12, <1>13 DEF ReviewInv, TypeOK, PatchIsKept
  <1> QED BY <1>5, <1>8, <1>14, <1>15 DEF ReviewInv

-----------------------------------------------------------------------------
(* The invariant.                                                          *)

\* The invariant holds at the start.
LEMMA InitReviewInv == Init => ReviewInv
  <1> SUFFICES ASSUME Init PROVE ReviewInv
    OBVIOUS
  <1>1. \A p \in Processes : calls[p] = Idle
    BY DEF Init
  <1>2. reports \in [Reports -> NoFile \cup Tenants]
    BY BoundsAssumption DEF Init, Reports, NoFile
  <1>3. feedback \in [Feedback -> NoFile \cup Tenants]
    BY BoundsAssumption DEF Init, Feedback, NoFile
  <1>4. TypeOK
    BY <1>2, <1>3, IdleIsSound, PatchesMakeStates, BoundsAssumption
       DEF Init, TypeOK, NoFile
  <1>5. CallsAreSound
    BY <1>1, IdleIsSound DEF CallsAreSound, Sound
  <1>6. AddersApart
    BY <1>1 DEF AddersApart, Adding, Idle
  <1>7. RacesAreKnown
    BY <1>1 DEF Init, RacesAreKnown, Updating, Idle
  <1>8. PatchIsKept
    BY DEF Init, PatchIsKept, NoFile
  <1> QED BY <1>4, <1>5, <1>6, <1>7, <1>8 DEF ReviewInv

\* Every step keeps the invariant.
LEMMA NextReviewInv == ReviewInv /\ [Next]_vars => ReviewInv'
  <1> SUFFICES ASSUME ReviewInv, [Next]_vars PROVE ReviewInv'
    OBVIOUS
  <1>1. ASSUME NEW p \in Processes, Step(p) PROVE ReviewInv'
    BY <1>1, CheckLinkKeeps, CreateKeeps, FillKeeps, CheckFeedbackKeeps, ReadStateKeeps,
       TruncateStateKeeps, FillStateKeeps, ShowListKeeps, RankQueueKeeps,
       OverlayStatesKeeps, ListStatesKeeps, KeepVisibleKeeps, PickLatestKeeps,
       ResolveKeeps, DeliverKeeps DEF Step
  <1>2. CASE UNCHANGED vars
    BY <1>2 DEF vars, ReviewInv, TypeOK, CallsAreSound, AddersApart, Adding,
                RacesAreKnown, Updating, PatchIsKept
  <1> QED BY <1>1, <1>2, RecordCallsBegin, StateCallsBegin, ListCallsBegin, CrashKeeps
      DEF Next

\* The inductive invariant holds in every state.
THEOREM ReviewInvariant == Spec => []ReviewInv
  <1> QED BY InitReviewInv, NextReviewInv, PTL DEF Spec

-----------------------------------------------------------------------------
(* The queue.                                                              *)

\* Candidates are ranked by a strict order, in which any two of them compare.
LEMMA RankingIsAnOrder ==
  ASSUME TypeOK
  PROVE  /\ \A f \in Feedback : Priority(judgement[f]) \in Int /\ ~Before(f, f)
         /\ \A f, g, h \in Feedback : Before(f, g) /\ Before(g, h) => Before(f, h)
         /\ \A f, g \in Feedback : f # g => Before(f, g) \/ Before(g, f)
  <1>1. \A f \in Feedback : Priority(judgement[f]) \in Int
    <2>1. ASSUME NEW f \in Feedback PROVE Priority(judgement[f]) \in Int
      <3> DEFINE j == judgement[f]
      <3>1. j.confidence \in Int
        <4>1. j \in JudgementRecords
          BY JudgementsAssumption DEF TypeOK
        <4> HIDE DEF j
        <4> QED BY <4>1 DEF JudgementRecords
      <3> HIDE DEF j
      <3>2. (IF j.confidence < Threshold THEN Threshold - j.confidence ELSE 0) \in Int
        BY <3>1 DEF Threshold
      <3>3. (IF j.useful THEN 0 ELSE 1000) \in Int /\ (IF j.comment THEN 100 ELSE 0) \in Int
        OBVIOUS
      <3>4. Priority(j) \in Int
        BY <3>2, <3>3 DEF Priority
      <3> QED BY <3>4 DEF j
    <2> QED BY <2>1
  <1>2. Feedback \subseteq Int
    BY BoundsAssumption DEF Feedback
  <1> QED BY <1>1, <1>2 DEF Before

\* Of two candidates, fewer are ahead of the one that is ranked before the other.
LEMMA RanksGrow ==
  ASSUME TypeOK, NEW listed \in SUBSET Feedback,
         NEW f \in Candidates(listed), NEW g \in Candidates(listed)
  PROVE  /\ Cardinality(Ahead(listed, g)) \in Nat
         /\ Before(f, g) => Cardinality(Ahead(listed, f)) < Cardinality(Ahead(listed, g))
         /\ f # g => Cardinality(Ahead(listed, f)) # Cardinality(Ahead(listed, g))
  <1>1. Candidates(listed) \subseteq Feedback /\ IsFiniteSet(Feedback)
    <2>1. MaxFeedback \in Int
      BY BoundsAssumption
    <2>2. IsFiniteSet(Feedback)
      BY <2>1, FS_Interval DEF Feedback
    <2> QED BY <2>2 DEF Candidates
  <1>2. \A h \in Candidates(listed) :
          Ahead(listed, h) \subseteq Feedback /\ IsFiniteSet(Ahead(listed, h))
          /\ Cardinality(Ahead(listed, h)) \in Nat
    <2>1. \A h \in Candidates(listed) : Ahead(listed, h) \subseteq Feedback
      BY <1>1 DEF Ahead
    <2> QED BY <1>1, <2>1, FS_Subset, FS_CardinalityType
  <1>3. ASSUME NEW a \in Candidates(listed), NEW b \in Candidates(listed), Before(a, b)
        PROVE  Cardinality(Ahead(listed, a)) < Cardinality(Ahead(listed, b))
    <2>1. a \notin Ahead(listed, a)
      BY <1>1, RankingIsAnOrder DEF Ahead
    <2>2. Ahead(listed, a) \cup {a} \subseteq Ahead(listed, b)
      BY <1>1, <1>3, RankingIsAnOrder DEF Ahead
    <2>3. Cardinality(Ahead(listed, a) \cup {a}) = Cardinality(Ahead(listed, a)) + 1
      BY <1>2, <2>1, FS_AddElement
    <2>4. Cardinality(Ahead(listed, a) \cup {a}) <= Cardinality(Ahead(listed, b))
      BY <1>2, <2>2, FS_Subset
    <2> QED BY <1>2, <2>3, <2>4
  <1>4. f # g => Before(f, g) \/ Before(g, f)
    BY <1>1, RankingIsAnOrder
  <1> QED BY <1>2, <1>3, <1>4

\* What is more urgent than a candidate is a candidate, and ranked before it.
LEMMA UrgentIsBefore ==
  ASSUME TypeOK, NEW f \in Feedback, NEW g \in Feedback,
         MoreUrgent(judgement[f], judgement[g]), IsCandidate(judgement[g])
  PROVE  IsCandidate(judgement[f]) /\ Before(f, g)
  <1> DEFINE j == judgement[f]
             k == judgement[g]
  <1>1. /\ j \in JudgementRecords /\ k \in JudgementRecords
        /\ MoreUrgent(j, k) /\ IsCandidate(k)
    BY JudgementsAssumption DEF TypeOK
  <1>2. IsCandidate(j) /\ Priority(j) > Priority(k)
    <2> HIDE DEF j, k
    <2>1. j.confidence \in 0..1000 /\ k.confidence \in 0..1000
          /\ j.useful \in BOOLEAN /\ k.useful \in BOOLEAN
          /\ j.comment \in BOOLEAN /\ k.comment \in BOOLEAN
      BY <1>1 DEF JudgementRecords
    <2> DEFINE Rejected(r) == IF r.useful THEN 0 ELSE 1000
               Lacks(r) == IF r.confidence < Threshold THEN Threshold - r.confidence ELSE 0
               Comment(r) == IF r.comment THEN 100 ELSE 0
    <2>2. /\ Priority(j) = Rejected(j) + Lacks(j) + Comment(j)
          /\ Priority(k) = Rejected(k) + Lacks(k) + Comment(k)
      BY DEF Priority
    <2>3. /\ Rejected(j) \in Int /\ Lacks(j) \in Int /\ Comment(j) \in Int
          /\ Rejected(k) \in Int /\ Lacks(k) \in Int /\ Comment(k) \in Int
          /\ j.confidence <= k.confidence => Lacks(j) >= Lacks(k)
          /\ j.confidence < k.confidence /\ j.confidence < Threshold => Lacks(j) > Lacks(k)
      <3>1. j.confidence \in Int /\ k.confidence \in Int /\ Threshold \in Int
        BY <1>1 DEF JudgementRecords, Threshold
      <3>2. /\ Rejected(j) \in Int /\ Comment(j) \in Int
            /\ Rejected(k) \in Int /\ Comment(k) \in Int
        OBVIOUS
      <3>3. Lacks(j) \in Int /\ Lacks(k) \in Int
        BY <3>1
      <3>4. j.confidence <= k.confidence => Lacks(j) >= Lacks(k)
        BY <3>1
      <3>5. j.confidence < k.confidence /\ j.confidence < Threshold => Lacks(j) > Lacks(k)
        BY <3>1
      <3> HIDE DEF Rejected, Lacks, Comment
      <3> QED BY <3>2, <3>3, <3>4, <3>5
    <2>4. /\ ~j.useful /\ k.useful => Rejected(j) > Rejected(k)
          /\ j.useful = k.useful => Rejected(j) = Rejected(k)
          /\ j.comment = k.comment => Comment(j) = Comment(k)
          /\ j.comment /\ ~k.comment => Comment(j) > Comment(k)
      OBVIOUS
    <2>5. CASE /\ ~j.useful /\ k.useful /\ j.comment = k.comment
               /\ j.confidence <= k.confidence
      <3>1. Rejected(j) > Rejected(k) /\ Comment(j) = Comment(k) /\ Lacks(j) >= Lacks(k)
        BY <2>3, <2>4, <2>5
      <3> HIDE DEF Rejected, Lacks, Comment
      <3>2. Priority(j) > Priority(k)
        BY <2>2, <2>3, <3>1
      <3> QED BY <2>5, <3>2 DEF IsCandidate
    <2>6. CASE /\ j.useful = k.useful /\ j.comment /\ ~k.comment
               /\ j.confidence = k.confidence
      <3>1. Rejected(j) = Rejected(k) /\ Comment(j) > Comment(k) /\ Lacks(j) = Lacks(k)
        BY <2>4, <2>6
      <3> HIDE DEF Rejected, Lacks, Comment
      <3>2. Priority(j) > Priority(k)
        BY <2>2, <2>3, <3>1
      <3> QED BY <1>1, <2>6, <3>2 DEF IsCandidate
    <2>7. CASE /\ j.useful = k.useful /\ j.comment = k.comment
               /\ j.confidence < k.confidence /\ j.confidence < Threshold
      <3>1. Rejected(j) = Rejected(k) /\ Comment(j) = Comment(k) /\ Lacks(j) > Lacks(k)
        BY <2>3, <2>4, <2>7
      <3> HIDE DEF Rejected, Lacks, Comment
      <3>2. Priority(j) > Priority(k)
        BY <2>2, <2>3, <3>1
      <3>3. j.confidence <= Threshold
        BY <2>1, <2>7 DEF Threshold
      <3> QED BY <3>2, <3>3 DEF IsCandidate
    <2> QED BY <1>1, <2>5, <2>6, <2>7 DEF MoreUrgent
  <1> QED BY <1>2 DEF Before

\* The cut keeps the best: the queue is a set of candidates that is closed under
\* being ahead, and it is full when it leaves out any.
LEMMA CutIsFull ==
  ASSUME TypeOK, NEW listed \in SUBSET Feedback,
         Queue(listed).total > Cardinality(Queue(listed).items)
  PROVE  Cardinality(Queue(listed).items) = MaxItems
  <1> DEFINE all == Candidates(listed)
             items == Queue(listed).items
             rank == [g \in all |-> Cardinality(Ahead(listed, g))]
             n == Cardinality(all)
  <1>1. /\ items = {g \in all : rank[g] < MaxItems} /\ MaxItems \in Nat
        /\ n > Cardinality(items)
    BY BoundsAssumption DEF Queue
  <1>2. /\ IsFiniteSet(all) /\ n \in Nat
        /\ IsFiniteSet(items) /\ Cardinality(items) \in Nat
    <2>1. IsFiniteSet(Feedback) /\ all \subseteq Feedback
      <3>1. MaxFeedback \in Int
        BY BoundsAssumption
      <3>2. IsFiniteSet(Feedback)
        BY <3>1, FS_Interval DEF Feedback
      <3> QED BY <3>2 DEF Candidates
    <2>2. IsFiniteSet(all)
      BY <2>1, FS_Subset
    <2>3. items \subseteq all
      BY <1>1
    <2>4. IsFiniteSet(items)
      BY <2>2, <2>3, FS_Subset
    <2> QED BY <2>2, <2>4, FS_CardinalityType
  <1>3. \A f, g \in all : f # g => rank[f] # rank[g]
    BY RanksGrow
  <1>4. \A g \in all : rank[g] \in 0..(n - 1)
    <2> SUFFICES ASSUME NEW g \in all PROVE rank[g] \in 0..(n - 1)
      OBVIOUS
    <2>1. Ahead(listed, g) \subseteq all \ {g}
      BY RankingIsAnOrder DEF Ahead, Candidates
    <2>2. IsFiniteSet(all \ {g}) /\ Cardinality(all \ {g}) = n - 1
      BY <1>2, FS_RemoveElement
    <2>3. Cardinality(Ahead(listed, g)) <= n - 1
      BY <2>1, <2>2, FS_Subset
    <2>4. Cardinality(Ahead(listed, g)) \in Nat
      BY RanksGrow
    <2> QED BY <1>2, <2>3, <2>4
  <1> HIDE DEF all, items, rank, n
  <1>5. Cardinality(items) <= MaxItems
    <2> DEFINE holes == 0..(MaxItems - 1)
               kept == [g \in items |-> rank[g]]
    <2>1. IsFiniteSet(holes) /\ Cardinality(holes) = MaxItems
      <3>1. 0 \in Int /\ MaxItems - 1 \in Int
        BY <1>1
      <3>2. IsFiniteSet(holes)
            /\ Cardinality(holes) = IF 0 > MaxItems - 1 THEN 0 ELSE MaxItems - 1 - 0 + 1
        BY <3>1, FS_Interval
      <3> HIDE DEF holes
      <3> QED BY <1>1, <3>2
    <2>2. kept \in [items -> holes] /\ \A g \in items : kept[g] = rank[g]
      BY <1>1, <1>2, <1>4
    <2>3. SUFFICES ASSUME MaxItems < Cardinality(items) PROVE FALSE
      BY <1>1, <1>2
    <2> HIDE DEF holes, kept
    <2>4. \E f, g \in items : f # g /\ kept[f] = kept[g]
      BY <1>2, <2>1, <2>2, <2>3, FS_PigeonHole
    <2> QED BY <1>1, <1>3, <2>2, <2>4
  <1>6. MaxItems <= Cardinality(items)
    <2> DEFINE rest == all \ items
    <2>1. IsFiniteSet(rest) /\ Cardinality(rest) = n - Cardinality(items)
      <3>1. all \cap items = items
        BY <1>1
      <3> QED BY <1>2, <3>1, FS_Difference DEF n
    <2>2. rest # {}
      BY <1>1, <1>2, <2>1, FS_EmptySet
    <2>3. \A g \in rest : rank[g] \in MaxItems..(n - 1)
      BY <1>1, <1>2, <1>4
    <2>4. MaxItems <= n - 1
      BY <1>1, <1>2, <2>2, <2>3
    <2> DEFINE holes == MaxItems..(n - 1)
               left == [g \in rest |-> rank[g]]
    <2>5. IsFiniteSet(holes) /\ Cardinality(holes) = n - MaxItems
      <3>1. MaxItems \in Int /\ n - 1 \in Int
        BY <1>1, <1>2
      <3>2. IsFiniteSet(holes)
            /\ Cardinality(holes) = IF MaxItems > n - 1 THEN 0 ELSE n - 1 - MaxItems + 1
        BY <3>1, FS_Interval
      <3> HIDE DEF holes
      <3> QED BY <1>1, <1>2, <2>4, <3>2
    <2>6. left \in [rest -> holes] /\ \A g \in rest : left[g] = rank[g]
      BY <2>3
    <2>7. SUFFICES ASSUME Cardinality(items) < MaxItems PROVE FALSE
      BY <1>1, <1>2
    <2>8. Cardinality(holes) < Cardinality(rest)
      BY <1>1, <1>2, <2>1, <2>5, <2>7
    <2>9. rest \subseteq all
      OBVIOUS
    <2> HIDE DEF rest, holes, left
    <2>10. \E f, g \in rest : f # g /\ left[f] = left[g]
      BY <2>1, <2>5, <2>6, <2>8, FS_PigeonHole
    <2> QED BY <1>3, <2>6, <2>9, <2>10
  <1>7. Cardinality(items) = MaxItems
    BY <1>1, <1>2, <1>5, <1>6
  <1> QED BY <1>7 DEF items

\* Whatever judgements there are, the queue keeps the most urgent.
LEMMA QueueIsSound == TypeOK => QueueKeepsTheMostUrgent
  <1> SUFFICES ASSUME TypeOK, NEW tenant \in Tenants \cup {None}
               PROVE  LET queue == Queue(Listed(tenant)) IN
                        /\ \A f \in Listed(tenant) \ queue.items, g \in queue.items :
                             ~MoreUrgent(judgement[f], judgement[g])
                        /\ queue.total > Cardinality(queue.items) =>
                             Cardinality(queue.items) = MaxItems
    BY DEF QueueKeepsTheMostUrgent
  <1> DEFINE listed == Listed(tenant)
             items == Queue(listed).items
  <1>1. listed \subseteq Feedback
    BY DEF Listed
  <1>2. ASSUME NEW f \in listed \ items, NEW g \in items,
               MoreUrgent(judgement[f], judgement[g])
        PROVE  FALSE
    <2>1. /\ g \in Candidates(listed) /\ g \in Feedback /\ f \in Feedback
          /\ IsCandidate(judgement[g]) /\ Cardinality(Ahead(listed, g)) < MaxItems
      BY <1>1 DEF Queue, Candidates
    <2>2. IsCandidate(judgement[f]) /\ Before(f, g)
      BY <1>2, <2>1, UrgentIsBefore
    <2>3. f \in Candidates(listed)
      BY <2>2 DEF Candidates
    <2> HIDE DEF listed
    <2>4. /\ Cardinality(Ahead(listed, f)) < Cardinality(Ahead(listed, g))
          /\ Cardinality(Ahead(listed, f)) \in Nat /\ Cardinality(Ahead(listed, g)) \in Nat
      BY <1>1, <2>1, <2>2, <2>3, RanksGrow
    <2>5. Cardinality(Ahead(listed, f)) < MaxItems
      BY <2>1, <2>4, BoundsAssumption
    <2> QED BY <2>3, <2>5 DEF Queue
  <1> QED BY <1>1, <1>2, CutIsFull

-----------------------------------------------------------------------------
(* Theorems.                                                               *)

\* Every file holds nothing, a cut-off write or a record of its store, and every
\* call is one the code may be working on.
THEOREM TypeCorrect == Spec => []TypeOK
  <1>1. ReviewInv => TypeOK
    BY DEF ReviewInv
  <1> QED BY <1>1, ReviewInvariant, PTL

\* A tenant-bound key is shown, and mails, records of its own tenant only, also in
\* the answers that join two stores read one after the other.
THEOREM KeysSeeTheirTenant == Spec => []TenantsStayApart
  <1>1. ReviewInv => TenantsStayApart
    BY DEF ReviewInv, CallsAreSound, InTenant, TenantsStayApart, Answered
  <1> QED BY <1>1, ReviewInvariant, PTL

\* A judgement that a bound key links to a report is of the report's tenant, still
\* when the judgement is written.
THEOREM LinksAreOwn == Spec => []LinksStayInTenant
  <1>1. ReviewInv => LinksStayInTenant
    BY DEF ReviewInv, CallsAreSound, LinkIsChecked, LinksStayInTenant
  <1> QED BY <1>1, ReviewInvariant, PTL

\* A reviewer's field survives every update that does not overlap with another one
\* of the record, crashes in the middle of a write included.
THEOREM PatchesAreKept == Spec => []PatchIsKept
  <1>1. ReviewInv => PatchIsKept
    BY DEF ReviewInv
  <1> QED BY <1>1, ReviewInvariant, PTL

\* A digest that was refused was not sent, and one that was reported sent was.
THEOREM DigestsAreHonest == Spec => []RefusedDigestIsNotSent
  <1>1. ReviewInv => RefusedDigestIsNotSent
    BY DEF ReviewInv, CallsAreSound, DigestIsTold, RefusedDigestIsNotSent, Answered
  <1> QED BY <1>1, ReviewInvariant, PTL

\* For every number of judgements and every length of the queue: nothing left out
\* is more urgent than anything kept, and a queue that leaves something out is full.
THEOREM QueueIsUrgent == Spec => []QueueKeepsTheMostUrgent
  <1> QED BY TypeCorrect, QueueIsSound, PTL

=============================================================================
