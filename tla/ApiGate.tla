------------------------------ MODULE ApiGate ------------------------------
(***************************************************************************)
(* What a request passes before its handler works: the rate-limit          *)
(* middleware, the role of its API key, the tenant the key is bound to,    *)
(* and the rules of the route.  The handlers themselves are the subject of *)
(* the other modules; here they answer 200 and leave the scope they got.   *)
(*                                                                         *)
(* A raw key is a pair of its text and the white space around it.  Tenants *)
(* are in normal form (stripped, lower case).  Settings do not change      *)
(* while the process runs.                                                 *)
(***************************************************************************)
EXTENDS RateLimiter, FiniteSets

CONSTANTS
  Settings,   \* key, binding and limiter settings the process may start with
  Calls,      \* requests that may come where the limiter is off
  Followed,   \* requests of the callers in Keys, where it is on
  Blank,      \* the text of a key of white space only; a blank tenant
  None

VARIABLES
  settings,   \* Settings of this process
  reply       \* the reply on its way: request, status and the scope the handler got

gateVars == <<vars, settings, reply>>

Reader == 1
Writer == 2
Admin == 3

-----------------------------------------------------------------------------
(* Routes, with the role each demands and how it treats the tenant: scoped *)
(* to a tenant the request may name, about one record by its identifier,   *)
(* global, or the ingestion of records.                                    *)

Route(name, role, access) == [name |-> name, role |-> role, access |-> access]

ProbeRoutes == {Route("health", None, "open"), Route("ready", None, "open")}

AnswerRoutes ==
  {Route("query", Reader, "scoped"), Route("query_stream", Reader, "scoped"),
   Route("chat", Writer, "scoped"), Route("get_conversation", Reader, "own")}

ReportRoutes ==
  {Route("save_report", Writer, "scoped"), Route("list_reports", Reader, "scoped"),
   Route("email_report_summary", Writer, "scoped"), Route("get_report", Reader, "own"),
   Route("export_report_markdown", Reader, "own")}

FeedbackRoutes ==
  {Route("submit_answer_feedback", Writer, "scoped"),
   Route("list_answer_feedback", Reader, "scoped"),
   Route("answer_feedback_analytics", Reader, "scoped"),
   Route("answer_feedback_active_learning", Reader, "scoped"),
   Route("list_active_learning_states", Reader, "own"),
   Route("get_active_learning_state", Reader, "own"),
   Route("update_active_learning_state", Writer, "own"),
   Route("get_answer_feedback", Reader, "own")}

IngestionRoutes ==
  {Route("ingest_records", Writer, "records"), Route("index", Admin, "global"),
   Route("submit_ingestion_job", Admin, "global"), Route("get_ingestion_job", Reader, "global")}

Routes == ProbeRoutes \cup AnswerRoutes \cup ReportRoutes \cup FeedbackRoutes \cup IngestionRoutes

-----------------------------------------------------------------------------
(* Keys, roles and bindings.                                               *)

Present(raw) == raw # None /\ raw[1] # Blank

HasRole(key, raw) == Present(raw) /\ raw[1] = key

\* _configured_keys: a key of several roles has the highest.
Roles(key) ==
  {r \in {Reader, Writer, Admin} :
     HasRole(key, CASE r = Reader -> settings.reader
                    [] r = Writer -> settings.writer
                    [] r = Admin -> settings.admin)}

RoleOf(key) == CHOOSE r \in Roles(key) : \A other \in Roles(key) : other <= r

Configured ==
  {raw[1] : raw \in {r \in {settings.reader, settings.writer, settings.admin} : Present(r)}}

\* Mutant: a key without a binding is not reported.
PolicyWithHoles ==
  IF ~settings.auth THEN settings.bindings = {}
  ELSE /\ Configured # {}
       /\ \A b \in settings.bindings : b.raw[1] \in Configured /\ b.tenant # Blank
       /\ \A b, c \in settings.bindings : b.raw[1] = c.raw[1] => b.tenant = c.tenant

\* _configured_tenants and the checks of resolve_api_principal before it looks at
\* the key.
PolicyIsValid ==
  IF ~settings.auth THEN settings.bindings = {}
  ELSE /\ Configured # {}
       /\ \A b \in settings.bindings : b.raw[1] \in Configured /\ b.tenant # Blank
       /\ \A b, c \in settings.bindings : b.raw[1] = c.raw[1] => b.tenant = c.tenant
       /\ settings.bindings # {} =>
            \A k \in Configured :
              RoleOf(k) # Admin => \E b \in settings.bindings : b.raw[1] = k

BoundTo(key) ==
  IF \E b \in settings.bindings : b.raw[1] = key
  THEN (CHOOSE b \in settings.bindings : b.raw[1] = key).tenant ELSE None

\* resolve_api_principal.
Known(raw) == ~settings.auth \/ (Present(raw) /\ raw[1] \in Configured)

Principal(raw) ==
  IF settings.auth THEN [role |-> RoleOf(raw[1]), tenant |-> BoundTo(raw[1])]
  ELSE [role |-> Admin, tenant |-> None]

-----------------------------------------------------------------------------
(* Handlers.                                                               *)

\* _confined_index_path: a JSON file with a plain name in the directory of the
\* configured index, after links are resolved.
IndexIsConfined(path) == path.parent \in {"none", "root"} /\ path.plain /\ ~path.leaves

\* _confined_input_path: a CSV under the data directory, after links are resolved.
InputIsConfined(path) == path.inside /\ path.csv

\* require_api_role and then the route: 0 if the handler may go on.
Refusal(request) ==
  LET route == request.route
      principal == Principal(request.raw)
      bound == principal.tenant
  IN  CASE ~PolicyIsValid -> 500
        [] PolicyIsValid /\ ~Known(request.raw) -> 401
        [] PolicyIsValid /\ Known(request.raw) ->
             IF \/ principal.role < route.role
                \/ route.access = "global" /\ bound # None
                \/ route.access = "records" /\ bound = None /\ principal.role # Admin
                \/ /\ route.access \in {"scoped", "records"}
                   /\ request.tenant # None /\ bound \notin {None, request.tenant}
                \/ /\ route.access = "records"
                   /\ request.foreign
             THEN 403
             ELSE IF /\ route.name \in {"index", "submit_ingestion_job"}
                     /\ ~(IndexIsConfined(request.index) /\ InputIsConfined(request.input))
             THEN 400 ELSE 0

\* _tenant_scope.
ScopeOf(request) ==
  LET bound == Principal(request.raw).tenant
  IN  IF bound # None THEN bound ELSE request.tenant

Handled(request) ==
  IF request.route.access = "open" THEN [request |-> request, status |-> 200, scope |-> None]
  ELSE IF Refusal(request) # 0
  THEN [request |-> request, status |-> Refusal(request), scope |-> None]
  ELSE [request |-> request, status |-> 200, scope |-> ScopeOf(request)]

-----------------------------------------------------------------------------
\* _rate_limit_key.
Identity(request) ==
  IF Present(request.raw) THEN <<"api-key", request.raw[1]>> ELSE <<"ip", request.host>>

\* A request has a route, and Keys are the identities of the followed requests.
ASSUME RequestAssumption ==
  /\ \A request \in Calls \cup Followed : request.route \in Routes
  /\ \A request \in Followed : Identity(request) \in Keys
\* A binding names a tenant, blank or not.
ASSUME SettingsAssumption == \A s \in Settings : \A b \in s.bindings : b.tenant # None

GateInit ==
  /\ Init
  /\ settings \in Settings
  /\ reply = None

\* A probe, and every request if the limiter is off, goes straight through.
Pass(request) ==
  /\ ~settings.limited \/ request.route.access = "open"
  /\ reply' = Handled(request)
  /\ UNCHANGED <<vars, settings>>

\* rate_limit_middleware lets the request through; also one that is then refused
\* counts.
Let(request) ==
  /\ settings.limited /\ request.route.access # "open"
  /\ Allow(Identity(request))
  /\ reply' = Handled(request)
  /\ UNCHANGED settings

\* It answers 429 with Retry-After.
TurnAway(request) ==
  /\ settings.limited /\ request.route.access # "open"
  /\ Refuse(Identity(request))
  /\ reply' = [request |-> request, status |-> 429, scope |-> None]
  /\ UNCHANGED settings

\* The reply has reached the client.
Received == reply # None /\ reply' = None /\ UNCHANGED <<vars, settings>>

GateTick == Tick /\ UNCHANGED <<settings, reply>>

GateNext ==
  \/ GateTick \/ Received
  \/ /\ reply = None
     /\ \E request \in IF settings.limited THEN Followed ELSE Calls :
          Pass(request) \/ Let(request) \/ TurnAway(request)

GateSpec == GateInit /\ [][GateNext]_gateVars

-----------------------------------------------------------------------------
(* Properties.                                                             *)

\* Whatever roles share a key and however bindings and the white space of keys
\* are written, a request is handled only with a key that some setting gives a
\* sufficient role; a key that a binding names works in that tenant and on no
\* shared artifact; and once there are bindings, a key of no tenant is the
\* administrator's.  A configuration that leaves this open handles nothing.
HandledWithinPolicy ==
  reply # None /\ reply.status = 200 /\ reply.request.route.access # "open" =>
    LET route == reply.request.route
        key == reply.request.raw[1]
        mine == {b \in settings.bindings : b.raw[1] = key}
    IN  IF ~settings.auth THEN settings.bindings = {}
        ELSE /\ reply.request.raw # None /\ key # Blank
             /\ \E r \in {<<Reader, settings.reader>>, <<Writer, settings.writer>>,
                          <<Admin, settings.admin>>} :
                  r[1] >= route.role /\ r[2] # None /\ r[2][1] = key
             /\ \A b \in mine : reply.scope = b.tenant /\ route.access # "global"
             /\ settings.bindings # {} /\ mine = {} =>
                  settings.admin # None /\ settings.admin[1] = key

\* The inductive invariant: settings stay what the process was started with.
GateInv == settings \in Settings /\ HandledWithinPolicy
=============================================================================
