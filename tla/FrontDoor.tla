----------------------------- MODULE FrontDoor -----------------------------
(***************************************************************************)
(* What a request passes on its way in and out: authentication by API key  *)
(* or OIDC bearer token, set_tenant_context on some pooled connection, the *)
(* rate limit, the role check of its route, the argument checks, the       *)
(* service call, the mapping of its error to a status and, over HTTP only, *)
(* the audit row.  Each statement takes whichever connection the pool      *)
(* hands out, and set_config(..., false) stays on that connection.  A gRPC *)
(* code is written as the HTTP status that corresponds to it.              *)
(***************************************************************************)
EXTENDS Integers, FiniteSets

CONSTANTS
    Requests,
    Arrivals,    \* request -> set of [via, op, cred] it may arrive as
    Tenants,     \* the rows of tenants
    Keys,        \* API key -> [tenant, role]
    Tokens,      \* bearer token -> [valid, tenant, roles]
    OIDC,        \* OIDC_ISSUER is set
    Conns,       \* the connections of the pool
    Securities,  \* subset of {"bypassed", "forced"}: does row security bind the pool's role
    MaxFaults,   \* bound on failing statements
    None

VARIABLES
    valid,     \* keys the api_keys lookup accepts
    context,   \* connection -> tenant of app.current_tenant, None before the first
    security,
    req,       \* request -> record
    audit,     \* set of [req, tenant, op, status]: rows of audit_log
    faults

vars == <<valid, context, security, req, audit, faults>>

(***************************************************************************)
(* The routes: who may call, whether the arguments are checked first, and  *)
(* the status each kind of service error becomes.                          *)
(***************************************************************************)
Statuses(invalid, absent, conflict, off, fails) ==
    [invalid |-> invalid, absent |-> absent, conflict |-> conflict, off |-> off, late |-> fails, fails |-> fails]

Internal == Statuses(500, 500, 500, 500, 500)
Blamed   == Statuses(400, 400, 400, 400, 400)
NotFound == Statuses(404, 404, 404, 404, 404)
Checked  == Statuses(400, 500, 500, 500, 500)
Found    == Statuses(500, 404, 500, 500, 500)
Queued   == Statuses(503, 503, 503, 503, 503)
Graph    == [Statuses(500, 500, 500, 501, 500) EXCEPT !.late = 504]
Cypher   == [Statuses(400, 400, 400, 501, 400) EXCEPT !.late = 504]
Session  == Statuses(500, 404, 409, 500, 500)
Proposal == Statuses(400, 404, 409, 400, 400)
Model    == Statuses(422, 404, 422, 503, 422)

mapSvcValidationErr == Checked

retentionError == Statuses(400, 404, 500, 500, 500)

\* The registrations of several tables together; no operation is in two of them.
Join(tables) ==
    [op \in UNION {DOMAIN t : t \in tables} |-> (CHOOSE t \in tables : op \in DOMAIN t)[op]]

Route(role, checks, errors) == [role |-> role, checks |-> checks, errors |-> errors]

Routes(ops, role, checks, errors) == [op \in ops |-> Route(role, checks, errors)]

\* server.go: MemoryService
CoreRPCs ==
    Join({Routes({"Store", "Compact"}, "write", TRUE, Internal),
          Routes({"BatchStore"}, "write", TRUE, mapSvcValidationErr),
          Routes({"Retrieve", "RetrieveStream"}, "any", TRUE, Internal),
          Routes({"BatchRetrieve"}, "any", TRUE, mapSvcValidationErr),
          Routes({"GetMemory"}, "any", TRUE, Found)})

ProbeRPCs ==
    Join({Routes({"Health"}, "open", FALSE, Internal),
          Routes({"Ready"}, "open", FALSE, Queued)})

\* operational.go
KnowledgeRPCs ==
    Join({Routes({"Refine"}, "write", TRUE, Queued),
          Routes({"CreateLink"}, "write", FALSE, Blamed),
          Routes({"ListLinks", "GetStats"}, "any", FALSE, Internal)})

EventRPCs ==
    Join({Routes({"IngestEvent"}, "write", TRUE, mapSvcValidationErr),
          Routes({"ListEventSchemas"}, "open", FALSE, Internal),
          Routes({"StreamEvents"}, "any", FALSE, Internal)})

WebhookRPCs ==
    Join({Routes({"RegisterWebhook"}, "write", TRUE, Internal),
          Routes({"ListWebhooks", "ListWebhookDeadLetter"}, "any", FALSE, Internal)})

MaintenanceRPCs ==
    Join({Routes({"MigrateEmbeddings"}, "write", TRUE, Internal),
          Routes({"Rollback"}, "write", TRUE, Found),
          Routes({"Summarize"}, "any", FALSE, mapSvcValidationErr)})

HistoryRPCs ==
    Join({Routes({"GetHistory", "GetMemoryLineage"}, "any", TRUE, Internal),
          Routes({"GetDistilledLineage"}, "any", TRUE, Found)})

ListingRPCs == Routes({"ListDistilled", "ListAudit"}, "any", TRUE, Internal)

TransferRPCs ==
    Join({Routes({"Export"}, "any", FALSE, mapSvcValidationErr),
          Routes({"Import"}, "write", TRUE, mapSvcValidationErr)})

\* admin_server.go: every method starts with requireAdmin
AdminRPCs ==
    Join({Routes({"CreateTenant"}, "admin", TRUE, mapSvcValidationErr),
          Routes({"ListTenants", "CreateAPIKey", "ListAPIKeys"}, "admin", TRUE, Internal),
          Routes({"RotateAPIKey"}, "admin", FALSE, Found)})

MetricsRPCs == Routes({"Scrape", "StreamScrape"}, "any", FALSE, Internal)

RPCs ==
    Join({CoreRPCs, ProbeRPCs, KnowledgeRPCs, EventRPCs, WebhookRPCs, MaintenanceRPCs, HistoryRPCs,
          ListingRPCs, TransferRPCs, AdminRPCs, MetricsRPCs})

\* memory_handler.go
MemoryRoutes ==
    Join({Routes({"Store", "Compact"}, "write", TRUE, Internal),
          Routes({"Rollback", "UpdateImportance"}, "write", TRUE, Found),
          Routes({"Retrieve"}, "any", TRUE, Checked)})

\* The same table with the import route registered as the two above it are.
BatchRoutesOpen ==
    Join({Routes({"BatchStore"}, "write", TRUE, Blamed),
          Routes({"BatchRetrieve", "Export"}, "any", TRUE, Internal),
          Routes({"Import"}, "any", TRUE, Checked)})

ReadRoutes == Routes({"GetMemory", "GetByPath"}, "any", TRUE, Found)

BatchRoutes ==
    Join({Routes({"BatchStore"}, "write", TRUE, Blamed),
          Routes({"BatchRetrieve", "Export"}, "any", TRUE, Internal),
          Routes({"Import"}, "write", TRUE, Checked)})

RetentionRoutes ==
    Join({Routes({"Erase", "PutRetention", "DeleteRetention"}, "admin", TRUE, retentionError),
          Routes({"ListRetention"}, "any", FALSE, retentionError)})

LinkRoutes ==
    Join({Routes({"CreateLink"}, "write", TRUE, Blamed),
          Routes({"ListLinks"}, "any", TRUE, Internal)})

RefineRoutes == Routes({"Refine"}, "write", TRUE, Queued)

LineageRoutes == Routes({"GetMemoryLineage", "GetDistilledLineage"}, "any", TRUE, Found)

HistoryRoutes == Routes({"GetHistory"}, "any", TRUE, Internal)

StatsRoutes == Routes({"GetStats"}, "any", FALSE, Internal)

UsageRoutes == Routes({"GetUsage"}, "any", FALSE, Checked)

SummarizeRoutes == Routes({"Summarize"}, "any", TRUE, Internal)

EventRoutes ==
    Join({Routes({"IngestEvent"}, "write", TRUE, Checked),
          Routes({"ListEventSchemas", "StreamEvents"}, "any", FALSE, Internal)})

AuditRoutes ==
    Join({Routes({"ListAudit"}, "any", TRUE, Internal),
          Routes({"VerifyAudit"}, "any", FALSE, Internal),
          Routes({"ExportAudit"}, "admin", TRUE, Checked)})

WebhookRoutes ==
    Join({Routes({"RegisterWebhook"}, "write", TRUE, Internal),
          Routes({"ListWebhooks", "ListWebhookDeadLetter"}, "any", TRUE, Internal)})

MigrateRoutes == Routes({"MigrateEmbeddings"}, "write", TRUE, Internal)

DistilledRoutes == Routes({"ListDistilled"}, "any", TRUE, Internal)

AdminRoutes ==
    Join({Routes({"CreateTenant", "CreateAPIKey", "ListTenants", "ListAPIKeys"}, "admin", TRUE, Internal),
          Routes({"RotateAPIKey", "RevokeAPIKey"}, "admin", FALSE, NotFound)})

SessionRoutes ==
    Join({Routes({"CreateSession"}, "write", TRUE, Internal),
          Routes({"StoreInSession", "Promote"}, "write", TRUE, Session),
          Routes({"EndSession"}, "write", TRUE, Found),
          Routes({"ListSession"}, "any", TRUE, Found)})

ExtractionRoutes ==
    Join({Routes({"ListProfiles"}, "any", FALSE, Internal),
          Routes({"UpsertProfile"}, "write", TRUE, Blamed),
          Routes({"DeleteProfile"}, "write", TRUE, Found),
          Routes({"GetExtraction"}, "any", TRUE, Found),
          Routes({"RunExtraction"}, "write", TRUE, Model)})

ProposalRoutes ==
    Join({Routes({"ListProposals"}, "any", TRUE, Internal),
          Routes({"GenerateProposals"}, "write", TRUE, Model),
          Routes({"AcceptProposal", "RejectProposal"}, "write", TRUE, Proposal)})

EntityRoutes ==
    Join({Routes({"ListEntities", "ListAliasProposals"}, "any", FALSE, Internal),
          Routes({"GetEntity"}, "any", FALSE, Found),
          Routes({"AddAlias"}, "write", TRUE, Blamed),
          Routes({"GenerateAliasProposals"}, "write", TRUE, Model),
          Routes({"AcceptAliasProposal", "RejectAliasProposal"}, "write", TRUE, Proposal)})

PolicyRoutes ==
    Join({Routes({"CreatePolicy"}, "write", TRUE, Internal),
          Routes({"PatchPolicy"}, "write", TRUE, Found),
          Routes({"ListPolicies", "ListRuns"}, "any", TRUE, Internal)})

\* graph_handler.go: 501 without the extension, 504 past the query's deadline
GraphRoutes == Routes({"FindRelated", "FindChain"}, "any", TRUE, Graph)

GraphEntityRoutes == Routes({"FindEntitiesForMemory", "FindEntitiesRelated"}, "any", TRUE, Graph)

CypherRoutes == Routes({"ExecuteCypher"}, "write", TRUE, Cypher)

\* public.go: served without a key, a limit or an audit row
IsUnauthenticatedProbe ==
    Join({Routes({"Health", "Metrics", "GraphHealth", "GraphUI"}, "open", FALSE, Internal),
          Routes({"Ready"}, "open", FALSE, Queued)})

IsAdminUIShellGET == Routes({"AdminUI"}, "shell", FALSE, Internal)

HTTPRoutes ==
    Join({MemoryRoutes, ReadRoutes, BatchRoutes, RetentionRoutes, LinkRoutes, RefineRoutes,
          LineageRoutes, HistoryRoutes, StatsRoutes, UsageRoutes, SummarizeRoutes, EventRoutes,
          AuditRoutes, WebhookRoutes, MigrateRoutes, DistilledRoutes, AdminRoutes, SessionRoutes,
          ExtractionRoutes, ProposalRoutes, EntityRoutes, PolicyRoutes, GraphRoutes,
          GraphEntityRoutes, CypherRoutes, IsUnauthenticatedProbe, IsAdminUIShellGET})

Table(via) == IF via = "http" THEN HTTPRoutes ELSE RPCs

RouteOf(a) == Table(a.via)[a.op]

\* What the constants must satisfy.  Every operation that arrives is routed, and a key
\* belongs to a tenant.
FrontDoorAssumption ==
    /\ OIDC \in BOOLEAN
    /\ Securities \subseteq {"bypassed", "forced"}
    /\ MaxFaults \in Nat
    /\ IsFiniteSet(Requests)
    /\ None \notin Tenants \cup DOMAIN Keys
    /\ \A k \in DOMAIN Keys : Keys[k].tenant \in Tenants /\ Keys[k].role \in {"admin", "user", "readonly"}
    /\ \A r \in Requests : \A a \in Arrivals[r] :
         /\ a.op \in DOMAIN Table(a.via)
         /\ a.cred.bearer # None => a.via = "http"

(***************************************************************************)
(* A request.                                                              *)
(***************************************************************************)
NoKey == [key |-> None, bearer |-> None]

Quiet == [at |-> "quiet", via |-> "http", op |-> "Health", cred |-> NoKey,
          route |-> Route("open", FALSE, Internal), tenant |-> None, role |-> None,
          status |-> 0, answer |-> {}, acted |-> FALSE]

Init ==
    /\ valid = DOMAIN Keys
    /\ context = [c \in Conns |-> None]
    /\ security \in Securities
    /\ req = [r \in Requests |-> Quiet]
    /\ audit = {}
    /\ faults = 0

Arrive(r, a) ==
    /\ req[r].at = "quiet"
    /\ req' = [req EXCEPT ![r] = [@ EXCEPT !.at = "auth", !.via = a.via, !.op = a.op, !.cred = a.cred,
                                         !.route = RouteOf(a)]]
    /\ UNCHANGED <<valid, context, security, audit, faults>>

\* An operator revokes the key, or its grace period ends.
Revoke(k) ==
    /\ k \in valid
    /\ valid' = valid \ {k}
    /\ UNCHANGED <<context, security, req, audit, faults>>

\* The answer of request r leaves with this status, without passing the audit middleware.
Refuse(r, status) ==
    req' = [req EXCEPT ![r] = [@ EXCEPT !.at = "done", !.status = status]]

\* Authenticated: the request carries this tenant and role, and asks for its tenant context.
Admit(r, tenant, role) ==
    req' = [req EXCEPT ![r] = [@ EXCEPT !.at = "context", !.tenant = tenant, !.role = role]]

(***************************************************************************)
(* authMiddleware and resolveTenantAndRole: probes and the dashboard shell *)
(* pass, a bearer token is tried before the key when OIDC is configured.   *)
(***************************************************************************)
Passes(r) ==
    \/ req[r].route.role = "open"
    \/ req[r].route.role = "shell" /\ req[r].cred.key = None /\ ~(OIDC /\ req[r].cred.bearer # None)

PassOpen(r) ==
    /\ req[r].at = "auth" /\ Passes(r)
    /\ req' = [req EXCEPT ![r].at = IF req[r].route.role = "open" THEN "serve" ELSE "limit"]
    /\ UNCHANGED <<valid, context, security, audit, faults>>

mapRole(roles) ==
    CASE "pcmi-admin" \in roles    -> "admin"
      [] "pcmi-user" \in roles     -> "user"
      [] "pcmi-readonly" \in roles -> "readonly"
      [] OTHER                     -> ""

\* oidc.Authenticate and the tenant lookup
Accepted(token) == token.valid /\ mapRole(token.roles) # "" /\ token.tenant \in Tenants

authenticateBearer(r) ==
    /\ req[r].at = "auth" /\ ~Passes(r)
    /\ OIDC /\ req[r].cred.bearer # None
    /\ LET token == Tokens[req[r].cred.bearer] IN
         \/ Accepted(token) /\ Admit(r, token.tenant, mapRole(token.roles))
         \/ ~Accepted(token) /\ Refuse(r, 401)
    /\ UNCHANGED <<valid, context, security, audit, faults>>

Authenticate(r) ==
    /\ req[r].at = "auth" /\ ~Passes(r)
    /\ ~(OIDC /\ req[r].cred.bearer # None)
    /\ LET k == req[r].cred.key IN
         \/ k \in valid /\ Admit(r, Keys[k].tenant, Keys[k].role)
         \/ k \notin valid /\ Refuse(r, 401)
    /\ UNCHANGED <<valid, context, security, audit, faults>>

AuthFails(r) ==
    /\ req[r].at = "auth" /\ ~Passes(r)
    /\ req[r].cred.key # None \/ (OIDC /\ req[r].cred.bearer # None)
    /\ faults < MaxFaults
    /\ faults' = faults + 1
    /\ Refuse(r, 401)
    /\ UNCHANGED <<valid, context, security, audit>>

\* SELECT set_tenant_context on connection c
SetTenantContext(r, c) ==
    /\ req[r].at = "context"
    /\ context' = [context EXCEPT ![c] = req[r].tenant]
    /\ req' = [req EXCEPT ![r].at = IF req[r].via = "http" THEN "limit" ELSE "serve"]
    /\ UNCHANGED <<valid, security, audit, faults>>

SetTenantContextFails(r) ==
    /\ req[r].at = "context"
    /\ faults < MaxFaults
    /\ faults' = faults + 1
    /\ Refuse(r, 503)
    /\ UNCHANGED <<valid, context, security, audit>>

\* RateLimitMiddleware; RateLimiter models what it counts
RateLimit(r) ==
    /\ req[r].at = "limit"
    /\ \/ Refuse(r, 429)
       \/ req' = [req EXCEPT ![r].at = "serve"]
    /\ UNCHANGED <<valid, context, security, audit, faults>>

(***************************************************************************)
(* The handler: role, arguments, service call.                             *)
(***************************************************************************)
\* After the handler an HTTP request returns through AuditMiddleware.
Audited(r) == req[r].via = "http" /\ req[r].route.role # "open"

Finish(r, status, answer, acted) ==
    req' = [req EXCEPT ![r] = [@ EXCEPT !.at = IF Audited(r) THEN "audit" ELSE "done",
                                        !.status = status, !.answer = answer, !.acted = acted]]

\* RequireWriteRole, RequireAdminRole and RequireAdminRoleIfAPIKeyPresent
Permitted(r) ==
    CASE req[r].route.role = "write" -> req[r].role # "readonly"
      [] req[r].route.role = "admin" -> req[r].role = "admin"
      [] req[r].route.role = "shell" -> req[r].cred.key # None => req[r].role = "admin"
      [] OTHER -> TRUE

Forbid(r) ==
    /\ req[r].at = "serve" /\ ~Permitted(r)
    /\ Finish(r, 403, {}, FALSE)
    /\ UNCHANGED <<valid, context, security, audit, faults>>

BadArguments(r) ==
    /\ req[r].at = "serve" /\ Permitted(r) /\ req[r].route.checks
    /\ Finish(r, 400, {}, FALSE)
    /\ UNCHANGED <<valid, context, security, audit, faults>>

\* The same statement with row security alone to keep tenants apart.
ReachedByPolicy(t, c) == {x \in Tenants : security = "forced" => context[c] = x}

\* The tenants whose rows a statement of tenant t on connection c reaches: its tenant_id predicate and,
\* where row security binds the role, the policy on app.current_tenant.
Reached(t, c) == {x \in Tenants : x = t /\ (security = "forced" => context[c] = x)}

\* The admin tables are not under a tenant; the open routes and the shell read no rows.  What the rewriting
\* of a free Cypher text selects is not modelled.
Untenanted(r) == req[r].tenant = None \/ req[r].op \in DOMAIN AdminRoutes \cup DOMAIN CypherRoutes

Serve(r, c) ==
    /\ req[r].at = "serve" /\ Permitted(r)
    /\ Finish(r, 200, IF Untenanted(r) THEN {} ELSE Reached(req[r].tenant, c), TRUE)
    /\ UNCHANGED <<valid, context, security, audit, faults>>

\* The service refuses, or fails after none or some of its statements.
ServeFails(r, outcome) ==
    /\ req[r].at = "serve" /\ Permitted(r)
    /\ LET errors == req[r].route.errors IN
         /\ outcome = "fails" \/ errors[outcome] # errors.fails
         /\ \E acted \in {FALSE, outcome = "fails"} : Finish(r, errors[outcome], {}, acted)
    /\ UNCHANGED <<valid, context, security, audit, faults>>

\* The row as it would be, written before the handler ran.
AuditRowEarly(r) ==
    [req |-> r, tenant |-> req[r].tenant, op |-> req[r].op, status |-> 200]

\* What AuditMiddleware writes for r.
AuditRow(r) ==
    [req |-> r, tenant |-> req[r].tenant, op |-> req[r].op, status |-> req[r].status]

AuditMiddleware(r) ==
    /\ req[r].at = "audit"
    /\ req' = [req EXCEPT ![r].at = "done"]
    /\ \/ /\ audit' = IF req[r].tenant = None THEN audit ELSE audit \cup {AuditRow(r)}
          /\ UNCHANGED faults
       \/ /\ req[r].tenant # None
          /\ faults < MaxFaults
          /\ faults' = faults + 1
          /\ UNCHANGED audit
    /\ UNCHANGED <<valid, context, security>>

Next ==
    \/ \E r \in Requests :
         \/ req[r].at = "quiet" /\ \E a \in Arrivals[r] : Arrive(r, a)
         \/ PassOpen(r) \/ authenticateBearer(r) \/ Authenticate(r) \/ AuthFails(r)
         \/ \E c \in Conns : SetTenantContext(r, c) \/ Serve(r, c)
         \/ SetTenantContextFails(r) \/ RateLimit(r) \/ Forbid(r) \/ BadArguments(r)
         \/ \E outcome \in DOMAIN Internal : ServeFails(r, outcome)
         \/ AuditMiddleware(r)
    \/ \E k \in DOMAIN Keys : Revoke(k)

Spec == Init /\ [][Next]_vars
(***************************************************************************)
(* Properties.                                                             *)
(***************************************************************************)
TypeOK ==
    /\ valid \subseteq DOMAIN Keys
    /\ context \in [Conns -> Tenants \cup {None}]
    /\ security \in Securities
    /\ \A r \in Requests :
         /\ req[r].at \in {"quiet", "auth", "context", "limit", "serve", "audit", "done"}
         /\ req[r].status \in {0, 200, 400, 401, 403, 404, 409, 422, 429, 500, 501, 503, 504}
         /\ req[r].answer \subseteq Tenants
    /\ audit \subseteq [req : Requests, tenant : Tenants, op : DOMAIN HTTPRoutes, status : Nat]
    /\ faults \in 0..MaxFaults

\* The operations that change stored state, and those kept for administrators, whatever the transport.
Administrative ==
    {"Erase", "PutRetention", "DeleteRetention", "ExportAudit", "CreateTenant", "ListTenants",
     "CreateAPIKey", "ListAPIKeys", "RotateAPIKey", "RevokeAPIKey"}

Mutating ==
    {"Store", "BatchStore", "Import", "Compact", "Rollback", "UpdateImportance", "Refine", "CreateLink",
     "IngestEvent", "RegisterWebhook", "MigrateEmbeddings", "CreateSession", "StoreInSession", "Promote",
     "EndSession", "UpsertProfile", "DeleteProfile", "RunExtraction", "GenerateProposals", "AcceptProposal",
     "RejectProposal", "AddAlias", "GenerateAliasProposals", "AcceptAliasProposal", "RejectAliasProposal",
     "CreatePolicy", "PatchPolicy"} \cup Administrative

\* Who stands behind the credential a request came with.
Holder(r) ==
    LET cred == req[r].cred IN
      CASE OIDC /\ cred.bearer # None -> [tenant |-> Tokens[cred.bearer].tenant, role |-> mapRole(Tokens[cred.bearer].roles)]
        [] ~(OIDC /\ cred.bearer # None) /\ cred.key # None -> [tenant |-> Keys[cred.key].tenant, role |-> Keys[cred.key].role]
        [] OTHER -> [tenant |-> None, role |-> "nobody"]

\* Over either transport, an operation that changes state ran, even in part, only for the holder of a key or
\* token that may write, and an administrative one only for an administrator: RequireWriteRole and
\* RequireAdminRole in the HTTP registrations, requireWriteRole and requireAdmin in the gRPC methods.
RolesAreEnforced ==
    \A r \in Requests : req[r].acted =>
        /\ req[r].op \in Mutating => Holder(r).role \in {"user", "admin"}
        /\ req[r].op \in Administrative => Holder(r).role = "admin"

\* Whichever connections the pool hands out to concurrent requests, and whatever tenant context an earlier
\* request left on them, an answer holds rows of the caller's tenant alone, and holds them all where row
\* security does not bind the role: the tenant_id predicate of every statement carries isolation by itself.
AnswersAreTenants ==
    \A r \in Requests :
        /\ req[r].answer \subseteq {Holder(r).tenant}
        /\ req[r].status = 200 /\ ~Untenanted(r) /\ security = "bypassed" => req[r].answer = {Holder(r).tenant}

\* The rows AuditMiddleware writes after the handler carry the status and tenant of the request as answered,
\* and a finished HTTP request that ran its operation for a tenant lacks its row only where the insert failed.
AuditIsTrue ==
    /\ \A row \in audit :
         /\ row.status = req[row.req].status
         /\ row.tenant = Holder(row.req).tenant
         /\ row.status \in {200} => req[row.req].acted
    /\ Cardinality({r \in Requests :
                      /\ req[r].via = "http" /\ req[r].at = "done" /\ req[r].acted /\ req[r].tenant # None
                      /\ ~\E row \in audit : row.req = r}) <= faults

\* What docs/USAGE.md says of audit_log: every API request is recorded.  A request the limiter refuses, and
\* every gRPC call, is not.
EveryRequestAudited ==
    \A r \in Requests :
        req[r].at = "done" /\ req[r].tenant # None /\ faults = 0 => \E row \in audit : row.req = r
=============================================================================
