-------------------------- MODULE FrontDoorProofs --------------------------
(***************************************************************************)
(* Roles, tenant isolation and the audit rows of FrontDoor, for any number *)
(* of requests, tenants, keys, tokens and pooled connections.              *)
(***************************************************************************)
EXTENDS FrontDoor, FiniteSetTheorems, TLAPS

Codes == {400, 404, 409, 422, 500, 501, 503, 504}

ErrorCodes == [invalid : Codes, absent : Codes, conflict : Codes, off : Codes, late : Codes, fails : Codes]

\* The route of an operation: errors get an error status, what changes state asks for a
\* role that may write, what is administrative for an administrator.
SoundRoute(op, role, errors) ==
    /\ errors \in ErrorCodes
    /\ op \in Mutating => role \in {"write", "admin"}
    /\ op \in Administrative => role = "admin"

SoundTable(table) == \A op \in DOMAIN table : SoundRoute(op, table[op].role, table[op].errors)

(***************************************************************************)
(* The route tables.                                                       *)
(***************************************************************************)
\* A table of error statuses.
LEMMA StatusesType ==
    ASSUME NEW i \in Codes, NEW a \in Codes, NEW c \in Codes, NEW o \in Codes, NEW f \in Codes
    PROVE  Statuses(i, a, c, o, f) \in ErrorCodes
BY Zenon DEF Statuses, ErrorCodes

\* Each way of mapping errors to statuses yields error statuses.
LEMMA StatusesAreErrors ==
    /\ Internal \in ErrorCodes /\ Blamed \in ErrorCodes /\ NotFound \in ErrorCodes
    /\ Checked \in ErrorCodes /\ Found \in ErrorCodes /\ Queued \in ErrorCodes
    /\ Graph \in ErrorCodes /\ Session \in ErrorCodes /\ Proposal \in ErrorCodes
    /\ Model \in ErrorCodes /\ mapSvcValidationErr \in ErrorCodes /\ retentionError \in ErrorCodes
    /\ Cypher \in ErrorCodes
<1>1. \A i, a, c, o, f \in Codes : Statuses(i, a, c, o, f) \in ErrorCodes
      BY Zenon, StatusesType
<1>2. {400, 404, 409, 422, 500, 501, 503, 504} \subseteq Codes
      BY SMTT(40) DEF Codes
<1>3. Internal \in ErrorCodes /\ Blamed \in ErrorCodes /\ NotFound \in ErrorCodes
      BY SMTT(40), <1>1, <1>2 DEF Internal, Blamed, NotFound
<1>4. Checked \in ErrorCodes /\ Found \in ErrorCodes /\ Queued \in ErrorCodes
      BY SMTT(40), <1>1, <1>2 DEF Checked, Found, Queued
<1>5. Session \in ErrorCodes /\ Proposal \in ErrorCodes /\ Model \in ErrorCodes
      BY SMTT(40), <1>1, <1>2 DEF Session, Proposal, Model
<1>6. mapSvcValidationErr \in ErrorCodes /\ retentionError \in ErrorCodes
      BY SMTT(40), <1>1, <1>2, <1>4 DEF mapSvcValidationErr, retentionError
<1>7. ASSUME NEW e \in ErrorCodes, NEW l \in Codes PROVE [e EXCEPT !.late = l] \in ErrorCodes
      BY Zenon DEF ErrorCodes
<1>8. Graph \in ErrorCodes
  <2>1. PICK e \in ErrorCodes : e = Statuses(500, 500, 500, 501, 500)
        BY SMTT(40), <1>1, <1>2
  <2> QED BY SMTT(40), <1>2, <1>7, <2>1 DEF Graph
<1>9. Cypher \in ErrorCodes
  <2>1. PICK e \in ErrorCodes : e = Statuses(400, 400, 400, 501, 400)
        BY SMTT(40), <1>1, <1>2
  <2> QED BY SMTT(40), <1>2, <1>7, <2>1 DEF Cypher
<1> QED BY Zenon, <1>3, <1>4, <1>5, <1>6, <1>8, <1>9

\* Operations registered alike form a sound table when the role suits all of them.
LEMMA RoutesSound ==
    ASSUME NEW ops, NEW role, NEW checks, NEW errors \in ErrorCodes,
           role \in {"write", "admin"} \/ \A op \in ops : op \notin Mutating,
           role = "admin" \/ \A op \in ops : op \notin Administrative
    PROVE  SoundTable(Routes(ops, role, checks, errors))
<1> DEFINE t == Routes(ops, role, checks, errors)
<1>1. DOMAIN t = ops /\ \A op \in ops : t[op] = Route(role, checks, errors)
      BY Zenon DEF Routes
<1>2. Route(role, checks, errors).role = role /\ Route(role, checks, errors).errors = errors
      BY Zenon DEF Route
<1> HIDE DEF t
<1>3. SoundTable(t)
      BY Zenon, <1>1, <1>2 DEF SoundTable, SoundRoute
<1> QED BY Zenon, <1>3 DEF t

\* A table of operations that change nothing, whatever it asks for.
LEMMA ReadSound ==
    ASSUME NEW ops, NEW role, NEW checks, NEW errors \in ErrorCodes, \A op \in ops : op \notin Mutating
    PROVE  SoundTable(Routes(ops, role, checks, errors))
<1>1. \A op \in ops : op \notin Mutating /\ op \notin Administrative
      BY Zenon DEF Mutating
<1> QED BY Zenon, <1>1, RoutesSound

\* A table of writes that ask for a role that may write.
LEMMA WriteSound ==
    ASSUME NEW ops, NEW checks, NEW errors \in ErrorCodes, \A op \in ops : op \notin Administrative
    PROVE  SoundTable(Routes(ops, "write", checks, errors))
BY Zenon, RoutesSound

\* A table of operations that ask for an administrator.
LEMMA AdminSound ==
    ASSUME NEW ops, NEW checks, NEW errors \in ErrorCodes
    PROVE  SoundTable(Routes(ops, "admin", checks, errors))
BY Zenon, RoutesSound

\* Sound tables together are sound.
LEMMA JoinSound ==
    ASSUME NEW tables, \A t \in tables : SoundTable(t)
    PROVE  SoundTable(Join(tables))
<1> SUFFICES ASSUME NEW op \in DOMAIN Join(tables)
             PROVE  SoundRoute(op, Join(tables)[op].role, Join(tables)[op].errors)
    BY ZenonT(60) DEF SoundTable
<1>1. \E t \in tables : op \in DOMAIN t
      BY ZenonT(60) DEF Join
<1> DEFINE c == CHOOSE t \in tables : op \in DOMAIN t
<1>2. c \in tables /\ op \in DOMAIN c
      BY ZenonT(60), <1>1
<1>3. Join(tables)[op] = c[op]
      BY ZenonT(60), <1>1 DEF Join
<1> HIDE DEF c
<1> QED BY ZenonT(60), <1>2, <1>3 DEF SoundTable

\* The registrations of the gRPC methods are sound.
LEMMA RPCsSound == SoundTable(RPCs)
<1>1. SoundTable(CoreRPCs)
      BY ZenonT(180), ReadSound, WriteSound, JoinSound, StatusesAreErrors DEF CoreRPCs, Mutating, Administrative
<1>2. SoundTable(ProbeRPCs)
      BY ZenonT(60), ReadSound, JoinSound, StatusesAreErrors DEF ProbeRPCs, Mutating, Administrative
<1>3. SoundTable(KnowledgeRPCs)
      BY ZenonT(180), ReadSound, WriteSound, JoinSound, StatusesAreErrors DEF KnowledgeRPCs, Mutating, Administrative
<1>4. SoundTable(EventRPCs)
      BY ZenonT(60), ReadSound, WriteSound, JoinSound, StatusesAreErrors DEF EventRPCs, Mutating, Administrative
<1>5. SoundTable(WebhookRPCs)
      BY ZenonT(60), ReadSound, WriteSound, JoinSound, StatusesAreErrors DEF WebhookRPCs, Mutating, Administrative
<1>6. SoundTable(MaintenanceRPCs)
      BY ZenonT(60), ReadSound, WriteSound, JoinSound, StatusesAreErrors DEF MaintenanceRPCs, Mutating, Administrative
<1>7. SoundTable(HistoryRPCs)
      BY ZenonT(60), ReadSound, JoinSound, StatusesAreErrors DEF HistoryRPCs, Mutating, Administrative
<1>8. SoundTable(ListingRPCs)
      BY ZenonT(60), ReadSound, StatusesAreErrors DEF ListingRPCs, Mutating, Administrative
<1>9. SoundTable(TransferRPCs)
      BY ZenonT(60), ReadSound, WriteSound, JoinSound, StatusesAreErrors DEF TransferRPCs, Mutating, Administrative
<1>10. SoundTable(AdminRPCs)
      BY ZenonT(60), AdminSound, JoinSound, StatusesAreErrors DEF AdminRPCs
<1>11. SoundTable(MetricsRPCs)
      BY ZenonT(60), ReadSound, StatusesAreErrors DEF MetricsRPCs, Mutating, Administrative
<1> QED
      BY ZenonT(60), <1>1, <1>2, <1>3, <1>4, <1>5, <1>6, <1>7, <1>8, <1>9, <1>10, <1>11, JoinSound,
         ZenonT(40) DEF RPCs

\* The registrations of the HTTP routes are sound.
LEMMA HTTPRoutesSound == SoundTable(HTTPRoutes)
<1>1. SoundTable(MemoryRoutes)
      BY ZenonT(60), ReadSound, WriteSound, JoinSound, StatusesAreErrors DEF MemoryRoutes, Mutating, Administrative
<1>2. SoundTable(ReadRoutes)
      BY ZenonT(60), ReadSound, StatusesAreErrors DEF ReadRoutes, Mutating, Administrative
<1>3. SoundTable(BatchRoutes)
      BY ZenonT(180), ReadSound, WriteSound, JoinSound, StatusesAreErrors DEF BatchRoutes, Mutating, Administrative
<1>4. SoundTable(RetentionRoutes)
      BY ZenonT(60), ReadSound, AdminSound, JoinSound, StatusesAreErrors DEF RetentionRoutes, Mutating, Administrative
<1>5. SoundTable(LinkRoutes)
      BY ZenonT(60), ReadSound, WriteSound, JoinSound, StatusesAreErrors DEF LinkRoutes, Mutating, Administrative
<1>6. SoundTable(RefineRoutes)
      BY ZenonT(60), WriteSound, StatusesAreErrors DEF RefineRoutes, Administrative
<1>7. SoundTable(LineageRoutes)
      BY ZenonT(60), ReadSound, StatusesAreErrors DEF LineageRoutes, Mutating, Administrative
<1>8. SoundTable(HistoryRoutes)
      BY ZenonT(60), ReadSound, StatusesAreErrors DEF HistoryRoutes, Mutating, Administrative
<1>9. SoundTable(StatsRoutes)
      BY ZenonT(60), ReadSound, StatusesAreErrors DEF StatsRoutes, Mutating, Administrative
<1>10. SoundTable(UsageRoutes)
      BY ZenonT(60), ReadSound, StatusesAreErrors DEF UsageRoutes, Mutating, Administrative
<1>11. SoundTable(SummarizeRoutes)
      BY ZenonT(60), ReadSound, StatusesAreErrors DEF SummarizeRoutes, Mutating, Administrative
<1>12. SoundTable(EventRoutes)
      BY ZenonT(60), ReadSound, WriteSound, JoinSound, StatusesAreErrors DEF EventRoutes, Mutating, Administrative
<1>13. SoundTable(AuditRoutes)
      BY ZenonT(60), ReadSound, AdminSound, JoinSound, StatusesAreErrors DEF AuditRoutes, Mutating, Administrative
<1>14. SoundTable(WebhookRoutes)
      BY ZenonT(60), ReadSound, WriteSound, JoinSound, StatusesAreErrors DEF WebhookRoutes, Mutating, Administrative
<1>15. SoundTable(MigrateRoutes)
      BY ZenonT(60), WriteSound, StatusesAreErrors DEF MigrateRoutes, Administrative
<1>16. SoundTable(DistilledRoutes)
      BY ZenonT(60), ReadSound, StatusesAreErrors DEF DistilledRoutes, Mutating, Administrative
<1>17. SoundTable(AdminRoutes)
      BY ZenonT(60), AdminSound, JoinSound, StatusesAreErrors DEF AdminRoutes
<1>18. SoundTable(SessionRoutes)
      BY ZenonT(60), ReadSound, WriteSound, JoinSound, StatusesAreErrors DEF SessionRoutes, Mutating, Administrative
<1>19. SoundTable(ExtractionRoutes)
      BY ZenonT(60), ReadSound, WriteSound, JoinSound, StatusesAreErrors DEF ExtractionRoutes, Mutating, Administrative
<1>20. SoundTable(ProposalRoutes)
      BY ZenonT(60), ReadSound, WriteSound, JoinSound, StatusesAreErrors DEF ProposalRoutes, Mutating, Administrative
<1>21. SoundTable(EntityRoutes)
      BY ZenonT(180), ReadSound, WriteSound, JoinSound, StatusesAreErrors DEF EntityRoutes, Mutating, Administrative
<1>22. SoundTable(PolicyRoutes)
      BY ZenonT(180), ReadSound, WriteSound, JoinSound, StatusesAreErrors DEF PolicyRoutes, Mutating, Administrative
<1>23. SoundTable(GraphRoutes)
      BY ZenonT(60), ReadSound, StatusesAreErrors DEF GraphRoutes, Mutating, Administrative
<1>24. SoundTable(GraphEntityRoutes)
      BY ZenonT(60), ReadSound, StatusesAreErrors DEF GraphEntityRoutes, Mutating, Administrative
<1>25. SoundTable(CypherRoutes)
      BY ZenonT(60), WriteSound, StatusesAreErrors DEF CypherRoutes, Administrative
<1>26. SoundTable(IsUnauthenticatedProbe)
      BY ZenonT(180), ReadSound, JoinSound, StatusesAreErrors DEF IsUnauthenticatedProbe, Mutating, Administrative
<1>27. SoundTable(IsAdminUIShellGET)
      BY ZenonT(60), ReadSound, StatusesAreErrors DEF IsAdminUIShellGET, Mutating, Administrative
<1> QED
      BY SMTT(40), <1>1, <1>2, <1>3, <1>4, <1>5, <1>6, <1>7, <1>8, <1>9, <1>10, <1>11, <1>12, <1>13,
         <1>14, <1>15, <1>16, <1>17, <1>18, <1>19, <1>20, <1>21, <1>22, <1>23, <1>24,
         <1>25, <1>26, <1>27, JoinSound DEF HTTPRoutes

(***************************************************************************)
(* What is true of every request.                                          *)
(***************************************************************************)
AllArrivals == UNION {Arrivals[r] : r \in Requests}

Phases == {"quiet", "auth", "context", "limit", "serve", "audit", "done"}

Query ==
    [at : Phases, via : {"http"} \cup {a.via : a \in AllArrivals},
     op : {"Health"} \cup {a.op : a \in AllArrivals}, cred : {NoKey} \cup {a.cred : a \in AllArrivals},
     route : {Quiet.route} \cup {RouteOf(a) : a \in AllArrivals}, tenant : Tenants \cup {None},
     role : {"admin", "user", "readonly", None}, status : Nat, answer : SUBSET Tenants, acted : BOOLEAN]

\* Frame lemmas: what one step leaves of the request it is about, and of the others.
LEMMA MoveFrame ==
    ASSUME NEW r \in Requests, NEW phase \in Phases, req \in [Requests -> Query],
           req' = [req EXCEPT ![r].at = phase]
    PROVE  /\ req' \in [Requests -> Query]
           /\ \A u \in Requests \ {r} : req'[u] = req[u]
           /\ req'[r].at = phase
           /\ req'[r].via = req[r].via /\ req'[r].op = req[r].op /\ req'[r].cred = req[r].cred
           /\ req'[r].route = req[r].route /\ req'[r].tenant = req[r].tenant /\ req'[r].role = req[r].role
           /\ req'[r].status = req[r].status /\ req'[r].answer = req[r].answer
           /\ req'[r].acted = req[r].acted
<1>1. PICK q \in Query : q = req[r]
      BY Zenon
<1>2. req' = [req EXCEPT ![r] = [q EXCEPT !.at = phase]]
      BY ZenonT(60), <1>1
<1>3. [q EXCEPT !.at = phase] \in Query
      BY ZenonT(60) DEF Query
<1> QED BY SMTT(40), <1>1, <1>2, <1>3 DEF Query

\* The request leaves with a status.
LEMMA RefuseFrame ==
    ASSUME NEW r \in Requests, NEW status \in Nat, req \in [Requests -> Query], Refuse(r, status)
    PROVE  /\ req' \in [Requests -> Query]
           /\ \A u \in Requests \ {r} : req'[u] = req[u]
           /\ req'[r].at = "done" /\ req'[r].status = status
           /\ req'[r].via = req[r].via /\ req'[r].op = req[r].op /\ req'[r].cred = req[r].cred
           /\ req'[r].route = req[r].route /\ req'[r].tenant = req[r].tenant
           /\ req'[r].role = req[r].role /\ req'[r].answer = req[r].answer
           /\ req'[r].acted = req[r].acted
<1>1. PICK q \in Query : q = req[r]
      BY Zenon
<1>2. req' = [req EXCEPT ![r] = [q EXCEPT !.at = "done", !.status = status]]
      BY ZenonT(60), <1>1 DEF Refuse
<1>3. [q EXCEPT !.at = "done", !.status = status] \in Query
      BY ZenonT(60) DEF Query, Phases
<1> QED BY ZenonT(60), <1>1, <1>2, <1>3 DEF Query

\* The request arrives.
LEMMA ArriveFrame ==
    ASSUME NEW r \in Requests, NEW a \in Arrivals[r], req \in [Requests -> Query], Arrive(r, a)
    PROVE  /\ req' \in [Requests -> Query]
           /\ \A u \in Requests \ {r} : req'[u] = req[u]
           /\ req'[r].at = "auth" /\ req'[r].via = a.via /\ req'[r].op = a.op
           /\ req'[r].cred = a.cred /\ req'[r].route = RouteOf(a)
           /\ req'[r].tenant = req[r].tenant /\ req'[r].role = req[r].role
           /\ req'[r].status = req[r].status /\ req'[r].answer = req[r].answer
           /\ req'[r].acted = req[r].acted
<1>1. PICK q \in Query : q = req[r]
      BY Zenon
<1>2. req' = [req EXCEPT ![r] = [q EXCEPT !.at = "auth", !.via = a.via, !.op = a.op,
                !.cred = a.cred, !.route = RouteOf(a)]]
      BY ZenonT(60), <1>1 DEF Arrive
<1>3. [q EXCEPT !.at = "auth", !.via = a.via, !.op = a.op,
                !.cred = a.cred, !.route = RouteOf(a)] \in Query
      BY ZenonT(180) DEF Query, Phases, AllArrivals
<1> QED BY ZenonT(60), <1>1, <1>2, <1>3 DEF Query

\* The request has a tenant and a role.
LEMMA AdmitFrame ==
    ASSUME NEW r \in Requests, NEW tenant \in Tenants, NEW role \in {"admin", "user", "readonly"},
           req \in [Requests -> Query], Admit(r, tenant, role)
    PROVE  /\ req' \in [Requests -> Query]
           /\ \A u \in Requests \ {r} : req'[u] = req[u]
           /\ req'[r].at = "context" /\ req'[r].tenant = tenant /\ req'[r].role = role
           /\ req'[r].via = req[r].via /\ req'[r].op = req[r].op /\ req'[r].cred = req[r].cred
           /\ req'[r].route = req[r].route /\ req'[r].status = req[r].status
           /\ req'[r].answer = req[r].answer /\ req'[r].acted = req[r].acted
<1>1. PICK q \in Query : q = req[r]
      BY Zenon
<1>2. req' = [req EXCEPT ![r] = [q EXCEPT !.at = "context", !.tenant = tenant, !.role = role]]
      BY ZenonT(60), <1>1 DEF Admit
<1>3. [q EXCEPT !.at = "context", !.tenant = tenant, !.role = role] \in Query
      BY ZenonT(60) DEF Query, Phases
<1> QED BY ZenonT(60), <1>1, <1>2, <1>3 DEF Query

\* The handler answers.
LEMMA FinishFrame ==
    ASSUME NEW r \in Requests, NEW status \in Nat, NEW answer \in SUBSET Tenants, NEW acted \in BOOLEAN,
           req \in [Requests -> Query], Finish(r, status, answer, acted)
    PROVE  /\ req' \in [Requests -> Query]
           /\ \A u \in Requests \ {r} : req'[u] = req[u]
           /\ req'[r].at = (IF Audited(r) THEN "audit" ELSE "done") /\ req'[r].status = status
           /\ req'[r].answer = answer /\ req'[r].acted = acted
           /\ req'[r].via = req[r].via /\ req'[r].op = req[r].op /\ req'[r].cred = req[r].cred
           /\ req'[r].route = req[r].route /\ req'[r].tenant = req[r].tenant
           /\ req'[r].role = req[r].role
<1>1. PICK q \in Query : q = req[r]
      BY Zenon
<1>2. req' = [req EXCEPT ![r] = [q EXCEPT !.at = IF Audited(r) THEN "audit" ELSE "done",
                !.status = status, !.answer = answer, !.acted = acted]]
      BY ZenonT(60), <1>1 DEF Finish
<1>3. [q EXCEPT !.at = IF Audited(r) THEN "audit" ELSE "done",
                !.status = status, !.answer = answer, !.acted = acted] \in Query
      BY ZenonT(180) DEF Query, Phases
<1> QED BY ZenonT(60), <1>1, <1>2, <1>3 DEF Query

Early == {"quiet", "auth", "context", "limit", "serve"}

\* The route is sound, the tenant and role are those of the credential, nothing was done
\* or answered before the handler, and what was done was permitted and answered for the
\* tenant.
Sound(r) ==
    /\ SoundRoute(req[r].op, req[r].route.role, req[r].route.errors)
    /\ req[r].at \in {"quiet", "auth"} => req[r].tenant = None
    /\ req[r].at \in Early => req[r].status = 0 /\ req[r].answer = {} /\ ~req[r].acted
    /\ req[r].tenant # None =>
         /\ req[r].tenant = Holder(r).tenant /\ req[r].role = Holder(r).role
         /\ req[r].role \in {"admin", "user", "readonly"}
         /\ req[r].route.role # "open"
    /\ req[r].at \in {"context", "limit", "serve"} \/ req[r].acted =>
         req[r].tenant # None \/ req[r].route.role \in {"open", "shell"}
    /\ req[r].acted => Permitted(r)
    /\ req[r].answer \subseteq {req[r].tenant}
    /\ req[r].status = 200 =>
         /\ req[r].acted
         /\ ~Untenanted(r) /\ security = "bypassed" => req[r].answer = {req[r].tenant}

DoorInv ==
    /\ req \in [Requests -> Query]
    /\ valid \subseteq DOMAIN Keys
    /\ \A r \in Requests : Sound(r)

\* A step of one request leaves the others as they are.
LEMMA OthersSound ==
    ASSUME NEW u \in Requests, Sound(u), req'[u] = req[u], security' = security
    PROVE  Sound(u)'
<1>1. Holder(u)' = Holder(u)
      BY Zenon DEF Holder
<1>2. Permitted(u)' = Permitted(u)
      BY Zenon DEF Permitted
<1>3. Untenanted(u)' = Untenanted(u)
      BY Zenon DEF Untenanted
<1> QED BY SMTT(40), <1>1, <1>2, <1>3 DEF Sound

\* A step that keeps who asks for what keeps what depends on it.
LEMMA SameCaller ==
    ASSUME NEW r \in Requests, req'[r].op = req[r].op, req'[r].cred = req[r].cred,
           req'[r].route = req[r].route, req'[r].tenant = req[r].tenant, req'[r].role = req[r].role
    PROVE  Holder(r)' = Holder(r) /\ Permitted(r)' = Permitted(r) /\ Untenanted(r)' = Untenanted(r)
<1>1. Holder(r)' = Holder(r)
      BY Zenon DEF Holder
<1>2. Permitted(r)' = Permitted(r)
      BY Zenon DEF Permitted
<1>3. Untenanted(r)' = Untenanted(r)
      BY Zenon DEF Untenanted
<1> QED BY Zenon, <1>1, <1>2, <1>3

\* A request arrives at a registered route.
LEMMA ArriveSound ==
    ASSUME FrontDoorAssumption, DoorInv, NEW r \in Requests, NEW a \in Arrivals[r], Arrive(r, a)
    PROVE  DoorInv'
<1>1. req' \in [Requests -> Query] /\ \A u \in Requests \ {r} : req'[u] = req[u]
      BY Zenon, ArriveFrame DEF DoorInv
<1>2. security' = security /\ valid' = valid /\ req[r].at = "quiet"
      BY Zenon DEF Arrive
<1>3. SoundRoute(a.op, RouteOf(a).role, RouteOf(a).errors)
  <2>1. SoundTable(Table(a.via))
        BY Zenon, RPCsSound, HTTPRoutesSound DEF Table
  <2>2. a.op \in DOMAIN Table(a.via)
        BY Zenon DEF FrontDoorAssumption
  <2> QED BY Zenon, <2>1, <2>2 DEF SoundTable, RouteOf
<1>4. Sound(r)'
  <2>1. /\ req'[r].at = "auth" /\ req'[r].op = a.op /\ req'[r].route = RouteOf(a)
        /\ req'[r].tenant = req[r].tenant /\ req'[r].status = req[r].status
        /\ req'[r].answer = req[r].answer /\ req'[r].acted = req[r].acted
        BY Zenon, ArriveFrame DEF DoorInv
  <2>2. req[r].tenant = None /\ req[r].status = 0 /\ req[r].answer = {} /\ ~req[r].acted
        BY Zenon, <1>2 DEF DoorInv, Sound, Early
  <2> QED BY SMTT(40), <1>3, <2>1, <2>2 DEF Sound
<1> QED BY Zenon, <1>1, <1>2, <1>4, OthersSound DEF DoorInv

\* A request is refused before its handler ran.
LEMMA RefuseSound ==
    ASSUME DoorInv, NEW r \in Requests, NEW status \in Nat \ {200}, req[r].at \in Early,
           Refuse(r, status), security' = security, valid' = valid
    PROVE  DoorInv'
<1>1. /\ req' \in [Requests -> Query] /\ \A u \in Requests \ {r} : req'[u] = req[u]
      /\ req'[r].at = "done" /\ req'[r].status = status
      /\ req'[r].op = req[r].op /\ req'[r].cred = req[r].cred /\ req'[r].route = req[r].route
      /\ req'[r].tenant = req[r].tenant /\ req'[r].role = req[r].role
      /\ req'[r].answer = req[r].answer /\ req'[r].acted = req[r].acted
      BY SMTT(40), RefuseFrame DEF DoorInv
<1>2. Holder(r)' = Holder(r)
      BY ZenonT(60), <1>1, SameCaller
<1>3. Sound(r)'
      BY SMTT(40), <1>1, <1>2 DEF DoorInv, Sound, Early
<1> QED BY ZenonT(60), <1>1, <1>3, OthersSound DEF DoorInv

\* A request goes from one middleware to the next, or past the audit.
LEMMA MoveSound ==
    ASSUME DoorInv, NEW r \in Requests, NEW phase \in {"limit", "serve", "done"},
           \/ req[r].at = "auth" /\ phase # "done" /\ req[r].route.role \in {"open", "shell"}
           \/ req[r].at \in {"context", "limit"} /\ phase # "done"
           \/ req[r].at = "audit" /\ phase = "done",
           req' = [req EXCEPT ![r].at = phase], security' = security, valid' = valid
    PROVE  DoorInv'
<1>1. phase \in Phases
      BY Zenon DEF Phases
<1>2. /\ req' \in [Requests -> Query] /\ \A u \in Requests \ {r} : req'[u] = req[u]
      /\ req'[r].at = phase /\ req'[r].status = req[r].status
      /\ req'[r].op = req[r].op /\ req'[r].cred = req[r].cred /\ req'[r].route = req[r].route
      /\ req'[r].tenant = req[r].tenant /\ req'[r].role = req[r].role
      /\ req'[r].answer = req[r].answer /\ req'[r].acted = req[r].acted
      BY ZenonT(60), <1>1, MoveFrame DEF DoorInv
<1>3. Holder(r)' = Holder(r) /\ Permitted(r)' = Permitted(r) /\ Untenanted(r)' = Untenanted(r)
      BY Zenon, <1>2, SameCaller
<1>4. Sound(r)'
      BY SMTT(40), <1>2, <1>3 DEF DoorInv, Sound, Early
<1> QED BY Zenon, <1>2, <1>4, OthersSound DEF DoorInv

\* A request is admitted as the holder of its credential.
LEMMA AdmitSound ==
    ASSUME DoorInv, NEW r \in Requests, NEW tenant \in Tenants, NEW role \in {"admin", "user", "readonly"},
           req[r].at = "auth", req[r].route.role # "open", None \notin Tenants,
           Holder(r).tenant = tenant, Holder(r).role = role,
           Admit(r, tenant, role), security' = security, valid' = valid
    PROVE  DoorInv'
<1>1. /\ req' \in [Requests -> Query] /\ \A u \in Requests \ {r} : req'[u] = req[u]
      /\ req'[r].at = "context" /\ req'[r].status = req[r].status
      /\ req'[r].op = req[r].op /\ req'[r].cred = req[r].cred /\ req'[r].route = req[r].route
      /\ req'[r].tenant = tenant /\ req'[r].role = role
      /\ req'[r].answer = req[r].answer /\ req'[r].acted = req[r].acted
      BY SMTT(40), AdmitFrame DEF DoorInv
<1>2. Holder(r)' = Holder(r)
      BY ZenonT(60), <1>1 DEF Holder
<1>3. Sound(r)'
      BY SMTT(40), <1>1, <1>2 DEF DoorInv, Sound, Early
<1> QED BY Zenon, <1>1, <1>3, OthersSound DEF DoorInv

\* A handler that was permitted, or did nothing, answers.
LEMMA FinishSound ==
    ASSUME DoorInv, NEW r \in Requests, NEW status \in Nat, NEW answer \in SUBSET Tenants,
           NEW acted \in BOOLEAN, req[r].at = "serve", acted => Permitted(r),
           answer \subseteq {req[r].tenant},
           status = 200 => /\ acted
                           /\ ~Untenanted(r) /\ security = "bypassed" => answer = {req[r].tenant},
           Finish(r, status, answer, acted), security' = security, valid' = valid
    PROVE  DoorInv'
<1>1. /\ req' \in [Requests -> Query] /\ \A u \in Requests \ {r} : req'[u] = req[u]
      /\ req'[r].at \in {"audit", "done"} /\ req'[r].status = status
      /\ req'[r].op = req[r].op /\ req'[r].cred = req[r].cred /\ req'[r].route = req[r].route
      /\ req'[r].tenant = req[r].tenant /\ req'[r].role = req[r].role
      /\ req'[r].answer = answer /\ req'[r].acted = acted
      BY SMTT(40), FinishFrame DEF DoorInv
<1>2. Holder(r)' = Holder(r) /\ Permitted(r)' = Permitted(r) /\ Untenanted(r)' = Untenanted(r)
      BY Zenon, <1>1, SameCaller
<1>3. Sound(r)'
      BY SMTT(40), <1>1, <1>2 DEF DoorInv, Sound, Early
<1> QED BY ZenonT(60), <1>1, <1>3, OthersSound DEF DoorInv

\* Before authentication and after it: every middleware step.
LEMMA EntrySound ==
    ASSUME FrontDoorAssumption, DoorInv, NEW r \in Requests,
           \/ PassOpen(r) \/ authenticateBearer(r) \/ Authenticate(r) \/ AuthFails(r)
           \/ \E c \in Conns : SetTenantContext(r, c)
           \/ SetTenantContextFails(r) \/ RateLimit(r)
    PROVE  DoorInv'
<1> USE DEF Early
<1>1. CASE PassOpen(r)
  <2>1. PICK phase \in {"limit", "serve"} : req' = [req EXCEPT ![r].at = phase]
        BY Zenon, <1>1 DEF PassOpen
  <2>2. req[r].at = "auth" /\ req[r].route.role \in {"open", "shell"} /\ security' = security /\ valid' = valid
        BY Zenon, <1>1 DEF PassOpen, Passes
  <2> QED BY Zenon, <2>1, <2>2, MoveSound
<1>2. ASSUME req[r].at = "auth", ~Passes(r) PROVE req[r].route.role # "open"
      BY Zenon, <1>2 DEF Passes
<1>3. CASE authenticateBearer(r)
  <2> DEFINE token == Tokens[req[r].cred.bearer]
  <2>1. /\ req[r].at = "auth" /\ ~Passes(r) /\ OIDC /\ req[r].cred.bearer # None
        /\ security' = security /\ valid' = valid
        /\ \/ Accepted(token) /\ Admit(r, token.tenant, mapRole(token.roles))
           \/ Refuse(r, 401)
        BY ZenonT(60), <1>3 DEF authenticateBearer
  <2>2. CASE Refuse(r, 401)
        BY SMTT(40), <2>1, <2>2, RefuseSound
  <2>3. CASE Accepted(token) /\ Admit(r, token.tenant, mapRole(token.roles))
    <3>1. token.tenant \in Tenants /\ mapRole(token.roles) \in {"admin", "user", "readonly"}
      <4>1. mapRole(token.roles) \in {"admin", "user", "readonly", ""}
            BY Zenon DEF mapRole
      <4> QED BY Zenon, <2>3, <4>1 DEF Accepted
    <3>2. Holder(r) = [tenant |-> token.tenant, role |-> mapRole(token.roles)]
          BY Zenon, <2>1 DEF Holder
    <3>3. Holder(r).tenant = token.tenant /\ Holder(r).role = mapRole(token.roles)
          BY SMTT(40), <3>2
    <3> HIDE DEF token
    <3> QED BY Zenon, <1>2, <2>1, <2>3, <3>1, <3>3, AdmitSound DEF FrontDoorAssumption
  <2> QED BY Zenon, <2>1, <2>2, <2>3
<1>4. CASE Authenticate(r)
  <2> DEFINE k == req[r].cred.key
  <2>1. /\ req[r].at = "auth" /\ ~Passes(r) /\ ~(OIDC /\ req[r].cred.bearer # None)
        /\ security' = security /\ valid' = valid
        /\ \/ k \in valid /\ Admit(r, Keys[k].tenant, Keys[k].role)
           \/ Refuse(r, 401)
        BY Zenon, <1>4 DEF Authenticate
  <2>2. CASE Refuse(r, 401)
        BY SMTT(40), <2>1, <2>2, RefuseSound
  <2>3. CASE k \in valid /\ Admit(r, Keys[k].tenant, Keys[k].role)
    <3>1. /\ k # None /\ Keys[k].tenant \in Tenants /\ Keys[k].role \in {"admin", "user", "readonly"}
          BY Zenon, <2>3 DEF DoorInv, FrontDoorAssumption
    <3>2. Holder(r) = [tenant |-> Keys[k].tenant, role |-> Keys[k].role]
          BY ZenonT(60), <2>1, <3>1 DEF Holder
    <3>3. Holder(r).tenant = Keys[k].tenant /\ Holder(r).role = Keys[k].role
          BY SMTT(40), <3>2
    <3> HIDE DEF k
    <3> QED BY ZenonT(60), <1>2, <2>1, <2>3, <3>1, <3>3, AdmitSound DEF FrontDoorAssumption
  <2> QED BY Zenon, <2>1, <2>2, <2>3
<1>5. CASE AuthFails(r)
      BY SMTT(40), <1>5, RefuseSound DEF AuthFails
<1>6. ASSUME NEW c \in Conns, SetTenantContext(r, c) PROVE DoorInv'
  <2>1. PICK phase \in {"limit", "serve"} : req' = [req EXCEPT ![r].at = phase]
        BY Zenon, <1>6 DEF SetTenantContext
  <2>2. req[r].at = "context" /\ security' = security /\ valid' = valid
        BY Zenon, <1>6 DEF SetTenantContext
  <2> QED BY Zenon, <2>1, <2>2, MoveSound
<1>7. CASE SetTenantContextFails(r)
      BY SMTT(40), <1>7, RefuseSound DEF SetTenantContextFails
<1>8. CASE RateLimit(r)
  <2>1. /\ req[r].at = "limit" /\ security' = security /\ valid' = valid
        /\ Refuse(r, 429) \/ req' = [req EXCEPT ![r].at = "serve"]
        BY Zenon, <1>8 DEF RateLimit
  <2>2. CASE Refuse(r, 429)
        BY SMTT(40), <2>1, <2>2, RefuseSound
  <2>3. CASE req' = [req EXCEPT ![r].at = "serve"]
        BY Zenon, <2>1, <2>3, MoveSound
  <2> QED BY ZenonT(60), <2>1, <2>2, <2>3
<1> QED BY Zenon, <1>1, <1>3, <1>4, <1>5, <1>6, <1>7, <1>8

\* The statuses of failed service calls are error statuses.
LEMMA OutcomeIsError ==
    ASSUME NEW errors \in ErrorCodes, NEW outcome \in DOMAIN Internal
    PROVE  errors[outcome] \in Nat \ {200}
<1>1. outcome \in {"invalid", "absent", "conflict", "off", "late", "fails"}
      BY Zenon DEF Internal, Statuses
<1>2. errors[outcome] \in Codes
      BY Zenon, <1>1 DEF ErrorCodes
<1> QED BY SMTT(40), <1>2 DEF Codes

\* A handler refuses without having done anything.
LEMMA NothingDone ==
    ASSUME DoorInv, NEW r \in Requests, NEW status \in Nat \ {200}, req[r].at = "serve",
           Finish(r, status, {}, FALSE), security' = security, valid' = valid
    PROVE  DoorInv'
<1>1. FALSE \in BOOLEAN /\ {} \in SUBSET Tenants /\ {} \subseteq {req[r].tenant}
      BY Zenon
<1>2. status \in Nat /\ status # 200
      BY Zenon
<1> QED BY Zenon, <1>1, <1>2, FinishSound

\* The handler, its role check and the audit.
LEMMA HandlerSound ==
    ASSUME FrontDoorAssumption, DoorInv, NEW r \in Requests,
           \/ Forbid(r) \/ BadArguments(r) \/ \E c \in Conns : Serve(r, c)
           \/ \E outcome \in DOMAIN Internal : ServeFails(r, outcome)
           \/ AuditMiddleware(r)
    PROVE  DoorInv'
<1>1. CASE Forbid(r)
  <2>1. PICK status \in Nat \ {200} : status = 403
        BY SMTT(40)
  <2>2. /\ req[r].at = "serve" /\ Finish(r, status, {}, FALSE)
        /\ security' = security /\ valid' = valid
        BY ZenonT(60), <1>1, <2>1 DEF Forbid
  <2> QED BY Zenon, <2>2, NothingDone
<1>2. CASE BadArguments(r)
  <2>1. PICK status \in Nat \ {200} : status = 400
        BY SMTT(40)
  <2>2. /\ req[r].at = "serve" /\ Finish(r, status, {}, FALSE)
        /\ security' = security /\ valid' = valid
        BY Zenon, <1>2, <2>1 DEF BadArguments
  <2> QED BY Zenon, <2>2, NothingDone
<1>3. ASSUME NEW c \in Conns, Serve(r, c) PROVE DoorInv'
  <2> DEFINE answer == IF Untenanted(r) THEN {} ELSE Reached(req[r].tenant, c)
  <2>1. /\ req[r].at = "serve" /\ Permitted(r) /\ Finish(r, 200, answer, TRUE)
        /\ security' = security /\ valid' = valid
        BY Zenon, <1>3 DEF Serve
  <2>2. answer \in SUBSET Tenants /\ answer \subseteq {req[r].tenant}
        BY Zenon DEF Reached
  <2>3. ~Untenanted(r) => req[r].tenant \in Tenants
        BY Zenon DEF Untenanted, DoorInv, Query
  <2>4. ~Untenanted(r) /\ security = "bypassed" => answer = {req[r].tenant}
        BY Zenon, <2>3 DEF Reached
  <2> HIDE DEF answer
  <2>5. TRUE \in BOOLEAN /\ 200 \in Nat
        BY ZenonT(60)
  <2> QED BY ZenonT(60), <2>1, <2>2, <2>4, <2>5, FinishSound
<1>4. ASSUME NEW outcome \in DOMAIN Internal, ServeFails(r, outcome) PROVE DoorInv'
  <2>1. PICK status \in Nat \ {200} : status = req[r].route.errors[outcome]
        BY ZenonT(60), OutcomeIsError DEF DoorInv, Sound, SoundRoute
  <2>2. PICK acted \in BOOLEAN : Finish(r, status, {}, acted)
        BY ZenonT(60), <1>4, <2>1 DEF ServeFails
  <2>3. req[r].at = "serve" /\ Permitted(r) /\ security' = security /\ valid' = valid
        BY Zenon, <1>4 DEF ServeFails
  <2> QED BY SMTT(40), <2>1, <2>2, <2>3, FinishSound
<1>5. CASE AuditMiddleware(r)
  <2>1. /\ req[r].at = "audit" /\ req' = [req EXCEPT ![r].at = "done"]
        /\ security' = security /\ valid' = valid
        BY Zenon, <1>5 DEF AuditMiddleware
  <2> QED BY Zenon, <2>1, MoveSound
<1> QED BY ZenonT(60), <1>1, <1>2, <1>3, <1>4, <1>5

\* In every reachable state every request is sound.
THEOREM RequestsAreSound == FrontDoorAssumption => (Spec => []DoorInv)
<1> SUFFICES ASSUME FrontDoorAssumption PROVE Spec => []DoorInv
    BY Zenon
<1>1. Init => DoorInv
  <2> SUFFICES ASSUME Init PROVE DoorInv
      BY Zenon
  <2>1. \A r \in Requests : req[r] = Quiet
        BY Zenon DEF Init
  <2>2. Quiet \in Query
        BY Zenon DEF Quiet, Query, Phases
  <2>3. req \in [Requests -> Query] /\ valid \subseteq DOMAIN Keys
        BY Zenon, <2>2 DEF Init
  <2>4. SoundRoute("Health", Quiet.route.role, Quiet.route.errors)
        BY Zenon, StatusesAreErrors DEF SoundRoute, Quiet, Route, Mutating, Administrative
  <2>5. ASSUME NEW r \in Requests PROVE Sound(r)
    <3>1. /\ Quiet.at = "quiet" /\ Quiet.op = "Health" /\ Quiet.tenant = None /\ Quiet.status = 0
          /\ Quiet.answer = {} /\ ~Quiet.acted
          BY Zenon DEF Quiet
    <3> QED BY SMTT(40), <2>1, <2>4, <3>1 DEF Sound, Early
  <2> QED BY Zenon, <2>3, <2>5 DEF DoorInv
<1>2. DoorInv /\ [Next]_vars => DoorInv'
  <2> SUFFICES ASSUME DoorInv, [Next]_vars PROVE DoorInv'
      BY Zenon
  <2>1. CASE \E k \in DOMAIN Keys : Revoke(k)
    <3>1. req' = req /\ security' = security /\ valid' \subseteq valid
          BY Zenon, <2>1 DEF Revoke
    <3> QED BY Zenon, <3>1, OthersSound DEF DoorInv
  <2>2. CASE UNCHANGED vars
        BY Zenon, <2>2, OthersSound DEF vars, DoorInv
  <2> QED BY Zenon, <2>1, <2>2, ArriveSound, EntrySound, HandlerSound DEF Next
<1> QED BY <1>1, <1>2, PTL DEF Spec

\* Over HTTP and gRPC, with any credentials and any interleaving of requests and
\* revocations, an operation that changes state ran only for a holder who may write, and
\* an administrative one only for an administrator.
THEOREM RolesHold == FrontDoorAssumption => (Spec => []RolesAreEnforced)
<1> SUFFICES ASSUME FrontDoorAssumption PROVE Spec => []RolesAreEnforced
    BY Zenon
<1>1. DoorInv => RolesAreEnforced
  <2> SUFFICES ASSUME DoorInv, NEW r \in Requests, req[r].acted
               PROVE  /\ req[r].op \in Mutating => Holder(r).role \in {"user", "admin"}
                      /\ req[r].op \in Administrative => Holder(r).role = "admin"
      BY Zenon DEF RolesAreEnforced
  <2>1. Permitted(r) /\ SoundRoute(req[r].op, req[r].route.role, req[r].route.errors)
        BY Zenon DEF DoorInv, Sound
  <2>2. Administrative \subseteq Mutating
        BY Zenon DEF Mutating
  <2>3. CASE req[r].op \in Mutating
    <3>1. req[r].route.role \in {"write", "admin"}
          BY Zenon, <2>1, <2>3 DEF SoundRoute
    <3>2. /\ req[r].role = Holder(r).role
          /\ req[r].role \in {"admin", "user", "readonly"}
          BY ZenonT(60), <3>1 DEF DoorInv, Sound
    <3>3. /\ req[r].route.role = "write" => req[r].role # "readonly"
          /\ req[r].route.role = "admin" => req[r].role = "admin"
          BY Zenon, <2>1 DEF Permitted
    <3> QED BY Zenon, <2>1, <3>1, <3>2, <3>3 DEF SoundRoute
  <2> QED BY Zenon, <2>2, <2>3
<1> QED BY <1>1, RequestsAreSound, PTL

\* Whatever tenant context earlier requests left on the connections of the pool, and
\* whether or not row security binds its role, an answer holds rows of the caller's
\* tenant alone.
THEOREM TenantsAreIsolated == FrontDoorAssumption => (Spec => []AnswersAreTenants)
<1> SUFFICES ASSUME FrontDoorAssumption PROVE Spec => []AnswersAreTenants
    BY Zenon
<1>1. DoorInv => AnswersAreTenants
  <2> SUFFICES ASSUME DoorInv, NEW r \in Requests
               PROVE  /\ req[r].answer \subseteq {Holder(r).tenant}
                      /\ req[r].status = 200 /\ ~Untenanted(r) /\ security = "bypassed" =>
                           req[r].answer = {Holder(r).tenant}
      BY Zenon DEF AnswersAreTenants
  <2>1. CASE req[r].tenant = None
    <3>1. req[r].answer = {}
          BY SMTT(40), <2>1 DEF DoorInv, Sound, Query, FrontDoorAssumption
    <3> QED BY ZenonT(60), <2>1, <3>1 DEF Untenanted
  <2>2. CASE req[r].tenant # None
        BY ZenonT(60), <2>2 DEF DoorInv, Sound
  <2> QED BY Zenon, <2>1, <2>2
<1> QED BY <1>1, RequestsAreSound, PTL

(***************************************************************************)
(* The audit rows.                                                         *)
(***************************************************************************)
\* A row says how its request ended.
RowsTrue ==
    \A row \in audit :
        /\ row.req \in Requests
        /\ req[row.req].at = "done"
        /\ row.status = req[row.req].status
        /\ row.tenant = req[row.req].tenant /\ row.tenant # None

Unrecorded == {r \in Requests :
                 /\ req[r].via = "http" /\ req[r].at = "done" /\ req[r].acted /\ req[r].tenant # None
                 /\ ~\E row \in audit : row.req = r}

AuditInv == RowsTrue /\ faults \in Nat /\ Cardinality(Unrecorded) <= faults

\* Request r has not ended, and if this step ends it there is nothing to record.
EndsQuietly(r) ==
    /\ req[r].at # "done"
    /\ req'[r].at = "done" => req'[r].via # "http" \/ ~req'[r].acted \/ req'[r].tenant = None

\* A step that adds no requests to the unrecorded ones keeps their number in bounds.
LEMMA FewerUnrecorded ==
    ASSUME FrontDoorAssumption, AuditInv, Unrecorded' \subseteq Unrecorded, faults' \in Nat, faults' >= faults
    PROVE  Cardinality(Unrecorded') <= faults'
<1>1. IsFiniteSet(Unrecorded)
      BY Zenon, FS_Subset DEF FrontDoorAssumption, Unrecorded
<1>2. IsFiniteSet(Unrecorded') /\ Cardinality(Unrecorded') <= Cardinality(Unrecorded)
      BY Zenon, <1>1, FS_Subset
<1>3. Cardinality(Unrecorded) \in Nat /\ Cardinality(Unrecorded') \in Nat
      BY Zenon, <1>1, <1>2, FS_CardinalityType
<1> QED BY SMTT(40), <1>2, <1>3 DEF AuditInv

\* A step that ends its request quietly keeps rows and requests in accord.
LEMMA QuietKeepsAudit ==
    ASSUME FrontDoorAssumption, AuditInv, NEW r \in Requests, EndsQuietly(r),
           \A u \in Requests \ {r} : req'[u] = req[u],
           audit' = audit, faults' \in Nat, faults' >= faults
    PROVE  AuditInv'
<1>1. RowsTrue'
      BY ZenonT(60) DEF AuditInv, RowsTrue, EndsQuietly
<1>2. ASSUME NEW u \in Unrecorded' PROVE u \in Unrecorded
  <2>1. /\ u \in Requests /\ req'[u].via = "http" /\ req'[u].at = "done" /\ req'[u].acted
        /\ req'[u].tenant # None /\ ~\E row \in audit : row.req = u
        BY Zenon DEF Unrecorded
  <2>2. u # r
        BY Zenon, <2>1 DEF EndsQuietly
  <2>3. req'[u] = req[u]
        BY Zenon, <2>1, <2>2
  <2> QED BY Zenon, <2>1, <2>3 DEF Unrecorded
<1>3. Cardinality(Unrecorded') <= faults'
      BY Zenon, <1>2, FewerUnrecorded
<1> QED BY Zenon, <1>1, <1>3 DEF AuditInv

\* A refusal before the handler leaves nothing to record.
LEMMA RefuseIsQuiet ==
    ASSUME DoorInv, NEW r \in Requests, NEW status \in Nat, req[r].at \in Early, Refuse(r, status)
    PROVE  EndsQuietly(r) /\ \A u \in Requests \ {r} : req'[u] = req[u]
<1>1. /\ \A u \in Requests \ {r} : req'[u] = req[u]
      /\ req'[r].acted = req[r].acted
      BY Zenon, RefuseFrame DEF DoorInv
<1>2. ~req[r].acted /\ req[r].at # "done"
      BY Zenon DEF DoorInv, Sound, Early
<1> QED BY Zenon, <1>1, <1>2 DEF EndsQuietly

\* A request that only moves on does not end.
LEMMA MoveIsQuiet ==
    ASSUME DoorInv, NEW r \in Requests, NEW phase \in {"limit", "serve"}, req[r].at # "done",
           req' = [req EXCEPT ![r].at = phase]
    PROVE  EndsQuietly(r) /\ \A u \in Requests \ {r} : req'[u] = req[u]
<1>1. phase \in Phases
      BY Zenon DEF Phases
<1>2. (\A u \in Requests \ {r} : req'[u] = req[u]) /\ req'[r].at = phase
      BY ZenonT(60), <1>1, MoveFrame DEF DoorInv
<1> QED BY Zenon, <1>2 DEF EndsQuietly

\* An admitted request does not end.
LEMMA AdmitIsQuiet ==
    ASSUME DoorInv, NEW r \in Requests, NEW tenant, NEW role, req[r].at # "done", Admit(r, tenant, role)
    PROVE  EndsQuietly(r) /\ \A u \in Requests \ {r} : req'[u] = req[u]
<1>1. PICK q \in Query : q = req[r]
      BY Zenon DEF DoorInv
<1>2. req' = [req EXCEPT ![r] = [q EXCEPT !.at = "context", !.tenant = tenant, !.role = role]]
      BY Zenon, <1>1 DEF Admit
<1>3. [q EXCEPT !.at = "context", !.tenant = tenant, !.role = role].at = "context"
      BY Zenon DEF Query
<1> QED BY Zenon, <1>2, <1>3 DEF EndsQuietly, DoorInv

\* A handler ends a request of a tenant over HTTP only through the audit.
LEMMA FinishIsQuiet ==
    ASSUME DoorInv, NEW r \in Requests, NEW status \in Nat, NEW answer \in SUBSET Tenants,
           NEW acted \in BOOLEAN, req[r].at = "serve", Finish(r, status, answer, acted)
    PROVE  EndsQuietly(r) /\ \A u \in Requests \ {r} : req'[u] = req[u]
<1>1. /\ \A u \in Requests \ {r} : req'[u] = req[u]
      /\ req'[r].at = IF Audited(r) THEN "audit" ELSE "done"
      /\ req'[r].via = req[r].via /\ req'[r].tenant = req[r].tenant
      BY SMTT(40), FinishFrame DEF DoorInv
<1>2. ~Audited(r) => req[r].via # "http" \/ req[r].tenant = None
      BY Zenon DEF Audited, DoorInv, Sound
<1> QED BY Zenon, <1>1, <1>2 DEF EndsQuietly

\* Every step of a request but the audit's own ends it quietly, if at all.
LEMMA StepsAreQuiet ==
    ASSUME DoorInv, NEW r \in Requests,
           \/ \E a \in Arrivals[r] : Arrive(r, a)
           \/ PassOpen(r) \/ authenticateBearer(r) \/ Authenticate(r) \/ AuthFails(r)
           \/ \E c \in Conns : SetTenantContext(r, c) \/ Serve(r, c)
           \/ SetTenantContextFails(r) \/ RateLimit(r) \/ Forbid(r) \/ BadArguments(r)
           \/ \E outcome \in DOMAIN Internal : ServeFails(r, outcome)
    PROVE  /\ EndsQuietly(r) /\ \A u \in Requests \ {r} : req'[u] = req[u]
           /\ audit' = audit /\ (faults' = faults \/ faults' = faults + 1)
<1> DEFINE Goal == EndsQuietly(r) /\ \A u \in Requests \ {r} : req'[u] = req[u]
<1>1. ASSUME NEW a \in Arrivals[r], Arrive(r, a) PROVE Goal
  <2>1. (\A u \in Requests \ {r} : req'[u] = req[u]) /\ req'[r].at = "auth"
        BY Zenon, <1>1, ArriveFrame DEF DoorInv
  <2>2. req[r].at = "quiet"
        BY Zenon, <1>1 DEF Arrive
  <2> QED BY Zenon, <2>1, <2>2 DEF EndsQuietly
<1>2. ASSUME PassOpen(r) PROVE Goal
  <2>1. PICK phase \in {"limit", "serve"} : req' = [req EXCEPT ![r].at = phase]
        BY Zenon, <1>2 DEF PassOpen
  <2>2. req[r].at # "done"
        BY ZenonT(60), <1>2 DEF PassOpen
  <2> QED BY Zenon, <2>1, <2>2, MoveIsQuiet
<1>3. ASSUME authenticateBearer(r) PROVE Goal
  <2>1. /\ req[r].at = "auth"
        /\ \/ \E tenant, role : Admit(r, tenant, role)
           \/ Refuse(r, 401)
        BY ZenonT(60), <1>3 DEF authenticateBearer
  <2> QED BY SMTT(40), <2>1, AdmitIsQuiet, RefuseIsQuiet DEF Early
<1>4. ASSUME Authenticate(r) PROVE Goal
  <2>1. /\ req[r].at = "auth"
        /\ \/ \E tenant, role : Admit(r, tenant, role)
           \/ Refuse(r, 401)
        BY ZenonT(60), <1>4 DEF Authenticate
  <2> QED BY SMTT(40), <2>1, AdmitIsQuiet, RefuseIsQuiet DEF Early
<1>5. ASSUME AuthFails(r) \/ SetTenantContextFails(r) PROVE Goal
      BY SMTT(40), <1>5, RefuseIsQuiet DEF AuthFails, SetTenantContextFails, Early
<1>6. ASSUME NEW c \in Conns, SetTenantContext(r, c) PROVE Goal
  <2>1. PICK phase \in {"limit", "serve"} : req' = [req EXCEPT ![r].at = phase]
        BY Zenon, <1>6 DEF SetTenantContext
  <2>2. req[r].at # "done"
        BY Zenon, <1>6 DEF SetTenantContext
  <2> QED BY Zenon, <2>1, <2>2, MoveIsQuiet
<1>7. ASSUME RateLimit(r) PROVE Goal
  <2>1. req[r].at = "limit" /\ (Refuse(r, 429) \/ req' = [req EXCEPT ![r].at = "serve"])
        BY Zenon, <1>7 DEF RateLimit
  <2>2. CASE Refuse(r, 429)
        BY SMTT(40), <2>1, <2>2, RefuseIsQuiet DEF Early
  <2>3. CASE req' = [req EXCEPT ![r].at = "serve"]
    <3>1. req[r].at # "done"
          BY Zenon, <2>1
    <3> QED BY Zenon, <2>3, <3>1, MoveIsQuiet
  <2> QED BY Zenon, <2>1, <2>2, <2>3
<1>8. ASSUME \/ Forbid(r) \/ BadArguments(r) \/ \E c \in Conns : Serve(r, c)
             \/ \E outcome \in DOMAIN Internal : ServeFails(r, outcome)
      PROVE  Goal
  <2>1. ASSUME NEW outcome \in DOMAIN Internal PROVE req[r].route.errors[outcome] \in Nat
        BY ZenonT(60), OutcomeIsError DEF DoorInv, Sound, SoundRoute
  <2>2. \A c : Reached(req[r].tenant, c) \in SUBSET Tenants
        BY Zenon DEF Reached
  <2>3. PICK status \in Nat, answer \in SUBSET Tenants, acted \in BOOLEAN : Finish(r, status, answer, acted)
    <3>1. 200 \in Nat /\ 400 \in Nat /\ 403 \in Nat
          BY SMTT(40)
    <3>2. CASE Forbid(r)
          BY ZenonT(60), <3>1, <3>2 DEF Forbid
    <3>3. CASE BadArguments(r)
          BY ZenonT(60), <3>1, <3>3 DEF BadArguments
    <3>4. CASE \E c \in Conns : Serve(r, c)
          BY ZenonT(60), <2>2, <3>1, <3>4 DEF Serve
    <3>5. CASE \E outcome \in DOMAIN Internal : ServeFails(r, outcome)
          BY Zenon, <2>1, <3>5 DEF ServeFails
    <3> QED BY ZenonT(60), <1>8, <3>2, <3>3, <3>4, <3>5
  <2>4. req[r].at = "serve"
        BY ZenonT(60), <1>8 DEF Forbid, BadArguments, Serve, ServeFails
  <2> QED BY ZenonT(60), <2>3, <2>4, FinishIsQuiet
<1>9. Goal
      BY Zenon, <1>1, <1>2, <1>3, <1>4, <1>5, <1>6, <1>7, <1>8
<1>10. audit' = audit /\ (faults' = faults \/ faults' = faults + 1)
      BY ZenonT(60) DEF Arrive, PassOpen, authenticateBearer, Authenticate, AuthFails, SetTenantContext,
         Serve, SetTenantContextFails, RateLimit, Forbid, BadArguments, ServeFails
<1> QED BY Zenon, <1>9, <1>10

\* The audit's own step writes the row, or fails and is counted.
LEMMA AuditKeeps ==
    ASSUME FrontDoorAssumption, DoorInv, AuditInv, NEW r \in Requests, AuditMiddleware(r)
    PROVE  AuditInv'
<1>1. /\ req[r].at = "audit" /\ req' = [req EXCEPT ![r].at = "done"]
      /\ \/ req[r].tenant = None /\ audit' = audit /\ faults' = faults
         \/ req[r].tenant # None /\ audit' = audit \cup {AuditRow(r)} /\ faults' = faults
         \/ req[r].tenant # None /\ audit' = audit /\ faults' = faults + 1
      BY Zenon DEF AuditMiddleware
<1>2. /\ \A u \in Requests \ {r} : req'[u] = req[u]
      /\ req'[r].at = "done" /\ req'[r].status = req[r].status /\ req'[r].tenant = req[r].tenant
  <2>1. "done" \in Phases
        BY Zenon DEF Phases
  <2> QED BY ZenonT(60), <1>1, <2>1, MoveFrame DEF DoorInv
<1>3. \A row \in audit : row.req \in Requests /\ row.req # r
      BY Zenon, <1>1 DEF AuditInv, RowsTrue
<1>4. /\ AuditRow(r).req = r /\ AuditRow(r).status = req[r].status /\ AuditRow(r).tenant = req[r].tenant
      BY Zenon DEF AuditRow
<1>5. RowsTrue'
      BY SMTT(40), <1>1, <1>2, <1>3, <1>4 DEF AuditInv, RowsTrue
<1>6. Unrecorded' \subseteq Unrecorded \cup {r}
      BY ZenonT(60), <1>1, <1>2 DEF Unrecorded
<1>7. faults \in Nat /\ Cardinality(Unrecorded) <= faults
      BY Zenon DEF AuditInv
<1>8. CASE faults' = faults
  <2>1. r \notin Unrecorded'
        BY SMTT(40), <1>1, <1>2, <1>4, <1>7, <1>8 DEF Unrecorded
  <2>2. Unrecorded' \subseteq Unrecorded
        BY Zenon, <1>6, <2>1
  <2>3. Cardinality(Unrecorded') <= faults'
        BY SMTT(40), <1>7, <1>8, <2>2, FewerUnrecorded
  <2> QED BY Zenon, <1>5, <1>7, <1>8, <2>3 DEF AuditInv
<1>9. CASE faults' = faults + 1
  <2> DEFINE more == Unrecorded \cup {r}
  <2>1. IsFiniteSet(Unrecorded)
        BY Zenon, FS_Subset DEF FrontDoorAssumption, Unrecorded
  <2>2. Cardinality(Unrecorded) \in Nat
        BY Zenon, <2>1, FS_CardinalityType
  <2>3. IsFiniteSet(more) /\ Cardinality(more) <= Cardinality(Unrecorded) + 1
        BY SMTT(40), <2>1, <2>2, FS_AddElement
  <2>4. Unrecorded' \in SUBSET more
        BY Zenon, <1>6
  <2> HIDE DEF more
  <2>5. IsFiniteSet(Unrecorded') /\ Cardinality(Unrecorded') <= Cardinality(more)
        BY Zenon, <2>3, <2>4, FS_Subset
  <2>6. Cardinality(Unrecorded') \in Nat /\ Cardinality(more) \in Nat
        BY Zenon, <2>3, <2>5, FS_CardinalityType
  <2>7. Cardinality(Unrecorded') <= faults' /\ faults' \in Nat
        BY SMTT(40), <1>7, <1>9, <2>2, <2>3, <2>5, <2>6
  <2> QED BY Zenon, <1>5, <2>7 DEF AuditInv
<1> QED BY Zenon, <1>1, <1>8, <1>9

\* An audit row states the tenant and the status of a request as answered, a 200 stands
\* for an operation that ran, and a request that ran its operation lacks its row only
\* where an insert failed.
THEOREM AuditHolds == FrontDoorAssumption => (Spec => []AuditIsTrue)
<1> SUFFICES ASSUME FrontDoorAssumption PROVE Spec => []AuditIsTrue
    BY Zenon
<1>1. Init => AuditInv
  <2> SUFFICES ASSUME Init PROVE AuditInv
      BY Zenon
  <2>1. \A r \in Requests : req[r].at = "quiet"
        BY Zenon DEF Init, Quiet
  <2>2. Unrecorded = {}
        BY Zenon, <2>1 DEF Unrecorded
  <2> QED BY SMTT(40), <2>2, FS_EmptySet DEF Init, AuditInv, RowsTrue
<1>2. DoorInv /\ AuditInv /\ [Next]_vars => AuditInv'
  <2> SUFFICES ASSUME DoorInv, AuditInv, [Next]_vars PROVE AuditInv'
      BY Zenon
  <2>1. CASE req' = req /\ audit' = audit /\ faults' = faults
    <3>1. RowsTrue' /\ Unrecorded' = Unrecorded
          BY Zenon, <2>1 DEF AuditInv, RowsTrue, Unrecorded
    <3> QED BY Zenon, <2>1, <3>1 DEF AuditInv
  <2>2. ASSUME NEW r \in Requests, EndsQuietly(r) /\ \A u \in Requests \ {r} : req'[u] = req[u],
               audit' = audit, faults' = faults \/ faults' = faults + 1
        PROVE  AuditInv'
    <3>1. faults' \in Nat /\ faults' >= faults
          BY SMTT(40), <2>2 DEF AuditInv
    <3> QED BY Zenon, <2>2, <3>1, QuietKeepsAudit
  <2>3. ASSUME NEW r \in Requests, AuditMiddleware(r) PROVE AuditInv'
        BY Zenon, <2>3, AuditKeeps
  <2>4. CASE (\E k \in DOMAIN Keys : Revoke(k)) \/ UNCHANGED vars
        BY Zenon, <2>1, <2>4 DEF Revoke, vars
  <2> QED BY Zenon, <2>2, <2>3, <2>4, StepsAreQuiet DEF Next
<1>3. DoorInv /\ AuditInv => AuditIsTrue
  <2> SUFFICES ASSUME DoorInv, AuditInv PROVE AuditIsTrue
      BY ZenonT(60)
  <2>1. ASSUME NEW row \in audit
        PROVE  /\ row.status = req[row.req].status
               /\ row.tenant = Holder(row.req).tenant
               /\ row.status \in {200} => req[row.req].acted
        BY SMTT(40) DEF AuditInv, RowsTrue, DoorInv, Sound
  <2> QED BY Zenon, <2>1 DEF AuditIsTrue, AuditInv, Unrecorded
<1> QED BY <1>1, <1>2, <1>3, RequestsAreSound, PTL DEF Spec
=============================================================================
