----------------------------- MODULE MCRequests -----------------------------
(***************************************************************************)
(* The checks every request passes, the keys it brings, the limits it      *)
(* meets (the rate limit and the circuit breaker of the providers), and    *)
(* what requests do to shared rows: link proposals, sessions and           *)
(* deduplicated stores. The components share no state: a behaviour chooses *)
(* one of them and the others keep their initial state, so that the state  *)
(* graph is the sum of theirs.                                             *)
(***************************************************************************)
EXTENDS FrontDoor, RequestParts, SessionParts, TLC

\* An administrator of one tenant and a reader of the other, by key; a reader and a
\* stranger, by bearer token.
DoorKeys ==
    [ka |-> [tenant |-> "a", role |-> "admin"], kr |-> [tenant |-> "b", role |-> "readonly"]]
DoorTokens ==
    [tr |-> [valid |-> TRUE, tenant |-> "a", roles |-> {"pcmi-readonly"}],
     tx |-> [valid |-> TRUE, tenant |-> "c", roles |-> {"pcmi-admin"}]]

\* Any operation comes by key; one of each kind of route also without a credential or
\* with a token. A second request comes over gRPC.
DoorArrivals ==
    LET Key(k) == [key |-> k, bearer |-> None]
        Token(t) == [key |-> None, bearer |-> t]
        Calls(via, ops, creds) == [via : {via}, op : ops, cred : creds]
    IN  [r1 |-> Calls("http", DOMAIN HTTPRoutes, {Key("ka"), Key("kr")})
                \cup Calls("grpc", DOMAIN RPCs, {Key("ka"), Key("kr"), Key(None)})
                \cup Calls("http", {"Store", "Retrieve", "ListTenants", "AdminUI", "Health"},
                           {Key(None), Token("tr"), Token("tx")}),
         r2 |-> Calls("grpc", {"Retrieve"}, {Key("ka")})]

\* A store, with its mode in the header or in the body, a batch with a path that is no
\* ltree and a mode that is none, and an import that overwrites and one that does not.
ServiceRequests ==
    LET Item(p, c, m) == [path |-> p, content |-> c, mode |-> m]
        Request(k, items, header, overwrite) ==
            [kind |-> k, items |-> items, header |-> header, overwrite |-> overwrite]
    IN  {Request("store", <<Item("p", "x", "")>>, "skip", FALSE),
         Request("store", <<Item("q", "X", "link")>>, "", FALSE),
         Request("batch", <<Item("bad", "y", "link"), Item("p", "y", "bogus")>>, "", FALSE),
         Request("import", <<Item("bad", "x", ""), Item("p", "X", "")>>, "", TRUE),
         Request("import", <<Item("p", "y", "")>>, "", FALSE)}

NeverAsked == {-1}

VARIABLES
    scenario,  \* the component that runs
    table, dReplica, dLinks, tenantMode, dCall, reader, events, silent, answers, issued, dFaults

serviceVars == <<table, dReplica, dLinks, tenantMode, dCall, reader, events, silent, answers,
                 issued, dFaults>>

Service == INSTANCE MemoryService WITH
    Calls <- Pair, Paths <- {"p", "q"}, BadPath <- "bad", Contents <- {"x", "X", "y"},
    ContentHash <- ("x" :> "x") @@ ("X" :> "x") @@ ("y" :> "y"),
    Requests <- ServiceRequests, TenantModes <- {"merge"}, DefaultMode <- "none",
    MaxBatch <- 2, MaxImport <- 2, MaxRequests <- 3, MaxFaults <- 1,
    replica <- dReplica, links <- dLinks, call <- dCall, faults <- dFaults

ASSUME FrontDoorAssumption
ASSUME Service!ServiceAssumption

Scenarios == {"door", "ratelimit", "breaker", "keys", "proposals", "sessions", "service"}

AllInit ==
    /\ scenario \in Scenarios
    /\ Init
    /\ scenario # "door" => security = "forced"
    /\ Limiter!Init
    /\ Breaker!Init
    /\ scenario # "breaker" => healthy
    /\ Rotate!Init
    /\ Propose!Init
    /\ Promote!Init
    /\ Service!Init

AllNext ==
    /\ UNCHANGED scenario
    /\ \/ /\ scenario = "door" /\ Next
          /\ UNCHANGED <<limiterVars, breakerVars, keyVars, proposalVars, sessionVars, serviceVars>>
       \/ /\ scenario = "ratelimit" /\ Limiter!Next
          /\ UNCHANGED <<vars, breakerVars, keyVars, proposalVars, sessionVars, serviceVars>>
       \/ /\ scenario = "breaker" /\ Breaker!Next
          /\ UNCHANGED <<vars, limiterVars, keyVars, proposalVars, sessionVars, serviceVars>>
       \/ /\ scenario = "keys" /\ Rotate!Next
          /\ UNCHANGED <<vars, limiterVars, breakerVars, proposalVars, sessionVars, serviceVars>>
       \/ /\ scenario = "proposals" /\ Propose!Next
          /\ UNCHANGED <<vars, limiterVars, breakerVars, keyVars, sessionVars, serviceVars>>
       \/ /\ scenario = "sessions" /\ Promote!Next
          /\ UNCHANGED <<vars, limiterVars, breakerVars, keyVars, proposalVars, serviceVars>>
       \/ /\ scenario = "service" /\ Service!Next
          /\ UNCHANGED <<vars, limiterVars, breakerVars, keyVars, proposalVars, sessionVars>>

allVars == <<scenario, vars, limiterVars, breakerVars, keyVars, proposalVars, sessionVars,
             serviceVars>>

AllSpec == AllInit /\ [][AllNext]_allVars

Symmetry == Permutations(Pair) \cup Permutations(Two)

\* MemoryService: whatever deduplication answers, the content is kept where it belongs;
\* a committed row is announced once; a superseded id resolves.
ServiceIsSound ==
    scenario = "service" =>
        Service!NoContentLost /\ Service!AnnouncedOnce /\ Service!ResolveFinds
=============================================================================
