------------------------------- MODULE MCJobs -------------------------------
(***************************************************************************)
(* Memory events and what they start: the event stream, the live tail of   *)
(* the event bus, the distillation jobs and the policy engine. The         *)
(* components share no state: a behaviour chooses one of them and the      *)
(* others keep their initial state, so that the state graph is the sum of  *)
(* theirs. The policy engine runs with one policy and two evaluations      *)
(* (race), and with two policies on nested prefixes and one evaluation     *)
(* (nested).                                                               *)
(***************************************************************************)
EXTENDS DistillationPolicy, TLC

CONSTANT Pair

Tree == ("top" :> {"top", "sub"}) @@ ("sub" :> {"sub"})
PrefixOf == ("wide" :> "top") @@ ("narrow" :> "sub")
Thresholds == [p \in Policies |-> 1]

Race == INSTANCE DistillationPolicy WITH
    Policies <- {"wide"}, PolicyPrefix <- "wide" :> "top", CountThreshold <- "wide" :> 1,
    Concurrency <- 1, BatchSize <- 1, MaxMemories <- 1, MaxTriggers <- 2, MaxPatches <- 0

Nested == INSTANCE DistillationPolicy WITH
    MaxEvals <- 1, Concurrency <- 1, BatchSize <- 1, MaxMemories <- 1, MaxTriggers <- 2

VARIABLES
    scenario,  \* the component that runs
    published, position, sPending, deliveries, acked, dlq, queue, sStage, sCounts, sRuns,
    handled, jobs, done, sFaults,
    backend, bRows, ingest, bLog, bNotified, tail, chan, wire, client, bSeen, bFaults

streamVars == <<published, position, sPending, deliveries, acked, dlq, queue, sStage,
                sCounts, sRuns, handled, jobs, done, sFaults>>
busVars == <<backend, bRows, ingest, bLog, bNotified, tail, chan, wire, client, bSeen, bFaults>>

Stream == INSTANCE EventStream WITH
    Workers <- Pair, Events <- 1, Malformed <- {}, MaxDeliveries <- 2, Batch <- 2,
    ClaimBatch <- 2, HandlerErrors <- TRUE, MaxFaults <- 2,
    pending <- sPending, stage <- sStage, counts <- sCounts, runs <- sRuns,
    faults <- sFaults

Bus == INSTANCE EventBus WITH
    Tenants <- {"a", "b"}, Types <- {"x", "y"}, Strict <- {"x"}, Untenanted <- FALSE,
    Subscribers <- [s1 |-> [tenant |-> "a", types |-> {"x"}]],
    Backends <- {"streams", "pubsub"}, Batch <- 2, Buffer <- 1, MaxEvents <- 3,
    MaxRows <- 1, MaxFaults <- 1,
    rows <- bRows, log <- bLog, notified <- bNotified, seen <- bSeen, faults <- bFaults

ASSUME Stream!StreamAssumption
ASSUME Bus!BusAssumption

Scenarios == {"stream", "bus", "race", "nested", "jobs"}

AllInit ==
    /\ scenario \in Scenarios
    /\ IF scenario = "race" THEN Race!Init ELSE Init
    /\ Stream!Init
    /\ Bus!Init
    /\ scenario # "bus" => backend = "streams"

AllNext ==
    /\ UNCHANGED scenario
    /\ \/ scenario = "stream" /\ Stream!Next /\ UNCHANGED <<vars, busVars>>
       \/ scenario = "bus" /\ Bus!Next /\ UNCHANGED <<vars, streamVars>>
       \/ scenario = "race" /\ Race!Next /\ UNCHANGED <<streamVars, busVars>>
       \/ scenario = "nested" /\ Nested!Next /\ UNCHANGED <<streamVars, busVars>>
       \/ scenario = "jobs" /\ JobNext /\ UNCHANGED <<engineVars, streamVars, busVars>>

allVars == <<scenario, vars, streamVars, busVars>>

AllSpec == AllInit /\ [][AllNext]_allVars

Symmetry == Permutations(Jobs) \cup Permutations(Pair)

\* EventStream: a delivered entry is pending or acknowledged, and an acknowledged one
\* was handled, cannot be decoded or is in the dead-letter stream; handler runs are
\* bounded, and dead letters did exhaust their deliveries.
EntriesAreSettled == Stream!NothingUnsettled /\ Stream!DeliveriesAreCounted

\* EventBus: a live tail misses, repeats and reorders nothing and shows its own tenant
\* only, and what it announces as ingested is stored.
BusIsFaithful ==
    scenario = "bus" => Bus!TailIsGapless /\ Bus!AnnouncedIsStored
=============================================================================
