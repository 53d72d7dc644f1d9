----------------------------- MODULE MCSettles ------------------------------
(***************************************************************************)
(* What is queued and must be worked off: stream entries, webhook          *)
(* deliveries, distillation jobs, consolidation runs, pairs of memories to *)
(* compare. The components share no state: a behaviour chooses one of them *)
(* and the others keep their initial state, in which none of their fair    *)
(* actions is enabled.                                                     *)
(***************************************************************************)
EXTENDS Integers, Sequences, FiniteSets, TLC

\* Two texts that share a word and differ in a negation.
Opposites ==
    {[words |-> {1, 2}, negated |-> TRUE, long |-> TRUE],
     [words |-> {1}, negated |-> FALSE, long |-> TRUE]}

Tree == ("top" :> {"top", "sub"}) @@ ("sub" :> {"sub"})

VARIABLES
    scenario,  \* the component that runs
    published, position, pending, deliveries, acked, dlq, queue, sStage, counts, sRuns,
    handled, jobs, done, sFaults,
    notified, notify, status, attempts, line, due, batch, hStage, accepted, failures,
    hFaults,
    memories, distilled, job, sem, triggers, dRuns,
    rows, cRuns, merged, trigger, loop, cFaults,
    kRows, events, check, scans, links, announced, kFaults

streamVars == <<published, position, pending, deliveries, acked, dlq, queue, sStage, counts,
                sRuns, handled, jobs, done, sFaults>>
hooksVars == <<notified, notify, status, attempts, line, due, batch, hStage, accepted,
               failures, hFaults>>
distillVars == <<memories, distilled, job, sem, triggers, dRuns>>
mergeVars == <<rows, cRuns, merged, trigger, loop, cFaults>>
checkVars == <<kRows, events, check, scans, links, announced, kFaults>>

Stream == INSTANCE EventStream WITH
    Workers <- {"w"}, Events <- 2, Malformed <- {2}, MaxDeliveries <- 2, Batch <- 2,
    ClaimBatch <- 1, HandlerErrors <- TRUE, MaxFaults <- 2,
    stage <- sStage, runs <- sRuns, faults <- sFaults

Hooks == INSTANCE WebhookDispatcher WITH
    Events <- {"e"}, Endpoints <- 1..2, Matches <- {<<"e", 1>>, <<"e", 2>>},
    Runners <- 1..2, MaxAttempts <- <<2, 2>>, RowMax <- 2, Limit <- 1, MaxFaults <- 1,
    stage <- hStage, faults <- hFaults

Distill == INSTANCE Distillation WITH
    Prefixes <- {"top", "sub"}, Under <- Tree, Jobs <- 1..3, Concurrency <- 1,
    BatchSize <- 2, Fallback <- "sub", MaxMemories <- 1, MaxTriggers <- 3,
    runs <- dRuns

Merge == INSTANCE Consolidation WITH
    Workers <- 1..1, Sources <- {"a", "b"}, Derived <- {"out"}, Output <- "out",
    MinEntries <- 2, RetrieveLimit <- 4, BatchSize <- 1, MaxRows <- 2, MaxRuns <- 2,
    MaxFaults <- 2,
    runs <- cRuns, faults <- cFaults

Check == INSTANCE Contradictions WITH
    Paths <- {"a", "b"}, Parent <- [p \in {"a", "b"} |-> "top"],
    Subtree <- "top" :> {"a", "b"}, Consolidated <- {}, Texts <- Opposites,
    Window <- 2, ScansInWindow <- 2, Checkers <- {"g"}, MaxRows <- 3, MaxClosed <- 2,
    MaxFaults <- 1,
    rows <- kRows, faults <- kFaults

ASSUME Stream!StreamAssumption
ASSUME Hooks!WebhookAssumption
ASSUME Merge!ConsolidationAssumption
ASSUME Check!ContradictionsAssumption

Scenarios == {"stream", "webhook", "jobs", "consolidation", "contradictions"}

AllInit ==
    /\ scenario \in Scenarios
    /\ Stream!Init
    /\ Hooks!Init
    /\ Distill!JobInit
    /\ Merge!Init
    /\ Check!Init

AllNext ==
    /\ UNCHANGED scenario
    /\ \/ /\ scenario = "stream" /\ Stream!Next
          /\ UNCHANGED <<hooksVars, distillVars, mergeVars, checkVars>>
       \/ /\ scenario = "webhook" /\ Hooks!Next
          /\ UNCHANGED <<streamVars, distillVars, mergeVars, checkVars>>
       \/ /\ scenario = "jobs" /\ Distill!JobNext
          /\ UNCHANGED <<streamVars, hooksVars, mergeVars, checkVars>>
       \/ /\ scenario = "consolidation" /\ Merge!Next
          /\ UNCHANGED <<streamVars, hooksVars, distillVars, checkVars>>
       \/ /\ scenario = "contradictions" /\ Check!Next
          /\ UNCHANGED <<streamVars, hooksVars, distillVars, mergeVars>>

allVars == <<scenario, streamVars, hooksVars, distillVars, mergeVars, checkVars>>

AllSpec == AllInit /\ [][AllNext]_allVars

Fairness ==
    /\ Stream!Fairness
    /\ Hooks!Fairness
    /\ Distill!JobFairness
    /\ Merge!Fairness
    /\ Check!Fairness

FairSpec == AllSpec /\ Fairness

\* EventStream: a published event is eventually acknowledged.
EventuallyAcked == Stream!EventuallySettled

\* WebhookDispatcher: an enqueued row is eventually delivered or dead-lettered.
EventuallySettled == Hooks!EventuallySettled

\* Distillation: a job that waits for a slot eventually runs.
QueuedJobsRun == Distill!QueuedJobsRun

\* Consolidation: no run stays pending, although workers crash and statements fail.
QueueDrains == Merge!QueueDrains

\* Contradictions: two current memories that contradict each other are linked while they
\* are among the newest, although checks are lost and statements fail.
ContradictionsAreFound == Check!ContradictionsAreFound
=============================================================================
