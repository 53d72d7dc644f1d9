----------------------------- MODULE MCReturns ------------------------------
(***************************************************************************)
(* What a caller waits for: a Store, a promotion, a flush of the usage     *)
(* counts, a provider that recovers, an embedding. The components share no *)
(* state: a behaviour chooses one of them and the others keep their        *)
(* initial state, in which none of their fair actions is enabled. The      *)
(* circuit breaker, whose callers never rest, is fair where it runs.       *)
(***************************************************************************)
EXTENDS Integers, Sequences, FiniteSets, TLC

\* Two sessions whose working memory maps to the same two long-term paths.
Crossing == {<<s, <<s, z>>>> : s \in {"s1", "s2"}, z \in {"x", "y"}}

VARIABLES
    scenario,  \* the component that runs
    mRows, mNextId, clock, mPc, req, attempt, ts, seen, closed, new, sweep, log,
    sessions, replica, pRows, pNextId, starget, pPc, psess, batch, todo, cur, moved,
    promoted, skipped,
    pending, snapshot, requeue, stage, usage, rejected, recorded, unseen, stopping, final,
    stopped, faults,
    state, counts, left, openGen, holdLeft, holding, call, healthy,
    eRows, eBatch, vector, circuit, failures, up, migrations, eFaults

storeVars == <<mRows, mNextId, clock, mPc, req, attempt, ts, seen, closed, new, sweep, log>>
sessionVars == <<sessions, replica, pRows, pNextId, starget, pPc, psess, batch, todo, cur,
                 moved, promoted, skipped>>
meterVars == <<pending, snapshot, requeue, stage, usage, rejected, recorded, unseen,
               stopping, final, stopped, faults>>
breakerVars == <<state, counts, left, openGen, holdLeft, holding, call, healthy>>
backfillVars == <<eRows, eBatch, vector, circuit, failures, up, migrations, eFaults>>

Store == INSTANCE MemoryStore WITH
    Paths <- {"p"}, Writers <- 1..2, MaxAttempts <- 2, Expiries <- {-1, 1},
    MaxAge <- [p \in {"p"} |-> 0], Retention <- 2, Keeps <- {1}, MaxClock <- 1,
    rows <- mRows, nextId <- mNextId, pc <- mPc

Session == INSTANCE Sessions WITH
    SessionIds <- {"s1", "s2"}, Suffixes <- {"x", "y"}, Promoters <- {"a", "b"}, Storers <- {},
    Started <- {"s1", "s2"}, Stored <- Crossing, NoSession <- "none", MaxRows <- 4,
    rows <- pRows, nextId <- pNextId, pc <- pPc

Meter == INSTANCE UsageAggregator WITH
    Keys <- 1..2, MaxBuckets <- 2, MaxEvents <- 2, MaxFaults <- 2

Breaker == INSTANCE CircuitBreaker WITH
    Callers <- 1..2, MaxFailures <- 2, HalfOpenMax <- 2, Base <- 4, MaxOpen <- 12,
    MaxOpenGen <- 3

Backfill == INSTANCE EmbeddingBackfill WITH
    Paths <- {"a", "b"}, Texts <- {"t"}, Refused <- {}, Batch <- 1, MaxFailures <- 2,
    MaxRows <- 2, MaxMigrations <- 1, MaxFaults <- 2,
    rows <- eRows, batch <- eBatch, faults <- eFaults

ASSUME Session!SessionsAssumption
ASSUME Breaker!CircuitBreakerAssumption
ASSUME Backfill!BackfillAssumption

Scenarios == {"store", "sessions", "usage", "breaker", "embedding"}

AllInit ==
    /\ scenario \in Scenarios
    /\ Store!Init
    /\ scenario # "store" => \A w \in DOMAIN req : req[w] = CHOOSE r \in Store!Requests : TRUE
    /\ Session!Init
    /\ Meter!Init
    /\ Breaker!Init
    /\ scenario # "breaker" => healthy
    /\ Backfill!Init

AllNext ==
    /\ UNCHANGED scenario
    /\ \/ /\ scenario = "store" /\ Store!Next
          /\ UNCHANGED <<sessionVars, meterVars, breakerVars, backfillVars>>
       \/ /\ scenario = "sessions" /\ Session!Next
          /\ UNCHANGED <<storeVars, meterVars, breakerVars, backfillVars>>
       \/ /\ scenario = "usage" /\ Meter!Next
          /\ UNCHANGED <<storeVars, sessionVars, breakerVars, backfillVars>>
       \/ /\ scenario = "breaker" /\ Breaker!Next
          /\ UNCHANGED <<storeVars, sessionVars, meterVars, backfillVars>>
       \/ /\ scenario = "embedding" /\ Backfill!Next
          /\ UNCHANGED <<storeVars, sessionVars, meterVars, breakerVars>>

allVars == <<scenario, storeVars, sessionVars, meterVars, breakerVars, backfillVars>>

AllSpec == AllInit /\ [][AllNext]_allVars

Fairness ==
    /\ Store!Fairness
    /\ Session!Fairness
    /\ Meter!Fairness
    /\ Backfill!Fairness
    /\ WF_breakerVars(scenario = "breaker" /\ Breaker!Tick)
    /\ \A c \in 1..2 : WF_breakerVars(scenario = "breaker" /\ Breaker!Generate(c))

FairSpec == AllSpec /\ Fairness

\* MemoryStore: a Store call that has begun a transaction returns.
StoreReturns == Store!StoreReturns

\* Sessions: a promotion that has begun returns, also when two wait for each other.
PromoteReturns == Session!PromoteReturns

\* UsageAggregator: recorded usage reaches the table or is dropped for good, unless
\* Run returns first.
EventuallyFlushed == Meter!EventuallyFlushed

\* CircuitBreaker: once the provider stays healthy the circuit closes for good.
Recovers == Breaker!Recovers

\* EmbeddingBackfill: a current row without an embedding gets one, whatever outages and
\* restarts the worker goes through.
EmbeddingsCatchUp == Backfill!EmbeddingsCatchUp
=============================================================================
