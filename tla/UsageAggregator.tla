-------------------------- MODULE UsageAggregator --------------------------
(***************************************************************************)
(* Usage metering (internal/usage): one process counts events in memory    *)
(* per bucket (tenant, day, operation, provider, model) and flushes the    *)
(* buckets into llm_usage_daily with additive upserts: in one batch and,   *)
(* when the batch fails, row by row.  Events are recorded while a flush is *)
(* running; the three counters of a bucket move together and are one here. *)
(***************************************************************************)
EXTENDS Integers, FiniteSets

CONSTANTS
    Keys,        \* bucket keys
    MaxBuckets,  \* maxPendingBuckets
    MaxEvents,   \* bound on the events recorded
    MaxFaults    \* bound on failed statements

ASSUME UsageAssumption ==
    /\ MaxBuckets \in Nat \ {0}
    /\ MaxEvents \in Nat
    /\ MaxFaults \in Nat

VARIABLES
    pending,   \* key -> requests in the buffer (0: no bucket)
    snapshot,  \* key -> requests the flush has taken and not settled
    requeue,   \* key -> requests the flush will merge back
    stage,     \* "idle", "batch", "rows"
    usage,     \* key -> requests in llm_usage_daily
    rejected,  \* key -> requests dropped: permanent error or full buffer
    recorded,  \* history: key -> events recorded
    unseen,    \* history: key -> requests applied by statements reported as failed
    stopping,  \* the context of Run is cancelled
    final,     \* the final flush of Run has begun
    stopped,   \* Run has returned
    faults

vars == <<pending, snapshot, requeue, stage, usage, rejected, recorded, unseen, stopping, final, stopped, faults>>

None == [k \in Keys |-> 0]
Buckets(counts) == {k \in Keys : counts[k] > 0}
Add(a, b) == [k \in Keys |-> a[k] + b[k]]

Init ==
    /\ pending = None
    /\ snapshot = None
    /\ requeue = None
    /\ stage = "idle"
    /\ usage = None
    /\ rejected = None
    /\ recorded = None
    /\ unseen = None
    /\ stopping = FALSE
    /\ final = FALSE
    /\ stopped = FALSE
    /\ faults = 0

\* A flush of the ticker runs under the context of Run: once that is cancelled
\* its statements fail unsent; those failures are not bounded by MaxFaults.
Cancelled == stopping /\ ~final

Fault ==
    \/ Cancelled /\ UNCHANGED faults
    \/ ~Cancelled /\ faults < MaxFaults /\ faults' = faults + 1

(***************************************************************************)
(* Record.                                                                 *)
(***************************************************************************)
Accepts(k) == pending[k] > 0 \/ Cardinality(Buckets(pending)) < MaxBuckets

Record(k) ==
    /\ ~stopped
    /\ recorded[k] < MaxEvents
    /\ recorded' = [recorded EXCEPT ![k] = @ + 1]
    /\ IF Accepts(k)
       THEN pending' = [pending EXCEPT ![k] = @ + 1] /\ UNCHANGED rejected
       ELSE rejected' = [rejected EXCEPT ![k] = @ + 1] /\ UNCHANGED pending
    /\ UNCHANGED <<unseen, snapshot, requeue, stage, usage, stopping, final, stopped, faults>>

(***************************************************************************)
(* Flush: from the ticker of Run, or the final one of a shutdown.          *)
(***************************************************************************)
\* SIGTERM: the worker cancels the context (the API never does).
Stop ==
    /\ ~stopping
    /\ stopping' = TRUE
    /\ UNCHANGED <<pending, snapshot, requeue, stage, usage, rejected, recorded, unseen, final, stopped, faults>>

\* Run returns after the final flush.
EndFlush == stage' = "idle" /\ stopped' = final

\* The select of Run picks the ticker or, once it is ready, ctx.Done.
Select == final' \in {FALSE, stopping}

TakeBuffer ==
    /\ stage = "idle"
    /\ ~stopped
    /\ Buckets(pending) # {}
    /\ snapshot' = pending
    /\ pending' = None
    /\ stage' = "batch"
    /\ Select
    /\ UNCHANGED <<requeue, usage, rejected, recorded, unseen, stopping, stopped, faults>>

TakeNothing ==
    /\ stage = "idle"
    /\ stopping /\ ~stopped
    /\ Buckets(pending) = {}
    /\ final' = TRUE
    /\ stopped' = TRUE
    /\ UNCHANGED <<pending, snapshot, requeue, stage, usage, rejected, recorded, unseen, stopping, faults>>

BatchOk ==
    /\ stage = "batch"
    /\ ~Cancelled
    /\ usage' = Add(usage, snapshot)
    /\ snapshot' = None
    /\ EndFlush
    /\ UNCHANGED <<pending, requeue, rejected, recorded, unseen, stopping, final, faults>>

\* SendBatch reports an error.  The batch is one implicit transaction: it was
\* rolled back, or it was committed and the answer was lost.
BatchFails ==
    /\ stage = "batch"
    /\ Fault
    /\ \/ UNCHANGED <<usage, unseen>>
       \/ ~Cancelled /\ usage' = Add(usage, snapshot) /\ unseen' = Add(unseen, snapshot)
    /\ stage' = "rows"
    /\ UNCHANGED <<pending, snapshot, requeue, rejected, recorded, stopping, final, stopped>>

RowOk(k) ==
    /\ stage = "rows"
    /\ snapshot[k] > 0
    /\ ~Cancelled
    /\ usage' = [usage EXCEPT ![k] = @ + snapshot[k]]
    /\ snapshot' = [snapshot EXCEPT ![k] = 0]
    /\ UNCHANGED <<pending, requeue, stage, rejected, recorded, unseen, stopping, final, stopped, faults>>

\* isPermanent: SQLSTATE class 22 or 23.
RowRejected(k) ==
    /\ stage = "rows"
    /\ snapshot[k] > 0
    /\ ~Cancelled
    /\ Fault
    /\ rejected' = [rejected EXCEPT ![k] = @ + snapshot[k]]
    /\ snapshot' = [snapshot EXCEPT ![k] = 0]
    /\ UNCHANGED <<pending, requeue, stage, usage, recorded, unseen, stopping, final, stopped>>

RowFails(k) ==
    /\ stage = "rows"
    /\ snapshot[k] > 0
    /\ Fault
    /\ requeue' = [requeue EXCEPT ![k] = snapshot[k]]
    /\ snapshot' = [snapshot EXCEPT ![k] = 0]
    /\ \/ UNCHANGED <<usage, unseen>>
       \/ /\ ~Cancelled
          /\ usage' = [usage EXCEPT ![k] = @ + snapshot[k]]
          /\ unseen' = [unseen EXCEPT ![k] = @ + snapshot[k]]
    /\ UNCHANGED <<pending, stage, rejected, recorded, stopping, final, stopped>>

\* Mutant: a requeued bucket replaces the one recorded during the flush.
MergeBackReplaces ==
    /\ stage = "rows"
    /\ Buckets(snapshot) = {}
    /\ pending' = [k \in Keys |-> IF requeue[k] > 0 THEN requeue[k] ELSE pending[k]]
    /\ requeue' = None
    /\ EndFlush
    /\ UNCHANGED <<snapshot, usage, rejected, recorded, unseen, stopping, final, faults>>

\* Mutant: the buckets to retry are forgotten.
MergeBackForgets ==
    /\ stage = "rows"
    /\ Buckets(snapshot) = {}
    /\ requeue' = requeue
    /\ EndFlush
    /\ UNCHANGED <<pending, snapshot, usage, rejected, recorded, unseen, stopping, final, faults>>

\* The rows are done; what failed is added to what was recorded meanwhile.
MergeBack ==
    /\ stage = "rows"
    /\ Buckets(snapshot) = {}
    /\ pending' = Add(pending, requeue)
    /\ requeue' = None
    /\ EndFlush
    /\ UNCHANGED <<snapshot, usage, rejected, recorded, unseen, stopping, final, faults>>

Flush ==
    \/ TakeBuffer
    \/ TakeNothing
    \/ BatchOk
    \/ BatchFails
    \/ \E k \in Keys : RowOk(k) \/ RowRejected(k) \/ RowFails(k)
    \/ MergeBack

Next ==
    \/ \E k \in Keys : Record(k)
    \/ Stop
    \/ Flush

Spec == Init /\ [][Next]_vars

\* The ticker of Run keeps firing, statements end, and a context that is
\* cancelled is seen: select does not pick the ticker forever.
Fairness == WF_vars(Flush) /\ SF_vars(Flush /\ final')

FairSpec == Spec /\ Fairness

(***************************************************************************)
(* Properties.                                                             *)
(***************************************************************************)
Counts == [Keys -> Nat]

\* Types of the buffer, of the flush and of the table; only a flush has
\* unsettled buckets.
TypeOK ==
    /\ {pending, snapshot, requeue, usage, rejected, recorded, unseen} \subseteq Counts
    /\ stage \in {"idle", "batch", "rows"}
    /\ stopping \in BOOLEAN /\ final \in BOOLEAN /\ stopped \in BOOLEAN
    /\ faults \in 0..MaxFaults
    /\ stage = "idle" => snapshot = None
    /\ stage # "rows" => requeue = None

\* Usage is conserved: an event recorded is in the buffer, in the running flush,
\* in the table or counted as dropped, whatever fails and whatever is recorded
\* during the flush; the only surplus is what statements applied whose answer
\* was lost, each once.
Conservation ==
    \A k \in Keys :
        recorded[k] + unseen[k] = pending[k] + snapshot[k] + requeue[k] + usage[k] + rejected[k]

Unsettled(k) == pending[k] + snapshot[k] + requeue[k]

\* Every recorded event reaches the table or is dropped for good unless Run
\* returns first: failed rows are retried until they are settled.
EventuallyFlushed ==
    \A k \in Keys : Unsettled(k) > 0 ~> Unsettled(k) = 0 \/ stopped

(***************************************************************************)
(* What comments say and the code does not do.                             *)
(***************************************************************************)
\* "The batch ran as one implicit transaction, so nothing was applied": the
\* table never counts more than was recorded.
NeverCountedTwice == \A k \in Keys : usage[k] <= recorded[k]

\* "maxPendingBuckets bounds memory if the database is unreachable for a long
\* time": the buffer never holds more buckets than that.
BufferBounded == Cardinality(Buckets(pending)) <= MaxBuckets
=============================================================================
