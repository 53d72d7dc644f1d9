---------------------------- MODULE EventStream ----------------------------
(***************************************************************************)
(* The durable event path: XADD on the stream pcmi:events, the consumer    *)
(* group pcmi-workers read by the worker processes (StreamConsumer), the   *)
(* recovery of idle pending entries, the dead-letter stream, and the       *)
(* background jobs a worker starts for an event.                           *)
(*                                                                         *)
(* Each worker process runs two loops over the group: "read" (Consume) and *)
(* "recover" (recoverPending).  Redis is external: it keeps the position   *)
(* of the group and, per delivered and unacknowledged entry, the number of *)
(* deliveries and whether the entry has been idle for pendingMinIdle.      *)
(***************************************************************************)
EXTENDS Integers, Sequences, FiniteSets, SequencesExt

CONSTANTS
    Workers,        \* worker processes (consumers of the group)
    Events,         \* number of events published
    Malformed,      \* the events whose entry does not decode
    MaxDeliveries,  \* maxDeliveries
    Batch,          \* defaultBatch of XREADGROUP
    ClaimBatch,     \* pendingClaimBatch of XPENDING
    HandlerErrors,  \* may the handler return an error
    MaxFaults       \* bound on failed Redis commands and worker crashes

Ids == 1..Events
Loops == Workers \X {"read", "recover"}

\* What the constants must satisfy.
StreamAssumption ==
    /\ Events \in Nat \ {0}
    /\ Malformed \subseteq Ids
    /\ {MaxDeliveries, Batch, ClaimBatch} \subseteq Nat \ {0}
    /\ HandlerErrors \in BOOLEAN
    /\ MaxFaults \in Nat

VARIABLES
    published,   \* entries of the stream: 1..published
    position,    \* last-delivered id of the group
    pending,     \* the pending entries list: id -> has it been idle long enough
    deliveries,  \* deliveries per id, counted by the pending entries list
    acked,       \* ids acknowledged
    dlq,         \* ids in the dead-letter stream
    queue,       \* per loop: entries it still has to go through
    stage,       \* per loop: what it does with the head of its queue
    counts,      \* per recovery loop: delivery counts XPENDING returned
    runs,        \* history: handler runs per event
    handled,     \* history: events whose handler returned nil
    jobs,        \* jobs in the memory of a worker: <<worker, event>>
    done,        \* events whose jobs ran to their end
    faults

redis == <<published, position, pending, deliveries, acked, dlq>>
local == <<queue, stage, counts>>
work == <<runs, handled, jobs, done>>
vars == <<redis, local, work, faults>>

NoCounts == [i \in {} |-> 0]

Init ==
    /\ published = 0
    /\ position = 0
    /\ pending = [i \in {} |-> FALSE]
    /\ deliveries = [i \in Ids |-> 0]
    /\ acked = {}
    /\ dlq = {}
    /\ queue = [l \in Loops |-> <<>>]
    /\ stage = [l \in Loops |-> "idle"]
    /\ counts = [l \in Loops |-> NoCounts]
    /\ runs = [i \in Ids |-> 0]
    /\ handled = {}
    /\ jobs = {}
    /\ done = {}
    /\ faults = 0

Fault == faults < MaxFaults /\ faults' = faults + 1

(***************************************************************************)
(* Redis.                                                                  *)
(***************************************************************************)
\* PublishEvent: XADD.  A failed XADD is logged and the event is dropped.
Publish ==
    /\ published < Events
    /\ published' = published + 1
    /\ UNCHANGED <<position, pending, deliveries, acked, dlq, local, work, faults>>

Deliver(ids) ==
    /\ pending' = [i \in DOMAIN pending \cup ids |-> i \notin ids /\ pending[i]]
    /\ deliveries' = [i \in Ids |-> IF i \in ids THEN deliveries[i] + 1 ELSE deliveries[i]]

XAck(id) ==
    /\ pending' = [i \in DOMAIN pending \ {id} |-> pending[i]]
    /\ acked' = acked \cup {id}

\* An entry passes pendingMinIdle; its handler may still be running.
GrowIdle(id) ==
    /\ id \in DOMAIN pending
    /\ ~pending[id]
    /\ pending' = [pending EXCEPT ![id] = TRUE]
    /\ UNCHANGED <<published, position, deliveries, acked, dlq, local, work, faults>>

FirstPending(n) ==
    {i \in DOMAIN pending : Cardinality({j \in DOMAIN pending : j < i}) < n}

(***************************************************************************)
(* A loop goes through its queue entry by entry.                           *)
(***************************************************************************)
Continue(l, entries) ==
    /\ queue' = [queue EXCEPT ![l] = entries]
    /\ stage' = [stage EXCEPT ![l] = IF entries = <<>> THEN "idle" ELSE "handle"]
    /\ counts' = [counts EXCEPT ![l] = IF entries = <<>> THEN NoCounts ELSE @]

NextEntry(l) == Continue(l, Tail(queue[l]))

StartQueue(l, ids) == Continue(l, SetToSortSeq(ids, <))

\* Consume: XREADGROUP ">".
ReadGroup(w) ==
    LET l == <<w, "read">>
        ids == {i \in position + 1 .. published : i <= position + Batch}
    IN  /\ stage[l] = "idle"
        /\ ids # {}
        /\ position' = position + Cardinality(ids)
        /\ Deliver(ids)
        /\ StartQueue(l, ids)
        /\ UNCHANGED <<published, acked, dlq, work, faults>>

\* recoverPending: XPENDING of the oldest entries of the group, then XCLAIM.
ListPending(w) ==
    LET l == <<w, "recover">>
        ids == FirstPending(ClaimBatch)
    IN  /\ stage[l] = "idle"
        /\ ids # {}
        /\ counts' = [counts EXCEPT ![l] = [i \in ids |-> deliveries[i]]]
        /\ stage' = [stage EXCEPT ![l] = "claim"]
        /\ UNCHANGED <<redis, queue, work, faults>>

\* Mutant: the minimum idle time is compared the wrong way round.
ClaimFresh(w) ==
    LET l == <<w, "recover">>
        ids == {i \in DOMAIN counts[l] \cap DOMAIN pending : ~pending[i]}
    IN  /\ stage[l] = "claim"
        /\ Deliver(ids)
        /\ StartQueue(l, ids)
        /\ UNCHANGED <<published, position, acked, dlq, work, faults>>

Claim(w) ==
    LET l == <<w, "recover">>
        ids == {i \in DOMAIN counts[l] \cap DOMAIN pending : pending[i]}
    IN  /\ stage[l] = "claim"
        /\ Deliver(ids)
        /\ StartQueue(l, ids)
        /\ UNCHANGED <<published, position, acked, dlq, work, faults>>

ClaimFails(w) ==
    /\ stage[<<w, "recover">>] = "claim"
    /\ Fault
    /\ Continue(<<w, "recover">>, <<>>)
    /\ UNCHANGED <<redis, work>>

\* Mutant: the delivery count is never compared.
NeverExhausted(l) == FALSE

Exhausted(l) == l[2] = "recover" /\ counts[l][Head(queue[l])] >= MaxDeliveries

\* decodeStreamMessage fails: the entry is acknowledged and dropped.
DropMalformed(l) ==
    LET id == Head(queue[l])
    IN  /\ stage[l] = "handle"
        /\ ~Exhausted(l)
        /\ id \in Malformed
        /\ stage' = [stage EXCEPT ![l] = "ack"]
        /\ UNCHANGED <<redis, queue, counts, work, faults>>

\* The handler returns nil: it has started the jobs of the event as goroutines.
HandlerOk(l) ==
    LET id == Head(queue[l])
    IN  /\ stage[l] = "handle"
        /\ ~Exhausted(l)
        /\ id \notin Malformed
        /\ runs' = [runs EXCEPT ![id] = @ + 1]
        /\ handled' = handled \cup {id}
        /\ jobs' = jobs \cup {<<l[1], id>>}
        /\ stage' = [stage EXCEPT ![l] = "ack"]
        /\ UNCHANGED <<redis, queue, counts, done, faults>>

\* The handler returns an error: the entry stays pending.
HandlerError(l) ==
    LET id == Head(queue[l])
    IN  /\ HandlerErrors
        /\ stage[l] = "handle"
        /\ ~Exhausted(l)
        /\ id \notin Malformed
        /\ runs' = [runs EXCEPT ![id] = @ + 1]
        /\ NextEntry(l)
        /\ UNCHANGED <<redis, handled, jobs, done, faults>>

\* moveToDLQ: XADD on the dead-letter stream, then XACK.
MoveToDLQ(l) ==
    /\ stage[l] = "handle"
    /\ Exhausted(l)
    /\ dlq' = dlq \cup {Head(queue[l])}
    /\ stage' = [stage EXCEPT ![l] = "ack"]
    /\ UNCHANGED <<published, position, pending, deliveries, acked, queue, counts, work, faults>>

\* Mutant: the entry is acknowledged although the dead-letter XADD failed.
MoveToDLQFailsAcks(l) ==
    /\ stage[l] = "handle"
    /\ Exhausted(l)
    /\ Fault
    /\ stage' = [stage EXCEPT ![l] = "ack"]
    /\ UNCHANGED <<redis, queue, counts, work>>

MoveToDLQFails(l) ==
    /\ stage[l] = "handle"
    /\ Exhausted(l)
    /\ Fault
    /\ NextEntry(l)
    /\ UNCHANGED <<redis, work>>

Ack(l) ==
    /\ stage[l] = "ack"
    /\ XAck(Head(queue[l]))
    /\ NextEntry(l)
    /\ UNCHANGED <<published, position, deliveries, dlq, work, faults>>

\* XACK fails: logged, and the entry stays pending.
AckFails(l) ==
    /\ stage[l] = "ack"
    /\ Fault
    /\ NextEntry(l)
    /\ UNCHANGED <<redis, work>>

(***************************************************************************)
(* Jobs, and the crash of a worker process, which loses what it held in    *)
(* memory; it restarts with both loops idle.                               *)
(***************************************************************************)
JobDone(w, id) ==
    /\ <<w, id>> \in jobs
    /\ jobs' = jobs \ {<<w, id>>}
    /\ done' = done \cup {id}
    /\ UNCHANGED <<redis, local, runs, handled, faults>>

Crash(w) ==
    /\ Fault
    /\ queue' = [l \in Loops |-> IF l[1] = w THEN <<>> ELSE queue[l]]
    /\ stage' = [l \in Loops |-> IF l[1] = w THEN "idle" ELSE stage[l]]
    /\ counts' = [l \in Loops |-> IF l[1] = w THEN NoCounts ELSE counts[l]]
    /\ jobs' = {j \in jobs : j[1] # w}
    /\ UNCHANGED <<redis, runs, handled, done>>

LoopStep(l) ==
    \/ DropMalformed(l)
    \/ HandlerOk(l)
    \/ HandlerError(l)
    \/ MoveToDLQ(l)
    \/ MoveToDLQFails(l)
    \/ Ack(l)
    \/ AckFails(l)

Next ==
    \/ Publish
    \/ \E id \in Ids : GrowIdle(id)
    \/ \E w \in Workers : ReadGroup(w) \/ ListPending(w) \/ Claim(w) \/ ClaimFails(w) \/ Crash(w)
    \/ \E l \in Loops : LoopStep(l)
    \/ \E w \in Workers, id \in Ids : JobDone(w, id)

Spec == Init /\ [][Next]_vars

(***************************************************************************)
(* The loops of a worker keep running, its recovery ticker keeps firing,   *)
(* an entry nobody touches passes pendingMinIdle, jobs end.  A claim loop  *)
(* that keeps listing the same fresh entry does not starve the others.     *)
(***************************************************************************)
Fairness ==
    /\ \A w \in Workers : WF_vars(ReadGroup(w)) /\ WF_vars(ListPending(w)) /\ WF_vars(Claim(w))
    /\ \A l \in Loops : WF_vars(LoopStep(l))
    /\ \A id \in Ids : WF_vars(GrowIdle(id))
    /\ \A w \in Workers, id \in Ids : WF_vars(JobDone(w, id))

FairSpec == Spec /\ Fairness

(***************************************************************************)
(* Properties.                                                             *)
(***************************************************************************)
\* Types of the Redis state, of the loops and of the history.
TypeOK ==
    /\ published \in 0..Events
    /\ position \in 0..published
    /\ DOMAIN pending \subseteq 1..position
    /\ pending \in [DOMAIN pending -> BOOLEAN] /\ deliveries \in [Ids -> Nat]
    /\ acked \subseteq Ids /\ dlq \subseteq Ids
    /\ queue \in [Loops -> Seq(Ids)]
    /\ stage \in [Loops -> {"idle", "claim", "handle", "ack"}]
    /\ \A l \in Loops : stage[l] \in {"handle", "ack"} <=> queue[l] # <<>>
    /\ runs \in [Ids -> Nat] /\ handled \subseteq Ids /\ done \subseteq handled
    /\ jobs \subseteq Workers \X handled
    /\ faults \in 0..MaxFaults

\* No entry leaves the group unsettled: a delivered entry is pending or
\* acknowledged, and an acknowledged one was handled without error, or cannot be
\* decoded, or is in the dead-letter stream - across crashes, failed XACKs,
\* failed dead-letter XADDs and entries claimed from a handler still running.
NothingUnsettled ==
    /\ 1..position = DOMAIN pending \cup acked
    /\ acked \subseteq handled \cup Malformed \cup dlq

\* The handler runs at most maxDeliveries times for an event, plus once for each
\* other worker that listed the entry before its last delivery and claims it,
\* idle again, with the delivery count it remembers.
HandlerRunsBounded ==
    \A id \in Ids : runs[id] <= MaxDeliveries + Cardinality(Workers) - 1

\* An event is dead-lettered only after maxDeliveries deliveries, not counting
\* the one that dead-letters it, whoever delivered it and saw it fail.
DeadLettersAreExhausted == \A id \in dlq : deliveries[id] > MaxDeliveries

\* maxDeliveries holds both ways: no event is tried more often, none is given up
\* earlier.
DeliveriesAreCounted == HandlerRunsBounded /\ DeadLettersAreExhausted

\* Every published event is eventually acknowledged: a handler that keeps
\* failing, or workers that crash, delay the event but never wedge the group.
EventuallySettled == \A id \in Ids : published >= id ~> id \in acked

(***************************************************************************)
(* What the documentation says and the code does not do.                   *)
(***************************************************************************)
\* "Durable, at-least-once" (docs/WORKERS-AND-EVENTS.md): an acknowledged event
\* has been processed, or is being processed, or is in the dead-letter stream.
ProcessedAtLeastOnce ==
    \A id \in acked :
        \/ id \in done \cup dlq \cup Malformed
        \/ \E w \in Workers : <<w, id>> \in jobs
=============================================================================
