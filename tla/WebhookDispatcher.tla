------------------------- MODULE WebhookDispatcher -------------------------
(***************************************************************************)
(* Outbound webhooks (internal/webhook): a published event is turned into  *)
(* one row of webhook_deliveries per matching endpoint, and runners (calls *)
(* of processPending, from the retry ticker of each API process or started *)
(* after an insert) POST the due rows and record the outcome.              *)
(*                                                                         *)
(* SELECT ... FOR UPDATE SKIP LOCKED runs outside a transaction: its locks *)
(* end with the statement, so a row can be in the batches of several       *)
(* runners, each with the attempt counter it read.                         *)
(***************************************************************************)
EXTENDS Integers, Sequences, FiniteSets

CONSTANTS
    Events,       \* published events
    Endpoints,    \* registered endpoints
    Matches,      \* <<event, endpoint>> selected by listEndpoints
    Runners,      \* concurrent calls of processPending
    MaxAttempts,  \* runner -> WEBHOOK_MAX_ATTEMPTS of its process
    RowMax,       \* WEBHOOK_MAX_ATTEMPTS of the process that enqueues
    Limit,        \* LIMIT of the select
    MaxFaults     \* bound on failed statements and lost goroutines

Deliveries == Events \X Endpoints

\* Positions of a sequence: what Enqueue, MarkRetry and Leave do to the line.
InsertAt(s, i, d) == SubSeq(s, 1, i - 1) \o <<d>> \o SubSeq(s, i, Len(s))
Remove(s, d) == SelectSeq(s, LAMBDA f : f # d)

\* What the constants must satisfy.
WebhookAssumption ==
    /\ Matches \subseteq Deliveries
    /\ MaxAttempts \in [Runners -> Nat \ {0}]
    /\ {RowMax, Limit} \subseteq Nat \ {0}
    /\ MaxFaults \in Nat

VARIABLES
    notified,  \* events published so far
    notify,    \* event -> endpoints its goroutine has yet to enqueue
    status,    \* webhook_deliveries.status ("none": no row)
    attempts,  \* webhook_deliveries.attempts
    line,      \* pending rows in the order of next_retry_at
    due,       \* the pending rows with next_retry_at <= NOW()
    batch,     \* runner -> rows selected: <<delivery, attempts read>>
    stage,     \* runner -> "idle", "post", "ok", "failed"
    accepted,  \* history: rows whose endpoint answered below 300
    failures,  \* history: failed POSTs per row
    faults

table == <<status, attempts, line, due>>
vars == <<notified, notify, table, batch, stage, accepted, failures, faults>>

Init ==
    /\ notified = {}
    /\ notify = [e \in Events |-> {}]
    /\ status = [d \in Deliveries |-> "none"]
    /\ attempts = [d \in Deliveries |-> 0]
    /\ line = <<>>
    /\ due = {}
    /\ batch = [r \in Runners |-> <<>>]
    /\ stage = [r \in Runners |-> "idle"]
    /\ accepted = {}
    /\ failures = [d \in Deliveries |-> 0]
    /\ faults = 0

Fault == faults < MaxFaults /\ faults' = faults + 1

(***************************************************************************)
(* NotifyMatching: list the endpoints, then one INSERT per endpoint.       *)
(***************************************************************************)
listEndpoints(e) == {p \in Endpoints : <<e, p>> \in Matches}

NotifyMatching(e) ==
    /\ e \notin notified
    /\ notified' = notified \cup {e}
    /\ notify' = [notify EXCEPT ![e] = listEndpoints(e)]
    /\ UNCHANGED <<table, batch, stage, accepted, failures, faults>>

\* next_retry_at = NOW(): behind the rows already due, before the others.
Enqueue(e, p) ==
    LET d == <<e, p>>
    IN  /\ p \in notify[e]
        /\ notify' = [notify EXCEPT ![e] = @ \ {p}]
        /\ status' = [status EXCEPT ![d] = "pending"]
        /\ line' = InsertAt(line, Cardinality(due) + 1, d)
        /\ due' = due \cup {d}
        /\ UNCHANGED <<notified, attempts, batch, stage, accepted, failures, faults>>

\* The INSERT fails, or the process stops: logged, and nothing retries it.
EnqueueFails(e, p) ==
    /\ p \in notify[e]
    /\ Fault
    /\ notify' = [notify EXCEPT ![e] = @ \ {p}]
    /\ UNCHANGED <<notified, table, batch, stage, accepted, failures>>

\* The time reaches the next_retry_at of the first row that waits.
Elapse ==
    /\ Cardinality(due) < Len(line)
    /\ due' = due \cup {line[Cardinality(due) + 1]}
    /\ UNCHANGED <<notified, notify, status, attempts, line, batch, stage, accepted, failures, faults>>

(***************************************************************************)
(* processPending.                                                         *)
(***************************************************************************)
Selectable(d) == status[d] = "pending" /\ d \in due /\ attempts[d] < RowMax

InFlight == UNION {{batch[r][i][1] : i \in DOMAIN batch[r]} : r \in Runners}

Before(d, f) == \E i, j \in DOMAIN line : i < j /\ line[i] = d /\ line[j] = f

\* ORDER BY next_retry_at LIMIT n: the first rows of the line, all if they are fewer.
FirstRows(free) ==
    {rows \in UNION {[1..n -> free] : n \in 1..Limit} :
        /\ \A i, j \in DOMAIN rows : i < j => Before(rows[i], rows[j])
        /\ \A d \in free : \/ \E i \in DOMAIN rows : rows[i] = d
                           \/ Len(rows) = Limit /\ \A i \in DOMAIN rows : Before(rows[i], d)}

\* The rows another statement holds locked at this moment are skipped.
ProcessPending(r) ==
    /\ stage[r] = "idle"
    /\ \E locked \in SUBSET (InFlight \cap due) :
           \E rows \in FirstRows({d \in Deliveries \ locked : Selectable(d)}) :
               batch' = [batch EXCEPT ![r] = [i \in DOMAIN rows |-> <<rows[i], attempts[rows[i]]>>]]
    /\ stage' = [stage EXCEPT ![r] = "post"]
    /\ UNCHANGED <<notified, notify, table, accepted, failures, faults>>

NextRow(r) ==
    /\ batch' = [batch EXCEPT ![r] = Tail(@)]
    /\ stage' = [stage EXCEPT ![r] = IF Len(batch[r]) = 1 THEN "idle" ELSE "post"]

\* set_tenant_context fails (a lost connection, or the 30 seconds are over).
SkipRow(r) ==
    /\ stage[r] = "post"
    /\ Fault
    /\ NextRow(r)
    /\ UNCHANGED <<notified, notify, table, accepted, failures>>

\* Post: the endpoint answers below 300, or it does not.
PostOk(r) ==
    LET d == Head(batch[r])[1]
    IN  /\ stage[r] = "post"
        /\ accepted' = accepted \cup {d}
        /\ stage' = [stage EXCEPT ![r] = "ok"]
        /\ UNCHANGED <<notified, notify, table, batch, failures, faults>>

PostFails(r) ==
    LET d == Head(batch[r])[1]
    IN  /\ stage[r] = "post"
        /\ failures' = [failures EXCEPT ![d] = @ + 1]
        /\ stage' = [stage EXCEPT ![r] = "failed"]
        /\ UNCHANGED <<notified, notify, table, batch, accepted, faults>>

Leave(d) == line' = Remove(line, d) /\ due' = due \ {d}

MarkDelivered(r) ==
    LET d == Head(batch[r])[1]
    IN  /\ stage[r] = "ok"
        /\ status' = [status EXCEPT ![d] = "delivered"]
        /\ attempts' = [attempts EXCEPT ![d] = Head(batch[r])[2] + 1]
        /\ Leave(d)
        /\ NextRow(r)
        /\ UNCHANGED <<notified, notify, accepted, failures, faults>>

\* Mutant: off by one, the attempt that just failed is not counted.
LastAttemptLate(r) == Head(batch[r])[2] >= MaxAttempts[r]

\* Mutant: one attempt too early.
LastAttemptEarly(r) == Head(batch[r])[2] + 2 >= MaxAttempts[r]

LastAttempt(r) == Head(batch[r])[2] + 1 >= MaxAttempts[r]

MarkDeadLetter(r) ==
    LET d == Head(batch[r])[1]
    IN  /\ stage[r] = "failed"
        /\ LastAttempt(r)
        /\ status' = [status EXCEPT ![d] = "dead_letter"]
        /\ attempts' = [attempts EXCEPT ![d] = Head(batch[r])[2] + 1]
        /\ Leave(d)
        /\ NextRow(r)
        /\ UNCHANGED <<notified, notify, accepted, failures, faults>>

\* next_retry_at = NOW() + backoff, whatever the row has become: a row that is
\* no longer pending keeps its status.
MarkRetry(r) ==
    LET d == Head(batch[r])[1]
        rest == Remove(line, d)
    IN  /\ stage[r] = "failed"
        /\ ~LastAttempt(r)
        /\ attempts' = [attempts EXCEPT ![d] = Head(batch[r])[2] + 1]
        /\ IF status[d] = "pending"
           THEN /\ due' = due \ {d}
                /\ \E i \in Cardinality(due \ {d}) + 1 .. Len(rest) + 1 : line' = InsertAt(rest, i, d)
           ELSE UNCHANGED <<line, due>>
        /\ NextRow(r)
        /\ UNCHANGED <<notified, notify, status, accepted, failures, faults>>

\* The UPDATE fails, its error is dropped: the POST is not recorded.
UpdateFails(r) ==
    /\ stage[r] \in {"ok", "failed"}
    /\ Fault
    /\ NextRow(r)
    /\ UNCHANGED <<notified, notify, table, accepted, failures>>

\* The process of the runner stops.
Crash(r) ==
    /\ stage[r] # "idle"
    /\ Fault
    /\ batch' = [batch EXCEPT ![r] = <<>>]
    /\ stage' = [stage EXCEPT ![r] = "idle"]
    /\ UNCHANGED <<notified, notify, table, accepted, failures>>

AttemptDelivery(r) ==
    \/ PostOk(r)
    \/ PostFails(r)
    \/ MarkDelivered(r)
    \/ MarkDeadLetter(r)
    \/ MarkRetry(r)

Next ==
    \/ \E e \in Events : NotifyMatching(e)
    \/ \E e \in Events, p \in Endpoints : Enqueue(e, p) \/ EnqueueFails(e, p)
    \/ Elapse
    \/ \E r \in Runners :
           \/ ProcessPending(r)
           \/ AttemptDelivery(r)
           \/ SkipRow(r)
           \/ UpdateFails(r)
           \/ Crash(r)

Spec == Init /\ [][Next]_vars

(***************************************************************************)
(* The retry ticker of a process keeps firing, POSTs end (8 s timeout) and *)
(* time passes.                                                            *)
(***************************************************************************)
Fairness ==
    /\ WF_vars(Elapse)
    /\ \A r \in Runners : WF_vars(ProcessPending(r)) /\ WF_vars(AttemptDelivery(r))

FairSpec == Spec /\ Fairness

(***************************************************************************)
(* Properties.                                                             *)
(***************************************************************************)
\* Types of the table and of the runners; the line holds the pending rows, the
\* due ones first.
TypeOK ==
    /\ notified \subseteq Events /\ notify \in [Events -> SUBSET Endpoints]
    /\ status \in [Deliveries -> {"none", "pending", "delivered", "dead_letter"}]
    /\ attempts \in [Deliveries -> Nat]
    /\ line \in Seq(Deliveries)
    /\ \A i, j \in DOMAIN line : line[i] = line[j] => i = j
    /\ {line[i] : i \in DOMAIN line} = {d \in Deliveries : status[d] = "pending"}
    /\ due = {line[i] : i \in 1..Cardinality(due)}
    /\ batch \in [Runners -> Seq(Deliveries \X Nat)]
    /\ stage \in [Runners -> {"idle", "post", "ok", "failed"}]
    /\ \A r \in Runners : stage[r] = "idle" <=> batch[r] = <<>>
    /\ accepted \subseteq Deliveries /\ failures \in [Deliveries -> Nat]
    /\ faults \in 0..MaxFaults

\* The recorded outcome is real: a row is delivered only if its endpoint
\* accepted it, and dead-lettered only after that many POSTs really failed,
\* although every runner writes the counter it read before its POST.
OutcomeIsReal ==
    \A d \in Deliveries :
        /\ status[d] = "delivered" => d \in accepted
        /\ status[d] = "dead_letter" => \E r \in Runners : failures[d] >= MaxAttempts[r]

\* "exhausted deliveries land in dead-letter" (docs/failure-modes.md): a row
\* whose attempts are used up, which no runner selects again, is not pending.
ExhaustedAreDeadLettered ==
    \A d \in Deliveries : attempts[d] >= RowMax => status[d] # "pending"

\* Every enqueued row is eventually delivered or dead-lettered, through lost
\* statements, crashed runners and a limit smaller than the number of due
\* rows.  Runners that write back stale counters repeat attempts,
\* but each can do so only once for what it read: the repetition ends.
EventuallySettled ==
    \A d \in Deliveries : status[d] = "pending" ~> status[d] \in {"delivered", "dead_letter"}

\* The dead-letter list shows failed deliveries (docs/WORKERS-AND-EVENTS.md,
\* "Failures -> retry -> dead-letter"): none that was recorded as delivered.
DeliveredIsFinal ==
    [][\A d \in Deliveries : status[d] = "delivered" => status'[d] = "delivered"]_vars
=============================================================================
