------------------------- MODULE EmbeddingBackfill -------------------------
(***************************************************************************)
(* The embedding worker: every tick it lists the oldest current rows that  *)
(* have no vector and embeds them one by one through the provider, which a *)
(* circuit breaker guards.  A row that fails is skipped; it is listed      *)
(* again at the next tick, ahead of every newer row.  Meanwhile rows are   *)
(* stored, superseded and expired, and a migration clears vectors.         *)
(* The breaker's hold times are those of module CircuitBreaker; here an    *)
(* open circuit just cools down after a while.                             *)
(***************************************************************************)
EXTENDS Integers, Sequences, SequencesExt

CONSTANTS
    Paths,
    Texts,
    Refused,      \* the texts the provider refuses whenever it is asked
    Batch,        \* rows listed per tick: 5
    MaxFailures,  \* MaxConsecutiveFailures of the breaker: 5
    MaxRows,      \* bound on the rows ever stored
    MaxMigrations,
    MaxFaults     \* bound on outages, database errors and restarts

\* What the constants must satisfy.
BackfillAssumption ==
    /\ Refused \subseteq Texts
    /\ {Batch, MaxFailures} \subseteq Nat \ {0}
    /\ {MaxRows, MaxMigrations, MaxFaults} \subseteq Nat

VARIABLES
    rows,        \* memory_entries by id, which is the order of created_at
    batch,       \* ids listed by the tick and not yet handled
    vector,      \* the provider answered for Head(batch), not yet saved
    circuit,     \* "closed", "open" or "half-open"
    failures,    \* consecutive failures counted by the breaker
    up,          \* the provider is reachable
    migrations,
    faults

vars == <<rows, batch, vector, circuit, failures, up, migrations, faults>>
breaker == <<circuit, failures>>
outside == <<up, migrations, faults>>

Row(p, t) == [path |-> p, text |-> t, open |-> TRUE, embedded |-> FALSE]

Init ==
    /\ rows = <<>>
    /\ batch = <<>>
    /\ vector = FALSE
    /\ circuit = "closed"
    /\ failures = 0
    /\ up = TRUE
    /\ migrations = 0
    /\ faults = 0

Ids == DOMAIN rows

(***************************************************************************)
(* The rest of the system: versions are written, closed and migrated.      *)
(***************************************************************************)
Closed(r, p) == [r EXCEPT !.open = @ /\ r.path # p]

Store(p, t) ==
    /\ Len(rows) < MaxRows
    /\ rows' = Append([i \in Ids |-> Closed(rows[i], p)], Row(p, t))
    /\ UNCHANGED <<batch, vector, breaker, outside>>

Expire(i) ==
    /\ rows[i].open
    /\ rows' = [rows EXCEPT ![i].open = FALSE]
    /\ UNCHANGED <<batch, vector, breaker, outside>>

\* mark_embeddings_for_migration clears the vectors of the current rows under
\* a prefix; the worker picks them up again.
Migrate(P) ==
    /\ migrations < MaxMigrations
    /\ migrations' = migrations + 1
    /\ rows' = [i \in Ids |-> IF rows[i].open /\ rows[i].path \in P
                              THEN [rows[i] EXCEPT !.embedded = FALSE]
                              ELSE rows[i]]
    /\ UNCHANGED <<batch, vector, breaker, up, faults>>

(***************************************************************************)
(* processPendingEmbeddings.                                               *)
(***************************************************************************)
Pending(i) == rows[i].open /\ ~rows[i].embedded

\* list_pending_embeddings: ORDER BY created_at ASC LIMIT Batch.
Listed ==
    LET oldest == SelectSeq([i \in Ids |-> i], Pending)
    IN SubSeq(oldest, 1, IF Len(oldest) < Batch THEN Len(oldest) ELSE Batch)

Tick ==
    /\ batch = <<>>
    /\ \E i \in Ids : Pending(i)
    /\ batch' = Listed
    /\ UNCHANGED <<rows, vector, breaker, outside>>

\* Every branch of the loop body ends by going to the next row.
NextRow ==
    /\ batch' = Tail(batch)
    /\ vector' = FALSE

Asking == batch # <<>> /\ ~vector

\* Mutant: the provider refuses whenever the circuit is not closed.
circuitBlockedUnlessClosed ==
    circuit # "closed"

circuitBlocked ==
    circuit = "open"

Skip ==
    /\ Asking
    /\ circuitBlocked
    /\ NextRow
    /\ UNCHANGED <<rows, breaker, outside>>

Refuses(i) == ~up \/ rows[i].text \in Refused

GenerateFails ==
    /\ Asking
    /\ ~circuitBlocked
    /\ Refuses(Head(batch))
    /\ IF circuit = "half-open" \/ failures + 1 >= MaxFailures
       THEN circuit' = "open" /\ failures' = 0
       ELSE circuit' = circuit /\ failures' = failures + 1
    /\ NextRow
    /\ UNCHANGED <<rows, outside>>

Generate ==
    /\ Asking
    /\ ~circuitBlocked
    /\ ~Refuses(Head(batch))
    /\ circuit' = "closed"
    /\ failures' = 0
    /\ vector' = TRUE
    /\ UNCHANGED <<rows, batch, outside>>

\* The UPDATE names the row by id: a row superseded meanwhile gets its vector
\* too, and one that a migration has just cleared loses its mark.
Save ==
    /\ vector
    /\ rows' = [rows EXCEPT ![Head(batch)].embedded = TRUE]
    /\ NextRow
    /\ UNCHANGED <<breaker, outside>>

\* set_tenant_context or the UPDATE fails.
RowFails ==
    /\ batch # <<>>
    /\ faults < MaxFaults
    /\ faults' = faults + 1
    /\ NextRow
    /\ UNCHANGED <<rows, breaker, up, migrations>>

(***************************************************************************)
(* The breaker's clock, the provider, and the worker process.              *)
(***************************************************************************)
CoolDown ==
    /\ circuit = "open"
    /\ circuit' = "half-open"
    /\ UNCHANGED <<rows, batch, vector, failures, outside>>

Outage ==
    /\ up
    /\ faults < MaxFaults
    /\ faults' = faults + 1
    /\ up' = FALSE
    /\ UNCHANGED <<rows, batch, vector, breaker, migrations>>

Recover ==
    /\ ~up
    /\ up' = TRUE
    /\ UNCHANGED <<rows, batch, vector, breaker, migrations, faults>>

Restart ==
    /\ faults < MaxFaults
    /\ faults' = faults + 1
    /\ batch' = <<>>
    /\ vector' = FALSE
    /\ circuit' = "closed"
    /\ failures' = 0
    /\ UNCHANGED <<rows, up, migrations>>

Work == Tick \/ Skip \/ GenerateFails \/ Generate \/ Save

Next ==
    \/ \E p \in Paths, t \in Texts : Store(p, t)
    \/ \E i \in Ids : Expire(i)
    \/ \E P \in SUBSET Paths \ {{}} : Migrate(P)
    \/ Tick
    \/ Skip
    \/ GenerateFails
    \/ Generate
    \/ Save
    \/ RowFails
    \/ CoolDown
    \/ Outage
    \/ Recover
    \/ Restart

\* The ticker fires and the loop goes on; an open circuit's timeout passes;
\* an outage of the provider ends.  Restarts and errors are never owed.
Fairness == WF_vars(Work) /\ WF_vars(CoolDown) /\ WF_vars(Recover)

Spec == Init /\ [][Next]_vars

FairSpec == Spec /\ Fairness

TypeOK ==
    /\ rows \in Seq([path : Paths, text : Texts, open : BOOLEAN, embedded : BOOLEAN])
    /\ batch \in Seq(Ids) /\ Len(batch) <= Batch
    /\ vector \in BOOLEAN /\ (vector => batch # <<>>)
    /\ circuit \in {"closed", "open", "half-open"}
    /\ failures \in 0..MaxFailures - 1
    /\ up \in BOOLEAN
    /\ migrations \in 0..MaxMigrations
    /\ faults \in 0..MaxFaults

\* A current row that lacks a vector the provider would give it.
Owed(i) == i \in Ids /\ Pending(i) /\ rows[i].text \notin Refused

\* Every current row whose text the provider would embed gets its vector,
\* unless it is superseded or expired first: processPendingEmbeddings skips
\* what fails and comes back to it, and the breaker lets calls through again
\* after an outage (docs/failure-modes.md, "logs and skips rows").
EmbeddingsCatchUp ==
    \A i \in 1..MaxRows : Owed(i) ~> ~Owed(i)
=============================================================================
