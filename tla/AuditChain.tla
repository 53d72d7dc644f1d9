----------------------------- MODULE AuditChain -----------------------------
(***************************************************************************)
(* The tamper-evident audit log: the BEFORE INSERT trigger of migration    *)
(* 027 that chains every row of audit_log under a per-tenant advisory      *)
(* lock, the append-only guard with its maintenance escape hatch, and the  *)
(* readers of the chain (AuditService.Verify and Export), which read it    *)
(* batch by batch while rows are being appended.                           *)
(*                                                                         *)
(* The hash is ideal: distinct inputs have distinct values.                *)
(***************************************************************************)
EXTENDS Integers, FiniteSets

CONSTANTS
    Tenants,
    Writers,      \* transactions that insert an audit row
    Readers,      \* calls of Verify and Export
    Bodies,       \* contents of a row
    BatchSize,    \* auditChainBatchSize
    Maintenance,  \* may an operator set pcmi.audit_maintenance
    MaxRows,      \* bound on the rows of a tenant
    ExportArgs    \* <<from_seq, to_seq, limit>> requested from Export

NoLock == "none"
NoTenant == "none"

ASSUME AuditAssumption ==
    /\ BatchSize \in Nat \ {0}
    /\ Maintenance \in BOOLEAN
    /\ MaxRows \in Nat
    /\ NoLock \notin Writers
    /\ ExportArgs \subseteq (Nat \ {0}) \X Nat \X (Nat \ {0})

VARIABLES
    table,    \* tenant -> committed rows of audit_log
    lock,     \* tenant -> holder of the advisory lock
    pc,       \* writer -> "idle", "lock", "tail", "insert", "commit"
    tenant,   \* writer -> tenant of its row
    row,      \* writer -> the row it inserts
    lost,     \* history: tenants with a row refused by the unique index
    changed,  \* history: tenant -> what maintenance did to its chain
    removed,  \* tenant -> the row maintenance deleted, kept by the operator
    reader,   \* reader -> its state
    result    \* reader -> what its last call returned

writing == <<table, lock, pc, tenant, row, lost, changed, removed>>
vars == <<writing, reader, result>>

NoReader == [kind |-> "idle"]
NoRow == [seq |-> 0, body |-> "none", prev |-> <<>>, hash |-> <<>>]

GenesisHash == <<>>
Canonical(t, seq, body) == <<t, seq, body>>
Hash(prev, canonical) == <<prev, canonical>>

Init ==
    /\ table = [t \in Tenants |-> {}]
    /\ lock = [t \in Tenants |-> NoLock]
    /\ pc = [w \in Writers |-> "idle"]
    /\ tenant = [w \in Writers |-> NoTenant]
    /\ row = [w \in Writers |-> NoRow]
    /\ lost = {}
    /\ changed = [t \in Tenants |-> "no"]
    /\ removed = [t \in Tenants |-> {}]
    /\ reader = [v \in Readers |-> NoReader]
    /\ result = [v \in Readers |-> NoReader]

(***************************************************************************)
(* Inserting a row.  The trigger runs inside the INSERT; the lock is held  *)
(* until the end of the transaction.                                       *)
(***************************************************************************)
Begin(w, t, b) ==
    /\ pc[w] = "idle"
    /\ Cardinality(table[t]) < MaxRows
    /\ pc' = [pc EXCEPT ![w] = "lock"]
    /\ tenant' = [tenant EXCEPT ![w] = t]
    /\ row' = [row EXCEPT ![w] = [NoRow EXCEPT !.body = b]]
    /\ UNCHANGED <<table, lock, lost, changed, removed, reader, result>>

\* pg_advisory_xact_lock
Lock(w) ==
    /\ pc[w] = "lock"
    /\ lock[tenant[w]] = NoLock
    /\ lock' = [lock EXCEPT ![tenant[w]] = w]
    /\ pc' = [pc EXCEPT ![w] = "tail"]
    /\ UNCHANGED <<table, tenant, row, lost, changed, removed, reader, result>>

IsTail(t, r) == r \in table[t] /\ \A q \in table[t] : q.seq <= r.seq

Chained(t, seq, body, prev) ==
    [seq |-> seq, body |-> body, prev |-> prev, hash |-> Hash(prev, Canonical(t, seq, body))]

\* Mutant: prev_hash is taken from the tail's own predecessor.
ChainRowSkips(w) ==
    LET t == tenant[w]
    IN  /\ pc[w] = "tail"
        /\ \/ /\ table[t] = {}
              /\ row' = [row EXCEPT ![w] = Chained(t, 1, @.body, GenesisHash)]
           \/ \E r \in table[t] :
                 /\ IsTail(t, r)
                 /\ row' = [row EXCEPT ![w] = Chained(t, r.seq + 1, @.body, r.prev)]
        /\ pc' = [pc EXCEPT ![w] = "insert"]
        /\ UNCHANGED <<table, lock, tenant, lost, changed, removed, reader, result>>

ChainRow(w) ==
    LET t == tenant[w]
    IN  /\ pc[w] = "tail"
        /\ \/ /\ table[t] = {}
              /\ row' = [row EXCEPT ![w] = Chained(t, 1, @.body, GenesisHash)]
           \/ \E r \in table[t] :
                 /\ IsTail(t, r)
                 /\ row' = [row EXCEPT ![w] = Chained(t, r.seq + 1, @.body, r.hash)]
        /\ pc' = [pc EXCEPT ![w] = "insert"]
        /\ UNCHANGED <<table, lock, tenant, lost, changed, removed, reader, result>>

\* The unique index (tenant_id, chain_seq): an insert waits for a transaction
\* that has inserted the same key, and fails on a committed one.
SameKey(w, x) == tenant[x] = tenant[w] /\ row[x].seq = row[w].seq

InsertRow(w) ==
    /\ pc[w] = "insert"
    /\ \A x \in Writers : ~(pc[x] = "commit" /\ SameKey(w, x))
    /\ \A r \in table[tenant[w]] : r.seq # row[w].seq
    /\ pc' = [pc EXCEPT ![w] = "commit"]
    /\ UNCHANGED <<table, lock, tenant, row, lost, changed, removed, reader, result>>

Release(w) ==
    [t \in Tenants |-> IF lock[t] = w THEN NoLock ELSE lock[t]]

\* The middleware logs the error; the request is not audited.
InsertConflict(w) ==
    /\ pc[w] = "insert"
    /\ \E r \in table[tenant[w]] : r.seq = row[w].seq
    /\ pc' = [pc EXCEPT ![w] = "idle"]
    /\ row' = [row EXCEPT ![w] = NoRow]
    /\ lock' = Release(w)
    /\ lost' = lost \cup {tenant[w]}
    /\ UNCHANGED <<table, tenant, changed, removed, reader, result>>

Commit(w) ==
    /\ pc[w] = "commit"
    /\ table' = [table EXCEPT ![tenant[w]] = @ \cup {row[w]}]
    /\ pc' = [pc EXCEPT ![w] = "idle"]
    /\ row' = [row EXCEPT ![w] = NoRow]
    /\ lock' = Release(w)
    /\ UNCHANGED <<tenant, lost, changed, removed, reader, result>>

\* The transaction fails anywhere (an erasure that fails after its audit row,
\* a lost connection).
Rollback(w) ==
    /\ pc[w] # "idle"
    /\ pc' = [pc EXCEPT ![w] = "idle"]
    /\ row' = [row EXCEPT ![w] = NoRow]
    /\ lock' = Release(w)
    /\ UNCHANGED <<table, tenant, lost, changed, removed, reader, result>>

(***************************************************************************)
(* audit_log_block_mutation lets UPDATE and DELETE through when the        *)
(* operator has set pcmi.audit_maintenance.                                *)
(***************************************************************************)
MaintainUpdate(t, r, b) ==
    /\ Maintenance
    /\ changed[t] = "no"
    /\ r \in table[t]
    /\ b # r.body
    /\ table' = [table EXCEPT ![t] = (@ \ {r}) \cup
           {[seq |-> r.seq, body |-> b, prev |-> r.prev, hash |-> r.hash]}]
    /\ changed' = [changed EXCEPT ![t] = "edit"]
    /\ UNCHANGED <<lock, pc, tenant, row, lost, removed, reader, result>>

Inner(t, r) == (\E q \in table[t] : q.seq < r.seq) /\ (\E q \in table[t] : q.seq > r.seq)

MaintainDelete(t, r) ==
    /\ Maintenance
    /\ changed[t] = "no"
    /\ r \in table[t]
    /\ table' = [table EXCEPT ![t] = @ \ {r}]
    /\ changed' = [changed EXCEPT ![t] = IF Inner(t, r) THEN "hole" ELSE "end"]
    /\ removed' = [removed EXCEPT ![t] = {r}]
    /\ UNCHANGED <<lock, pc, tenant, row, lost, reader, result>>

\* An INSERT that carries chain_seq, prev_hash and row_hash is kept verbatim,
\* without the advisory lock (the restore path of the trigger).
RestoreRow(t, r) ==
    /\ r \in removed[t]
    /\ \A q \in table[t] : q.seq # r.seq
    /\ \A x \in Writers : ~(pc[x] = "commit" /\ tenant[x] = t /\ row[x].seq = r.seq)
    /\ table' = [table EXCEPT ![t] = @ \cup {r}]
    /\ removed' = [removed EXCEPT ![t] = {}]
    /\ changed' = [changed EXCEPT ![t] = "restored"]
    /\ UNCHANGED <<lock, pc, tenant, row, lost, reader, result>>

(***************************************************************************)
(* Verify and Export: the rows after a sequence number, in batches, each   *)
(* row fed to the Verifier.                                                *)
(***************************************************************************)
\* ORDER BY chain_seq LIMIT limit: the rows with the least sequence numbers.
ChainBatch(t, after, end, limit) ==
    LET rows == {r \in table[t] : r.seq > after /\ (end = 0 \/ r.seq <= end)}
    IN  {batch \in SUBSET rows :
            /\ \A r \in batch, q \in rows \ batch : r.seq < q.seq
            /\ Cardinality(batch) <= limit
            /\ batch = rows \/ Cardinality(batch) = limit}

\* ChainHead: chain_seq of the tail, 0 when there is none.
Head0(t) == IF table[t] = {} THEN 0 ELSE (CHOOSE r \in table[t] : IsTail(t, r)).seq

NewReader(kind, t, after, end, limit) ==
    [kind |-> kind, tenant |-> t, from |-> after + 1, after |-> after, end |-> end, left |-> limit,
     queue |-> {}, more |-> TRUE, started |-> FALSE, lastSeq |-> 0, lastHash |-> <<>>,
     broken |-> FALSE, seen |-> {}, head |-> Head0(t), changed |-> changed[t]]

StartVerify(v, t) ==
    /\ reader[v].kind = "idle"
    /\ result[v].kind = "idle"
    /\ reader' = [reader EXCEPT ![v] = NewReader("verify", t, 0, 0, 0)]
    /\ UNCHANGED <<writing, result>>

StartExport(v, t, from, to, limit) ==
    LET head == Head0(t)
        end == IF to > 0 /\ to < head THEN to ELSE head
    IN  /\ reader[v].kind = "idle"
        /\ result[v].kind = "idle"
        /\ to = 0 \/ to >= from
        /\ reader' = [reader EXCEPT ![v] = NewReader("export", t, from - 1, end, limit)]
        /\ UNCHANGED <<writing, result>>

\* One more batch: Verify reads until a batch is short, Export until it has
\* the rows it was asked for or a batch is short.
WantsBatch(rd) ==
    /\ rd.queue = {}
    /\ rd.more
    /\ rd.kind = "export" => rd.left > 0 /\ rd.after < rd.end

ReadBatch(v) ==
    LET rd == reader[v]
        n == IF rd.kind = "export" /\ rd.left < BatchSize THEN rd.left ELSE BatchSize
    IN  /\ rd.kind # "idle"
        /\ WantsBatch(rd)
        /\ \E batch \in ChainBatch(rd.tenant, rd.after, rd.end, n) :
              reader' = [reader EXCEPT ![v] = [@ EXCEPT !.queue = batch, !.more = (Cardinality(batch) = n)]]
        /\ UNCHANGED <<writing, result>>

\* Mutant: the hash of a row is not computed again.
BreaksNoHash(rd, r) ==
    \/ ~rd.started /\ r.seq = 1 /\ r.prev # GenesisHash
    \/ rd.started /\ r.seq # rd.lastSeq + 1
    \/ rd.started /\ r.prev # rd.lastHash

\* Verifier.Add
Breaks(rd, r) ==
    \/ ~rd.started /\ r.seq = 1 /\ r.prev # GenesisHash
    \/ rd.started /\ r.seq # rd.lastSeq + 1
    \/ rd.started /\ r.prev # rd.lastHash
    \/ r.hash # Hash(r.prev, Canonical(rd.tenant, r.seq, r.body))

\* Mutant: the cursor moves past the row after the one that was read.
AddRowSkips(v) ==
    LET rd == reader[v]
    IN  /\ rd.kind # "idle"
        /\ \E r \in rd.queue :
              /\ \A q \in rd.queue : r.seq <= q.seq
              /\ reader' = [reader EXCEPT ![v] =
                     [rd EXCEPT !.queue = @ \ {r}, !.started = TRUE, !.lastSeq = r.seq, !.lastHash = r.hash,
                                !.broken = @ \/ Breaks(rd, r), !.seen = @ \cup {r.seq},
                                !.after = r.seq + 1, !.left = @ - 1]]
        /\ UNCHANGED <<writing, result>>

AddRow(v) ==
    LET rd == reader[v]
    IN  /\ rd.kind # "idle"
        /\ \E r \in rd.queue :
              /\ \A q \in rd.queue : r.seq <= q.seq
              /\ reader' = [reader EXCEPT ![v] =
                     [rd EXCEPT !.queue = @ \ {r}, !.started = TRUE, !.lastSeq = r.seq, !.lastHash = r.hash,
                                !.broken = @ \/ Breaks(rd, r), !.seen = @ \cup {r.seq},
                                !.after = r.seq, !.left = @ - 1]]
        /\ UNCHANGED <<writing, result>>

Finish(v) ==
    LET rd == reader[v]
    IN  /\ rd.kind # "idle"
        /\ rd.queue = {}
        /\ ~WantsBatch(rd)
        /\ result' = [result EXCEPT ![v] =
               [kind |-> rd.kind, tenant |-> rd.tenant, valid |-> ~rd.broken, from |-> rd.from,
                seen |-> rd.seen, complete |-> rd.after >= rd.end, next |-> rd.after + 1,
                head |-> rd.head, changed |-> rd.changed]]
        /\ reader' = [reader EXCEPT ![v] = NoReader]
        /\ UNCHANGED writing

WriterStep(w) ==
    \/ \E t \in Tenants, b \in Bodies : Begin(w, t, b)
    \/ Lock(w)
    \/ ChainRow(w)
    \/ InsertRow(w)
    \/ InsertConflict(w)
    \/ Commit(w)
    \/ Rollback(w)

ReaderStep(v) ==
    \/ \E t \in Tenants : StartVerify(v, t)
    \/ \E t \in Tenants, a \in ExportArgs : StartExport(v, t, a[1], a[2], a[3])
    \/ ReadBatch(v)
    \/ AddRow(v)
    \/ Finish(v)

Maintain ==
    \E t \in Tenants : \E r \in table[t] :
        \/ MaintainDelete(t, r)
        \/ \E b \in Bodies : MaintainUpdate(t, r, b)

Restore == \E t \in Tenants : \E r \in removed[t] : RestoreRow(t, r)

Next ==
    \/ \E w \in Writers : WriterStep(w)
    \/ \E v \in Readers : ReaderStep(v)
    \/ Maintain
    \/ Restore

Spec == Init /\ [][Next]_vars

(***************************************************************************)
(* Properties.                                                             *)
(***************************************************************************)
\* Types of the table, of its locks and of the writers.
TypeOK ==
    /\ lock \in [Tenants -> Writers \cup {NoLock}]
    /\ pc \in [Writers -> {"idle", "lock", "tail", "insert", "commit"}]
    /\ tenant \in [Writers -> Tenants \cup {NoTenant}]
    /\ \A w \in Writers : pc[w] # "idle" => tenant[w] \in Tenants
    /\ \A t \in Tenants : \A r \in table[t] : r.seq \in Nat \ {0} /\ r.body \in Bodies
    /\ lost \subseteq Tenants
    /\ changed \in [Tenants -> {"no", "edit", "hole", "end", "restored"}]

\* The rows of a tenant form one chain.
Intact(t) ==
    /\ \A r, q \in table[t] : r.seq = q.seq => r = q
    /\ \A r \in table[t] :
          /\ r.hash = Hash(r.prev, Canonical(t, r.seq, r.body))
          /\ r.seq = 1 => r.prev = GenesisHash
          /\ r.seq > 1 => \E q \in table[t] : q.seq = r.seq - 1 /\ q.hash = r.prev

\* Concurrent writers never fork the chain: sequence numbers are unique, and
\* every row carries the hash of the row before it and its own hash.
ChainIntact == \A t \in Tenants : changed[t] = "no" => Intact(t)

\* A row deleted by maintenance and inserted again verbatim makes the chain whole
\* again, although the restore path takes no lock and writers went on appending.
RestoreHeals == \A t \in Tenants : changed[t] = "restored" => Intact(t)

\* The unique index is a backstop the advisory lock never needs: no request
\* loses its audit row to a conflict on chain_seq.
NoRowLost == \A t \in lost : changed[t] # "no"

\* A Verify or Export that runs while rows are appended never raises a false
\* alarm, at any row it has looked at.
NoFalseAlarm ==
    \A v \in Readers :
        reader[v].kind # "idle" /\ changed[reader[v].tenant] = "no" => ~reader[v].broken

\* An untouched chain is read completely: a finished Verify has seen every row
\* up to the head it found, and an export holds the rows from from_seq up to
\* next_from_seq without a gap, so that a resumed export misses none.
ReadsAreComplete ==
    \A v \in Readers : LET res == result[v] IN
        res.kind # "idle" /\ changed[res.tenant] = "no" =>
            /\ res.valid
            /\ res.seen = res.from .. (res.next - 1)
            /\ res.kind = "verify" => res.head \in res.seen \cup {0}

\* A Verify that starts after a row was edited, or deleted from the middle of
\* the chain (and not restored), reports the break, whatever was appended meanwhile.
EditsAndHolesReported ==
    \A v \in Readers :
        /\ result[v].kind = "verify"
        /\ result[v].changed \in {"edit", "hole"}
        /\ changed[result[v].tenant] = result[v].changed
        => ~result[v].valid

\* The verdict of Verify is right both ways: an untouched or restored chain
\* verifies, an edited one or one with a hole does not.
VerdictIsRight == NoFalseAlarm /\ RestoreHeals /\ EditsAndHolesReported

\* Without maintenance a committed row stays as it is.
AppendOnly ==
    [][\A t \in Tenants : changed'[t] = "no" => table[t] \subseteq table'[t]]_vars

(***************************************************************************)
(* What comments and documents say and the code does not do.               *)
(***************************************************************************)
\* "its use is itself detectable because it breaks the chain" (migration 027)
MaintenanceIsReported ==
    \A v \in Readers :
        result[v].kind = "verify" /\ result[v].changed \in {"edit", "hole", "end"} => ~result[v].valid

\* "complete reports whether the export reached the tenant's chain head"
CompleteMeansHead ==
    \A v \in Readers :
        result[v].kind = "export" /\ result[v].complete =>
            result[v].head \in result[v].seen \cup {0}
=============================================================================
