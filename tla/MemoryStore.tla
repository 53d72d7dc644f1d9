---------------------------- MODULE MemoryStore ----------------------------
(***************************************************************************)
(* The versioned table memory_entries and the operations that write it:    *)
(* MemoryRepository.Store (a close-then-insert transaction with bounded    *)
(* retries), the expiry worker, the pruning worker and per-path            *)
(* compaction.  One tenant is modelled; every statement of the code is     *)
(* scoped by tenant_id.                                                    *)
(*                                                                         *)
(* PostgreSQL runs at READ COMMITTED: each statement sees the rows that    *)
(* were committed when it started, an UPDATE waits for a row another       *)
(* transaction has updated and then re-evaluates its WHERE clause on the   *)
(* committed result, an INSERT waits for an uncommitted row that may       *)
(* collide in a unique index, and NOW() is the start of the transaction.   *)
(***************************************************************************)
EXTENDS Integers, FiniteSets

CONSTANTS
    Paths,         \* ltree paths of the tenant
    Writers,       \* concurrent calls of Store, one transaction loop each
    MaxAttempts,   \* maxStoreAttempts
    Expiries,      \* the expires_at values a request may carry (NULL: none)
    MaxAge,        \* max_age_days of the policy governing a path (NULL: none)
    Retention,     \* retention of superseded rows
    Keeps,         \* the keep_superseded values of compaction requests
    MaxClock       \* bound on the clock

NULL == -1

ASSUME MaxAttemptsAssumption == MaxAttempts \in Nat \ {0}
ASSUME WritersAssumption == IsFiniteSet(Writers)
ASSUME TimesAssumption ==
    /\ Expiries \subseteq Nat \cup {NULL}
    /\ MaxAge \in [Paths -> Nat \cup {NULL}]
    /\ Retention \in Nat
    /\ Keeps \subseteq Nat \ {0}
    /\ MaxClock \in Nat

VARIABLES
    rows,      \* committed rows of memory_entries
    nextId,    \* the id sequence
    clock,
    pc,        \* per Store call: where it is
    req,       \* per Store call: path and expires_at of the request
    attempt,   \* per Store call: the loop counter
    ts,        \* per Store call: NOW() of its transaction
    seen,      \* per Store call: open rows in the snapshot of its UPDATE
    closed,    \* per Store call: rows its UPDATE closed, not yet committed
    new,       \* per Store call: the row it inserted, not yet committed
    sweep,     \* the expiry worker's statement in progress
    log        \* history: every committed Store

storeVars == <<pc, req, attempt, ts, seen, closed, new>>
vars == <<rows, nextId, clock, storeVars, sweep, log>>

Requests == [path : Paths, expires : Expiries]

Row == [id : Nat, path : Paths, version : Nat, from : Nat,
        to : Nat \cup {NULL}, expires : Nat \cup {NULL}]

IsOpen(r) == r.to = NULL

OpenAt(p) == {r \in rows : r.path = p /\ IsOpen(r)}

Ids(R) == {r.id : r \in R}

\* Mutant: AND valid_to IS NULL is missing, so every version of the path is dated.
CloseRowsOfPath(ids, t) ==
    LET paths == {r.path : r \in {q \in rows : q.id \in ids}}
    IN  {IF r.path \in paths THEN [r EXCEPT !.to = t] ELSE r : r \in rows}

CloseRows(ids, t) ==
    {IF r.id \in ids THEN [r EXCEPT !.to = t] ELSE r : r \in rows}

(***************************************************************************)
(* Row locks: an id is held by the transaction that updated it.            *)
(***************************************************************************)
HeldByOther(id, w) ==
    \/ \E u \in Writers \ {w} : id \in closed[u]
    \/ id \in sweep.closed

HeldByWriter(id) == \E w \in Writers : id \in closed[w]

Init ==
    /\ rows = {}
    /\ nextId = 1
    /\ clock = 0
    /\ pc = [w \in Writers |-> "idle"]
    /\ req \in [Writers -> Requests]
    /\ attempt = [w \in Writers |-> 1]
    /\ ts = [w \in Writers |-> 0]
    /\ seen = [w \in Writers |-> {}]
    /\ closed = [w \in Writers |-> {}]
    /\ new = [w \in Writers |-> {}]
    /\ sweep = [pc |-> "idle", rule |-> "ttl", ts |-> 0, seen |-> {}, closed |-> {}]
    /\ log = {}

(***************************************************************************)
(* Store.                                                                  *)
(***************************************************************************)
Begin(w) ==
    /\ pc[w] \in {"idle", "retry"}
    /\ pc' = [pc EXCEPT ![w] = "close"]
    /\ ts' = [ts EXCEPT ![w] = clock]
    /\ UNCHANGED <<rows, nextId, clock, req, attempt, seen, closed, new,
                   sweep, log>>

\* UPDATE ... WHERE valid_to IS NULL starts: its snapshot is taken.
CloseScan(w) ==
    /\ pc[w] = "close"
    /\ seen' = [seen EXCEPT ![w] = Ids(OpenAt(req[w].path))]
    /\ pc' = [pc EXCEPT ![w] = "lock"]
    /\ UNCHANGED <<rows, nextId, clock, req, attempt, ts, closed, new,
                   sweep, log>>

\* Mutant: the WHERE clause is not re-evaluated after the wait.
CloseCurrentStale(w) ==
    /\ pc[w] = "lock"
    /\ \A id \in seen[w] : ~HeldByOther(id, w)
    /\ closed' = [closed EXCEPT ![w] = seen[w]]
    /\ pc' = [pc EXCEPT ![w] = "insert"]
    /\ UNCHANGED <<rows, nextId, clock, req, attempt, ts, seen, new,
                   sweep, log>>

\* The rows of the snapshot are free: those still open are closed, the others
\* no longer match and are passed over.
CloseCurrent(w) ==
    /\ pc[w] = "lock"
    /\ \A id \in seen[w] : ~HeldByOther(id, w)
    /\ closed' = [closed EXCEPT ![w] = seen[w] \cap Ids(OpenAt(req[w].path))]
    /\ pc' = [pc EXCEPT ![w] = "insert"]
    /\ UNCHANGED <<rows, nextId, clock, req, attempt, ts, seen, new,
                   sweep, log>>

ClosedRows(w) == {r \in rows : r.id \in closed[w]}

NextVersion(w) ==
    IF closed[w] = {} THEN 1
    ELSE (CHOOSE r \in ClosedRows(w) : TRUE).version + 1

Superseded(w) == IF closed[w] = {} THEN 0 ELSE CHOOSE id \in closed[w] : TRUE

\* Mutant: no partial unique index (the schema before migration 020).
CollidingWithoutIndex(w) == {}

\* uq_memory_entries_open_version: open rows of the path other than those this
\* transaction closed collide; an undecided one makes the INSERT wait.
Colliding(w) == {r \in OpenAt(req[w].path) : r.id \notin closed[w]}

IndexUndecided(w) ==
    \/ \E r \in Colliding(w) : HeldByOther(r.id, w)
    \/ \E u \in Writers \ {w} : \E r \in new[u] : r.path = req[w].path

InsertVersion(w) ==
    /\ pc[w] = "insert"
    /\ ~IndexUndecided(w)
    /\ Colliding(w) = {}
    /\ new' = [new EXCEPT ![w] =
                 {[id |-> nextId, path |-> req[w].path, version |-> NextVersion(w),
                   from |-> ts[w], to |-> NULL, expires |-> req[w].expires]}]
    /\ nextId' = nextId + 1
    /\ pc' = [pc EXCEPT ![w] = "commit"]
    /\ UNCHANGED <<rows, clock, req, attempt, ts, seen, closed, sweep, log>>

\* Mutant: the loop gives up one attempt early.
InsertConflictEarly(w) ==
    /\ pc[w] = "insert"
    /\ ~IndexUndecided(w)
    /\ Colliding(w) # {}
    /\ nextId' = nextId + 1
    /\ closed' = [closed EXCEPT ![w] = {}]
    /\ seen' = [seen EXCEPT ![w] = {}]
    /\ IF attempt[w] + 1 >= MaxAttempts
       THEN /\ pc' = [pc EXCEPT ![w] = "exhausted"]
            /\ UNCHANGED attempt
       ELSE /\ pc' = [pc EXCEPT ![w] = "retry"]
            /\ attempt' = [attempt EXCEPT ![w] = @ + 1]
    /\ UNCHANGED <<rows, clock, req, ts, new, sweep, log>>

\* unique_violation: the transaction rolls back and the loop retries, unless
\* this was the last attempt.  The sequence value is consumed all the same.
InsertConflict(w) ==
    /\ pc[w] = "insert"
    /\ ~IndexUndecided(w)
    /\ Colliding(w) # {}
    /\ nextId' = nextId + 1
    /\ closed' = [closed EXCEPT ![w] = {}]
    /\ seen' = [seen EXCEPT ![w] = {}]
    /\ IF attempt[w] >= MaxAttempts
       THEN /\ pc' = [pc EXCEPT ![w] = "exhausted"]
            /\ UNCHANGED attempt
       ELSE /\ pc' = [pc EXCEPT ![w] = "retry"]
            /\ attempt' = [attempt EXCEPT ![w] = @ + 1]
    /\ UNCHANGED <<rows, clock, req, ts, new, sweep, log>>

\* COMMIT takes effect; "failed" when its acknowledgement is lost, which Store
\* reports as an error and does not retry.
Commit(w, outcome) ==
    /\ pc[w] = "commit"
    /\ rows' = CloseRows(closed[w], ts[w]) \cup new[w]
    /\ log' = log \cup {[id |-> r.id, path |-> r.path, version |-> r.version,
                         sup |-> Superseded(w)] : r \in new[w]}
    /\ closed' = [closed EXCEPT ![w] = {}]
    /\ seen' = [seen EXCEPT ![w] = {}]
    /\ new' = [new EXCEPT ![w] = {}]
    /\ pc' = [pc EXCEPT ![w] = outcome]
    /\ UNCHANGED <<nextId, clock, req, attempt, ts, sweep>>

\* Mutant: no deferred Rollback, the transaction keeps its row lock.
FailWithoutRollback(w) ==
    /\ pc[w] \in {"close", "lock", "insert", "commit", "retry"}
    /\ pc' = [pc EXCEPT ![w] = "failed"]
    /\ UNCHANGED <<rows, nextId, clock, req, attempt, ts, seen, closed, new,
                   sweep, log>>

\* Any other error (connection, cancelled context, API crash): rollback, no retry.
Fail(w) ==
    /\ pc[w] \in {"close", "lock", "insert", "commit", "retry"}
    /\ closed' = [closed EXCEPT ![w] = {}]
    /\ seen' = [seen EXCEPT ![w] = {}]
    /\ new' = [new EXCEPT ![w] = {}]
    /\ pc' = [pc EXCEPT ![w] = "failed"]
    /\ UNCHANGED <<rows, nextId, clock, req, attempt, ts, sweep, log>>

StoreStep(w) ==
    \/ Begin(w)
    \/ CloseScan(w)
    \/ CloseCurrent(w)
    \/ InsertVersion(w)
    \/ InsertConflict(w)
    \/ \E outcome \in {"done", "failed"} : Commit(w, outcome)
    \/ Fail(w)

(***************************************************************************)
(* ExpiryWorker.runOnce: the TTL statement, then the policy statement.     *)
(* Each is one UPDATE over all paths that locks its rows one at a time.    *)
(***************************************************************************)
TtlPassed(r, t) == r.expires # NULL /\ r.expires <= t

OverAge(r, t) == MaxAge[r.path] # NULL /\ r.from < t - MaxAge[r.path]

Due(r, rule, t) ==
    IsOpen(r) /\ (IF rule = "ttl" THEN TtlPassed(r, t) ELSE OverAge(r, t))

SweepScan ==
    /\ sweep.pc = "idle"
    /\ sweep' = [sweep EXCEPT !.pc = "lock", !.ts = clock,
                   !.seen = Ids({r \in rows : Due(r, sweep.rule, clock)})]
    /\ UNCHANGED <<rows, nextId, clock, storeVars, log>>

SweepLock(id) ==
    /\ sweep.pc = "lock"
    /\ id \in sweep.seen
    /\ ~HeldByWriter(id)
    /\ sweep' = [sweep EXCEPT !.seen = @ \ {id},
                   !.closed = @ \cup Ids({r \in rows : r.id = id /\ Due(r, sweep.rule, sweep.ts)})]
    /\ UNCHANGED <<rows, nextId, clock, storeVars, log>>

OtherRule == IF sweep.rule = "ttl" THEN "age" ELSE "ttl"

SweepCommit ==
    /\ sweep.pc = "lock"
    /\ sweep.seen = {}
    /\ rows' = CloseRows(sweep.closed, sweep.ts)
    /\ sweep' = [sweep EXCEPT !.pc = "idle", !.closed = {}, !.rule = OtherRule]
    /\ UNCHANGED <<nextId, clock, storeVars, log>>

\* The statement fails: a failed TTL statement ends the round, and the next
\* round starts with the TTL statement again, as it does after the policy one.
SweepFail ==
    /\ sweep.pc = "lock"
    /\ sweep' = [sweep EXCEPT !.pc = "idle", !.seen = {}, !.closed = {}, !.rule = "ttl"]
    /\ UNCHANGED <<rows, nextId, clock, storeVars, log>>

(***************************************************************************)
(* Deletion of superseded rows.  Closed rows are never locked by Store or  *)
(* by the expiry worker, so each statement is one step.                    *)
(***************************************************************************)
PruneSuperseded ==
    /\ \E r \in rows : ~IsOpen(r) /\ r.to < clock - Retention
    /\ rows' = {r \in rows : IsOpen(r) \/ r.to >= clock - Retention}
    /\ UNCHANGED <<nextId, clock, storeVars, sweep, log>>

ClosedAt(p) == {r \in rows : r.path = p /\ ~IsOpen(r)}

\* ROW_NUMBER() OVER (ORDER BY version DESC) <= k; rows of equal version are
\* numbered in any order.
NewestByVersion(p, k, keep) ==
    /\ Cardinality(keep) = k
    /\ \A x \in keep, y \in ClosedAt(p) \ keep : x.version >= y.version

CompactPathHistory(p, k) ==
    /\ Cardinality(ClosedAt(p)) > k
    /\ \E keep \in SUBSET ClosedAt(p) :
          /\ NewestByVersion(p, k, keep)
          /\ rows' = {r \in rows : r.path # p \/ IsOpen(r) \/ r \in keep}
    /\ UNCHANGED <<nextId, clock, storeVars, sweep, log>>

Tick ==
    /\ clock < MaxClock
    /\ clock' = clock + 1
    /\ UNCHANGED <<rows, nextId, storeVars, sweep, log>>

Next ==
    \/ \E w \in Writers : StoreStep(w)
    \/ SweepScan
    \/ \E id \in sweep.seen : SweepLock(id)
    \/ SweepCommit
    \/ SweepFail
    \/ PruneSuperseded
    \/ \E p \in Paths, k \in Keeps : CompactPathHistory(p, k)
    \/ Tick

Spec == Init /\ [][Next]_vars

(***************************************************************************)
(* A Store call that is running keeps running (its goroutine is scheduled  *)
(* and the database answers) and gets a row lock it waits for, since       *)
(* PostgreSQL queues the waiters of a row; a statement of the expiry       *)
(* worker keeps running.  Nothing obliges a client to call, the worker to  *)
(* start a round, or the clock to advance.                                 *)
(***************************************************************************)
Progress(w) ==
    \/ pc[w] = "retry" /\ Begin(w)
    \/ CloseScan(w)
    \/ CloseCurrent(w)
    \/ InsertVersion(w)
    \/ InsertConflict(w)
    \/ \E outcome \in {"done", "failed"} : Commit(w, outcome)

SweepProgress == (\E id \in sweep.seen : SweepLock(id)) \/ SweepCommit

Fairness ==
    /\ \A w \in Writers : SF_vars(Progress(w))
    /\ WF_vars(SweepProgress)

FairSpec == Spec /\ Fairness

(***************************************************************************)
(* Properties.                                                             *)
(***************************************************************************)
Running == {"close", "lock", "insert", "commit", "retry"}
Returned == {"done", "failed", "exhausted"}

LogEntry == [id : Nat, path : Paths, version : Nat \ {0}, sup : Nat]

\* The types of the table, of the calls of Store and of the worker's statement;
\* versions start at 1 and the attempt counter stays within maxStoreAttempts.
TypeOK ==
    /\ rows \subseteq Row
    /\ \A r \in rows : r.version >= 1
    /\ nextId \in Nat \ {0}
    /\ clock \in Nat
    /\ pc \in [Writers -> {"idle"} \cup Running \cup Returned]
    /\ req \in [Writers -> Requests]
    /\ attempt \in [Writers -> 1..MaxAttempts]
    /\ ts \in [Writers -> Nat]
    /\ seen \in [Writers -> SUBSET Nat]
    /\ closed \in [Writers -> SUBSET Nat]
    /\ new \in [Writers -> SUBSET Row]
    /\ sweep \in [pc : {"idle", "lock"}, rule : {"ttl", "age"}, ts : Nat,
                  seen : SUBSET Nat, closed : SUBSET Nat]
    /\ log \subseteq LogEntry

\* However the transactions of Store and the expiry worker interleave, a path
\* has at most one committed row with valid_to IS NULL, so GetByPath
\* (... valid_to IS NULL LIMIT 1) has one answer.
SingleOpenVersion ==
    \A r, s \in rows : r.path = s.path /\ IsOpen(r) /\ IsOpen(s) => r = s

\* With no more simultaneous Store calls than maxStoreAttempts none of them
\* runs out of retries: each conflict of a call is due to another call that
\* committed during that attempt.
RetriesSuffice == \A w \in Writers : pc[w] # "exhausted"

SameIdentity(r, s) == [r EXCEPT !.to = s.to] = s

\* The table is append-only: a step may close an open row, and may delete closed
\* rows (pruning, compaction), but it never deletes the current row of a path,
\* never changes a row otherwise and never reopens or re-dates a closed one.
AppendOnlyStep ==
    \A r \in rows :
        IF IsOpen(r) THEN \E s \in rows' : SameIdentity(r, s)
        ELSE \A s \in rows' : s.id = r.id => s = r

AppendOnly == [][AppendOnlyStep]_vars

\* A Store call that has begun a transaction returns, whoever it waits for.
StoreReturns == \A w \in Writers : pc[w] \in Running ~> pc[w] \in Returned

(***************************************************************************)
(* The store its callers may assume.                                       *)
(***************************************************************************)
NoVersion == [id |-> 0, version |-> 0]

CurrentVersion(p) ==
    IF OpenAt(p) = {} THEN NoVersion
    ELSE LET r == CHOOSE r \in OpenAt(p) : TRUE IN [id |-> r.id, version |-> r.version]

Abstract == INSTANCE VersionedStore WITH
    None <- NoVersion,
    current <- [p \in Paths |-> CurrentVersion(p)],
    history <- log

\* Whatever transactions, locks, retries, sweeps and deletions do underneath,
\* the committed table changes only as the one-step store does: a Store that
\* takes effect replaces the version that is current at that very moment by
\* its successor and reports that version as superseded, an expiry empties
\* paths, and nothing else changes what is current.  So the history of a path
\* never forks and no update is lost.
StoreIsAtomic == Abstract!Spec

(***************************************************************************)
(* The inductive invariant behind SingleOpenVersion.                       *)
(***************************************************************************)
IdsUnique ==
    /\ \A r \in rows : r.id < nextId
    /\ \A r, s \in rows : r.id = s.id => r = s

\* A transaction's row lock is on an open row of its path, and on no row that
\* another transaction has locked.
LocksValid ==
    /\ \A w \in Writers : \A id \in closed[w] :
          /\ pc[w] \in {"insert", "commit"}
          /\ id \notin sweep.closed
          /\ \E r \in OpenAt(req[w].path) : r.id = id
    /\ \A w, u \in Writers : w # u => closed[w] \cap closed[u] = {}

\* An uncommitted row is alone in its transaction and on its path, and every
\* open row of the path is one its transaction closes.
PendingValid ==
    /\ \A w \in Writers : \A r \in new[w] :
          /\ pc[w] = "commit"
          /\ new[w] = {r}
          /\ r.path = req[w].path /\ IsOpen(r) /\ r.version >= 1
          /\ r.id < nextId /\ r.id \notin Ids(rows)
          /\ Colliding(w) = {}
    /\ \A w, u \in Writers : w # u =>
          \A r \in new[w], s \in new[u] : r.path # s.path /\ r.id # s.id

IInv == TypeOK /\ IdsUnique /\ LocksValid /\ PendingValid /\ SingleOpenVersion

(***************************************************************************)
(* The inductive invariant behind RetriesSuffice: an attempt of a call     *)
(* conflicts only when another call has returned since its snapshot.       *)
(***************************************************************************)
Rivals(w) == {u \in Writers \ {w} : pc[u] \in Returned}

\* The call has seen, or closes, every open row of its path.
UpToDate(w) ==
    /\ pc[w] = "lock" => Ids(OpenAt(req[w].path)) \subseteq seen[w]
    /\ pc[w] = "insert" => Colliding(w) = {}

RetriesInv ==
    \A w \in Writers :
        /\ attempt[w] <= Cardinality(Rivals(w)) + 1
        /\ ~UpToDate(w) => attempt[w] <= Cardinality(Rivals(w))
        /\ pc[w] # "exhausted"

(***************************************************************************)
(* What the documentation says and the code does not do.                   *)
(***************************************************************************)
\* temporalClause: the row is in the point-in-time view at t.
VisibleAsOf(r, t) == r.from <= t /\ (IsOpen(r) \/ r.to > t)

\* A point-in-time read of a path finds at most one version (CHANGELOG on
\* migration 020: duplicate versions made "GetByPath and as_of reads
\* non-deterministic").
AsOfIsUnique ==
    \A r, s \in rows, t \in 0..MaxClock :
        r.path = s.path /\ VisibleAsOf(r, t) /\ VisibleAsOf(s, t) => r = s

\* Compaction keeps the newest superseded versions and "deletes older closed
\* rows" (migration 012): no deleted row was closed after a row that is kept.
CompactionDeletesOldest ==
    [][\A p \in Paths, k \in Keeps : CompactPathHistory(p, k) =>
          \A r \in ClosedAt(p) \ rows', s \in ClosedAt(p) \cap rows' : r.id < s.id]_vars
=============================================================================
