------------------------------ MODULE Sessions ------------------------------
(***************************************************************************)
(* Agent sessions and the promotion of their working memory                *)
(* (SessionService, SessionRepository).  StoreMemory and Promote look at   *)
(* the session on the read pool, which may be a lagging replica, and write *)
(* on the primary.  Promote re-paths the session's rows in one             *)
(* transaction; the Store transaction, whose interleavings module          *)
(* MemoryStore covers, takes effect in one step here, and waits for rows   *)
(* and index entries a promotion holds.                                    *)
(***************************************************************************)
EXTENDS Integers, FiniteSets

CONSTANTS
    SessionIds,
    Suffixes,     \* last part of a path
    Promoters,    \* calls of Promote
    Storers,      \* clients that call StoreMemory, one call at a time
    Started,      \* sessions created before the model starts, and the
    Stored,       \* <<session, path>> of their working memory
    NoSession,
    MaxRows       \* bound on the rows ever stored

VARIABLES
    sessions,   \* session -> "none", "active", "ended" on the primary
    replica,    \* the same on the read pool
    rows,       \* memory_entries
    nextId,
    starget,    \* StoreMemory call past its check: <<session, path>>, else <<>>
    pc,         \* Promote call: where it is
    psess,      \* Promote call: its session
    batch,      \* Promote call: ids it has locked
    todo,       \* Promote call: ids not looked at yet
    cur,        \* Promote call: the id about to be updated (0: none)
    moved,      \* Promote call: ids updated, not committed
    promoted,   \* Promote call: rows it has updated
    skipped     \* Promote call: items left where they are

sessionVars == <<sessions, replica>>
promoteVars == <<pc, psess, batch, todo, cur, moved, promoted, skipped>>
vars == <<sessionVars, rows, nextId, starget, promoteVars>>

(***************************************************************************)
(* Paths: sessions.<id>.<x>, sessions.<x> and root.<x>.                    *)
(***************************************************************************)
Path(prefix, x) == <<prefix, x>>

\* SessionScopedStoreRequest keeps a path that starts with "sessions.".
WorkingPaths(s) == {Path(s, x) : x \in Suffixes} \cup {Path("sessions", x) : x \in Suffixes}

LongTermPaths == {Path("root", x) : x \in Suffixes}

Paths == UNION {WorkingPaths(s) : s \in SessionIds} \cup LongTermPaths

\* What the constants must satisfy; the working memory stored before the model starts
\* has one current row at a path.
SessionsAssumption ==
    /\ NoSession \notin SessionIds \cup Promoters
    /\ Started \subseteq SessionIds
    /\ MaxRows \in Nat
    /\ IsFiniteSet(Stored)
    /\ \A m \in Stored : m[1] \in SessionIds /\ m[2] \in WorkingPaths(m[1])
    /\ \A m, n \in Stored : m[2] = n[2] => m = n

\* Both kinds of working path map to target_prefix.<x>.
promotePath(path) == Path("root", path[2])

Row == [id : Nat, path : Paths, open : BOOLEAN, session : SessionIds \cup {NoSession},
        by : Promoters \cup {NoSession}]

NewRow(id, path, session) ==
    [id |-> id, path |-> path, open |-> TRUE, session |-> session, by |-> NoSession]

\* The ids of the rows stored before the model starts.
StoredId == CHOOSE f \in [Stored -> 1..Cardinality(Stored)] :
                \A m, n \in Stored : f[m] = f[n] => m = n

Open == {r \in rows : r.open}
RowOf(id) == CHOOSE r \in rows : r.id = id

Init ==
    /\ sessions = [s \in SessionIds |-> IF s \in Started THEN "active" ELSE "none"]
    /\ replica = sessions
    /\ rows = {NewRow(StoredId[m], m[2], m[1]) : m \in Stored}
    /\ nextId = Cardinality(Stored) + 1
    /\ starget = [w \in Storers |-> <<>>]
    /\ pc = [p \in Promoters |-> "idle"]
    /\ psess = [p \in Promoters |-> NoSession]
    /\ batch = [p \in Promoters |-> {}]
    /\ todo = batch
    /\ cur = [p \in Promoters |-> 0]
    /\ moved = batch
    /\ promoted = [p \in Promoters |-> 0]
    /\ skipped = [p \in Promoters |-> 0]

(***************************************************************************)
(* The session row.                                                        *)
(***************************************************************************)
Create(s) ==
    /\ sessions[s] = "none"
    /\ sessions' = [sessions EXCEPT ![s] = "active"]
    /\ UNCHANGED <<replica, rows, nextId, starget, promoteVars>>

End(s) ==
    /\ sessions[s] = "active"
    /\ sessions' = [sessions EXCEPT ![s] = "ended"]
    /\ UNCHANGED <<replica, rows, nextId, starget, promoteVars>>

Replicate(s) ==
    /\ replica[s] # sessions[s]
    /\ replica' = [replica EXCEPT ![s] = sessions[s]]
    /\ UNCHANGED <<sessions, rows, nextId, starget, promoteVars>>

(***************************************************************************)
(* Store, on a path no promotion holds.                                    *)
(***************************************************************************)
PathHeld(path) ==
    \E p \in Promoters : \E id \in batch[p] :
        \/ RowOf(id).path = path
        \/ id \in moved[p] /\ promotePath(RowOf(id).path) = path

Store(path, session) ==
    /\ nextId <= MaxRows
    /\ ~PathHeld(path)
    /\ rows' = {[r EXCEPT !.open = @ /\ r.path # path] : r \in rows}
                 \cup {NewRow(nextId, path, session)}
    /\ nextId' = nextId + 1

\* POST /v1/memory on a long-term path.
StoreLongTerm(path) ==
    /\ Store(path, NoSession)
    /\ UNCHANGED <<sessionVars, starget, promoteVars>>

\* SessionService.StoreMemory: an unknown or ended session is refused.
StoreMemoryCheck(w, s, path) ==
    /\ starget[w] = <<>>
    /\ replica[s] = "active"
    /\ starget' = [starget EXCEPT ![w] = <<s, path>>]
    /\ UNCHANGED <<sessionVars, rows, nextId, promoteVars>>

StoreMemory(w) ==
    /\ starget[w] # <<>>
    /\ Store(starget[w][2], starget[w][1])
    /\ starget' = [starget EXCEPT ![w] = <<>>]
    /\ UNCHANGED <<sessionVars, promoteVars>>

(***************************************************************************)
(* Promote.                                                                *)
(***************************************************************************)
PromoteCheck(p, s) ==
    /\ pc[p] = "idle"
    /\ replica[s] = "active"
    /\ psess' = [psess EXCEPT ![p] = s]
    /\ pc' = [pc EXCEPT ![p] = "select"]
    /\ UNCHANGED <<sessionVars, rows, nextId, starget, batch, todo, cur, moved, promoted, skipped>>

WorkingRows(s) == {r.id : r \in {q \in Open : q.session = s}}

\* Mutant: the rows are read without FOR UPDATE, so nobody waits for them.
SelectWithoutLock(p) ==
    /\ pc[p] = "select"
    /\ todo' = [todo EXCEPT ![p] = WorkingRows(psess[p])]
    /\ pc' = [pc EXCEPT ![p] = "check"]
    /\ UNCHANGED <<sessionVars, rows, nextId, starget, psess, batch, cur, moved, promoted, skipped>>

\* SELECT ... FOR UPDATE: waits for the rows another promotion of the session
\* holds, and takes those that still belong to the session then.
SelectForUpdate(p) ==
    /\ pc[p] = "select"
    /\ \A q \in Promoters \ {p} : batch[q] \cap WorkingRows(psess[p]) = {}
    /\ batch' = [batch EXCEPT ![p] = WorkingRows(psess[p])]
    /\ todo' = [todo EXCEPT ![p] = WorkingRows(psess[p])]
    /\ pc' = [pc EXCEPT ![p] = "check"]
    /\ UNCHANGED <<sessionVars, rows, nextId, starget, psess, cur, moved, promoted, skipped>>

\* The transaction's view of the open paths of the other rows.
PathIn(p, r) == IF r.id \in moved[p] THEN promotePath(r.path) ELSE r.path

Occupied(p, id) ==
    \E r \in Open : r.id # id /\ PathIn(p, r) = promotePath(RowOf(id).path)

CollisionCheck(p, id) ==
    /\ pc[p] = "check"
    /\ id \in todo[p]
    /\ todo' = [todo EXCEPT ![p] = @ \ {id}]
    /\ IF Occupied(p, id)
       THEN skipped' = [skipped EXCEPT ![p] = @ + 1] /\ UNCHANGED <<pc, cur>>
       ELSE /\ cur' = [cur EXCEPT ![p] = id]
            /\ pc' = [pc EXCEPT ![p] = "update"]
            /\ UNCHANGED skipped
    /\ UNCHANGED <<sessionVars, rows, nextId, starget, psess, batch, moved, promoted>>

\* The UPDATE of p waits for q: q has put an uncommitted row on the target path,
\* or has an uncommitted move of the row that occupies it.
WaitsFor(p, q) ==
    /\ pc[p] = "update"
    /\ q # p
    /\ \E id \in moved[q] :
          promotePath(RowOf(cur[p]).path) \in {RowOf(id).path, promotePath(RowOf(id).path)}

\* uq_memory_entries_open_version.
Collides(p) ==
    \E r \in Open : r.id # cur[p] /\ PathIn(p, r) = promotePath(RowOf(cur[p]).path)

Update(p) ==
    /\ pc[p] = "update"
    /\ \A q \in Promoters : ~WaitsFor(p, q)
    /\ ~Collides(p)
    /\ moved' = [moved EXCEPT ![p] = @ \cup {cur[p]}]
    /\ promoted' = [promoted EXCEPT ![p] = @ + 1]
    /\ cur' = [cur EXCEPT ![p] = 0]
    /\ pc' = [pc EXCEPT ![p] = "check"]
    /\ UNCHANGED <<sessionVars, rows, nextId, starget, psess, batch, todo, skipped>>

\* Mutant: no deferred Rollback, the transaction keeps its row locks.
AbortKeepsLocks(p, outcome) ==
    /\ pc' = [pc EXCEPT ![p] = outcome]
    /\ UNCHANGED <<batch, todo, moved, cur, promoted, skipped>>
    /\ UNCHANGED <<sessionVars, rows, nextId, starget, psess>>

Abort(p, outcome) ==
    /\ pc' = [pc EXCEPT ![p] = outcome]
    /\ batch' = [batch EXCEPT ![p] = {}]
    /\ todo' = [todo EXCEPT ![p] = {}]
    /\ moved' = [moved EXCEPT ![p] = {}]
    /\ cur' = [cur EXCEPT ![p] = 0]
    /\ promoted' = [promoted EXCEPT ![p] = 0]
    /\ skipped' = [skipped EXCEPT ![p] = 0]
    /\ UNCHANGED <<sessionVars, rows, nextId, starget, psess>>

\* A row was stored on the target path after the check: unique_violation.
UpdateCollides(p) ==
    /\ pc[p] = "update"
    /\ \A q \in Promoters : ~WaitsFor(p, q)
    /\ Collides(p)
    /\ Abort(p, "collided")

\* PostgreSQL aborts one transaction of a cycle of waiting ones.
Deadlock(p) ==
    /\ \E cycle \in SUBSET Promoters :
          p \in cycle /\ \A q \in cycle : \E r \in cycle : WaitsFor(q, r)
    /\ Abort(p, "deadlock")

\* Connection loss, cancelled context: the deferred Rollback.
PromoteFails(p) ==
    /\ pc[p] \in {"select", "check", "update"}
    /\ Abort(p, "failed")

PromoteCommit(p) ==
    /\ pc[p] = "check"
    /\ todo[p] = {}
    /\ rows' = {IF r.id \in moved[p]
                THEN [r EXCEPT !.path = promotePath(@), !.session = NoSession, !.by = p]
                ELSE r : r \in rows}
    /\ batch' = [batch EXCEPT ![p] = {}]
    /\ moved' = [moved EXCEPT ![p] = {}]
    /\ pc' = [pc EXCEPT ![p] = "done"]
    /\ UNCHANGED <<sessionVars, nextId, starget, psess, todo, cur, promoted, skipped>>

PromoteStep(p) ==
    \/ SelectForUpdate(p)
    \/ \E id \in todo[p] : CollisionCheck(p, id)
    \/ Update(p)
    \/ UpdateCollides(p)
    \/ Deadlock(p)
    \/ PromoteCommit(p)

Next ==
    \/ \E s \in SessionIds : Create(s) \/ End(s) \/ Replicate(s)
    \/ \E path \in LongTermPaths : StoreLongTerm(path)
    \/ \E w \in Storers : StoreMemory(w)
    \/ \E w \in Storers, s \in SessionIds : \E path \in WorkingPaths(s) : StoreMemoryCheck(w, s, path)
    \/ \E p \in Promoters, s \in SessionIds : PromoteCheck(p, s)
    \/ \E p \in Promoters : PromoteStep(p) \/ PromoteFails(p)

Spec == Init /\ [][Next]_vars

\* A promotion that is running keeps running, and PostgreSQL breaks deadlocks;
\* a row or index entry it waits for is granted in turn.
Fairness == \A p \in Promoters : SF_vars(PromoteStep(p))

FairSpec == Spec /\ Fairness

(***************************************************************************)
(* Properties.                                                             *)
(***************************************************************************)
Running == {"select", "check", "update"}

\* Types of the sessions, the rows and the calls; a call that is not running
\* holds no row.
TypeOK ==
    /\ sessions \in [SessionIds -> {"none", "active", "ended"}]
    /\ rows \subseteq Row /\ Cardinality(rows) = nextId - 1
    /\ \A w \in Storers : starget[w] # <<>> => starget[w] \in SessionIds \X Paths
    /\ pc \in [Promoters -> {"idle", "done", "collided", "deadlock", "failed"} \cup Running]
    /\ \A p \in Promoters :
          /\ pc[p] \notin Running => batch[p] = {}
          /\ cur[p] # 0 <=> pc[p] = "update"

\* Promotions and Store never leave two current rows on one path, whatever was
\* stored between the collision check of Promote and its UPDATE.
OneCurrentPerPath == \A r, q \in Open : r.path = q.path => r = q

\* What Promote moves is still current, and still working memory of its session,
\* when it is moved: the FOR UPDATE lock covers the time from the read to the
\* commit.
MovesWhatItRead ==
    \A p \in Promoters : \A id \in moved[p] \cup todo[p] :
        RowOf(id).open /\ RowOf(id).session = psess[p]

\* The ids of the rows a call has promoted.
PromotedBy(p) == {r.id : r \in {q \in rows : q.by = p}}

\* A promotion reports exactly what it did: the rows it says it promoted are in
\* the table, and one that failed has promoted none.
ReportIsExact ==
    \A p \in Promoters : pc[p] \notin Running => Cardinality(PromotedBy(p)) = promoted[p]

\* A promotion moves what it read under its locks, to paths nobody else holds, and
\* reports what it moved.
PromotionIsExact == MovesWhatItRead /\ OneCurrentPerPath /\ ReportIsExact

\* A promotion that has begun returns, also when two promotions wait for each
\* other.
PromoteReturns ==
    \A p \in Promoters : pc[p] \in Running ~> pc[p] \notin Running

(***************************************************************************)
(* What a comment says and the code does not do.                           *)
(***************************************************************************)
\* An occupied target path is skipped and reported "rather than failing the
\* entire promotion": no promotion is aborted by the unique index.
CollisionsAreSkipped == \A p \in Promoters : pc[p] # "collided"
=============================================================================
