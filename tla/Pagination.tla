----------------------------- MODULE Pagination -----------------------------
(***************************************************************************)
(* The list endpoints.  A client walks a listing page by page with the     *)
(* cursor of the last page (or, where it is accepted, the id of the last   *)
(* row) while rows are inserted and removed.  A row has an id, taken from  *)
(* a sequence by the INSERT, and a timestamp, taken when its transaction   *)
(* began: the two orders, and the order of the commits, may differ.        *)
(*                                                                         *)
(* A listing is described by the order of its query, the keyset clause     *)
(* that continues it, and whether after_id is accepted.                    *)
(***************************************************************************)
EXTENDS Integers, Sequences, FiniteSets, SequencesExt

CONSTANTS
    Listings,      \* the names of the listings that are walked
    Writers,       \* transactions that insert a row
    Limits,        \* the limit parameters clients send
    MaxListLimit,  \* maxListLimit
    MaxClock,      \* bound on the clock
    MaxRemovals    \* bound on rows removed

\* What the constants must satisfy.
PaginationAssumption ==
    /\ Limits \subseteq Int
    /\ MaxListLimit \in Nat \ {0}
    /\ {MaxClock, MaxRemovals} \subseteq Nat

VARIABLES
    listing,   \* the listing of this behaviour
    rows,      \* committed rows of its table that match its filter
    nextId,    \* the id sequence
    clock,
    tx,        \* per writer: its transaction
    walk,      \* the client's walk
    removed    \* number of rows removed

vars == <<listing, rows, nextId, clock, tx, walk, removed>>

(***************************************************************************)
(* The listings.                                                           *)
(***************************************************************************)
\* GET /v1/memories/links: LinksRepository.List.
LinkListing == [name |-> "links", order |-> "created_at_id", afterId |-> FALSE]
\* GET /v1/audit: AuditRepository.List, with the optional since filter.
AuditListing == [name |-> "audit", order |-> "created_at_id", afterId |-> FALSE]
\* GET /v1/distilled: keyset on (distilled_at, id) under the cursor key
\* created_at_id_desc.
DistilledListing == [name |-> "distilled", order |-> "created_at_id", afterId |-> FALSE]
\* POST /v1/retrieve without a query: the current rows under a prefix.
RetrieveListing == [name |-> "retrieve", order |-> "created_at_id", afterId |-> FALSE]
\* GET /v1/distillation/policies.
PolicyListing == [name |-> "policies", order |-> "created_at_id", afterId |-> TRUE]
\* GET /v1/distillation/runs.
RunListing == [name |-> "runs", order |-> "created_at_id", afterId |-> TRUE]
\* GET /v1/memories/history: the versions of a path, by id.
HistoryListing == [name |-> "history", order |-> "id", afterId |-> TRUE]
\* GET /v1/webhooks.
WebhookListing == [name |-> "webhooks", order |-> "created_at", afterId |-> FALSE]
\* GET /v1/webhooks/dead-letter.
DeadLetterListing == [name |-> "dead_letter", order |-> "created_at", afterId |-> FALSE]
\* GET /v1/admin/tenants.
TenantListing == [name |-> "tenants", order |-> "created_at", afterId |-> FALSE]
\* GET /v1/admin/api-keys.
KeyListing == [name |-> "api_keys", order |-> "created_at", afterId |-> FALSE]

AllListings ==
    {LinkListing, AuditListing, DistilledListing, RetrieveListing, PolicyListing, RunListing,
     HistoryListing, WebhookListing, DeadLetterListing, TenantListing, KeyListing}

(***************************************************************************)
(* Cursors.  A cursor keeps its sort key, the id and the timestamp of the  *)
(* last row; one built from after_id has no timestamp, and the listings    *)
(* of tables with uuid keys put 0 for the id.                              *)
(***************************************************************************)
NoTime == -1
FirstPage == [key |-> "", id |-> 0, at |-> NoTime]

SortKey(l) ==
    CASE l.order = "created_at_id" -> "created_at_id_desc"
      [] l.order = "id" -> "id_desc"
      [] l.order = "created_at" -> "created_at_desc"

CursorFromAfterID(l, id) == [key |-> SortKey(l), id |-> id, at |-> NoTime]

MakeNextCursor(l, r) ==
    [key |-> SortKey(l), id |-> IF l.order = "created_at" THEN 0 ELSE r.id, at |-> r.at]

\* Mutant: the tie on the timestamp is not broken by the id.
KeysetWithoutTieBreak(l, cur, r) ==
    CASE cur = FirstPage -> TRUE
      [] cur # FirstPage /\ l.order = "id" -> r.id < cur.id
      [] cur # FirstPage /\ l.order # "id" -> (cur.at = NoTime /\ r.id < cur.id) \/ r.at < cur.at

\* KeysetTimeIDClause, KeysetIDClause and KeysetTimeClause.
Keyset(l, cur, r) ==
    CASE cur = FirstPage -> TRUE
      [] cur # FirstPage /\ l.order = "id" -> r.id < cur.id
      [] cur # FirstPage /\ l.order = "created_at" -> r.at < cur.at
      [] cur # FirstPage /\ l.order = "created_at_id" ->
            \/ cur.at = NoTime /\ r.id < cur.id
            \/ cur.at # NoTime /\ (r.at < cur.at \/ (r.at = cur.at /\ r.id < cur.id))

\* May r come before s in the answer?  Equal timestamps leave a listing that
\* orders by the timestamp alone free to choose.
Precedes(l, r, s) ==
    CASE l.order = "id" -> r.id > s.id
      [] l.order = "created_at" -> r.at >= s.at
      [] l.order = "created_at_id" -> r.at > s.at \/ (r.at = s.at /\ r.id > s.id)

Answers(l, S) ==
    {s \in SetToSeqs(S) : \A i, j \in DOMAIN s : i < j => Precedes(l, s[i], s[j])}

\* ParseListPagination clamps the limit, FetchLimit asks for one row more,
\* FinishInt64Page cuts it off again.
PageLimit(n) == IF n < 1 THEN 1 ELSE IF n > MaxListLimit THEN MaxListLimit ELSE n

Idle == [pc |-> "idle", by |-> "cursor", cursor |-> FirstPage, got |-> <<>>, due |-> {}]

Init ==
    /\ listing \in {l \in AllListings : l.name \in Listings}
    /\ rows = {}
    /\ nextId = 1
    /\ clock = 0
    /\ tx = [w \in Writers |-> [pc |-> "idle", id |-> 0, at |-> NoTime]]
    /\ walk = Idle
    /\ removed = 0

(***************************************************************************)
(* Writers.                                                                *)
(***************************************************************************)
Begin(w) ==
    /\ tx[w].pc = "idle"
    /\ tx' = [tx EXCEPT ![w] = [@ EXCEPT !.pc = "begun", !.at = clock]]
    /\ UNCHANGED <<listing, rows, nextId, clock, walk, removed>>

Insert(w) ==
    /\ tx[w].pc = "begun"
    /\ tx' = [tx EXCEPT ![w] = [@ EXCEPT !.pc = "inserted", !.id = nextId]]
    /\ nextId' = nextId + 1
    /\ UNCHANGED <<listing, rows, clock, walk, removed>>

Commit(w) ==
    /\ tx[w].pc = "inserted"
    /\ rows' = rows \cup {[id |-> tx[w].id, at |-> tx[w].at]}
    /\ tx' = [tx EXCEPT ![w].pc = "done"]
    /\ UNCHANGED <<listing, nextId, clock, walk, removed>>

\* A row is deleted, or no longer matches the filter of the listing.
Leave(r) ==
    /\ removed < MaxRemovals
    /\ rows' = rows \ {r}
    /\ walk' = [walk EXCEPT !.due = @ \ {r}]
    /\ removed' = removed + 1
    /\ UNCHANGED <<listing, nextId, clock, tx>>

Tick ==
    /\ clock < MaxClock
    /\ clock' = clock + 1
    /\ UNCHANGED <<listing, rows, nextId, tx, walk, removed>>

(***************************************************************************)
(* The walk.                                                               *)
(***************************************************************************)
StartWalk(by) ==
    /\ walk = Idle
    /\ by = "cursor" \/ listing.afterId
    /\ walk' = [Idle EXCEPT !.pc = "walking", !.by = by, !.due = rows]
    /\ UNCHANGED <<listing, rows, nextId, clock, tx, removed>>

\* One request: the rows past the cursor in the order of the listing, the
\* page cut to the limit, and the cursor of its last row when there is more.
Page(n) ==
    /\ walk.pc = "walking"
    /\ \E answer \in Answers(listing, {r \in rows : Keyset(listing, walk.cursor, r)}) :
          LET more == Len(answer) > PageLimit(n)
              page == IF more THEN SubSeq(answer, 1, PageLimit(n)) ELSE answer
          IN  walk' = [walk EXCEPT
                  !.pc = IF more THEN "walking" ELSE "done",
                  !.got = @ \o page,
                  !.cursor = IF ~more THEN @
                             ELSE IF walk.by = "cursor" THEN MakeNextCursor(listing, Last(page))
                             ELSE CursorFromAfterID(listing, Last(page).id)]
    /\ UNCHANGED <<listing, rows, nextId, clock, tx, removed>>

Next ==
    \/ \E w \in Writers : Begin(w) \/ Insert(w) \/ Commit(w)
    \/ \E r \in rows : Leave(r)
    \/ Tick
    \/ \E by \in {"cursor", "after_id"} : StartWalk(by)
    \/ \E n \in Limits : Page(n)

Spec == Init /\ [][Next]_vars

(***************************************************************************)
(* Properties.                                                             *)
(***************************************************************************)
TypeOK ==
    /\ listing \in AllListings
    /\ rows \subseteq [id : Nat, at : 0..MaxClock]
    /\ walk.due \subseteq rows

\* The cursor names the position of a row: always where the id is part of
\* the order, otherwise only while no two rows share a timestamp; an after_id
\* walk only where the order is the order of the ids.
KeyIsPosition ==
    CASE walk.by = "after_id" -> listing.order = "id"
      [] walk.by = "cursor" /\ listing.order = "created_at" ->
            \A r, s \in rows \cup ToSet(walk.got) : r # s => r.at # s.at
      [] OTHER -> TRUE

\* Whatever is inserted and removed while a client pages through a listing,
\* with whatever limits: no row comes twice, and a row that was there when
\* the walk began and stayed has been returned when it ends.
WalkIsExact ==
    KeyIsPosition =>
        /\ \A i, j \in DOMAIN walk.got : i # j => walk.got[i].id # walk.got[j].id
        /\ walk.pc = "done" => walk.due \subseteq ToSet(walk.got)

\* What cursor.go promises of every listing: the walk neither repeats nor
\* skips rows under concurrent writes.
StableUnderWrites ==
    walk.by = "cursor" /\ walk.pc = "done" => walk.due \subseteq ToSet(walk.got)
=============================================================================
