----------------------------- MODULE Extraction -----------------------------
(***************************************************************************)
(* Entity extraction of the memories at one path (ExtractionService).      *)
(* An extraction reads the memory by id, waits for the LLM and merges its  *)
(* record into whatever row is current at the PATH.  The API forces an     *)
(* extraction (reading on the read pool); the worker runs one per memory   *)
(* event (reading on the primary) unless the row already has an ok record  *)
(* of its own.  Events are delivered at least once.                        *)
(***************************************************************************)
EXTENDS Integers, Sequences

CONSTANTS
    Calls,        \* extractions that may run at the same time
    MaxRows,      \* bound on the memory rows stored at the path
    MaxRuns       \* bound on the extractions ever begun

\* What the constants must satisfy.
ExtractionAssumption == MaxRows \in Nat /\ MaxRuns \in Nat

NoRecord == [status |-> "none", id |-> 0]
Statuses == {"none", "ok", "llm_failed", "validation_failed"}

VARIABLES
    rows,       \* sequence of [rec, open]; the memory id is the position
    replica,    \* rows as the API's read pool sees them
    call,       \* call -> [at, force, id, seen, status, run]
    runs,       \* number of extractions begun
    mentions,   \* id -> the run whose entities the graph shows, 0 if none
    merged,     \* history: the runs whose ok record was merged, with their ids
    skipped     \* history: ids whose event was dropped as already extracted

vars == <<rows, replica, call, runs, mentions, merged, skipped>>

Ids == 1..Len(rows)
Idle == [at |-> "idle", force |-> FALSE, id |-> 0, seen |-> NoRecord,
         status |-> "none", run |-> 0]

Init ==
    /\ rows = <<>>
    /\ replica = <<>>
    /\ call = [c \in Calls |-> Idle]
    /\ runs = 0
    /\ mentions = [i \in 1..MaxRows |-> 0]
    /\ merged = {}
    /\ skipped = {}

(***************************************************************************)
(* The memory store.                                                       *)
(***************************************************************************)
Closed(rs) == [i \in DOMAIN rs |-> [rs[i] EXCEPT !.open = FALSE]]

\* Store supersedes the current row; Rollback stores a copy of an old row,
\* its metadata (and so its record) included.
Store(rec) ==
    /\ Len(rows) < MaxRows
    /\ rows' = Append(Closed(rows), [rec |-> rec, open |-> TRUE])
    /\ UNCHANGED <<replica, call, runs, mentions, merged, skipped>>

\* ExpireMemories closes the row and stores nothing.
Expire ==
    /\ \E i \in Ids : rows[i].open
    /\ rows' = Closed(rows)
    /\ UNCHANGED <<replica, call, runs, mentions, merged, skipped>>

Replicate ==
    /\ replica # rows
    /\ replica' = rows
    /\ UNCHANGED <<rows, call, runs, mentions, merged, skipped>>

(***************************************************************************)
(* Extraction.                                                             *)
(***************************************************************************)
\* Mutant: the record's memory id is not compared.
existingOkOfAnyVersion(rec, id) == rec.status = "ok"

existingOkExtraction(rec, id) == rec.status = "ok" /\ rec.id = id

GetCurrentMemoryByID(rs, id) == id \in DOMAIN rs /\ rs[id].open

Begin(c, force, id, rec) ==
    /\ runs < MaxRuns
    /\ runs' = runs + 1
    /\ call' = [call EXCEPT ![c] = [at |-> "llm", force |-> force, id |-> id,
                                    seen |-> rec, status |-> "none", run |-> runs + 1]]

\* POST /v1/memories/extraction/:memory_id.
ExtractMemory(c, id) ==
    /\ call[c].at = "idle"
    /\ GetCurrentMemoryByID(replica, id)
    /\ Begin(c, TRUE, id, replica[id].rec)
    /\ UNCHANGED <<rows, replica, mentions, merged, skipped>>

\* The worker's handling of one delivery of the event of memory id.
ExtractPath(c, id) ==
    /\ call[c].at = "idle"
    /\ GetCurrentMemoryByID(rows, id)
    /\ IF existingOkExtraction(rows[id].rec, id)
       THEN /\ skipped' = skipped \cup {id}
            /\ UNCHANGED <<runs, call>>
       ELSE /\ Begin(c, FALSE, id, rows[id].rec)
            /\ UNCHANGED skipped
    /\ UNCHANGED <<rows, replica, mentions, merged>>

\* The LLM answers and the answer is validated against the profile.
Complete(c) ==
    /\ call[c].at = "llm"
    /\ \E s \in {"ok", "llm_failed", "validation_failed"} :
         call' = [call EXCEPT ![c] = [@ EXCEPT !.status = s,
                                               !.at = IF s = "ok" THEN "persist" ELSE "failure"]]
    /\ UNCHANGED <<rows, replica, runs, mentions, merged, skipped>>

\* No profile, empty content, a failing statement, or the deadline.
CallFails(c) ==
    /\ call[c].at # "idle"
    /\ call' = [call EXCEPT ![c] = Idle]
    /\ UNCHANGED <<rows, replica, runs, mentions, merged, skipped>>

\* persistRecord: the row that is current at the path takes the record.
MergeCurrentMetadata(c) ==
    rows' = [i \in Ids |->
               IF rows[i].open
               THEN [rows[i] EXCEPT !.rec = [status |-> call[c].status, id |-> call[c].id]]
               ELSE rows[i]]

HasCurrent == \E i \in Ids : rows[i].open

\* persistFailureRecord: the check is on the row as it was read.
PersistFailure(c) ==
    /\ call[c].at = "failure"
    /\ IF ~call[c].force /\ existingOkExtraction(call[c].seen, call[c].id)
       THEN UNCHANGED rows
       ELSE MergeCurrentMetadata(c)
    /\ call' = [call EXCEPT ![c] = Idle]
    /\ UNCHANGED <<replica, runs, mentions, merged, skipped>>

\* A successful record; with no current row the merge is an error.
PersistOk(c) ==
    /\ call[c].at = "persist"
    /\ HasCurrent
    /\ MergeCurrentMetadata(c)
    /\ merged' = merged \cup {[run |-> call[c].run, id |-> call[c].id]}
    /\ call' = [call EXCEPT ![c] = [@ EXCEPT !.at = "sync"]]
    /\ UNCHANGED <<replica, runs, mentions, skipped>>

\* syncEntityGraph replaces the mentions of the memory that was read.
SyncEntityGraph(c) ==
    /\ call[c].at = "sync"
    /\ mentions' = [mentions EXCEPT ![call[c].id] = call[c].run]
    /\ call' = [call EXCEPT ![c] = Idle]
    /\ UNCHANGED <<rows, replica, runs, merged, skipped>>

Next ==
    \/ \E rec \in {NoRecord} \cup {rows[i].rec : i \in Ids} : Store(rec)
    \/ Expire
    \/ Replicate
    \/ \E c \in Calls :
         \/ \E id \in Ids : ExtractMemory(c, id) \/ ExtractPath(c, id)
         \/ Complete(c)
         \/ CallFails(c)
         \/ PersistFailure(c)
         \/ PersistOk(c)
         \/ SyncEntityGraph(c)

Spec == Init /\ [][Next]_vars

(***************************************************************************)
(* Properties.                                                             *)
(***************************************************************************)
Record == [status : Statuses, id : 0..MaxRows]

\* The variables have their types, and at most the last row is current.
TypeOK ==
    /\ rows \in Seq([rec : Record, open : BOOLEAN])
    /\ replica \in Seq([rec : Record, open : BOOLEAN])
    /\ \A i \in Ids : rows[i].open => i = Len(rows)
    /\ call \in [Calls -> [at : {"idle", "llm", "persist", "failure", "sync"},
                           force : BOOLEAN, id : 0..MaxRows, seen : Record,
                           status : Statuses, run : 0..MaxRuns]]
    /\ mentions \in [1..MaxRows -> 0..MaxRuns]
    /\ skipped \subseteq Ids

\* An extraction that finishes after its memory was superseded or expired never
\* changes the superseded row: history is not mutated.
SupersededStays == \A i \in Ids : ~rows[i].open => rows'[i] = rows[i]

\* The graph shows entities of a memory only from an extraction of that memory
\* that validated and whose record was stored before.
MentionsWereStored ==
    \A i \in 1..MaxRows : mentions[i] # 0 => [run |-> mentions[i], id |-> i] \in merged

\* The worker drops an event only if that very version was extracted: a record
\* a rollback copied from an older version never stands in for an extraction.
SkippedWasExtracted ==
    \A i \in skipped : \E m \in merged : m.id = i

\* Whatever extraction claims of a version rests on an ok record: its mentions in
\* the graph, and the event it skipped.
ClaimsRestOnRecords == MentionsWereStored /\ SkippedWasExtracted

\* Every step of the worker and of the synchronous endpoint keeps both.
ExtractionIsSound == [][ClaimsRestOnRecords' /\ SupersededStays]_vars

\* "async worker must not clobber sync POST / ok": a failed extraction of the
\* worker never replaces an ok record of the row it writes.
WorkerKeepsOk ==
    [][\A c \in Calls, i \in Ids :
         (call[c].at = "failure" /\ ~call[c].force /\ call'[c].at = "idle")
           => ~(existingOkExtraction(rows[i].rec, i) /\ rows'[i] # rows[i])]_vars
=============================================================================
