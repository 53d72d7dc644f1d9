--------------------------- MODULE MemoryService ---------------------------
(***************************************************************************)
(* MemoryService: what happens around one Store.  A request (a single      *)
(* store, a batch, an import or a rollback) is a list of items; each item  *)
(* resolves its deduplication mode, looks for its content among the        *)
(* current rows, and is then skipped, linked, merged or stored and         *)
(* announced.  Requests run concurrently, the lookups read the replica     *)
(* pool and the writes go to the primary.                                  *)
(*                                                                         *)
(* MemoryRepository.Store is one step here: MemoryStore shows that its     *)
(* transaction is atomic.  Contents are values with a content hash; the    *)
(* metadata of a row is the set of requests merged into it.                *)
(***************************************************************************)
EXTENDS Integers, Sequences, FiniteSets, FiniteSetsExt

CONSTANTS
    Calls,        \* concurrent requests
    Paths,        \* well-formed ltree paths
    BadPath,      \* a path ValidateLtreePath rejects
    Contents,
    ContentHash,  \* the hash of each content (normalisation folds some)
    Requests,     \* the requests clients send
    TenantModes,  \* the values tenants.settings.dedup_mode may hold
    DefaultMode,  \* DEDUP_MODE of the server
    MaxBatch,     \* the limit of BatchStore
    MaxImport,    \* maxImportEntries
    MaxRequests,  \* bound on requests
    MaxFaults     \* bound on failed statements and publishes

Modes == {"none", "skip", "link", "merge"}
Kinds == {"store", "batch", "import", "rollback"}
Items == [path : Paths \cup {BadPath}, content : Contents, mode : STRING]

\* What the constants must satisfy.
ServiceAssumption ==
    /\ ContentHash \in [Contents -> Contents]
    /\ \A r \in Requests : r.kind \in Kinds /\ r.items \in Seq(Items)
    /\ DefaultMode \in Modes
    /\ {MaxBatch, MaxImport, MaxRequests} \subseteq Nat \ {0}
    /\ MaxFaults \in Nat

VARIABLES
    table,       \* memory_entries on the primary
    replica,     \* memory_entries as the replica shows it
    links,       \* memory_links of type duplicate: <<from, to>>
    tenantMode,  \* tenants.settings.dedup_mode
    call,        \* per call: the request in progress
    reader,      \* a GET /memories/id/:memory_id in progress
    events,      \* events published
    silent,      \* ids whose publish failed: the failure is only logged
    answers,     \* history: what was answered, item by item
    issued,      \* number of requests so far
    faults

vars == <<table, replica, links, tenantMode, call, reader, events, silent, answers,
          issued, faults>>

NoRow == 0
Row == [id : Nat, path : Paths, version : Nat, content : Contents, merged : SUBSET Calls,
        open : BOOLEAN, prev : Nat]

Idle == [pc |-> "idle", kind |-> "store", rest |-> <<>>, over |-> FALSE,
         found |-> NoRow, new |-> NoRow]
NotReading == [pc |-> "idle", id |-> NoRow, path |-> BadPath, gap |-> FALSE]

CurrentIn(t, p) == {r \in t : r.path = p /\ r.open}
RowOf(id) == CHOOSE r \in table : r.id = id
NextId == Cardinality(table) + 1

Init ==
    /\ table = {}
    /\ replica = {}
    /\ links = {}
    /\ tenantMode \in TenantModes
    /\ call = [c \in Calls |-> Idle]
    /\ reader = NotReading
    /\ events = {}
    /\ silent = {}
    /\ answers = {}
    /\ issued = 0
    /\ faults = 0

item(c) == Head(call[c].rest)

Answer(c, action, id) ==
    [call |-> c, kind |-> call[c].kind, path |-> item(c).path, content |-> item(c).content,
     action |-> action, id |-> id]

\* An item is answered; a failed item does not stop the items after it.
Advance(c, action, id) ==
    /\ answers' = answers \cup {Answer(c, action, id)}
    /\ call' = [call EXCEPT ![c] =
                   IF Len(@.rest) = 1 THEN Idle
                   ELSE [@ EXCEPT !.pc = "item", !.rest = Tail(@), !.found = NoRow,
                                  !.new = NoRow]]

Goto(c, pc) == call' = [call EXCEPT ![c].pc = pc]

(***************************************************************************)
(* The handlers: a request is refused as a whole or becomes a list of      *)
(* items.                                                                  *)
(***************************************************************************)
ParseDedupMode(m) ==
    IF m = "" THEN "none" ELSE IF m \in Modes THEN m ELSE "invalid"

\* POST /memories: the header counts only when the body names no mode.
EffectiveMode(r) == IF r.items[1].mode # "" THEN r.items[1].mode ELSE r.header

Accepted(r) ==
    CASE r.kind = "store" -> /\ ParseDedupMode(EffectiveMode(r)) # "invalid"
                             /\ r.items[1].path # BadPath
      [] r.kind = "batch" -> Len(r.items) \in 1..MaxBatch
      [] r.kind = "import" -> Len(r.items) \in 1..MaxImport
      [] OTHER -> FALSE

Request(c, r) ==
    /\ issued < MaxRequests
    /\ call[c] = Idle
    /\ Accepted(r)
    /\ call' = [call EXCEPT ![c] =
         [Idle EXCEPT !.pc = "item", !.kind = r.kind, !.over = r.overwrite,
             !.rest = IF r.kind = "store" THEN <<[r.items[1] EXCEPT !.mode = EffectiveMode(r)]>>
                      ELSE r.items]]
    /\ issued' = issued + 1
    /\ UNCHANGED <<table, replica, links, tenantMode, reader, events, silent, answers, faults>>

\* Rollback reads the version to restore on the primary, whether the request
\* names it by number or by time, and stores its content without a mode of
\* its own.
Rollback(c, p) ==
    /\ issued < MaxRequests
    /\ call[c] = Idle
    /\ \E r \in table :
          /\ r.path = p
          /\ call' = [call EXCEPT ![c] =
               [Idle EXCEPT !.pc = "resolve", !.kind = "rollback",
                            !.rest = <<[path |-> p, content |-> r.content, mode |-> ""]>>]]
    /\ issued' = issued + 1
    /\ UNCHANGED <<table, replica, links, tenantMode, reader, events, silent, answers, faults>>

(***************************************************************************)
(* Import checks each path, and in skip mode passes over the paths that    *)
(* the replica shows as present.                                           *)
(***************************************************************************)
StartItem(c) ==
    /\ call[c].pc = "item"
    /\ \/ /\ call[c].kind = "import"
          /\ \/ item(c).path = BadPath /\ Advance(c, "error", NoRow)
             \/ /\ item(c).path # BadPath
                /\ ~call[c].over
                /\ CurrentIn(replica, item(c).path) # {}
                /\ Advance(c, "present", NoRow)
             \/ /\ item(c).path # BadPath
                /\ call[c].over \/ CurrentIn(replica, item(c).path) = {}
                /\ Goto(c, "resolve") /\ UNCHANGED answers
       \/ call[c].kind # "import" /\ Goto(c, "resolve") /\ UNCHANGED answers
    /\ UNCHANGED <<table, replica, links, tenantMode, reader, events, silent, issued, faults>>

(***************************************************************************)
(* tryDedup.                                                               *)
(***************************************************************************)
\* The mode of the request, or of the tenant unless that is none, or of the
\* server.
resolveDedupMode(c) ==
    LET own == item(c).mode
        tenant == ParseDedupMode(tenantMode)
    IN  IF own # "" THEN ParseDedupMode(own)
        ELSE IF tenant # "none" THEN tenant
        ELSE DefaultMode

\* The tenant's mode is read, and the item goes on without deduplication, to
\* the lookup, or fails on a mode that is not one.
Resolve(c) ==
    /\ call[c].pc = "resolve"
    /\ \/ resolveDedupMode(c) = "invalid" /\ Advance(c, "error", NoRow)
       \/ resolveDedupMode(c) = "none" /\ Goto(c, "write") /\ UNCHANGED answers
       \/ /\ resolveDedupMode(c) \in Modes \ {"none"}
          /\ call' = [call EXCEPT ![c].pc = "find", ![c].rest[1].mode = resolveDedupMode(c)]
          /\ UNCHANGED answers
    /\ UNCHANGED <<table, replica, links, tenantMode, reader, events, silent, issued, faults>>

SameHash(c) ==
    {r \in replica : r.open /\ ContentHash[r.content] = ContentHash[item(c).content]}

\* FindCurrentByContentHash on the replica, the newest row first; then what
\* the mode does with a match at the same path or at another one.
Find(c) ==
    /\ call[c].pc = "find"
    /\ LET same == SameHash(c)
           existing == CHOOSE r \in same : \A s \in same : s.id <= r.id
           samePath == existing.path = item(c).path
       IN  IF same = {} THEN Goto(c, "write") /\ UNCHANGED answers
           ELSE CASE samePath /\ item(c).mode \in {"skip", "link"} ->
                        Advance(c, "skipped", existing.id)
                  [] samePath = (item(c).mode = "merge") ->
                        /\ call' = [call EXCEPT ![c].pc = item(c).mode,
                                                ![c].found = existing.id]
                        /\ UNCHANGED answers
                  [] OTHER -> Goto(c, "write") /\ UNCHANGED answers
    /\ UNCHANGED <<table, replica, links, tenantMode, reader, events, silent, issued, faults>>

Link(c) ==
    /\ call[c].pc = "link"
    /\ item(c).path # BadPath
    /\ links' = links \cup {<<item(c).path, RowOf(call[c].found).path>>}
    /\ Advance(c, "linked", call[c].found)
    /\ UNCHANGED <<table, replica, tenantMode, reader, events, silent, issued, faults>>

\* MergeCurrentMetadata updates whatever row is current at the path by now.
Merge(c) ==
    /\ call[c].pc = "merge"
    /\ LET current == CurrentIn(table, item(c).path)
       IN  \/ current = {} /\ Advance(c, "error", NoRow) /\ UNCHANGED table
           \/ /\ current # {}
              /\ table' = {IF r \in current THEN [r EXCEPT !.merged = @ \cup {c}] ELSE r :
                              r \in table}
              /\ Goto(c, "reread") /\ UNCHANGED answers
    /\ UNCHANGED <<replica, links, tenantMode, reader, events, silent, issued, faults>>

\* The merged row is answered as the replica shows it.
Reread(c) ==
    /\ call[c].pc = "reread"
    /\ LET current == CurrentIn(replica, item(c).path)
       IN  IF current = {} THEN Advance(c, "error", NoRow)
           ELSE Advance(c, "merged", (CHOOSE r \in current : TRUE).id)
    /\ UNCHANGED <<table, replica, links, tenantMode, reader, events, silent, issued, faults>>

(***************************************************************************)
(* Store: the row is committed, then announced; a failed publish is only   *)
(* logged.                                                                 *)
(***************************************************************************)
Write(c) ==
    /\ call[c].pc = "write"
    /\ item(c).path # BadPath
    /\ LET old == CurrentIn(table, item(c).path)
           prev == IF old = {} THEN NoRow ELSE (CHOOSE r \in old : TRUE).id
           version == IF old = {} THEN 1 ELSE (CHOOSE r \in old : TRUE).version + 1
       IN  table' = {IF r \in old THEN [r EXCEPT !.open = FALSE] ELSE r : r \in table}
                    \cup {[id |-> NextId, path |-> item(c).path, version |-> version,
                           content |-> item(c).content, merged |-> {}, open |-> TRUE,
                           prev |-> prev]}
    /\ call' = [call EXCEPT ![c].pc = "publish", ![c].new = NextId]
    /\ UNCHANGED <<replica, links, tenantMode, reader, events, silent, answers, issued, faults>>

EventOf(id) ==
    [type |-> IF RowOf(id).prev = NoRow THEN "memory.stored" ELSE "memory.updated",
     id |-> id, path |-> RowOf(id).path, version |-> RowOf(id).version,
     superseded |-> RowOf(id).prev]

\* Mutant: the event names the row that is current when it is published.
PublishCurrent(c) ==
    /\ call[c].pc = "publish"
    /\ LET now == CurrentIn(table, item(c).path)
       IN  events' = IF now = {} THEN events ELSE events \cup {EventOf(Max({r.id : r \in now}))}
    /\ Advance(c, "stored", call[c].new)
    /\ UNCHANGED <<table, replica, links, tenantMode, reader, silent, issued, faults>>

Publish(c) ==
    /\ call[c].pc = "publish"
    /\ events' = events \cup {EventOf(call[c].new)}
    /\ Advance(c, "stored", call[c].new)
    /\ UNCHANGED <<table, replica, links, tenantMode, reader, silent, issued, faults>>

PublishFails(c) ==
    /\ faults < MaxFaults
    /\ call[c].pc = "publish"
    /\ silent' = silent \cup {call[c].new}
    /\ faults' = faults + 1
    /\ Advance(c, "stored", call[c].new)
    /\ UNCHANGED <<table, replica, links, tenantMode, reader, events, issued>>

\* A statement fails: on a path that is not an ltree, or for its own reasons.
ItemFails(c) ==
    /\ call[c].pc \in {"resolve", "find", "link", "merge", "reread", "write"}
    /\ \/ /\ item(c).path = BadPath /\ call[c].pc \in {"link", "write"}
          /\ UNCHANGED faults
       \/ faults < MaxFaults /\ faults' = faults + 1
    /\ Advance(c, "error", NoRow)
    /\ UNCHANGED <<table, replica, links, tenantMode, reader, events, silent, issued>>

(***************************************************************************)
(* GetByIDResolveCurrent: three reads on the replica.                      *)
(***************************************************************************)
Gap(p) == CurrentIn(replica', p) = {}

ReadId(id) ==
    /\ reader = NotReading
    /\ \E r \in replica :
          /\ r.id = id
          /\ reader' = IF r.open THEN NotReading
                       ELSE [pc |-> "path", id |-> id, path |-> r.path,
                             gap |-> CurrentIn(replica, r.path) = {}]
    /\ UNCHANGED <<table, replica, links, tenantMode, call, events, silent, answers, issued,
                   faults>>

ReadPath ==
    /\ reader.pc = "path"
    /\ reader' = [reader EXCEPT !.pc = "current"]
    /\ UNCHANGED <<table, replica, links, tenantMode, call, events, silent, answers, issued,
                   faults>>

ReadCurrent ==
    /\ reader.pc = "current"
    /\ reader' = IF CurrentIn(replica, reader.path) # {} THEN NotReading
                 ELSE [reader EXCEPT !.pc = "missing"]
    /\ UNCHANGED <<table, replica, links, tenantMode, call, events, silent, answers, issued,
                   faults>>

(***************************************************************************)
(* Around the service: the replica catches up, the expiry worker closes a  *)
(* row.                                                                    *)
(***************************************************************************)
Replicate ==
    /\ replica # table
    /\ replica' = table
    /\ reader' = [reader EXCEPT !.gap = @ \/ (reader.pc # "idle" /\ Gap(reader.path))]
    /\ UNCHANGED <<table, links, tenantMode, call, events, silent, answers, issued, faults>>

Expire(p) ==
    /\ faults < MaxFaults
    /\ CurrentIn(table, p) # {}
    /\ table' = {IF r.path = p THEN [r EXCEPT !.open = FALSE] ELSE r : r \in table}
    /\ faults' = faults + 1
    /\ UNCHANGED <<replica, links, tenantMode, call, reader, events, silent, answers, issued>>

Next ==
    \/ \E c \in Calls :
          \/ \E r \in Requests : Request(c, r)
          \/ \E p \in Paths : Rollback(c, p)
          \/ StartItem(c) \/ Resolve(c) \/ Find(c) \/ Link(c) \/ Merge(c) \/ Reread(c)
          \/ Write(c) \/ Publish(c) \/ PublishFails(c) \/ ItemFails(c)
    \/ \E id \in 1..MaxRequests : ReadId(id)
    \/ ReadPath \/ ReadCurrent
    \/ Replicate
    \/ \E p \in Paths : Expire(p)

Spec == Init /\ [][Next]_vars

(***************************************************************************)
(* Properties.                                                             *)
(***************************************************************************)
TypeOK ==
    /\ table \subseteq Row /\ replica \subseteq Row
    /\ links \subseteq Paths \X Paths
    /\ \A c \in Calls : call[c].rest \in Seq(Items)
    /\ silent \subseteq {r.id : r \in table}

\* Whatever way an item was answered other than by an error, its content (up
\* to the normalisation that hashes it) was stored at its path, or at a path
\* its path is linked to: deduplication against a stale replica, beside other
\* requests, never drops the only copy.
NoContentLost ==
    \A a \in answers : a.action \in {"stored", "skipped", "linked", "merged"} =>
        \E r \in table :
            /\ ContentHash[r.content] = ContentHash[a.content]
            /\ r.path = a.path \/ <<a.path, r.path>> \in links

\* Every committed row is announced once, by an event with its own version
\* and the row it superseded, unless its publish failed or is still to come.
AnnouncedOnce ==
    \A r \in table :
        \/ r.id \in silent
        \/ \E c \in Calls : call[c].pc = "publish" /\ call[c].new = r.id
        \/ /\ Cardinality({e \in events : e.id = r.id}) = 1
           /\ EventOf(r.id) \in events

\* A superseded id resolves to the current row of its path: it is answered
\* "not found" only if the path had no current row at some moment of the
\* three reads.
ResolveFinds == reader.pc = "missing" => reader.gap

\* A rollback that is answered "rolled_back" made the restored content the
\* content of a new row of its path.
RollbackRestores ==
    [][\A a \in answers' \ answers :
          a.kind = "rollback" /\ a.action # "error" => a.action = "stored"]_vars
=============================================================================
