---------------------------- MODULE Idempotency ----------------------------
(***************************************************************************)
(* The X-Idempotency-Key middleware of POST /v1/memories and the           *)
(* idempotency_cache table, for the keys of one tenant.  A request looks   *)
(* its key up, runs the handler on a miss and caches a 200 body; nothing   *)
(* reserves the key between the lookup and the write.                      *)
(***************************************************************************)
EXTENDS Integers, Sequences

CONSTANTS
    Clients,      \* concurrent requests in flight
    Keys,
    TTL,          \* idempotencyTTL
    MaxTime,      \* bound on the clock
    MaxRequests,  \* bound on the requests ever sent
    MaxFaults     \* bound on failing statements and aborted requests

\* What the constants must satisfy.
IdempotencyAssumption ==
    {TTL, MaxTime, MaxRequests, MaxFaults} \subseteq Nat /\ TTL > 0

VARIABLES
    now,
    cache,    \* key -> [body, expires]; body 0 when there is no row
    request,  \* client -> [key, at, body]
    stored,   \* history: execution (the id in its body) -> its key
    puts,     \* history: set of [key, at], the successful cache writes
    replies,  \* history: set of [key, body, replayed, at]
    sent,
    faults

vars == <<now, cache, request, stored, puts, replies, sent, faults>>

NoRow == [body |-> 0, expires |-> 0]
Free == [key |-> CHOOSE k \in Keys : TRUE, at |-> "free", body |-> 0]

Init ==
    /\ now = 0
    /\ cache = [k \in Keys |-> NoRow]
    /\ request = [c \in Clients |-> Free]
    /\ stored = <<>>
    /\ puts = {}
    /\ replies = {}
    /\ sent = 0
    /\ faults = 0

Fault == faults < MaxFaults /\ faults' = faults + 1

Reply(c, k, body, replayed) ==
    /\ request' = [request EXCEPT ![c] = Free]
    /\ replies' = replies \cup {[key |-> k, body |-> body, replayed |-> replayed, at |-> now]}

(***************************************************************************)
(* The middleware.                                                         *)
(***************************************************************************)
\* Mutant: the query does not look at expires_at.
GetStale(k) == cache[k].body # 0

Get(k) == cache[k].body # 0 /\ cache[k].expires > now

\* A failing lookup answers 500 and leaves no trace.
Lookup(c, k) ==
    /\ request[c].at = "free"
    /\ sent < MaxRequests
    /\ sent' = sent + 1
    /\ \/ Get(k) /\ Reply(c, k, cache[k].body, TRUE)
       \/ /\ ~Get(k)
          /\ request' = [request EXCEPT ![c] =
                [key |-> k, at |-> "handler", body |-> 0]]
          /\ UNCHANGED replies
    /\ UNCHANGED <<now, cache, stored, puts, faults>>

\* The handler commits a new version, and answers 200 with its id.
HandlerStores(c) ==
    /\ request[c].at = "handler"
    /\ stored' = Append(stored, request[c].key)
    /\ request' = [request EXCEPT ![c] = [@ EXCEPT !.at = "put", !.body = Len(stored) + 1]]
    /\ UNCHANGED <<now, cache, puts, replies, sent, faults>>

\* Any other status, or an error of c.Next(): nothing is cached.
HandlerRefuses(c) ==
    /\ request[c].at = "handler"
    /\ Fault
    /\ request' = [request EXCEPT ![c] = Free]
    /\ UNCHANGED <<now, cache, stored, puts, replies, sent>>

Upsert(k, body) == cache' = [cache EXCEPT ![k] = [body |-> body, expires |-> now + TTL]]

Put(c) ==
    /\ request[c].at = "put"
    /\ Upsert(request[c].key, request[c].body)
    /\ puts' = puts \cup {[key |-> request[c].key, at |-> now]}
    /\ Reply(c, request[c].key, request[c].body, FALSE)
    /\ UNCHANGED <<now, stored, sent, faults>>

\* The error of Put is only logged: the client has its answer, the cache no row.
PutFails(c) ==
    /\ request[c].at = "put"
    /\ Fault
    /\ Reply(c, request[c].key, request[c].body, FALSE)
    /\ UNCHANGED <<now, cache, stored, puts, sent>>

\* The process or the connection dies after the handler committed.
Abort(c) ==
    /\ request[c].at = "put"
    /\ Fault
    /\ request' = [request EXCEPT ![c] = Free]
    /\ UNCHANGED <<now, cache, stored, puts, replies, sent>>

(***************************************************************************)
(* The worker's cleanup, and time.                                         *)
(***************************************************************************)
DeleteExpired ==
    /\ cache' = [k \in Keys |-> IF cache[k].expires <= now THEN NoRow ELSE cache[k]]
    /\ UNCHANGED <<now, request, stored, puts, replies, sent, faults>>

Tick ==
    /\ now < MaxTime
    /\ now' = now + 1
    /\ UNCHANGED <<cache, request, stored, puts, replies, sent, faults>>

Next ==
    \/ \E c \in Clients, k \in Keys : Lookup(c, k)
    \/ \E c \in Clients :
        HandlerStores(c) \/ HandlerRefuses(c) \/ Put(c) \/ PutFails(c) \/ Abort(c)
    \/ DeleteExpired
    \/ Tick

Spec == Init /\ [][Next]_vars

(***************************************************************************)
(* Properties.                                                             *)
(***************************************************************************)
TypeOK ==
    /\ now \in 0..MaxTime
    /\ \A k \in Keys : cache[k].body \in 0..Len(stored) /\ cache[k].expires \in 0..MaxTime + TTL
    /\ \A c \in Clients :
        /\ request[c].key \in Keys
        /\ request[c].at \in {"free", "handler", "put"}
        /\ (request[c].at = "put") = (request[c].body # 0)
    /\ \A r \in replies : r.key \in Keys /\ r.at \in 0..MaxTime
    /\ sent \in 0..MaxRequests /\ faults \in 0..MaxFaults

\* A replayed body is the body of a request with the same key that was cached less
\* than TTL before: a retry is never answered from another key or from a dead row.
ReplaysAreGenuine ==
    \A r \in replies : r.replayed =>
        /\ r.body \in DOMAIN stored
        /\ stored[r.body] = r.key
        /\ \E p \in puts : p.key = r.key /\ p.at <= r.at /\ r.at < p.at + TTL

\* docs/USAGE.md:177: the first 200 response of a key is cached, retries return the
\* same JSON: two answers to one key within TTL of each other have the same body.
SameBodyWithinTTL ==
    \A r, s \in replies :
        (r.key = s.key /\ r.at <= s.at /\ s.at < r.at + TTL) => r.body = s.body

=============================================================================
