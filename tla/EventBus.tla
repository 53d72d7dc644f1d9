------------------------------ MODULE EventBus ------------------------------
(***************************************************************************)
(* The live side of the events: EventService.Ingest (the row of the events *)
(* table, then the publication), PublishEvent with its webhook             *)
(* notification, and the live tail of GET /v1/events and of the gRPC call  *)
(* StreamEvents, from the Redis read through the handler's filter to the   *)
(* channel of the Go SDK.                                                  *)
(*                                                                         *)
(* A tail is a chain of queues: the batch the subscribing goroutine read,  *)
(* its channel, the connection, and the channel of the client.  Events are *)
(* the positions of log, the stream pcmi:events (EVENT_BACKEND=streams) or *)
(* the messages of the channel memory_events (EVENT_BACKEND=pubsub).       *)
(***************************************************************************)
EXTENDS Integers, Sequences, FiniteSets, SequencesExt

CONSTANTS
    Tenants, Types,   \* tenants and event types
    Strict,           \* the types whose schema is registered and strict
    Untenanted,       \* may the program publish an event without tenant_id
    Subscribers,      \* subscriber -> [tenant, types]; types = {} asks for all
    Backends,         \* the values of EVENT_BACKEND
    Batch,            \* defaultBatch of XREAD
    Buffer,           \* capacity of a channel (16 in the server, 8 in the SDK)
    MaxEvents,        \* bound on the published events
    MaxRows,          \* bound on the ingested events
    MaxFaults         \* bound on failed commands and broken connections

Subs == DOMAIN Subscribers
NoTenant == "none"

\* What the constants must satisfy.
BusAssumption ==
    /\ NoTenant \notin Tenants
    /\ Strict \subseteq Types
    /\ Untenanted \in BOOLEAN
    /\ \A s \in Subs : Subscribers[s].tenant \in Tenants /\ Subscribers[s].types \subseteq Types
    /\ Backends \subseteq {"streams", "pubsub"}
    /\ {Batch, Buffer, MaxEvents, MaxRows} \subseteq Nat \ {0}
    /\ MaxFaults \in Nat

VARIABLES
    backend,   \* EVENT_BACKEND, fixed at start-up
    rows,      \* the events table: sequence of [tenant, type]
    ingest,    \* the ingest request in progress, as a sequence of at most one
    log,       \* the published events: [tenant, type, row], row = 0 when not ingested
    notified,  \* history: positions of log handed to the webhook dispatcher
    tail,      \* subscriber -> state of its subscribing goroutine
    chan,      \* subscriber -> channel of the goroutine
    wire,      \* subscriber -> events written to the connection
    client,    \* subscriber -> channel of the SDK
    seen,      \* subscriber -> events its function was called with
    faults

queues == <<tail, chan, wire, client, seen>>
vars == <<backend, rows, ingest, log, notified, tail, chan, wire, client, seen, faults>>

\* A goroutine is off, running or ended; last is lastID (0 is "$"); at is the
\* position its XREAD waits behind (-1: no XREAD in progress); from is the
\* first position it ever read; open tells whether the connection stands.
Off == [state |-> "off", last |-> 0, at |-> -1, batch |-> <<>>, from |-> 0, open |-> FALSE]

Init ==
    /\ backend \in Backends
    /\ rows = <<>>
    /\ ingest = <<>>
    /\ log = <<>>
    /\ notified = {}
    /\ tail = [s \in Subs |-> Off]
    /\ chan = [s \in Subs |-> <<>>]
    /\ wire = [s \in Subs |-> <<>>]
    /\ client = [s \in Subs |-> <<>>]
    /\ seen = [s \in Subs |-> <<>>]
    /\ faults = 0

Fault == faults < MaxFaults /\ faults' = faults + 1

(***************************************************************************)
(* Publishing.                                                             *)
(***************************************************************************)
\* Redis: XADD appends to the stream; PUBLISH reaches the goroutines
\* subscribed at that moment.
Deliver(e) ==
    /\ log' = Append(log, e)
    /\ tail' = IF backend = "streams" THEN tail
               ELSE [s \in Subs |-> IF tail[s].state # "running" THEN tail[s]
                                    ELSE [tail[s] EXCEPT !.batch = Append(@, Len(log) + 1),
                                              !.from = IF @ = 0 THEN Len(log) + 1 ELSE @,
                                              !.last = Len(log) + 1]]

\* notifyWebhook: only for an event that names its tenant.
notifyWebhook(e) == notified' = IF e.tenant = NoTenant THEN notified
                                ELSE notified \cup {Len(log) + 1}

\* PublishEvent by the program itself (memory.stored, knowledge.distilled...).
PublishEvent(t, type) ==
    LET e == [tenant |-> t, type |-> type, row |-> 0]
    IN /\ Len(log) < MaxEvents
       /\ t # NoTenant \/ Untenanted
       /\ Deliver(e)
       /\ notifyWebhook(e)
       /\ UNCHANGED <<backend, rows, ingest, chan, wire, client, seen, faults>>

\* eventschema.Validate: a strict type needs its required fields.
Validate(type, complete) == type \notin Strict \/ complete

\* POST /v1/events and IngestEvent: validation, then EventRepository.Insert.  The
\* payload is copied over the announcement's own fields: a tenant_id it carries
\* (NoTenant: none) is the one that is announced.
Ingest(t, type, complete, named) ==
    /\ ingest = <<>>
    /\ Len(rows) < MaxRows
    /\ Validate(type, complete)
    /\ rows' = Append(rows, [tenant |-> t, type |-> type])
    /\ ingest' = <<[tenant |-> IF named = NoTenant THEN t ELSE named, type |-> type,
                    row |-> Len(rows) + 1]>>
    /\ UNCHANGED <<backend, log, notified, queues, faults>>

\* The publication of an ingested event; its error is ignored.
IngestPublish ==
    /\ ingest # <<>>
    /\ Len(log) < MaxEvents
    /\ Deliver(ingest[1])
    /\ notifyWebhook(ingest[1])
    /\ ingest' = <<>>
    /\ UNCHANGED <<backend, rows, chan, wire, client, seen, faults>>

IngestPublishFails ==
    /\ ingest # <<>>
    /\ Fault
    /\ ingest' = <<>>
    /\ UNCHANGED <<backend, rows, log, notified, queues>>

(***************************************************************************)
(* The subscribing goroutine.                                              *)
(***************************************************************************)
\* SubscribeEventsContext; with pub/sub the subscription is confirmed
\* before it returns.
Subscribe(s) ==
    /\ tail[s].state = "off"
    /\ tail' = [tail EXCEPT ![s] = [Off EXCEPT !.state = "running", !.open = TRUE]]
    /\ UNCHANGED <<backend, rows, ingest, log, notified, chan, wire, client, seen, faults>>

\* Defect: every XREAD asks for the entries after "$".
XReadAlwaysNew(s) ==
    /\ backend = "streams"
    /\ tail[s].state = "running" /\ tail[s].batch = <<>> /\ tail[s].at = -1
    /\ tail' = [tail EXCEPT ![s].at = Len(log)]
    /\ UNCHANGED <<backend, rows, ingest, log, notified, chan, wire, client, seen, faults>>

\* The goroutine issues XREAD behind lastID; "$" is the end of the stream at
\* the moment Redis receives the command.
XRead(s) ==
    /\ backend = "streams"
    /\ tail[s].state = "running" /\ tail[s].batch = <<>> /\ tail[s].at = -1
    /\ tail' = [tail EXCEPT ![s].at = IF tail[s].last = 0 THEN Len(log) ELSE tail[s].last]
    /\ UNCHANGED <<backend, rows, ingest, log, notified, chan, wire, client, seen, faults>>

\* XREAD answers with the entries behind its position, at most Batch.
XReadAnswers(s) ==
    LET at == tail[s].at
        n  == IF Len(log) - at < Batch THEN Len(log) - at ELSE Batch
    IN /\ at >= 0 /\ n > 0
       /\ tail' = [tail EXCEPT ![s].at = -1, ![s].last = at + n,
                               ![s].from = IF @ = 0 THEN at + 1 ELSE @,
                               ![s].batch = [i \in 1..n |-> at + i]]
       /\ UNCHANGED <<backend, rows, ingest, log, notified, chan, wire, client, seen, faults>>

\* XREAD returns redis.Nil after defaultBlock: lastID is left as it is.
XReadBlocksOut(s) ==
    /\ tail[s].at = Len(log)
    /\ tail' = [tail EXCEPT ![s].at = -1]
    /\ UNCHANGED <<backend, rows, ingest, log, notified, chan, wire, client, seen, faults>>

\* XREAD fails; the goroutine sleeps and tries again.
XReadFails(s) ==
    /\ tail[s].at >= 0
    /\ Fault
    /\ tail' = [tail EXCEPT ![s].at = -1]
    /\ UNCHANGED <<backend, rows, ingest, log, notified, chan, wire, client, seen>>

\* The goroutine sends the next event of its batch; a full channel blocks it.
Forward(s) ==
    /\ tail[s].state = "running" /\ tail[s].batch # <<>>
    /\ Len(chan[s]) < Buffer
    /\ chan' = [chan EXCEPT ![s] = Append(@, Head(tail[s].batch))]
    /\ tail' = [tail EXCEPT ![s].batch = Tail(@)]
    /\ UNCHANGED <<backend, rows, ingest, log, notified, wire, client, seen, faults>>

(***************************************************************************)
(* The handler and the client.                                             *)
(***************************************************************************)
\* eventAllowed and eventAllowedGRPC: the type filter, then the tenant; an
\* event without tenant is for everyone.
eventAllowed(s, e) ==
    /\ Subscribers[s].types = {} \/ e.type \in Subscribers[s].types
    /\ e.tenant = NoTenant \/ e.tenant = Subscribers[s].tenant

\* EventsHandler.Stream takes the next event, and writes it if it passes.
Stream(s) ==
    /\ tail[s].open /\ chan[s] # <<>>
    /\ wire' = IF eventAllowed(s, log[Head(chan[s])])
               THEN [wire EXCEPT ![s] = Append(@, Head(chan[s]))] ELSE wire
    /\ Len(wire'[s]) <= Buffer
    /\ chan' = [chan EXCEPT ![s] = Tail(@)]
    /\ UNCHANGED <<backend, rows, ingest, log, notified, tail, client, seen, faults>>

\* The connection breaks: the handler's write fails and it returns; what is
\* in the channel is lost, what is on the wire still arrives.
Disconnect(s) ==
    /\ tail[s].open
    /\ Fault
    /\ tail' = [tail EXCEPT ![s].open = FALSE]
    /\ UNCHANGED <<backend, rows, ingest, log, notified, chan, wire, client, seen>>

\* The stream context is cancelled: the goroutine returns and closes its
\* channel.
Cancel(s) ==
    /\ tail[s].state = "running" /\ ~tail[s].open
    /\ tail' = [tail EXCEPT ![s].state = "ended", ![s].at = -1, ![s].batch = <<>>]
    /\ chan' = [chan EXCEPT ![s] = <<>>]
    /\ UNCHANGED <<backend, rows, ingest, log, notified, wire, client, seen, faults>>

\* Client.Subscribe parses a block and sends the event to the channel.
ClientReads(s) ==
    /\ wire[s] # <<>> /\ Len(client[s]) < Buffer
    /\ client' = [client EXCEPT ![s] = Append(@, Head(wire[s]))]
    /\ wire' = [wire EXCEPT ![s] = Tail(@)]
    /\ UNCHANGED <<backend, rows, ingest, log, notified, tail, chan, seen, faults>>

\* Client.SubscribeFunc calls the function with the next event.
SubscribeFunc(s) ==
    /\ client[s] # <<>>
    /\ seen' = [seen EXCEPT ![s] = Append(@, Head(client[s]))]
    /\ client' = [client EXCEPT ![s] = Tail(@)]
    /\ UNCHANGED <<backend, rows, ingest, log, notified, tail, chan, wire, faults>>

Next ==
    \/ \E t \in Tenants \cup {NoTenant}, type \in Types : PublishEvent(t, type)
    \/ \E t \in Tenants, type \in Types, complete \in BOOLEAN, named \in Tenants \cup {NoTenant} :
          Ingest(t, type, complete, named)
    \/ IngestPublish
    \/ IngestPublishFails
    \/ \E s \in Subs :
          \/ Subscribe(s) \/ XRead(s) \/ XReadAnswers(s) \/ XReadBlocksOut(s) \/ XReadFails(s)
          \/ Forward(s) \/ Stream(s) \/ Disconnect(s) \/ Cancel(s)
          \/ ClientReads(s) \/ SubscribeFunc(s)

Spec == Init /\ [][Next]_vars

(***************************************************************************)
(* Properties.                                                             *)
(***************************************************************************)
\* Every variable keeps its type.
TypeOK ==
    LET Queue == UNION {[1..n -> 1..Len(log)] : n \in 0..MaxEvents}
    IN /\ Len(log) <= MaxEvents /\ notified \subseteq 1..Len(log)
       /\ \A s \in Subs : /\ {tail[s].batch, chan[s], wire[s], client[s], seen[s]} \subseteq Queue
                          /\ tail[s].last \in 0..Len(log) /\ tail[s].at \in -1..Len(log)
                          /\ tail[s].state \in {"off", "running", "ended"}

\* The positions from..last of the log meant for s: of a type it asked for,
\* of its tenant or of none.
Meant(s) ==
    LET all == [i \in 1..(tail[s].last - tail[s].from + 1) |-> tail[s].from + i - 1]
    IN SelectSeq(all, LAMBDA i : /\ Subscribers[s].types # {} => log[i].type \in Subscribers[s].types
                                 /\ log[i].tenant \in {Subscribers[s].tenant, NoTenant})

\* What is on its way to the function of s once the handler has filtered it.
Passed(s) == seen[s] \o client[s] \o wire[s]

\* From the first event it reads on, a live tail misses nothing, repeats
\* nothing and reorders nothing, and carries the events of its types and its
\* tenant only: what the client saw and what is on its way is, after the
\* filter, the contiguous part of the stream the goroutine has gone through;
\* after a disconnection it is a prefix of it.
TailIsGapless ==
    \A s \in Subs :
       tail[s].from > 0 =>
          /\ Passed(s) = SubSeq(Meant(s), 1, Len(Passed(s)))
          /\ tail[s].open =>
                Passed(s) \o SelectSeq(chan[s] \o tail[s].batch, LAMBDA i : eventAllowed(s, log[i]))
                   = Meant(s)

\* An ingested event that anyone may have seen on the stream has its row in
\* the events table, with the type it is announced under, and no row is
\* announced twice: the row is written before the publication.
AnnouncedIsStored ==
    /\ \A i \in 1..Len(log) : log[i].row > 0 =>
          /\ log[i].row <= Len(rows)
          /\ rows[log[i].row].type = log[i].type
    /\ \A i, j \in 1..Len(log) : log[i].row = log[j].row /\ log[i].row > 0 => i = j
=============================================================================
