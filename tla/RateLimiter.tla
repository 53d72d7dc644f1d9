---------------------------- MODULE RateLimiter ----------------------------
(***************************************************************************)
(* RedisRateLimiter: one sliding window in a Redis ZSET, shared by all API *)
(* replicas.  Each replica sends its own clock reading to the Lua script,  *)
(* which Redis runs atomically; a reading may be taken before another      *)
(* replica's script and arrive after it.  When Redis fails the request is  *)
(* let through.  Time advances in milliseconds.                            *)
(***************************************************************************)
EXTENDS Integers, FiniteSets

CONSTANTS
    Replicas,      \* API processes, each serving one request of the key at a time
    RPM,           \* requests per minute of the role
    WindowSecs,    \* RateLimitWindowSecs
    MaxPerWindow,  \* RateLimitMaxRequests, 0 when there is no cap
    Window,        \* the window in clock ticks
    MaxDelay,      \* bound on the time between reading the clock and the script
    MaxTime,       \* bound on the clock
    MaxRequests,   \* bound on the requests ever made
    MaxFaults      \* bound on failing Redis calls

\* What the constants must satisfy.
RateLimiterAssumption ==
    /\ {RPM, WindowSecs, MaxPerWindow, Window, MaxDelay, MaxTime, MaxRequests, MaxFaults} \subseteq Nat
    /\ Window > 0

VARIABLES
    now,
    zset,     \* set of [member, score]
    expires,  \* the PEXPIRE deadline of the key
    read,     \* replica -> [at, clock]: the reading of a request in flight
    members,  \* number of members ever added: the UnixNano part of a member
    log,      \* history: set of [member, clock, at, allowed] of answered requests
    faults

vars == <<now, zset, expires, read, members, log, faults>>

Idle == [at |-> "idle", clock |-> 0]

Init ==
    /\ now = 1
    /\ zset = {}
    /\ expires = 0
    /\ read = [r \in Replicas |-> Idle]
    /\ members = 0
    /\ log = {}
    /\ faults = 0

(***************************************************************************)
(* Allow.                                                                  *)
(***************************************************************************)
ReadClock(r) ==
    /\ read[r].at = "idle"
    /\ members + Cardinality({q \in Replicas : read[q].at = "script"}) < MaxRequests
    /\ read' = [read EXCEPT ![r] = [at |-> "script", clock |-> now]]
    /\ UNCHANGED <<now, zset, expires, members, log, faults>>

Minimum(a, b) == IF a < b THEN a ELSE b
Maximum(a, b) == IF a > b THEN a ELSE b

\* Values below 1 mean 1 request per minute and a window of 60 seconds.
LimitFromRPM(rpm, secs) ==
    LET w == IF secs < 1 THEN 60 ELSE secs
    IN Maximum(1, (Maximum(1, rpm) * w) \div 60)

roleLimit ==
    LET cap == LimitFromRPM(RPM, WindowSecs)
    IN IF MaxPerWindow > 0 THEN Minimum(cap, MaxPerWindow) ELSE cap

\* Mutant: ZREMRANGEBYSCORE also trims the oldest instant of the window.
TrimmedEarly(z, t) == {e \in z : e.score > t - Window + 1}

Trimmed(z, t) == {e \in z : e.score > t - Window}

Deadline(t) == t + Window

Allowed(count) == count <= roleLimit

\* The script adds the request to the window before it is judged.
Script(r) ==
    /\ read[r].at = "script"
    /\ LET t == read[r].clock
           present == IF now < expires THEN zset ELSE {}
           z == Trimmed(present, t) \cup {[member |-> members + 1, score |-> t]}
       IN /\ zset' = z
          /\ log' = log \cup {[member |-> members + 1, clock |-> t, at |-> now,
                               allowed |-> Allowed(Cardinality(z))]}
    /\ members' = members + 1
    /\ expires' = Deadline(now)
    /\ read' = [read EXCEPT ![r] = Idle]
    /\ UNCHANGED <<now, faults>>

\* Redis is down: the request proceeds and leaves no entry.
FailOpen(r) ==
    /\ read[r].at = "script"
    /\ faults < MaxFaults
    /\ faults' = faults + 1
    /\ read' = [read EXCEPT ![r] = Idle]
    /\ UNCHANGED <<now, zset, expires, members, log>>

Tick ==
    /\ now < MaxTime
    /\ \A r \in Replicas : read[r].at = "script" => now < read[r].clock + MaxDelay
    /\ now' = now + 1
    /\ UNCHANGED <<zset, expires, read, members, log, faults>>

Next == (\E r \in Replicas : ReadClock(r) \/ Script(r) \/ FailOpen(r)) \/ Tick

Spec == Init /\ [][Next]_vars

(***************************************************************************)
(* Properties.                                                             *)
(***************************************************************************)
TypeOK ==
    /\ now \in 1..MaxTime
    /\ \A e \in zset : e.member \in 1..members /\ e.score \in 1..now
    /\ expires \in 0..MaxTime + Window
    /\ \A r \in Replicas : read[r].at \in {"idle", "script"} /\ read[r].clock \in 0..now
    /\ Cardinality(log) = members
    /\ faults \in 0..MaxFaults

\* However the scripts of the replicas interleave, at most Limit requests are allowed
\* in any span of Window - MaxDelay: late clock readings cost the limiter no more.
AtMostLimit ==
    \A l \in log : Cardinality({k \in log :
        k.allowed /\ l.at - (Window - MaxDelay) < k.at /\ k.at <= l.at}) <= roleLimit

\* internal/middleware/ratelimit.go:43: the Redis backend enforces accurate per-key
\* limits: at most Limit allowed requests have their clock readings in one window.
AccurateLimit ==
    \A l \in log : Cardinality({k \in log :
        k.allowed /\ l.clock - Window < k.clock /\ k.clock <= l.clock}) <= roleLimit

=============================================================================
