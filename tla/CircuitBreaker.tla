-------------------------- MODULE CircuitBreaker --------------------------
(***************************************************************************)
(* CircuitBreakerProvider: a gobreaker circuit, whose open state lasts     *)
(* BaseOpenTimeout, and around it the provider's own open hold, which      *)
(* grows with every reopening.  Several goroutines call Generate; their    *)
(* calls of the inner provider overlap and end after the circuit moved on. *)
(* Deadlines are kept as the time left, so that time is not bounded.       *)
(***************************************************************************)
EXTENDS Integers, FiniteSets

CONSTANTS
    Callers,
    MaxFailures,   \* MaxConsecutiveFailures
    HalfOpenMax,   \* HalfOpenMaxRequests
    Base,          \* BaseOpenTimeout
    MaxOpen,       \* MaxOpenTimeout
    MaxOpenGen     \* bound on openGen; beyond it the hold is MaxOpen anyway

\* What the constants must satisfy.
CircuitBreakerAssumption ==
    /\ {MaxFailures, HalfOpenMax, Base, MaxOpen, MaxOpenGen} \subseteq Nat \ {0}
    /\ Base <= MaxOpen

VARIABLES
    state,     \* of the gobreaker circuit: "closed", "open", "half-open"
    counts,    \* [requests, failures, successes], the last two consecutive
    left,      \* time until gobreaker lets an open circuit probe
    openGen,
    holdLeft,  \* time until openHold; 0 once it has passed
    holding,   \* openHold is not the zero time
    call,      \* caller -> [at, fresh]; fresh: its generation is the current one
    healthy    \* whether calls of the inner provider succeed at present

vars == <<state, counts, left, openGen, holdLeft, holding, call, healthy>>
circuit == <<state, counts, left, openGen, holdLeft, holding>>

NoCounts == [requests |-> 0, failures |-> 0, successes |-> 0]
NoCall == [at |-> "idle", fresh |-> FALSE]

Init ==
    /\ state = "closed"
    /\ counts = NoCounts
    /\ left = 0
    /\ openGen = 0
    /\ holdLeft = 0
    /\ holding = FALSE
    /\ call = [c \in Callers |-> NoCall]
    /\ healthy \in BOOLEAN

(***************************************************************************)
(* State changes of the circuit, with the provider's callback.             *)
(***************************************************************************)
Minimum(a, b) == IF a < b THEN a ELSE b

\* 0.75 to 1.25 times the doubled base, at most MaxOpen; never below one tick.
OpenBackoffDuration(attempt) ==
    LET d == Minimum(Base * 2 ^ Minimum(attempt, 16), MaxOpen)
    IN {IF j * d < 4 THEN 1 ELSE Minimum((j * d) \div 4, MaxOpen) : j \in 3..5}

onStateChange(to) ==
    CASE to = "closed" ->
            openGen' = 0 /\ holding' = FALSE /\ holdLeft' = 0
      [] to = "half-open" ->
            openGen' = openGen /\ holding' = FALSE /\ holdLeft' = 0
      [] to = "open" ->
            /\ openGen' = Minimum(openGen + 1, MaxOpenGen)
            /\ holding' = TRUE
            /\ holdLeft' \in OpenBackoffDuration(openGen)

\* A state change begins a generation: the calls in flight become stale.
SetState(to) ==
    /\ state' = to
    /\ counts' = NoCounts
    /\ left' = IF to = "open" THEN Base ELSE 0
    /\ onStateChange(to)

Stale == [c \in Callers |-> [call[c] EXCEPT !.fresh = FALSE]]

Due == state = "open" /\ left = 0

(***************************************************************************)
(* Generate.  The outbound rate limiter delays a call before it starts.    *)
(***************************************************************************)
Goto(c, at) == call' = [call EXCEPT ![c].at = at]
Return(c) == call' = [call EXCEPT ![c] = NoCall]

\* circuitBlocked asks the circuit first, which makes it probe when it is due.
AskState(c) ==
    /\ call[c].at = "idle"
    /\ \/ /\ Due
          /\ SetState("half-open")
          /\ call' = [Stale EXCEPT ![c].at = "execute"]
       \/ /\ ~Due
          /\ Goto(c, IF state = "open" THEN "hold" ELSE "execute")
          /\ UNCHANGED circuit
    /\ UNCHANGED healthy

\* ... and then its own hold, under a lock of its own.
AskHold(c) ==
    /\ call[c].at = "hold"
    /\ IF holding /\ holdLeft > 0 THEN Return(c) ELSE Goto(c, "execute")
    /\ UNCHANGED <<circuit, healthy>>

\* Only a half-open circuit reads the number of requests.
Counted == [counts EXCEPT !.requests = IF state = "half-open" THEN @ + 1 ELSE 0]

TooManyRequests == state = "half-open" /\ counts.requests >= HalfOpenMax

beforeRequest(c) ==
    /\ call[c].at = "execute"
    /\ \/ /\ Due
          /\ state' = "half-open"
          /\ counts' = [NoCounts EXCEPT !.requests = 1]
          /\ left' = 0
          /\ onStateChange("half-open")
          /\ call' = [Stale EXCEPT ![c] = [at |-> "inner", fresh |-> TRUE]]
       \/ /\ ~Due /\ state # "open" /\ ~TooManyRequests
          /\ counts' = Counted
          /\ call' = [call EXCEPT ![c] = [at |-> "inner", fresh |-> TRUE]]
          /\ UNCHANGED <<state, left, openGen, holdLeft, holding>>
       \/ /\ ~Due /\ (state = "open" \/ TooManyRequests)
          /\ Return(c)
          /\ UNCHANGED circuit
    /\ UNCHANGED healthy

\* Mutant: results are counted whatever generation their call belongs to.
CountsForAny(c) == TRUE

CountsFor(c) == call[c].fresh

\* ReadyToTrip is asked after each failure of a closed circuit.
Failed ==
    \/ state = "half-open" /\ SetState("open")
    \/ /\ state = "closed"
       /\ IF counts.failures + 1 >= MaxFailures THEN SetState("open")
          ELSE /\ counts' = [counts EXCEPT !.failures = @ + 1, !.successes = 0]
               /\ UNCHANGED <<state, left, openGen, holdLeft, holding>>

\* Mutant: a success of a probe is not counted.
SucceededNeverCloses ==
    /\ state \in {"closed", "half-open"}
    /\ counts' = [counts EXCEPT !.failures = 0]
    /\ UNCHANGED <<state, left, openGen, holdLeft, holding>>

Succeeded ==
    \/ /\ state = "half-open"
       /\ IF counts.successes + 1 >= HalfOpenMax THEN SetState("closed")
          ELSE /\ counts' = [counts EXCEPT !.successes = @ + 1, !.failures = 0]
               /\ UNCHANGED <<state, left, openGen, holdLeft, holding>>
    \/ /\ state = "closed"
       /\ counts' = [counts EXCEPT !.failures = 0]
       /\ UNCHANGED <<state, left, openGen, holdLeft, holding>>

afterRequest(c) ==
    /\ call[c].at = "inner"
    /\ \/ /\ Due
          /\ SetState("half-open")
          /\ call' = [Stale EXCEPT ![c] = NoCall]
       \/ /\ ~Due /\ (~CountsFor(c) \/ state = "open")
          /\ Return(c)
          /\ UNCHANGED circuit
       \/ /\ ~Due /\ CountsFor(c)
          /\ IF healthy THEN Succeeded ELSE Failed
          /\ call' = [(IF state' = state THEN call ELSE Stale) EXCEPT ![c] = NoCall]
    /\ UNCHANGED healthy

(***************************************************************************)
(* Time and the provider.                                                  *)
(***************************************************************************)
Tick ==
    /\ left > 0 \/ holdLeft > 0
    /\ left' = IF left > 0 THEN left - 1 ELSE 0
    /\ holdLeft' = IF holdLeft > 0 THEN holdLeft - 1 ELSE 0
    /\ UNCHANGED <<state, counts, openGen, holding, call, healthy>>

HealthChanges ==
    /\ healthy' = ~healthy
    /\ UNCHANGED <<circuit, call>>

Generate(c) == AskState(c) \/ AskHold(c) \/ beforeRequest(c) \/ afterRequest(c)

Next == (\E c \in Callers : Generate(c)) \/ Tick \/ HealthChanges

Spec == Init /\ [][Next]_vars

\* Callers keep calling (the worker's ticker) and the inner provider's HTTP client
\* returns from every call; time passes.
FairSpec == Spec /\ WF_vars(Tick) /\ \A c \in Callers : WF_vars(Generate(c))

(***************************************************************************)
(* Properties.                                                             *)
(***************************************************************************)
TypeOK ==
    /\ state \in {"closed", "open", "half-open"}
    /\ counts \in [requests : Nat, failures : 0..MaxFailures - 1,
                   successes : 0..HalfOpenMax]
    /\ left \in 0..Base /\ holdLeft \in 0..MaxOpen
    /\ openGen \in 0..MaxOpenGen /\ holding \in BOOLEAN
    /\ \A c \in Callers : call[c].at \in {"idle", "hold", "execute", "inner"}
    /\ healthy \in BOOLEAN

\* Only a probe of the present half-open generation decides it: the late result of
\* an older call neither closes the circuit nor opens it again.
ProbeDecides == [][
    (state = "half-open" /\ state' # "half-open") =>
        \E c \in Callers : call[c].at = "inner" /\ call[c].fresh /\ call'[c].at = "idle"]_vars

\* Once the provider stays healthy the circuit closes for good: no probe slot is
\* leaked, no hold outlives the open state.
Recovers == (<>[]healthy) => <>[](state = "closed")

\* internal/embedding/circuit_breaker.go:48: the backoff is "how long the circuit
\* stays open before probing half-open": it does not probe while the hold runs.
HoldPrecedesProbe == [][
    (state = "open" /\ state' = "half-open") => holdLeft = 0]_vars

=============================================================================
