---------------------------- MODULE RequestParts ----------------------------
(***************************************************************************)
(* The parts behind the front door that requests share: the rate limit,    *)
(* the circuit breaker of the providers, the review queue of proposed      *)
(* links and the API keys, each with variables of its own.                 *)
(***************************************************************************)
EXTENDS Integers, Sequences, FiniteSets

CONSTANTS
    Pair,  \* API replicas, reviewers
    Trio,  \* callers of a provider
    Two,   \* edges
    \* of the rate limiter
    RPM, WindowSecs, MaxPerWindow, Window, MaxDelay, MaxTime, MaxRequests, MaxOutages,
    \* of the circuit breaker
    MaxFailures, HalfOpenMax, Base, MaxOpen, MaxOpenGen,
    \* of the link proposals
    MaxProposals, MaxReviews,
    \* of the API keys
    MaxKeys, Grace, Lifetime, Asked

VARIABLES
    now, zset, expires, read, members, window, lFaults,
    state, bCounts, left, openGen, holdLeft, holding, bCall, healthy,
    proposals, replica, links, pCall, reviews, confirmed,
    keys, revoked, since, asked

limiterVars == <<now, zset, expires, read, members, window, lFaults>>
breakerVars == <<state, bCounts, left, openGen, holdLeft, holding, bCall, healthy>>
proposalVars == <<proposals, replica, links, pCall, reviews, confirmed>>
keyVars == <<keys, revoked, since, asked>>

Limiter == INSTANCE RateLimiter WITH
    Replicas <- Pair, MaxFaults <- MaxOutages, log <- window, faults <- lFaults

Breaker == INSTANCE CircuitBreaker WITH
    Callers <- Trio, counts <- bCounts, call <- bCall

Propose == INSTANCE LinkProposals WITH
    Edges <- Two, Reviewers <- Pair, call <- pCall

Rotate == INSTANCE ApiKeys

ASSUME LimiterAssumption == Limiter!RateLimiterAssumption
ASSUME BreakerAssumption == Breaker!CircuitBreakerAssumption
ASSUME ProposeAssumption == Propose!LinkProposalsAssumption
ASSUME RotateAssumption == Rotate!ApiKeysAssumption

\* RateLimiter: no window admits more than the limit, across replicas.
AtMostLimit == Limiter!AtMostLimit

\* CircuitBreaker: only a probe of the present generation decides it.
ProbeDecides == Breaker!ProbeDecides

\* LinkProposals: however reviews and generations interleave, an edge has one pending
\* proposal, an accepted one has its link, and a verdict is final.
ProposalsAreSound == Propose!ProposalsAreSound

\* ApiKeys: a rotation locks nobody out and ends the old key when the grace period does.
RotationIsSeamless == Rotate!RotationIsSeamless
=============================================================================
