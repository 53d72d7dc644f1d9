----------------------------- MODULE Retrieval -----------------------------
(***************************************************************************)
(* Reading by query: MemoryService.Retrieve (embed the query, fetch the    *)
(* best candidates, touch them, fall back to the text search, rerank them  *)
(* with an LLM, cut to the limit), the listing by path, and the summary.   *)
(* The embedder, the LLM and the database fail independently; the circuit  *)
(* breaker around the LLM is shared by all calls.                          *)
(*                                                                         *)
(* The score of a row is left open: a search returns its matches in any    *)
(* order.  One tenant and one path prefix are modelled; scope and tag      *)
(* filters select rows like the path prefix does.                          *)
(***************************************************************************)
EXTENDS Integers, Sequences, FiniteSets, SequencesExt

CONSTANTS
    Rows,          \* ids of the rows under the prefix
    TextMatches,   \* the rows the text search finds
    Calls,         \* concurrent requests
    Limits,        \* the limits clients send
    Candidates,    \* RERANK_CANDIDATES
    TripAfter,     \* rerankBreakerFailures
    HasEmbedder,   \* is an embedding provider configured
    MaxAnswer,     \* bound on the length of a ranking the LLM returns
    MaxFaults      \* bound on failures of the database

\* What the constants must satisfy.
RetrievalAssumption ==
    /\ Rows \subseteq Nat
    /\ TextMatches \subseteq Rows
    /\ Limits \subseteq Nat \ {0}
    /\ {Candidates, TripAfter} \subseteq Nat \ {0}
    /\ HasEmbedder \in BOOLEAN
    /\ {MaxAnswer, MaxFaults} \subseteq Nat

VARIABLES
    open,      \* the rows that are current
    embedded,  \* the rows that have an embedding
    access,    \* access_count per row
    call,      \* per call: its request and where it is
    breaker,   \* the circuit breaker of the reranker
    faults

vars == <<open, embedded, access, call, breaker, faults>>

Kinds == {"query", "path", "summarize"}

NoRequest ==
    [pc |-> "idle", kind |-> "path", limit |-> 1, rerank |-> FALSE, vec |-> FALSE,
     fallback |-> FALSE, found |-> <<>>, page |-> <<>>, reranked |-> FALSE, method |-> ""]

Init ==
    /\ open = Rows
    /\ embedded \in SUBSET Rows
    /\ access = [r \in Rows |-> 0]
    /\ call = [c \in Calls |-> NoRequest]
    /\ breaker = [state |-> "closed", failures |-> 0]
    /\ faults = 0

Ask(c, kind, limit, rerank) ==
    /\ call[c].pc = "idle"
    /\ rerank => kind = "query"
    /\ call' = [call EXCEPT ![c] =
          [NoRequest EXCEPT !.pc = IF kind = "query" /\ HasEmbedder THEN "embed" ELSE "fetch",
                            !.kind = kind, !.limit = limit, !.rerank = rerank]]
    /\ UNCHANGED <<open, embedded, access, breaker, faults>>

\* A failed embedding is only logged: the search goes on without a vector.
EmbedQuery(c, ok) ==
    /\ call[c].pc = "embed"
    /\ call' = [call EXCEPT ![c].pc = "fetch", ![c].vec = ok]
    /\ UNCHANGED <<open, embedded, access, breaker, faults>>

(***************************************************************************)
(* MemoryRepository.Retrieve.                                              *)
(***************************************************************************)
\* Which rows the query selects.
Selected(c) ==
    CASE call[c].vec -> open \cap embedded
      [] call[c].kind = "query" /\ ~call[c].vec -> open \cap TextMatches
      [] OTHER -> open

\* The listing by path asks for one row more than the limit; a retrieve that
\* will be reranked asks for the candidates of the reranker.
fetchLimit(c) ==
    CASE call[c].kind # "query" -> call[c].limit + 1
      [] call[c].rerank /\ Candidates > call[c].limit -> Candidates
      [] OTHER -> call[c].limit

\* ORDER BY relevance_score, or by (created_at, id) when there is no query.
Orders(c) ==
    IF call[c].kind = "query" THEN SetToSeqs(Selected(c))
    ELSE {SetToSortSeq(Selected(c), LAMBDA r, s : r > s)}

Fetch(c) ==
    /\ call[c].pc = "fetch"
    /\ \E order \in Orders(c) :
          LET found == SubSeq(order, 1, IF Len(order) < fetchLimit(c) THEN Len(order)
                                        ELSE fetchLimit(c))
          IN  call' = [call EXCEPT ![c].found = found, ![c].page = found,
                         ![c].pc = IF call[c].kind = "query" /\ found # <<>> THEN "touch"
                                   ELSE "fetched"]
    /\ UNCHANGED <<open, embedded, access, breaker, faults>>

\* touchRetrievedMemories updates every row that was fetched.
Touch(c) ==
    /\ call[c].pc = "touch"
    /\ access' = [r \in Rows |-> IF r \in ToSet(call[c].found) THEN access[r] + 1 ELSE access[r]]
    /\ call' = [call EXCEPT ![c].pc = "fetched"]
    /\ UNCHANGED <<open, embedded, breaker, faults>>

\* Reading or touching fails: the request fails.
DatabaseFails(c) ==
    /\ faults < MaxFaults
    /\ call[c].pc \in {"fetch", "touch"}
    /\ faults' = faults + 1
    /\ call' = [call EXCEPT ![c].pc = "error"]
    /\ UNCHANGED <<open, embedded, access, breaker>>

\* A vector search without results is repeated as a text search; then the
\* candidates are reranked, if asked for and worth it.
Fetched(c) ==
    /\ call[c].pc = "fetched"
    /\ call' = [call EXCEPT ![c] =
          IF @.vec /\ @.found = <<>> THEN [@ EXCEPT !.pc = "fetch", !.vec = FALSE, !.fallback = TRUE]
          ELSE IF @.rerank /\ Len(@.found) > 1 THEN [@ EXCEPT !.pc = "rerank"]
          ELSE [@ EXCEPT !.pc = "cut"]]
    /\ UNCHANGED <<open, embedded, access, breaker, faults>>

(***************************************************************************)
(* LLMReranker.Rerank.                                                     *)
(***************************************************************************)
\* Mutant: the snippets the LLM left out are dropped.
parseRankingPartial(items, n) ==
    FoldLeft(LAMBDA order, i : IF i \in 0..(n - 1) /\ i \notin ToSet(order)
                               THEN Append(order, i) ELSE order,
             <<>>, items)

\* The permutation of 0..n-1 an answer stands for: what is out of range or
\* repeated is ignored, what is missing follows in its old order.  An answer
\* without a valid number is rejected.
parseRanking(items, n) ==
    LET order == FoldLeft(LAMBDA seen, i : IF i \in 0..(n - 1) /\ i \notin ToSet(seen)
                                           THEN Append(seen, i) ELSE seen,
                          <<>>, items)
    IN  IF order = <<>> THEN <<>>
        ELSE order \o SetToSortSeq(0..(n - 1) \ ToSet(order), <)

\* gobreaker: after TripAfter failures in a row the calls are refused for a
\* while, then one call decides.
Counted(ok) ==
    CASE ok -> [state |-> "closed", failures |-> 0]
      [] ~ok /\ (breaker.state = "half" \/ breaker.failures + 1 >= TripAfter) ->
            [state |-> "open", failures |-> 0]
      [] OTHER -> [breaker EXCEPT !.failures = @ + 1]

\* The LLM answers within the timeout.
RerankAnswers(c, items) ==
    /\ call[c].pc = "rerank"
    /\ breaker.state # "open"
    /\ LET order == parseRanking(items, Len(call[c].found))
           ok == order # <<>>
       IN  /\ breaker' = Counted(ok)
           /\ call' = [call EXCEPT ![c].pc = "cut", ![c].reranked = ok,
                 ![c].page = IF ok THEN [i \in DOMAIN order |-> call[c].found[order[i] + 1]] ELSE @]
    /\ UNCHANGED <<open, embedded, access, faults>>

\* The LLM fails, times out, answers what is no JSON, or the breaker refuses
\* the call (open, or half open with another call under way): the hybrid
\* order stands.
RerankUnavailable(c) ==
    /\ call[c].pc = "rerank"
    /\ \/ breaker.state # "open" /\ breaker' = Counted(FALSE)
       \/ breaker.state # "closed" /\ UNCHANGED breaker
    /\ call' = [call EXCEPT ![c].pc = "cut"]
    /\ UNCHANGED <<open, embedded, access, faults>>

BreakerTimeout ==
    /\ breaker.state = "open"
    /\ breaker' = [breaker EXCEPT !.state = "half"]
    /\ UNCHANGED <<open, embedded, access, call, faults>>

\* The answer: a reranked list and a page by path are cut to the limit.
Cut(c) ==
    /\ call[c].pc = "cut"
    /\ call[c].kind # "summarize"
    /\ LET long == Len(call[c].page) > call[c].limit
       IN  call' = [call EXCEPT ![c].pc = "answered",
              ![c].page = IF long /\ (call[c].rerank \/ call[c].kind = "path")
                          THEN SubSeq(@, 1, call[c].limit) ELSE @]
    /\ UNCHANGED <<open, embedded, access, breaker, faults>>

\* The summary is made of all the rows that were fetched, by the LLM or, when that
\* fails or answers nothing, from their first characters.
Summarize(c) ==
    /\ call[c].pc = "cut"
    /\ call[c].kind = "summarize"
    /\ \E method \in IF call[c].page = <<>> THEN {"none"} ELSE {"llm", "extractive"} :
          call' = [call EXCEPT ![c].pc = "answered", ![c].method = method]
    /\ UNCHANGED <<open, embedded, access, breaker, faults>>

(***************************************************************************)
(* Writers: the embedding worker, and versions that replace rows.          *)
(***************************************************************************)
Embed(r) ==
    /\ r \in open \ embedded
    /\ embedded' = embedded \cup {r}
    /\ UNCHANGED <<open, access, call, breaker, faults>>

Supersede(r) ==
    /\ r \in open
    /\ open' = open \ {r}
    /\ UNCHANGED <<embedded, access, call, breaker, faults>>

Next ==
    \/ \E c \in Calls :
          \/ \E k \in Kinds, n \in Limits, b \in BOOLEAN : Ask(c, k, n, b)
          \/ \E ok \in BOOLEAN : EmbedQuery(c, ok)
          \/ Fetch(c) \/ Touch(c) \/ DatabaseFails(c) \/ Fetched(c)
          \/ \E items \in BoundedSeq(-1..Candidates, MaxAnswer) : RerankAnswers(c, items)
          \/ RerankUnavailable(c)
          \/ Cut(c) \/ Summarize(c)
    \/ BreakerTimeout
    \/ \E r \in Rows : Embed(r) \/ Supersede(r)

Spec == Init /\ [][Next]_vars

(***************************************************************************)
(* Properties.                                                             *)
(***************************************************************************)
TypeOK ==
    /\ open \subseteq Rows /\ embedded \subseteq Rows
    /\ access \in [Rows -> Nat]
    /\ breaker.failures \in 0..(TripAfter - 1)

Answered(c) == call[c].pc = "answered"

\* Whatever the LLM returns, in whatever state the breaker is, an answer is
\* an ordered choice among the candidates the database ranked: within the
\* limit, without repetition, without dropping one while there is room, and
\* in the database's own order unless it says it was reranked.
AnswerIsChoice ==
    \A c \in Calls : Answered(c) /\ call[c].kind # "summarize" =>
        LET page == call[c].page
            found == call[c].found
        IN  /\ Len(page) = (IF Len(found) < call[c].limit THEN Len(found) ELSE call[c].limit)
            /\ IsInjective(page)
            /\ ToSet(page) \subseteq ToSet(found)
            /\ ~call[c].reranked => IsPrefix(page, found)

\* Every row a query retrieve returned was counted as an access: the counts
\* that feed the decay never fall behind what was returned.
AnsweredWereTouched ==
    \A r \in Rows :
        access[r] >= Cardinality({c \in Calls : /\ Answered(c) /\ call[c].kind = "query"
                                                /\ r \in ToSet(call[c].page)})

\* Only a failure of the database fails a retrieve.
OnlyDatabaseFails == Cardinality({c \in Calls : call[c].pc = "error"}) <= faults

\* What importance.go says of touchRetrievedMemories: it counts the rows that
\* are returned.
OnlyReturnedTouched ==
    (\A c \in Calls : call[c].pc \in {"idle", "answered"}) =>
        \A r \in Rows :
            access[r] = Cardinality({c \in Calls : /\ Answered(c) /\ call[c].kind = "query"
                                                   /\ r \in ToSet(call[c].page)})
=============================================================================
