------------------------------ MODULE MCReads -------------------------------
(***************************************************************************)
(* What a client is answered: replayed responses, pages of a listing,      *)
(* retrieved memories, walks of the graph. The components share no state:  *)
(* a behaviour chooses one of them and the others keep their initial       *)
(* state, so that the state graph is the sum of theirs.                    *)
(***************************************************************************)
EXTENDS Idempotency, FiniteSets, TLC

CONSTANTS Writers

\* A walk in both directions, one along a type, and one against two types.
Walks ==
    {[from |-> 1, depth |-> 3, types |-> {}, dir |-> "both", limit |-> 1],
     [from |-> 1, depth |-> 2, types |-> {1}, dir |-> "out", limit |-> 2],
     [from |-> 2, depth |-> 3, types |-> {1, 2}, dir |-> "in", limit |-> 1]}

VARIABLES
    scenario,  \* the component that runs
    listing, rows, nextId, clock, tx, walk, removed,
    links, edges, stale, gWalk, changes, gFaults,
    open, embedded, access, call, breaker, rFaults

pageVars == <<listing, rows, nextId, clock, tx, walk, removed>>
graphVars == <<links, edges, stale, gWalk, changes, gFaults>>
retrieveVars == <<open, embedded, access, call, breaker, rFaults>>

\* One listing of each order, and one more that pages by after_id.
Pages == INSTANCE Pagination WITH
    Listings <- {"links", "runs", "history", "api_keys"}, Limits <- {0, 2}, MaxListLimit <- 3,
    MaxClock <- 2, MaxRemovals <- 1

Graph == INSTANCE GraphMirror WITH
    Memories <- {1, 2}, Types <- {1, 2}, Weights <- {1}, Queries <- Walks, MaxLinks <- 3,
    MaxDepth <- 3, MaxChanges <- 3, MaxFaults <- 1,
    walk <- gWalk, faults <- gFaults

Retrieve == INSTANCE Retrieval WITH
    Rows <- 1..3, TextMatches <- {2, 3}, Calls <- Clients, Limits <- {2}, Candidates <- 3,
    TripAfter <- 2, HasEmbedder <- TRUE, MaxAnswer <- 2, MaxFaults <- 1,
    faults <- rFaults

ASSUME IdempotencyAssumption
ASSUME Pages!PaginationAssumption
ASSUME Graph!MirrorAssumption
ASSUME Retrieve!RetrievalAssumption

Scenarios == {"replays", "pages", "graph", "retrieve"}

AllInit ==
    /\ scenario \in Scenarios
    /\ Init
    /\ Pages!Init
    /\ scenario # "pages" => listing = Pages!LinkListing
    /\ Graph!Init
    /\ Retrieve!Init
    /\ embedded = {1, 2}

AllNext ==
    /\ UNCHANGED scenario
    /\ \/ scenario = "replays" /\ Next /\ UNCHANGED <<pageVars, graphVars, retrieveVars>>
       \/ scenario = "pages" /\ Pages!Next /\ UNCHANGED <<vars, graphVars, retrieveVars>>
       \/ scenario = "graph" /\ Graph!Next /\ UNCHANGED <<vars, pageVars, retrieveVars>>
       \/ scenario = "retrieve" /\ Retrieve!Next /\ UNCHANGED <<vars, pageVars, graphVars>>

allVars == <<scenario, vars, pageVars, graphVars, retrieveVars>>

AllSpec == AllInit /\ [][AllNext]_allVars

Symmetry == Permutations(Writers) \cup Permutations(Clients) \cup Permutations(Keys)

\* Pagination: a walk repeats no row, and skips none that was there from its beginning
\* to its end.
WalkIsExact == scenario = "pages" => Pages!WalkIsExact

\* GraphMirror: the graph has an edge for every link whose copy did not fail, and what
\* it answers is what the links say.
GraphIsExact == scenario = "graph" => Graph!GraphIsExact

\* Retrieval: an answer is an ordered choice among the rows the database ranked, and
\* every row a query returned was counted as an access.
AnswerIsChoice ==
    scenario = "retrieve" => Retrieve!AnswerIsChoice /\ Retrieve!AnsweredWereTouched
=============================================================================
