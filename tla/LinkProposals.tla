--------------------------- MODULE LinkProposals ---------------------------
(***************************************************************************)
(* The review queue of LLM link proposals (LinkProposalService) and the    *)
(* links they become.  A review reads the proposal on the read pool, which *)
(* may be a lagging replica; AcceptProposal then writes the link and the   *)
(* status in two statements with no transaction around them.               *)
(***************************************************************************)
EXTENDS Integers, Sequences

CONSTANTS
    Edges,         \* (from_path, to_path, link_type)
    Reviewers,     \* clients that call Accept and Reject, one call at a time
    MaxProposals,  \* bound on the proposals ever generated
    MaxReviews     \* bound on the reviews ever begun

\* What the constants must satisfy.
LinkProposalsAssumption == MaxProposals \in Nat /\ MaxReviews \in Nat

VARIABLES
    proposals,  \* sequence of [edge, status]; the id is the position
    replica,    \* the statuses of a prefix of proposals, as the read pool sees them
    links,      \* edge -> who wrote memory_links.metadata: 0 a client, an id, or Absent
    call,       \* reviewer -> [verdict, id, at]
    reviews,    \* number of reviews begun
    confirmed   \* history: id -> number of calls that returned the reviewed row

vars == <<proposals, replica, links, call, reviews, confirmed>>

Ids == 1..Len(proposals)
Absent == -1
NoCall == [verdict |-> "none", id |-> 0, at |-> "idle"]

Init ==
    /\ proposals = <<>>
    /\ replica = <<>>
    /\ links = [e \in Edges |-> Absent]
    /\ call = [r \in Reviewers |-> NoCall]
    /\ reviews = 0
    /\ confirmed = <<>>

(***************************************************************************)
(* Writers of proposals and links, and the read pool catching up.          *)
(***************************************************************************)
PendingFor(e) == {i \in Ids : proposals[i] = [edge |-> e, status |-> "pending"]}

\* GenerateForMemory stores a proposal unless the link or a pending one exists.
InsertPending(e) ==
    /\ Len(proposals) < MaxProposals
    /\ links[e] = Absent
    /\ PendingFor(e) = {}
    /\ proposals' = Append(proposals, [edge |-> e, status |-> "pending"])
    /\ confirmed' = Append(confirmed, 0)
    /\ UNCHANGED <<replica, links, call, reviews>>

\* POST /v1/memory/links: the upsert replaces the metadata of an existing link.
CreateLink(e) ==
    /\ links' = [links EXCEPT ![e] = 0]
    /\ UNCHANGED <<proposals, replica, call, reviews, confirmed>>

Replicate ==
    /\ replica' = [i \in Ids |-> proposals[i].status]
    /\ UNCHANGED <<proposals, links, call, reviews, confirmed>>

(***************************************************************************)
(* Reviews.                                                                *)
(***************************************************************************)
Goto(r, at) == call' = [call EXCEPT ![r].at = at]
Return(r) == call' = [call EXCEPT ![r] = NoCall]

\* GetByID on the read pool; the call ends here with 404, with 409, or goes on.
GetByID(r, verdict, id) ==
    /\ call[r] = NoCall
    /\ reviews < MaxReviews
    /\ reviews' = reviews + 1
    /\ IF id <= Len(replica) /\ replica[id] = "pending"
       THEN call' = [call EXCEPT ![r] =
                [verdict |-> verdict, id |-> id,
                 at |-> IF verdict = "accepted" THEN "link" ELSE "status"]]
       ELSE UNCHANGED call
    /\ UNCHANGED <<proposals, replica, links, confirmed>>

\* links.Create inside AcceptProposal.
AcceptLink(r) ==
    /\ call[r].at = "link"
    /\ links' = [links EXCEPT ![proposals[call[r].id].edge] = call[r].id]
    /\ Goto(r, "status")
    /\ UNCHANGED <<proposals, replica, reviews, confirmed>>

IsPending(id) == proposals[id].status = "pending"

\* Mutant: UpdateStatus has no status = 'pending' in its WHERE clause.
UpdateStatusAlways(r) ==
    LET id == call[r].id IN
    /\ call[r].at = "status"
    /\ proposals' = [proposals EXCEPT ![id].status = call[r].verdict]
    /\ confirmed' = [confirmed EXCEPT ![id] = IF IsPending(id) THEN @ + 1 ELSE @]
    /\ Return(r)
    /\ UNCHANGED <<replica, links, reviews>>

\* UpdateStatus: the row is returned only by the UPDATE that finds it pending.
UpdateStatus(r) ==
    LET id == call[r].id IN
    /\ call[r].at = "status"
    /\ IF IsPending(id)
       THEN /\ proposals' = [proposals EXCEPT ![id].status = call[r].verdict]
            /\ confirmed' = [confirmed EXCEPT ![id] = @ + 1]
       ELSE UNCHANGED <<proposals, confirmed>>
    /\ Return(r)
    /\ UNCHANGED <<replica, links, reviews>>

\* The statement in hand fails, or the process dies: no later statement runs.
ReviewFails(r) ==
    /\ call[r] # NoCall
    /\ Return(r)
    /\ UNCHANGED <<proposals, replica, links, reviews, confirmed>>

Next ==
    \/ \E e \in Edges : InsertPending(e) \/ CreateLink(e)
    \/ Replicate
    \/ \E r \in Reviewers :
         \/ \E v \in {"accepted", "rejected"}, id \in Ids : GetByID(r, v, id)
         \/ AcceptLink(r)
         \/ UpdateStatus(r)
         \/ ReviewFails(r)

Spec == Init /\ [][Next]_vars

(***************************************************************************)
(* Properties.                                                             *)
(***************************************************************************)
\* The variables have their types; the read pool knows a prefix of the ids.
TypeOK ==
    /\ proposals \in Seq([edge : Edges, status : {"pending", "accepted", "rejected"}])
    /\ replica \in Seq({"pending", "accepted", "rejected"})
    /\ Len(replica) <= Len(proposals) /\ Len(confirmed) = Len(proposals)
    /\ links \in [Edges -> {Absent} \cup 0..Len(proposals)]
    /\ \A r \in Reviewers :
         \/ call[r] = NoCall
         \/ /\ call[r].id \in Ids
            /\ call[r].at \in {"link", "status"}
            /\ call[r].verdict \in {"accepted", "rejected"}
    /\ reviews \in 0..MaxReviews

\* GenerateForMemory may run twice for one memory, and again after a review:
\* the queue never asks about the same edge twice at once.
OnePendingPerEdge ==
    \A e \in Edges : \A i, j \in PendingFor(e) : i = j

\* A proposal the queue shows as accepted has become a link, however the
\* statements of concurrent and failing reviews interleave.
AcceptedHasLink ==
    \A i \in Ids : proposals[i].status = "accepted" => links[proposals[i].edge] # Absent

\* A review, once recorded, is final.
VerdictStands == \A i \in Ids : ~IsPending(i) => proposals'[i] = proposals[i]

\* However Accept, Reject and GenerateForMemory interleave, every step leaves one
\* pending proposal per edge and a link for each accepted one, and keeps verdicts.
ProposalsAreSound == [][OnePendingPerEdge' /\ AcceptedHasLink' /\ VerdictStands]_vars

\* "RejectProposal marks a pending proposal rejected without creating a link":
\* no link in the store was written for a rejected proposal.
RejectedHasNoLink ==
    \A i \in Ids : proposals[i].status = "rejected" => links[proposals[i].edge] # i
=============================================================================
