--------------------------- MODULE EntityRegistry ---------------------------
(***************************************************************************)
(* The entity registry of one tenant and one kind of entity: canonical     *)
(* entities, aliases, snapshots, the queue of alias proposals an LLM makes *)
(* and reviewers decide, and the mentions edges of the graph.              *)
(*                                                                         *)
(* Three operations write it, each in several statements without a         *)
(* transaction: the synchronisation after an extraction, a manual alias    *)
(* and the acceptance of a proposal.  All reads go to the read pool, which *)
(* may be a lagging replica.  An entity row is identified by its canonical *)
(* key (unique, and never changed).  No Go code reads the same_as edges,   *)
(* so they are left out.                                                   *)
(***************************************************************************)
EXTENDS Integers, Sequences, FiniteSets

CONSTANTS
    Keys,          \* normalized labels of entities
    Memories,
    Slots,         \* the required slots of the extraction profile
    Nullable,      \* the slots that may be null
    AliasTable,    \* the slots whose promotion is "alias_table"
    Answers,       \* what the LLM may extract: slot -> key, or one of NotKeys
    Callers,       \* requests and worker tasks that run at the same time
    None,
    MaxCalls, MaxProposals, MaxFaults  \* bounds

NotKeys == {"absent", "null", "blank", "invalid"}

\* What the constants must satisfy.
RegistryAssumption ==
    /\ None \notin Keys
    /\ Nullable \subseteq Slots /\ AliasTable \subseteq Slots
    /\ Answers \subseteq [Slots -> Keys \cup NotKeys]
    /\ {MaxCalls, MaxProposals, MaxFaults} \subseteq Nat

VARIABLES
    db,         \* [entities, alias, proposals]: the tables that are read back
    replica,    \* db as the read pool sees it
    snapshots,  \* [entity, memory, slot]
    mentions,   \* the edges of the graph: [memory, slot, key]
    call,
    calls, faults,
    extracted,  \* history: memory -> the labels its last synchronisation promoted
    repointed   \* history: some alias has changed its entity

vars == <<db, replica, snapshots, mentions, call, calls, faults, extracted, repointed>>

Idle == [op |-> "none", at |-> "idle", memory |-> None, alias |-> None, canon |-> None,
         slot |-> None, todo |-> {}, found |-> {}, id |-> 0]

Init ==
    /\ db = [entities |-> {}, alias |-> [k \in Keys |-> None], proposals |-> <<>>]
    /\ replica = db
    /\ snapshots = {}
    /\ mentions = {}
    /\ call = [c \in Callers |-> Idle]
    /\ calls = 0 /\ faults = 0
    /\ extracted = [m \in Memories |-> {}]
    /\ repointed = FALSE

Replicate ==
    /\ replica # db
    /\ replica' = db
    /\ UNCHANGED <<db, snapshots, mentions, call, calls, faults, extracted, repointed>>

Start(c, with) ==
    /\ call[c] = Idle
    /\ calls < MaxCalls
    /\ calls' = calls + 1
    /\ call' = [call EXCEPT ![c] = with]

Goto(c, at) == call' = [call EXCEPT ![c].at = at]
Return(c) == call' = [call EXCEPT ![c] = Idle]

(***************************************************************************)
(* Statements on the registry.                                             *)
(***************************************************************************)
ResolveCanonicalKey(tables, k) == tables.alias[k]

Register(k) == [db EXCEPT !.entities = @ \cup {k}]

UpsertActiveAlias(k, canon) ==
    /\ db' = [db EXCEPT !.alias[k] = canon]
    /\ repointed' = (repointed \/ db.alias[k] \notin {None, canon})

\* The canonical key of k and the labels that are aliases of that entity.
ExpandEntityKeys(k) ==
    LET root == IF ResolveCanonicalKey(db, k) = None THEN k ELSE ResolveCanonicalKey(db, k)
    IN  {root} \cup {a \in Keys : root \in db.entities /\ db.alias[a] = root}

FindMemoriesByEntity(k) == {e.memory : e \in {x \in mentions : x.key \in ExpandEntityKeys(k)}}

FindEntitiesForMemory(m) == {e.key : e \in {x \in mentions : x.memory = m}}

\* The memories that share a vertex with m: aliases are not expanded here.
FindRelatedViaEntity(m) ==
    {e.memory : e \in {x \in mentions : x.memory # m /\ x.key \in FindEntitiesForMemory(m)}}

(***************************************************************************)
(* SyncFromExtraction and ReconcileEntityMentions.                         *)
(***************************************************************************)
\* ValidateSlots: every slot is there, and only a nullable one may be empty.
ValidateSlots(answer) ==
    \A s \in Slots : answer[s] \in Keys \/ (s \in Nullable /\ answer[s] # "invalid")

\* PromoteEntities: the slots with a label, in the order of a Go map.
PromoteEntities(answer) ==
    {p \in [slot : Slots, key : Keys] : answer[p.slot] = p.key}

\* An extraction has validated and stored the answer of the LLM.
Extract(c, m, answer) ==
    /\ ValidateSlots(answer)
    /\ Start(c, [Idle EXCEPT !.op = "extract", !.at = "next", !.memory = m,
                             !.todo = PromoteEntities(answer)])
    /\ UNCHANGED <<db, replica, snapshots, mentions, faults, extracted, repointed>>

\* The next slot is resolved on the read pool; a failing read counts as unknown.
NextSlot(c, p, readFails) ==
    /\ call[c].at = "next"
    /\ p \in call[c].todo
    /\ readFails => p.slot \in AliasTable /\ faults < MaxFaults
    /\ faults' = IF readFails THEN faults + 1 ELSE faults
    /\ LET resolved == IF p.slot \in AliasTable /\ ~readFails
                       THEN ResolveCanonicalKey(replica, p.key) ELSE None
       IN  call' = [call EXCEPT ![c].at = "canon", ![c].todo = @ \ {p}, ![c].slot = p.slot,
                      ![c].alias = p.key,
                      ![c].canon = IF resolved = None THEN p.key ELSE resolved]
    /\ UNCHANGED <<db, replica, snapshots, mentions, calls, extracted, repointed>>

\* UpsertCanonical, of an extraction or of a manual alias.
UpsertCanonical(c) ==
    /\ call[c].at = "canon"
    /\ db' = Register(call[c].canon)
    /\ Goto(c, IF call[c].alias # call[c].canon THEN "alias"
               ELSE IF call[c].op = "extract" THEN "snapshot" ELSE "done")
    /\ UNCHANGED <<replica, snapshots, mentions, calls, faults, extracted, repointed>>

AfterAlias(c) == IF call[c].op = "extract" THEN "snapshot" ELSE "merge"

WriteAlias(c) ==
    /\ call[c].at = "alias"
    /\ UpsertActiveAlias(call[c].alias, call[c].canon)
    /\ Goto(c, AfterAlias(c))
    /\ UNCHANGED <<replica, snapshots, mentions, calls, faults, extracted>>

\* An extraction ignores the error; the other two report it.
WriteAliasFails(c) ==
    /\ call[c].at = "alias"
    /\ faults < MaxFaults
    /\ faults' = faults + 1
    /\ IF call[c].op = "extract" THEN Goto(c, "snapshot") ELSE Return(c)
    /\ UNCHANGED <<db, replica, snapshots, mentions, calls, extracted, repointed>>

\* InsertSnapshot (an upsert, its error ignored), then the mention is noted.
Snapshot(c, stored) ==
    /\ call[c].at = "snapshot"
    /\ ~stored => faults < MaxFaults
    /\ faults' = IF stored THEN faults ELSE faults + 1
    /\ snapshots' = IF stored /\ call[c].canon \in db.entities
                    THEN snapshots \cup {[entity |-> call[c].canon, memory |-> call[c].memory,
                                          slot |-> call[c].slot]}
                    ELSE snapshots
    /\ call' = [call EXCEPT ![c].at = "next",
                  ![c].found = @ \cup {[slot |-> call[c].slot, key |-> call[c].canon,
                                        label |-> call[c].alias]}]
    /\ UNCHANGED <<db, replica, mentions, calls, extracted, repointed>>

\* reconcile_entity_mentions_for_memory replaces all edges of the memory.
ReconcileEntityMentions(c) ==
    LET m == call[c].memory IN
    /\ call[c].at = "next" /\ call[c].todo = {}
    /\ mentions' = {e \in mentions : e.memory # m}
                   \cup {[memory |-> m, slot |-> f.slot, key |-> f.key] : f \in call[c].found}
    /\ extracted' = [extracted EXCEPT ![m] = {f.label : f \in call[c].found}]
    /\ Return(c)
    /\ UNCHANGED <<db, replica, snapshots, calls, faults, repointed>>

\* A statement fails that nothing follows, or whose error ends the operation:
\* an extraction ignores a failing graph function, a manual alias a failing
\* merge (without AGE there is none), an acceptance reports both.
StatementFails(c) ==
    /\ \/ call[c].at \in {"canon", "merge", "status"}
       \/ call[c].at = "next" /\ call[c].todo = {}
    /\ faults < MaxFaults
    /\ faults' = faults + 1
    /\ Return(c)
    /\ UNCHANGED <<db, replica, snapshots, mentions, calls, extracted, repointed>>

(***************************************************************************)
(* AddManualAlias, and the review of alias proposals.                      *)
(***************************************************************************)
AddManualAlias(c, canon, alias) ==
    /\ Start(c, [Idle EXCEPT !.op = "manual", !.at = "canon", !.alias = alias, !.canon = canon])
    /\ UNCHANGED <<db, replica, snapshots, mentions, faults, extracted, repointed>>

ManualDone(c) ==
    /\ call[c].at = "done"
    /\ Return(c)
    /\ UNCHANGED <<db, replica, snapshots, mentions, calls, faults, extracted, repointed>>

\* merge_entity_alias_in_graph: the mentions of the alias become mentions of
\* the entity.
MergeEntityAliasInGraph(c) ==
    LET Moved(e) == IF e.key = call[c].alias THEN [e EXCEPT !.key = call[c].canon] ELSE e IN
    /\ call[c].at = "merge"
    /\ mentions' = {Moved(e) : e \in mentions}
    /\ IF call[c].op = "accept" THEN Goto(c, "status") ELSE Return(c)
    /\ UNCHANGED <<db, replica, snapshots, calls, faults, extracted, repointed>>

Pending(p) == p.status = "pending"

\* GenerateForMemory: the LLM names a label and one of the other entities.
GenerateForMemory(m, k, alias, target) ==
    LET source == IF k \in replica.entities THEN k ELSE ResolveCanonicalKey(replica, k)
        new == [alias |-> alias, target |-> target, status |-> "pending"]
    IN  /\ k \in extracted[m]
        /\ source \in replica.entities
        /\ target \in replica.entities \ {source}
        /\ new \notin {db.proposals[i] : i \in DOMAIN db.proposals}
        /\ Len(db.proposals) < MaxProposals
        /\ db' = [db EXCEPT !.proposals = Append(@, new)]
        /\ UNCHANGED <<replica, snapshots, mentions, call, calls, faults, extracted, repointed>>

\* Mutant: the status is stored before the merge.
AcceptFirst(c, id) ==
    /\ id \in DOMAIN replica.proposals
    /\ Pending(replica.proposals[id])
    /\ replica.proposals[id].target \in replica.entities
    /\ Start(c, [Idle EXCEPT !.op = "accept", !.at = "status", !.id = id])
    /\ UNCHANGED <<db, replica, snapshots, mentions, faults, extracted, repointed>>

\* AcceptProposal reads the proposal and its target on the read pool.
AcceptProposal(c, id) ==
    /\ id \in DOMAIN replica.proposals
    /\ Pending(replica.proposals[id])
    /\ replica.proposals[id].target \in replica.entities
    /\ Start(c, [Idle EXCEPT !.op = "accept", !.at = "alias", !.id = id,
                             !.alias = replica.proposals[id].alias,
                             !.canon = replica.proposals[id].target])
    /\ UNCHANGED <<db, replica, snapshots, mentions, faults, extracted, repointed>>

RejectProposal(c, id) ==
    /\ id \in DOMAIN db.proposals
    /\ Start(c, [Idle EXCEPT !.op = "reject", !.at = "status", !.id = id])
    /\ UNCHANGED <<db, replica, snapshots, mentions, faults, extracted, repointed>>

\* UpdateStatus changes a pending row only.
UpdateStatus(c) ==
    /\ call[c].at = "status"
    /\ db' = [db EXCEPT !.proposals[call[c].id].status =
                IF @ # "pending" THEN @
                ELSE IF call[c].op = "accept" THEN "accepted" ELSE "rejected"]
    /\ Return(c)
    /\ UNCHANGED <<replica, snapshots, mentions, calls, faults, extracted, repointed>>

Next ==
    \/ Replicate
    \/ \E c \in Callers :
         \/ \E m \in Memories, a \in Answers : Extract(c, m, a)
         \/ \E p \in call[c].todo, b \in BOOLEAN : NextSlot(c, p, b)
         \/ UpsertCanonical(c) \/ StatementFails(c)
         \/ WriteAlias(c) \/ WriteAliasFails(c)
         \/ \E b \in BOOLEAN : Snapshot(c, b)
         \/ ReconcileEntityMentions(c)
         \/ \E k, a \in Keys : AddManualAlias(c, k, a)
         \/ ManualDone(c)
         \/ MergeEntityAliasInGraph(c)
         \/ \E id \in 1..MaxProposals : AcceptProposal(c, id) \/ RejectProposal(c, id)
         \/ UpdateStatus(c)
    \/ \E m \in Memories, k, a, t \in Keys : GenerateForMemory(m, k, a, t)

Spec == Init /\ [][Next]_vars

(***************************************************************************)
(* Properties.                                                             *)
(***************************************************************************)
TypeOK ==
    /\ db.entities \subseteq Keys
    /\ db.alias \in [Keys -> Keys \cup {None}]
    /\ replica.entities \subseteq db.entities
    /\ snapshots \subseteq [entity : Keys, memory : Memories, slot : Slots]
    /\ mentions \subseteq [memory : Memories, slot : Slots, key : Keys]
    /\ calls \in 0..MaxCalls /\ faults \in 0..MaxFaults

\* Three stores are written by several statements that may fail one by one:
\* the graph and the aliases never name an entity the registry does not have.
GraphIsRegistered ==
    /\ \A e \in mentions : e.key \in db.entities
    /\ \A k \in Keys : db.alias[k] # None => db.alias[k] \in db.entities

Flat == \A k \in Keys : db.alias[k] \notin {None, k} => db.alias[db.alias[k]] \in {None, db.alias[k]}

\* An alias that arrives while an extraction is under way (after it resolved
\* its label, before it wrote its mention), or whose merge in the graph never
\* ran, hides no memory: as long as aliases are flat and keep their entity, a
\* lookup by any label a memory was extracted with finds the memory.
LookupFindsMemory ==
    Flat /\ ~repointed =>
        \A m \in Memories : \A k \in extracted[m] : m \in FindMemoriesByEntity(k)

\* The two ways to walk from a memory to its neighbours agree, whatever merge
\* ran in between: a memory the graph relates to m is among the memories the
\* lookup of one of m's entities finds.
RelatedIsLookup ==
    \A m \in Memories : \A n \in FindRelatedViaEntity(m) :
        \E k \in FindEntitiesForMemory(m) : n \in FindMemoriesByEntity(k)

\* The queue shows a proposal as accepted only once its alias is in force.
AcceptedIsApplied ==
    \A i \in DOMAIN db.proposals :
        db.proposals[i].status = "accepted" => db.alias[db.proposals[i].alias] # None

\* "Accepting a proposal materializes memory_links or entity aliases; nothing is
\* auto-applied without review": an alias changes only by a manual request or
\* by the acceptance of a proposal that was not rejected.
AliasesAreReviewed ==
    [][\A k \in Keys : db'.alias[k] # db.alias[k] =>
         \E c \in Callers :
            /\ call[c].at = "alias" /\ call[c].alias = k
            /\ \/ call[c].op = "manual"
               \/ call[c].op = "accept" /\ db.proposals[call[c].id].status # "rejected"]_vars
=============================================================================
