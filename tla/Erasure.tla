------------------------------ MODULE Erasure ------------------------------
(***************************************************************************)
(* POST /v1/memories/erase on one path prefix, next to clients that store  *)
(* memories and workers that derive data from them.  The erasure is one    *)
(* READ COMMITTED transaction: every statement sees what was committed     *)
(* when it began, other sessions see its deletions at the commit.          *)
(***************************************************************************)
EXTENDS Integers, Sequences, FiniteSets

CONSTANTS
    Erasers,      \* concurrent erase requests
    Workers,      \* workers that derive data from a memory they have read
    Kinds,        \* sequence of the tables with derived data, in statement order
    ByPath,       \* those of them that are matched by path as well as by memory id
    MaxMemories,  \* bound on the versions ever stored
    MaxDerived,   \* bound on the derived rows ever written
    MaxErasures   \* bound on the erasures ever begun

\* What the constants must satisfy.
ErasureAssumption ==
    /\ {MaxMemories, MaxDerived, MaxErasures} \subseteq Nat
    /\ Kinds \in Seq(STRING) /\ "vertex" \notin ByPath

VARIABLES
    memories,  \* committed rows of memory_entries: set of [id, under]
    stored,    \* number of versions ever stored
    derived,   \* committed derived rows: set of [row, kind, id, under]
    written,   \* number of derived rows ever written
    reads,     \* worker -> the memory it has read, or NoMemory
    tx,        \* eraser -> its transaction
    audit,     \* the counts of the gdpr_erase rows
    removed,   \* history: the memories each committed erasure removed
    owed,      \* history: rows a finished erasure found when it began
    begun

vars == <<memories, stored, derived, written, reads, tx, audit, removed, owed, begun>>

NoMemory == [id |-> 0, under |-> FALSE]

\* step 0: none; i: statement i; then the memories, the commit, the graph.
NoTx == [step |-> 0, dry |-> FALSE, collected |-> {}, gone |-> {}, lost |-> {}, found |-> {}]
MemoryStep == Len(Kinds) + 1
CommitStep == Len(Kinds) + 2
GraphStep == Len(Kinds) + 3

Init ==
    /\ memories = {}
    /\ stored = 0
    /\ derived = {}
    /\ written = 0
    /\ reads = [w \in Workers |-> NoMemory]
    /\ tx = [e \in Erasers |-> NoTx]
    /\ audit = <<>>
    /\ removed = <<>>
    /\ owed = {}
    /\ begun = 0

(***************************************************************************)
(* The rest of the system.  "under" tells the prefix that is being erased. *)
(***************************************************************************)
Store(under) ==
    /\ stored < MaxMemories
    /\ stored' = stored + 1
    /\ memories' = memories \cup {[id |-> stored + 1, under |-> under]}
    /\ UNCHANGED <<derived, written, reads, tx, audit, removed, owed, begun>>

ReadMemory(w) ==
    /\ reads[w] = NoMemory
    /\ \E m \in memories : reads' = [reads EXCEPT ![w] = m]
    /\ UNCHANGED <<memories, stored, derived, written, tx, audit, removed, owed, begun>>

\* A link, a distillate, a snapshot, a proposal or a graph vertex.
WriteDerived(w, k) ==
    /\ reads[w] # NoMemory
    /\ written < MaxDerived
    /\ written' = written + 1
    /\ derived' = derived \cup
         {[row |-> written + 1, kind |-> k, id |-> reads[w].id, under |-> reads[w].under]}
    /\ reads' = [reads EXCEPT ![w] = NoMemory]
    /\ UNCHANGED <<memories, stored, tx, audit, removed, owed, begun>>

(***************************************************************************)
(* Erase.                                                                  *)
(***************************************************************************)
Collect(e, dry) ==
    /\ tx[e] = NoTx
    /\ begun < MaxErasures
    /\ begun' = begun + 1
    /\ tx' = [tx EXCEPT ![e] = [
            step |-> 1, dry |-> dry, gone |-> {}, lost |-> {},
            collected |-> {m \in memories : m.under},
            found |-> {d \in derived : d.id \in {m.id : m \in {n \in memories : n.under}}}]]
    /\ UNCHANGED <<memories, stored, derived, written, reads, audit, removed, owed>>

\* The WHERE clause of a statement, for the rows of its table.
Matches(e, d) ==
    \/ d.kind \in ByPath /\ d.under
    \/ d.id \in {m.id : m \in tx[e].collected}

\* A DELETE waits for a transaction that deleted one of its rows, and then skips it.
Unlocked(e, field, rows) == \A f \in Erasers \ {e} : tx[f][field] \cap rows = {}

\* Mutant: the loop over the statements ends one early.
DeleteDerivedShort(e) ==
    /\ tx[e].step \in DOMAIN Kinds
    /\ LET rows == {d \in derived \ tx[e].lost : d.kind = Kinds[tx[e].step] /\ Matches(e, d)}
       IN /\ Unlocked(e, "lost", rows)
          /\ tx' = [tx EXCEPT ![e].lost = @ \cup rows,
                              ![e].step = IF @ + 1 = Len(Kinds) THEN MemoryStep ELSE @ + 1]
    /\ UNCHANGED <<memories, stored, derived, written, reads, audit, removed, owed, begun>>

DeleteDerived(e) ==
    /\ tx[e].step \in DOMAIN Kinds
    /\ LET rows == {d \in derived \ tx[e].lost : d.kind = Kinds[tx[e].step] /\ Matches(e, d)}
       IN /\ Unlocked(e, "lost", rows)
          /\ tx' = [tx EXCEPT ![e].lost = @ \cup rows, ![e].step = @ + 1]
    /\ UNCHANGED <<memories, stored, derived, written, reads, audit, removed, owed, begun>>

\* By path: versions stored after Collect go too.  A dry run is rolled back here.
DeleteMemories(e) ==
    /\ tx[e].step = MemoryStep
    /\ LET rows == {m \in memories : m.under}
       IN /\ Unlocked(e, "gone", rows)
          /\ tx' = [tx EXCEPT ![e] = IF @.dry THEN NoTx
                                     ELSE [@ EXCEPT !.gone = rows, !.step = CommitStep]]
    /\ UNCHANGED <<memories, stored, derived, written, reads, audit, removed, owed, begun>>

Counts(e) == [versions |-> Cardinality(tx[e].gone), derived |-> Cardinality(tx[e].lost)]

\* The audit row is part of the transaction.
Commit(e) ==
    /\ tx[e].step = CommitStep
    /\ memories' = memories \ tx[e].gone
    /\ derived' = derived \ tx[e].lost
    /\ audit' = Append(audit, Counts(e))
    /\ removed' = Append(removed, memories \ memories')
    /\ owed' = owed \cup tx[e].collected \cup {d \in tx[e].found : d.kind # "vertex"}
    /\ tx' = [tx EXCEPT ![e].step = GraphStep, ![e].gone = {}, ![e].lost = {}]
    /\ UNCHANGED <<stored, written, reads, begun>>

\* After the commit, with the ids that were collected.
EraseGraphVertices(e) ==
    /\ tx[e].step = GraphStep
    /\ derived' = {d \in derived :
         ~(d.kind = "vertex" /\ d.id \in {m.id : m \in tx[e].collected})}
    /\ owed' = owed \cup tx[e].found
    /\ tx' = [tx EXCEPT ![e] = NoTx]
    /\ UNCHANGED <<memories, stored, written, reads, audit, removed, begun>>

\* A statement fails and everything is rolled back, or the graph cleanup fails and
\* its error is reported.
Fail(e) ==
    /\ tx[e] # NoTx
    /\ tx' = [tx EXCEPT ![e] = NoTx]
    /\ UNCHANGED <<memories, stored, derived, written, reads, audit, removed, owed, begun>>

Next ==
    \/ \E under \in BOOLEAN : Store(under)
    \/ \E w \in Workers : ReadMemory(w)
    \/ \E w \in Workers, k \in {Kinds[i] : i \in DOMAIN Kinds} \cup {"vertex"} : WriteDerived(w, k)
    \/ \E e \in Erasers, dry \in BOOLEAN : Collect(e, dry)
    \/ \E e \in Erasers : \/ DeleteDerived(e) \/ DeleteMemories(e) \/ Commit(e)
                          \/ EraseGraphVertices(e) \/ Fail(e)

Spec == Init /\ [][Next]_vars

(***************************************************************************)
(* Properties.                                                             *)
(***************************************************************************)
TypeOK ==
    /\ \A m \in memories : m.id \in 1..stored /\ m.under \in BOOLEAN
    /\ \A d \in derived : d.row \in 1..written /\ d.id \in 1..stored
    /\ \A e \in Erasers :
        /\ tx[e].step \in 0..GraphStep
        /\ tx[e].gone \subseteq memories /\ tx[e].lost \subseteq derived
    /\ Len(audit) = Len(removed)
    /\ begun \in 0..MaxErasures

\* The evidence is exact: each gdpr_erase row counts the versions that its own commit
\* removed, also when two erasures of the prefix overlap and versions are stored.
CountsAreExact ==
    \A i \in DOMAIN audit : audit[i].versions = Cardinality(removed[i])

\* Whatever existed when a committed erasure began is gone for good: versions, the rows
\* derived from them and, once the graph cleanup returned, their vertices.
NothingFoundRemains == (memories \cup derived) \cap owed = {}

\* An erasure removes what it found, and its evidence says what it removed.
ErasureIsExact == NothingFoundRemains /\ CountsAreExact

\* docs/memory-compaction.md:37: the erasure hard-deletes the memories under the prefix plus the
\* data derived from an erased memory: a removed memory has no derived rows left.
NoDerivedDataLeft ==
    \A i \in DOMAIN removed : \A d \in derived :
        d.kind # "vertex" => d.id \notin {m.id : m \in removed[i]}

=============================================================================
